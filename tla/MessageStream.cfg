SPECIFICATION StreamSpec
CONSTANTS
    MaxEntries = 2
    MaxSnaps = 2
    Messages <- MCMessages
    Capacity = 100
    MaxSends = 2
INVARIANTS
    NeverStarves
PROPERTY
    ImplementsChannel
CHECK_DEADLOCK FALSE
