SPECIFICATION Spec
CONSTANT
    MaxWrites = 4
INVARIANTS
    OneOfEach
    NeverStranded
    StaleStatusIsWithdrawn
    ConnectionsDoNotMix
PROPERTY
    Reconnects
