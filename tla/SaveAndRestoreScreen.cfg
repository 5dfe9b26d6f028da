SPECIFICATION Spec
CONSTANTS
    Null = Null
    MaxVMs = 2
    MaxSnaps = 2
    MaxMessages = 2
    MaxResets = 3
CHECK_DEADLOCK FALSE
INVARIANTS
    ScreenTypeOK
    StatesAreOfTheirMachines
    SettledViewIsDue
    SettledScreenIsBuilt
    SettledRestoreIsExact
PROPERTY
    SnapsJoinTheirMachines
