SPECIFICATION Spec
CONSTANTS
    NumApps = 2
    NumConfigs = 1
    MaxProcs = 7
INVARIANTS
    TypeOK
    NoOrphans
    NoLostWakeup
PROPERTIES
    KilledBySiblingOrStop
    ImplementsSimLifecycle
    ExitIsNoticed
CHECK_DEADLOCK FALSE
