SPECIFICATION Spec
CONSTANTS
    NumApps = 1
    NumConfigs = 1
    MaxProcs = 3
    MaxSessions = 2
    MaxClicks = 4
INVARIANTS
    ToldOffMeansOff
PROPERTIES
    ImplementsSupervisor
    ImplementsHostServer
    StopReachesEveryView
    GoneIsForgotten
    ViewsConverge
CHECK_DEADLOCK FALSE
