SPECIFICATION Spec
CONSTANTS
    NumApps = 2
    NumConfigs = 1
    MaxProcs = 5
INVARIANT
    CleanedUpMeansNoHandlers
CHECK_DEADLOCK FALSE
