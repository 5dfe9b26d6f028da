SPECIFICATION Spec
CONSTANTS
    MaxSessions = 3
    MaxClicks = 4
INVARIANTS
    StatusAgreement
    ControllerIsConnected
PROPERTIES
    CommandsNeedControl
CHECK_DEADLOCK FALSE
