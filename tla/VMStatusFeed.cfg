SPECIFICATION FeedSpec
CONSTANTS
    MaxVMs = 2
    MaxChanges = 2
    MaxSessions = 2
    MaxQueue = 4
INVARIANTS
    NobodyIsLeftBehind
PROPERTIES
    BroadcastIsOnePoll
    CatchesUp
