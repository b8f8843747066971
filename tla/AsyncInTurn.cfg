SPECIFICATION FairSpec
CONSTANTS
    d = d
    p = p
    c1 = c1
    c2 = c2
    NoThread = NoThread
    NoRecord = NoRecord
    Threads <- FourThreads
    StartThread <- StartOrNot
    Roles = "in turn"
    Calls <- ScenarioCalls
    MaxCalls = 2
    BackendThrows = FALSE
PROPERTY CallsReturn
PROPERTY EveryRecordIsFed
CHECK_DEADLOCK FALSE
