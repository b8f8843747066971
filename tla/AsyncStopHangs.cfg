SPECIFICATION FairSpec
CONSTANTS
    d = d
    p = p
    c1 = c1
    c2 = c2
    NoThread = NoThread
    NoRecord = NoRecord
    Threads <- FourThreads
    StartThread <- StartIt
    Roles = "stop twice"
    Calls <- ScenarioCalls
    MaxCalls = 1
    BackendThrows = FALSE
PROPERTY StopReturns
CHECK_DEADLOCK FALSE
