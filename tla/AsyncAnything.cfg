SPECIFICATION Spec
CONSTANTS
    d = d
    p = p
    c1 = c1
    c2 = c2
    NoThread = NoThread
    NoRecord = NoRecord
    Threads <- FourThreads
    StartThread <- StartOrNot
    Roles = "anything"
    Calls <- ScenarioCalls
    MaxCalls = 2
    BackendThrows = TRUE
INVARIANT OneFeedingThread
INVARIANT RequestsAreHeard
PROPERTY ImplementsChannel
CHECK_DEADLOCK FALSE
