SPECIFICATION BlockingSpec
CONSTANTS
    Producers = {p1, p2, p3}
    MaxQueueSize = 1
    Strategy = "block"
    NumRecords = 2
    MaxInterrupts = 1
    Threads = {t1, t2, t3}
    Flags = {core, repository}
    MaxCalls = 2
    MaxFailures = 2
INVARIANTS
    NeverSleepsOnRecords
    LinkedContextsAreLive
    Bounded
    BlockingIsLossless
    RunsOnce
    NoLostWakeup
PROPERTIES
    ImplementsChannel
    WaitingEnds
    PassedWhenInitialized
    EveryoneReturns
CHECK_DEADLOCK FALSE
