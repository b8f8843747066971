CONSTANTS
    l1 = l1
    l2 = l2
    s1 = s1
    s2 = s2
    DefaultSink = DefaultSink
    Flusher = Flusher
    Nobody = Nobody
    Loggers <- TwoLoggers
    Sinks <- TwoSinks
    InitialSinks <- OneOrBoth
    NumRecords = 1
    MaxChanges = 1
    MaxFlushes = 1
SPECIFICATION FairSpec
INVARIANTS
    BackendHeldWhileFed
    ServedOnceWhileTheyExist
PROPERTIES
    PushServesEverySink
    CallsReturn
CHECK_DEADLOCK FALSE
