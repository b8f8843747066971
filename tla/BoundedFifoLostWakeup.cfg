CONSTANTS
    p1 = p1
    p2 = p2
    p3 = p3
    Producers <- ThreeProducers
    MaxQueueSize = 2
    Strategy = "block"
    NumRecords = 2
    MaxInterrupts = 0
SPECIFICATION FairSpec
PROPERTY BlockedThreadsReturn
