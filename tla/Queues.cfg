SPECIFICATION Spec
CONSTANTS
    Pushers = {p1, p2}
    Popper = c
    NullNode = NullNode
    Dummy = Dummy
    Implementations = {"generic", "dcas"}
    MaxPushes = 2
    Producers = {p1, p2}
    Interrupters = {i1}
    NumRecords = 2
    MaxInterrupts = 2
    MaxQueueSize = 2
    Strategy = "drop"
INVARIANTS
    FeederIsWoken
    NodesInUse
PROPERTIES
    FifosAreChannels
    RecordsAreFed
    ImplementsQueue
    PushReturns
CHECK_DEADLOCK FALSE
