SPECIFICATION TQSpec
CONSTANTS
    Pushers = {p1, p2}
    Popper = c
    NullNode = NullNode
    Dummy = Dummy
    Implementations = {"dcas"}
    MaxPushes = 2
INVARIANT PopIsThreadSafe
CHECK_DEADLOCK FALSE
