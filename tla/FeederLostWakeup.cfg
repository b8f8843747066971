SPECIFICATION Spec
CONSTANTS
    Producers = {p1}
    Interrupters = {i1}
    Implementations = {"dcas"}
    NumRecords = 3
    MaxInterrupts = 0
INVARIANT SleepsOnlyWhenEmpty
CHECK_DEADLOCK FALSE
