SPECIFICATION Spec
CONSTANTS
    Parts = {"attribute set", "values view", "attribute names", "named scopes",
             "filter parser", "loggers", "ordering queue", "formatting frontend",
             "locking pointer", "file name", "rotation time", "file backend",
             "collectors"}
    Buckets = 2
    Null = Null
    NoOne = NoOne
    SetKeys = {0, 1, 2, 3}
    SetData = {a, b}
    MaxPoolSize = 1
    MaxSetCalls = 5
    Insertions <- FilledWithTwo
    Names = {n1, n2, n3}
    Users = {u1, u2}
    Absent = Absent
    ScopeNames = {"f", "g"}
    UserLists = {"a", "b"}
    MaxScopes = 3
    MaxScopeCalls = 7
    FilterNames = {"A", "B"}
    MaxRelations = 3
    MaxDepth = 2
    Callers = {t1, t2}
    Addresses = {1, 2}
    Arguments <- TwoStatements
    ChannelFeatures = {TRUE, FALSE}
    MaxNesting = 2
    MaxLoggerCalls = 3
    Values = {1, 2}
    Capacities = {2, Unlimited}
    Unlimited = Unlimited
    Window = 2
    OrderInterrupts = 1
    MaxTime = 2
    OrderRecords = 3
    Writers = {w1, w2}
    Formatters = {fa, fb}
    Locales = {la, lb}
    None = None
    Versions = 8
    MaxChanges = 2
    Holders = {h1, h2}
    Feeders = {f1, f2}
    Nobody = Nobody
    MaxPointers = 2
    Patterns <- ShortPatterns
    FileCounters = {0, 3, 12, 123}
    TimeDigit = 7
    MonthLengths <- ShortMonths
    Points <- EveryPoint
    WeekLength = 3
    DayLength = 3
    Backends = {b1, b2}
    NoPath = NoPath
    MaxSize = 2
    RotationSize = 3
    MaxFiles = 3
    MaxClock = 1
    MaxFaults = 1
    Directories = {"d", "e"}
    Sizes = {1, 2}
    Existing <- NoneOrOne
    MaxCollectors = 3
    MaxOwners = 2
SYMMETRY BackendSymmetry
INVARIANTS
    OrderedSetIsAMap
    NamesAndIdsMatch
    ScopeListsAreIntact
    FilterIsWhatWasWritten
    CallersNeverDeadlock
    WrittenAsOpened
    HeldBackForTheWindow
    FormattedAsConfigured
    LockedWhilePointed
    ScanUndoesNaming
    AccountsAreExact
    CollectorsAreShared
PROPERTIES
    ViewGrowsIntoTheUnion
    RotatesOnSchedule
    CollectorErasesTheOldest
CHECK_DEADLOCK FALSE
