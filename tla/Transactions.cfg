SPECIFICATION Spec
CONSTANTS
    Resource = {r1, r2}
    Isolation = {"SERIALIZABLE"}
    Requested = {"SHARED", "EXCLUSIVE", "INTENT_EXCLUSIVE"}
    LogKind = {"undo"}
    MaxTransactions = 2
    Timeout = 0
    MaxBegins = 3
    MaxLocks = 3
    MaxTime = 1
INVARIANTS
    TypeOK
    ListedLocksCompatible
    OwnLocksAreListed
    SingleLocksKeepListSound
    ActiveCountExact
PROPERTY
    RollsBackOldestFirst
CHECK_DEADLOCK FALSE
