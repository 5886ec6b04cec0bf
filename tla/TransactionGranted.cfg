SPECIFICATION Spec
CONSTANTS
    Resource = {r1, r2}
    Isolation = {"SERIALIZABLE"}
    Requested = {"SHARED", "EXCLUSIVE", "INTENT_EXCLUSIVE"}
    LogKind = {}
    MaxTransactions = 2
    Timeout = 0
    MaxBegins = 2
    MaxLocks = 3
    MaxTime = 0
INVARIANTS
    GrantedLocksCompatible
CHECK_DEADLOCK FALSE
