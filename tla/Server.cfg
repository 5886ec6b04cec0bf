SPECIFICATION MCSpec
CONSTANTS
    Key = {k1, k2, k3}
    Value <- MCValue
    SizeOf <- MCSizeOf
    Capacity = 3
    MaxItems = 2
    MaxCount = 3
    MaxTime = 1
    InitSize = 4
    BlockSizes = {1, 2, 4}
    Requests = {1, 2, 3, 5, 9}
    MaxSize = 16
    Client = {c1, c2}
    Fd = {f1, f2, f3}
    None = None
    MaxConnections = 2
    MaxSessions = 2
    User = {u}
    Password = {p1, p2}
    MaxAttempts = 2
    LockoutDuration = 1
    MaxFailed = 3
    MaxClock = 1
    Role = {r}
    Priv = {read, write}
    Level <- MCLevel
    Scope <- MCScope
    NoName = "none"
    MaxRecords = 2
    Error = {e1, e2}
    MaxErrors = 2
    MaxRecorded = 5
    Stat = {count, s1}
    CountName = count
    Duration = {1, 3}
    MaxStats = 2
    MaxMeasured = 3
    ObjectName = {n1, n2}
    Schema = {d1, d2}
    NoSchema = NoSchema
    MaxObjects = 2
    MaxCreated = 3
INVARIANTS
    ServerTypeOK
    PoolSound
    CacheSound
    SocketsAccounted
    LockoutHolds
    GrantsKept
    LastErrorsKept
    RegistersSound
PROPERTY
    EvictsLeastUsed
CHECK_DEADLOCK FALSE
