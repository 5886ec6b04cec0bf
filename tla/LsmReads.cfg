SPECIFICATION FilesSpec
CONSTANTS
    Key = {k1, k2}
    Value = {Small, Large}
    Tombstone = Tombstone
    Small = Small
    Large = Large
    Garbage = Garbage
    Size <- MCSize
    MemCap = 3
    ReadLimit = 2
    MaxEntries = 3
    MaxListed = 2
    MaxTime = 1
    Roles = {"master", "slave", "both"}
    NoFile = NoFile
    MaxSize = 1
    MaxFiles = 2
    MaxEvents = 5
    LogTime = 3
    TableName = {t1, t2}
    ColumnName = {a}
    IndexName = {X, XClone}
    X = X
    XClone = XClone
    NoTable = NoTable
    Unreliable = {X}
    MaxObjects = 4
    MaxRenames = 1
    AuditLimit = 1
    AuditEvents = 1
    SizeLimit = 1
    MaxLines = 1
    LinesTime = 1
    Type = {full}
    Dir = {d1}
    MaxBackups = 1
    Setting = {p}
    MaxSets = 1
SYMMETRY MCSymmetry
INVARIANT
    GetReadsLatest
CHECK_DEADLOCK FALSE
