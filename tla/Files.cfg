SPECIFICATION FilesSpec
CONSTANTS
    Key = {k1, k2}
    Value = {Small, Large}
    Tombstone = Tombstone
    Small = Small
    Large = Large
    Garbage = Garbage
    Size <- MCSize
    MemCap = 3
    ReadLimit = 2
    MaxEntries = 4
    MaxListed = 2
    MaxTime = 1
    Roles = {"master", "slave", "both"}
    NoFile = NoFile
    MaxSize = 1
    MaxFiles = 2
    MaxEvents = 5
    LogTime = 3
    TableName = {t1, t2}
    ColumnName = {a}
    IndexName = {X, XClone}
    X = X
    XClone = XClone
    NoTable = NoTable
    Unreliable = {X}
    MaxObjects = 4
    MaxRenames = 1
    AuditLimit = 1
    AuditEvents = 4
    SizeLimit = 2
    MaxLines = 4
    LinesTime = 1
    Type = {full, incr}
    Dir = {d1, d2}
    MaxBackups = 2
    Setting = {p, q}
    MaxSets = 3
SYMMETRY MCSymmetry
INVARIANTS
    FilesTypeOK
    EntriesKept
    EventsInOrder
    PruningKeepsNewest
    CatalogueSound
    RecordsKept
    FilesStayListed
PROPERTY
    DropTakesPartsUnrenamed
CHECK_DEADLOCK FALSE
