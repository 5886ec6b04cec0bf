SPECIFICATION StorageSpec
CONSTANTS
    Value = {a}
    Null = Null
    Gone = Gone
    InitCap = 2
    MaxBatch = 3
    MaxRows = 6
    ViaManager = TRUE
    Wrap = 64
    Columns = 2
    MemoryRows = 5
    ColumnRows = 3
    Name = {t1, t2, t3}
    Engine = {row, memory, column}
    MaxCreates = 4
    Key = {1, 2, 3, 5}
    Item = {x, y}
    Bits = 7
    HashCount = 4
    MaxItems = 4
    BlockSize = 2
    MaxRow = 4
    Coordinates = {0, 2}
    MaxChildren = 2
    MaxInserts = 6
    MaxCapacity = 4
    BucketCount = 2
INVARIANTS
    StorageTypeOK
    SlotsInArray
    RowsInInsertionOrder
    CompactionKeepsLiveRows
    ChainsSound
    ColumnsAligned
    DirectoryAgreesWithEngines
    IndexesComplete
    TreeSound
PROPERTY
    EnginesKeepPromise
CHECK_DEADLOCK FALSE
