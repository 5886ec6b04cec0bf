SPECIFICATION IndexSpec
CONSTANTS
    Key = {1, 2, 3, 5}
    Item = {x, y}
    Bits = 7
    HashCount = 4
    MaxItems = 4
    BlockSize = 2
    MaxRow = 4
    Coordinates = {0, 2}
    MaxChildren = 2
    MaxInserts = 6
    MaxCapacity = 4
    BucketCount = 2
INVARIANT
    QueryComplete
CHECK_DEADLOCK FALSE
