SPECIFICATION Spec
CONSTANTS
    Value = {a}
    Null = Null
    Gone = Gone
    Columns = 2
    InitCap = 2
    MaxBatch = 2
    MaxRows = 3
INVARIANT
    InsertCanExpand
CHECK_DEADLOCK FALSE
