SPECIFICATION Spec
CONSTANTS
    Value = {a}
    Null = Null
    Gone = Gone
    InitCap = 2
    MaxBatch = 2
    MaxRows = 3
    ViaManager = TRUE
INVARIANT
    RowIdIsPosition
CHECK_DEADLOCK FALSE
