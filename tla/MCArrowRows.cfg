\* Tables of up to four rows in up to three batches, in slices of two rows.
SPECIFICATION Spec
CONSTANTS
    Field = {"n", "l", "l1", "l2", "s", "m", "k", "k1"}
    Kind <- SomeKinds
    Parent <- SomeParents
    NoField = ""
    MaxDepth = 2
    Value <- SomeValues
    Row <- SomeRows
    BatchSize = 2
    MaxRows = 4
    MaxBatches = 3
    Undefined = Undefined
INVARIANTS
    FirstSliceIsExact
    RowsKeepShape
CHECK_DEADLOCK FALSE
