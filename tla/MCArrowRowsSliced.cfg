\* Is every row what the table says, in later slices too?  No null list has items.
SPECIFICATION Spec
CONSTANTS
    Field = {"n", "l", "l1", "l2", "s", "m", "k", "k1"}
    Kind <- SomeKinds
    Parent <- SomeParents
    NoField = ""
    MaxDepth = 2
    Value <- SomeValues
    Row <- TightRows
    BatchSize = 2
    MaxRows = 4
    MaxBatches = 3
    Undefined = Undefined
INVARIANTS
    RowsAreSet
CHECK_DEADLOCK FALSE
