SPECIFICATION Spec
CONSTANTS
    Kinds <- TwoKinds
    Cells <- SmallCells
    MaxObjects = 3
    MaxRecords = 1
    Values <- SmallValues
INVARIANTS
    RoundTrip
    ReadsAgree
    InstancesKeepClass
PROPERTIES
    ImplementsValues
