SPECIFICATION Spec
CONSTANTS
    MAX_NESTING = 6
    Schemas <- NestedSchemas
    Kinds <- EveryKind
    MaxValues = 8
    MaxCalls = 2
    MaxHeld = 2
INVARIANTS
    BuildersAreRooted
    NothingInUseCollected
    CallersProtected
    ReturnsBalanced
