SPECIFICATION Spec
CONSTANTS
    MAX_NESTING = 2
    MaxGeneration = 2
    MaxContexts = 2
    MaxProtect = 3
    Kinds <- AllKinds
    CrossRelease = FALSE
INVARIANTS
    ContinuationRooted
