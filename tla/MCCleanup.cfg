SPECIFICATION Spec
CONSTANTS
    MAX_NESTING = 3
    MaxGeneration = 3
    MaxContexts = 4
    MaxProtect = 3
    Kinds <- AllKinds
    CrossRelease = FALSE
INVARIANTS
    TypeOK
    BoundariesFollowContexts
    FreedAtMostOnce
    NothingLeaked
    LiveIffGuarded
PROPERTIES
    ImplementsOwnership
    RestoredWhereCaught
    ReturnKeepsFrames
