SPECIFICATION Spec
CONSTANTS
    Views = {v1, v2}
    MAX_NESTING = 4
    Lengths <- ShortAndLong
    Chunk = 2
    Allocators <- AllAllocators
SYMMETRY ViewSymmetry
INVARIANTS
    StorageIsLive
    FreedOnce
    NothingLost
    HoldsSource
    ReadsBounded
