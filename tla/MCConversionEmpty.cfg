SPECIFICATION Spec
CONSTANTS
    Views = {v1}
    MAX_NESTING = 3
    Lengths <- WithEmpty
    Chunk = 2
    Allocators <- AllAllocators
INVARIANTS
    FreedOnce
