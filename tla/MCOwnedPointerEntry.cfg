SPECIFICATION Spec
CONSTANTS
    p = p
    q = q
    v = v
    Objects <- MCObjects
    Kind <- MCKind
    MAX_NESTING = 2
    MaxCalls = 3
INVARIANTS
    OwnedOnEntry
