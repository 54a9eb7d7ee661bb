SPECIFICATION Spec
CONSTANTS
    MaxContexts = 6
INVARIANTS
    TypeOK
    Balanced
    DrawsAreSaved
    RefusedOnlyWhenNested
    ScopesDoNotNest
