SPECIFICATION Spec
CONSTANTS
    Chunk = 3
    Lanes = 2
    MaxDouble = 5
    Inf = 500
    IntMax = 7
    MaxLength = 4
    Jobs <- SmallJobs
INVARIANTS
    LocalsSummarizePrefix
    ResultIsReference
    MethodIsReference
PROPERTIES
    Terminates
CHECK_DEADLOCK FALSE
