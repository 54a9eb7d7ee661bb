SPECIFICATION Spec
CONSTANTS
    a = a
    b = b
    c = c
    d = d
    e = e
    long = long
    NoName = NoName
    Names <- MCNames
    Valid <- MCValid
    Hash <- MCHash
    cap = 4
    MaxDepth = 2
INVARIANTS
    AnswersAreRs
    EveryEntryFound
    CountIsExact
PROPERTIES
    EntriesStay
