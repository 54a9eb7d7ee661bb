\* Nothing is left to do once R has run its exit finalizers.
SPECIFICATION FairSpec
CONSTANTS
    p = p
    q = q
    v = v
    Objects <- MCObjects
    Kind <- MCKind
    MAX_NESTING = 2
    MaxCalls = 3
INVARIANTS
    DestroyedAtMostOnce
    AddressIsLive
    HasOwner
    FramesMatchCalls
PROPERTIES
    DestroyedAtExit
CHECK_DEADLOCK FALSE
