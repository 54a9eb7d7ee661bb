SPECIFICATION FairSpec
CONSTANTS
    MAX_NESTING = 2
    MaxGeneration = 3
    MaxContexts = 3
    MaxProtect = 3
    Kinds <- NativeOnly
    CrossRelease = TRUE
PROPERTIES
    UnwindEnds
