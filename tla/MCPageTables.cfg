SPECIFICATION TablesSpec
CONSTANTS
    LEVELS = 3
    ENTRIES = 5
    MaxProcs = 3
    MaxFrames = 25
    DirtySets <- MCDirtySets
    UserPages <- MCUserPages
    KernelPages <- MCKernelPages
CHECK_DEADLOCK FALSE
INVARIANTS
    TranslationExact
    KernelSeenByAll
    TablesPrivate
