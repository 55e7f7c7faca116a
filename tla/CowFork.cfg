SPECIFICATION FairSpec
CONSTANTS
    MaxPid = 3
    Pages = {"data", "stack"}
    Low = {"data"}
    Stack = "stack"
    MaxFrames = 5
    MaxStores = 3
CHECK_DEADLOCK FALSE
INVARIANTS
    NoSharedWriter
    MemoryIsPrivate
PROPERTIES
    StoreEnds
