SPECIFICATION Spec
CONSTANTS
    Procs = {p1, p2}
    p1 = p1
    p2 = p2
    Names = {"bin", "sh", "two", "full"}
    Bytes = {"e", "x", "y", "z", "nl"}
    Archives <- MCArchives
    Asked <- MCAsked
    BLOCK = 2
    FDS = 5
    ReadSizes = {0, 3}
    MaxCalls = 3
    MaxReads = 2
INVARIANTS
    ReadsInOrder
    LookupFinds
    OwnPath
    ListingExact
SYMMETRY MCSymmetry
