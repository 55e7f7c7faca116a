SPECIFICATION Spec
CONSTANTS
    NPages = 3
    MaxRegions = 2
    PAGESIZE = 4
    Requests = {1, 5}
    Procs = {p, q}
    MaxCalls = 4
    p = p
    q = q
SYMMETRY MCSymmetry
INVARIANTS
    FilteredExactly
    PagesGrantedOnce
    NothingLost
    BlocksApart
