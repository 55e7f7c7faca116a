SPECIFICATION Spec
CONSTANTS
    SIZE = 3
    MaxProcs = 4
    Killable = {2, 3}
INVARIANTS
    RingKeepsEveryone
    PidsDistinct
PROPERTIES
    NotifyMissesOnlyTheActive
