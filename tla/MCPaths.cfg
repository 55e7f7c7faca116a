SPECIFICATION FairPathSpec
CONSTANTS
    PARTS = 6
    MaxParts = 4
    Names = {"a", "b"}
    Dirs <- MCDirs
INVARIANTS
    CleanedMeansTheSame
    ChdirAnswers
PROPERTIES
    CleanupEnds
