SPECIFICATION SharedSpec
CONSTANTS
    ROWS = 2
    COLS = 4
    Glyphs <- MCGlyphs
    Writers = {w1, w2}
    w1 = w1
    w2 = w2
    FirstScreens <- MCScreens
    FirstCursors <- MCCursors
    MaxWrites = 3
INVARIANTS
    CursorRepaired
PROPERTIES
    AloneIsConsole
SYMMETRY MCSymmetry
