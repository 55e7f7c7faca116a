SPECIFICATION TerminalSpec
CONSTANTS
    Keys = {"d", "nl", "bs"}
    MaxStrokes = 6
    MaxHeld = 2
    STDIN_BUFFER_SIZE = 3
    MaxTyped = 0
    ReadSizes = {2}
INVARIANTS
    DecodedAsMeant
    
