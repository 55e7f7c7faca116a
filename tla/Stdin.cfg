SPECIFICATION FairSpec
CONSTANTS
    STDIN_BUFFER_SIZE = 4
    MaxTyped = 8
    ReadSizes = {1, 3}

    
PROPERTIES
    ImplementsLineQueue
    
