SPECIFICATION WindowSpec
CONSTANTS
    MaxPid = 3
    PROCESS_QUEUE_SIZE = 100
    TIME_SLICE_LIMIT = 1
    ALARM_TICK_DIVIDE = 2
    SleepTicks = {1}
    MaxLines = 1
    Awaited = {3}
    Killable = {1, 3}
INVARIANTS
    NoPanic
    
    
    ReaderStrandedOnlyByWindow
    WaiterStrandedOnlyByWindow
    LinesNotOverdrawn

    
    
