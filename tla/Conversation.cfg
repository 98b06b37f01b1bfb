SPECIFICATION Spec
CONSTANTS
    c1 = c1
    w = w
    Watchdog = w
    Caller = {c1, w}
    Capacity = 1
    Phrases = 1
    MaxChunks = 3
    MaxStarts = 2
INVARIANTS
    
    ChunksOfThisRun
    
    SharedModelIsHeld
PROPERTIES
    PhrasesEnd
    
CHECK_DEADLOCK FALSE
