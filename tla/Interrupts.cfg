SPECIFICATION InterruptsSpec
CONSTANTS
    Tasks = {t0, t1, t2}
    t0 = t0
    t1 = t1
    t2 = t2
    t3 = t3
    Boot = t0
    NoOne = NoOne
    Started <- TwoStarted
    Ops = {"heap", "pmm"}
    Faults = FALSE
    Threads = 3
    Keys <- MCKeys
    Code <- MCCode
    Char <- MCChar
    KeysHeld = 2
    Queue = 2
INVARIANTS
    
    TimerGoesOn
    KeyboardRight
PROPERTIES
    TasksServed
    KeysServed
CHECK_DEADLOCK FALSE
