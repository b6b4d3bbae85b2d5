SPECIFICATION Spec
CONSTANTS
    Tasks = {t0, t1, t2, t3}
    t0 = t0
    t1 = t1
    t2 = t2
    t3 = t3
    Boot = t0
    NoOne = NoOne
    Started <- NotStarted
    Ops = {"heap", "pmm", "add", "exit"}
    Faults = TRUE
INVARIANTS
    ContextsRight
    ListSound
    NotPreempted
CHECK_DEADLOCK FALSE
