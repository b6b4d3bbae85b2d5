SPECIFICATION Spec
CONSTANTS
    Tasks = {t0, t1, t2, t3}
    t0 = t0
    t1 = t1
    t2 = t2
    t3 = t3
    Boot = t0
    NoOne = NoOne
    Started <- TwoStarted
    Ops = {"add", "exit"}
    Faults = FALSE
INVARIANT TailIsLast
CHECK_DEADLOCK FALSE
