SPECIFICATION Spec
CONSTANTS
    Tasks = {t0, t1, t2}
    t0 = t0
    t1 = t1
    t2 = t2
    t3 = t3
    Boot = t0
    NoOne = NoOne
    Started <- OneStarted
    Ops = {"add"}
    Faults = FALSE
PROPERTY RoundRobin
CHECK_DEADLOCK FALSE
