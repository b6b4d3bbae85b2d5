SPECIFICATION Spec
CONSTANTS
    Tasks = {t1}
    NoOne = NoOne
    H = 10
    RZ = 1
    Cap = 4
    Sizes = {1}
    Aligns = {4}
    Kinds = {"alloc", "free"}
    Checks = TRUE
    MaxOverruns = 0
    MaxLost = 0
INVARIANT NoFalseReport
CHECK_DEADLOCK FALSE
