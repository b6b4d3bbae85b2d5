SPECIFICATION PmmSpec
CONSTANTS
    Callers = {c1, c2}
    NoOne = NoOne
    MMaps <- MCMMaps
    PageSize = 4
    WordBits = 4
    WmPages = 1
    HighPage = 8
    ByteSizes = {3, 5}
INVARIANT Below4G
SYMMETRY CallerSymmetry
CHECK_DEADLOCK FALSE
