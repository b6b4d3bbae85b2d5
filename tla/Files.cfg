SPECIFICATION FilesSpec
CONSTANTS
    Tasks = {t1, t2}
    NoOne = NoOne
    H = 9
    RZ = 1
    Cap = 4
    Sizes = {1, 2}
    Aligns = {4}
    Kinds = {"alloc", "aligned", "free", "grow"}
    Checks = FALSE
    MaxOverruns = 0
    MaxLost = 3
    Sector = 2
    PerCluster = 1
    LastCluster = 5
    PerSector = 5
    Volumes <- MCVolumes
    Paths <- MCFatPaths
SYMMETRY TaskSymmetry
INVARIANTS
    BlocksSound
    
    NamesRight
PROPERTIES
    ImplementsHeap
CHECK_DEADLOCK FALSE
