SPECIFICATION FramesSpec
CONSTANTS
    Callers = {c1, c2}
    NoOne = NoOne
    MMaps <- MCMMaps
    PageSize = 4
    WordBits = 4
    WmPages = 1
    HighPage = 8
    ByteSizes = {3, 5}
    Fan = 2
    Top = 4
    Devices = {17, 20}
    HhdmSizes = {0, 1}
    MaxFrames = 6
    MaxKernel = 2
    Segments <- MCSegments
    Ports = {0, 1}
    CmdSlots = {0, 1}
    Setups <- MCSetups
    PerEntrySector = 4
    StartLba = 2
    Base = 2
    UserReads <- MCUserReads
    Cells = {1, 2, 3, 4, 5, 6}
    Junk = Junk
    Word = 64
INVARIANTS
    GrantsSafe
    Accounting
    
    ProgramSpace
    DmaOwned
    DiskSeen
PROPERTIES
    TablesKept
    CommandEnds
CHECK_DEADLOCK FALSE
