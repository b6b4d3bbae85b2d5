SPECIFICATION HeapUseSpec
CONSTANTS
    H = 16
    RZ = 1
    Sizes = {1, 2, 4}
    Aligns = {2, 4}
    MaxLost = 6
    Objects = {s, t}
    Letters = {"a"}
    Literals <- MCLiterals
    MinAlloc = 2
    MaxLen = 3
    Blocks = {1, 2, 3}
    Chars = {"c", "blank", "enter", "backspace", "nul", "utf8"}
    Names <- MCNames
    Added <- MCAdded
    Junk = Junk
    Word = 64
    MaxSize = 5
    Columns = 4
    Rows = 3
    Prompt = 1
    MaxAdds = 2
    Rollover = 1
    FileNames = {"a", "b", "c"}
    Bucket <- MCBucket
    FsPaths <- MCPaths
    MountPaths <- MCMounts
    MaxMounts = 1
    MaxBytes = 2
INVARIANTS
    HeapSound
    UsedIsExact
    
    
    
    HandlesKept
    FilesRight
    
CHECK_DEADLOCK FALSE
