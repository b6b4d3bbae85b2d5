SPECIFICATION DevicesSpec
CONSTANTS
    Sz = 4
    MaxRun = 3
    MaxStart = 5
    Machines <- MCMachines
    Devs = 2
    Funs = 2
    Archives <- MCArchives
    AcpiOrders <- MCAcpiOrders
    PciDevices <- MCPciDevices
    ModuleSlots = 6
    AreaUnits = 40
    PageUnits = 4
    Ksyms <- MCKsyms
    Trees <- MCTrees
    Controllers = {1, 2}
    RootPorts = {1, 2}
    Addresses = 6
    Tries = 2
INVARIANTS
    
    
    ImagesRight
    DriversStarted
    RequestsRight
    RingKept
PROPERTIES
    
    WorkEnds
CHECK_DEADLOCK FALSE
