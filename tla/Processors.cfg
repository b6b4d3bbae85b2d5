SPECIFICATION ProcessorsSpec
CONSTANTS
    Callers = {c1, c2}
    NoOne = NoOne
    Base = 6
    WM_SIZE = 15
    Grain = 2
    Requests <- MCRequests
    APs = {1}
    Madts <- MCMadts
    Irqs = {0, 1, 2, 3}
    Pins = 4
    FirstVector = 1
    TimerVector = 3
    LastVector = 4
    DriverIrqs <- MCDriverIrqs
    PageUnits = 4
    Wait = 2
    MaxEarly = 2
INVARIANTS
    AreaSound
    
PROPERTIES
    StartGoesOn
CHECK_DEADLOCK FALSE
