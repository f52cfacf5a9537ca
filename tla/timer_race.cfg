SPECIFICATION Spec
CONSTANTS
    e1 = e1
    e2 = e2
    l1 = l1
    l2 = l2
    NoClock = NoClock
    Timer <- MCOneTimer
    Looper <- MCLooper
    Period <- MCPeriod
    NoTime <- MCNoTime
    Hour = 1
    MinClock = 1
    MaxClock = 4
    Stall = 1
    Never = 100
SYMMETRY MCSymmetry
INVARIANTS
    OneOutcome
    WaitersCovered
PROPERTIES
    NeverEarly
