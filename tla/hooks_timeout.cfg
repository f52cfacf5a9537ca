SPECIFICATION Spec
CONSTANTS
    c1 = c1
    c2 = c2
    k1 = k1
    k2 = k2
    READ = READ
    WRITE = WRITE
    NoCtx = NoCtx
    None = None
    Caller <- MCCaller
    Timer <- MCTimer
    Event <- MCEvent
    Fd <- MCFd
    Busy <- MCBusy
    InitSize = 2
SYMMETRY MCSymmetry
INVARIANT
    TimeoutGuarded
