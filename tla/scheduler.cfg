SPECIFICATION Spec
CONSTANTS
    j1 = j1
    j2 = j2
    t1 = t1
    t2 = t2
    caller = caller
    none = none
    Job <- MCJob
    Threads <- MCThreads
    Caller = caller
    None = none
    Pins <- MCAnyPin
    Waiting <- MCJob
SYMMETRY MCSymmetry
CHECK_DEADLOCK FALSE
INVARIANTS
    TypeOK
    SoleHolder
    AssertionsHold
    ActiveCount
    NoLostTask
    AtMostOnce
    StoppedIsQuiet
PROPERTIES
    ExecutorSpec
