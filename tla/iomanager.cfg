SPECIFICATION FairSpec
CONSTANTS
    Job = {j1, j2}
    Timed = {j1}
    Thread = {t1, t2}
    Main = main
    Pipe = pipe
    None = none
INVARIANTS
    TypeOK
    CountsExact
    OnePlace
PROPERTIES
    PoolSpec
    ReadyRuns
    WaitEnds
    StopReturns
