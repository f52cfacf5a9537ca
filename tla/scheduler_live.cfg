SPECIFICATION FairSpec
CONSTANTS
    j1 = j1
    j2 = j2
    t1 = t1
    t2 = t2
    caller = caller
    none = none
    Job <- MCJob
    Threads <- MCOneThread
    Caller = caller
    None = none
    Pins <- MCOnePin
    Waiting <- MCJob
CHECK_DEADLOCK FALSE
PROPERTIES
    EveryTaskRuns
    StopReturns
