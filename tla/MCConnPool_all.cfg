SPECIFICATION FairSpec
CONSTANTS
    t1 = t1
    t2 = t2
    t3 = t3
    Thread <- ThreeThreads
    MaxConn <- SmallPools
    Timed <- OneTimed
INVARIANTS
    Places
    NoLostWakeup
    SomeoneRuns
PROPERTY
    HandlersReturn
