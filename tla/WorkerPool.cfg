\* A call that raises leaves the pool stuck for good: deadlock is no error here.
SPECIFICATION FairSpec
CHECK_DEADLOCK FALSE
CONSTANTS
    w1 = w1
    w2 = w2
    w3 = w3
    Worker <- ThreeThreads
    NumItems = 4
    MaxRaises = 2
INVARIANTS
    Counts
    JoinMeansProcessed
PROPERTIES
    ShutdownEnds
    ImplementsPool
