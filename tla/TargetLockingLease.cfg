\* Where the next step would clobber a record the execution stops: deadlock is
\* no error here, and the fair executions are the ones that never come to it.
SPECIFICATION FairSerializedSpec
CHECK_DEADLOCK FALSE
CONSTANTS
    s1 = s1
    s2 = s2
    p1 = p1
    p2 = p2
    t1 = t1
    t2 = t2
    Blank = Blank
    NoTarget = NoTarget
    Client = {s1, s2, p1}
    Parallel = {p1}
    Target = {t1, t2}
    TargetList <- TwoTargets
    MaxFaults = 0
    MaxAborts = 0
PROPERTIES
    ImplementsLease
    EveryMessageRuns
