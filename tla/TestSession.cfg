SPECIFICATION FairSpec
CONSTANTS
    p1 = p1
    p2 = p2
    s1 = s1
    w1 = w1
    w2 = w2
    Main = main
    NoTest = none
    MaxFaults = 2
    Earlier <- EarlierRuns
    Test <- Tests
    Parallel <- ParallelTests
    UsesIO <- IOTests
    Worker <- Workers
CHECK_DEADLOCK FALSE
INVARIANTS
    ExecutingIsExplained
    DatabaseFollowsJira
    RerunIsExplained
    EveryTestStarts
PROPERTIES
    ResultStands
    RunEnds
