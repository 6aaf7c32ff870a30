SPECIFICATION Spec
CONSTANTS
    f = f
    g = g
    b = b
    c = c
    usefixtures = usefixtures
    x = x
    y = y
    z = z
    u = u
    e1 = e1
    e2 = e2
    Test = {x, y, z, u}
    Execution = {e1, e2}
    Feature = {f, g}
    Base = {b, c}
    Ignored = {usefixtures}
    ParallelMark = ParallelMark
    Skip = Skip
    Executions <- TwoExecutions
    Collected <- ThreeTests
    MarkLists <- AllMarkLists
    Contents <- AllContents
    NoMark = NoMark
    Unknown = Unknown
    NoExecution = NoExecution
INVARIANTS
    PlannedOnce
    FeatureTestsPlanned
    SequentialTestsMatchExecution
    PlanFailsForCause
