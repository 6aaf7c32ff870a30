SPECIFICATION Spec
CONSTANTS
    s1 = s1
    s2 = s2
    p1 = p1
    p2 = p2
    t1 = t1
    t2 = t2
    Blank = Blank
    NoTarget = NoTarget
    Client = {s1, p1, p2}
    Parallel = {p1, p2}
    Target = {t1}
    TargetList <- OneTarget
    MaxFaults = 1
    MaxAborts = 1
SYMMETRY ClientSymmetry
INVARIANTS
    SerializedExclusiveUse
    FreeMeansUnused
    HoldersAreRecorded
    RecordsMatchUsers
