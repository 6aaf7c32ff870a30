\* The test run is over after MaxChecks checks.
SPECIFICATION FairSpec
CHECK_DEADLOCK FALSE
CONSTANTS
    u1 = u1
    u2 = u2
    User <- TwoUsers
    File = {1, 2}
    NWORKERS = 2
    MaxChecks = 2
    MaxFaults = 3
    Deletable <- OneOfEach
INVARIANTS
    PassMissesFewFailures
    LaterChecksReport
    VerdictIsComplete
    RowsAccountedFor
PROPERTIES
    ChecksEnd
