\* The threads and the disruptor come to an end.
SPECIFICATION FairSpec
CHECK_DEADLOCK FALSE
CONSTANTS
    Worker = {1, 2}
    Cast <- Casts
    Requests = 2
    MaxPods = 2
INVARIANTS
    AlarmsPerWindow
    MasksPerWindow
PROPERTIES
    MissedRunsAreExcused
    WorkersEnd
