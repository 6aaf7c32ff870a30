\* The threads and the disruptor come to an end.
SPECIFICATION Spec
CHECK_DEADLOCK FALSE
CONSTANTS
    Worker = {1}
    Cast <- Overwriting
    Requests = 2
    MaxPods = 1
INVARIANTS
    FailuresCount
