SPECIFICATION FairSpec
CHECK_DEADLOCK FALSE
CONSTANTS
    e1 = e1
    q1 = q1
    q2 = q2
    Pill = Pill
    NoTicket = NoTicket
    Nobody = Nobody
    Ticket = {e1, q1, q2}
    EmptyTicket = {e1}
    Corbot = {c1, c2}
    Partition = {a1}
    Plan <- ThreeTickets
    QueueSize = 1
    IdleLimit = 2
    MaxRefused = 1
    MaxFailures = 1
    MaxCrashes = 1
    MaxUndelivered = 1
INVARIANTS
    AtMostOnce
    NothingLost
    ReturnMeansDelivered
PROPERTIES
    RunReturns
    EveryTicketRuns
    ImplementsTicketQueue
