CONSTANTS
    Booking = {b1}
    Start = {1}
    Worker = {w1, w2}
    Admin = {a1}
    None = None
    BatchSize = 10
    MaxAttempts = 2
    MaxRevision = 3
    MaxFaults = 2
    Workload = {"reports", "retry"}
SPECIFICATION FairSpec
CHECK_DEADLOCK FALSE
PROPERTIES
    QueueIsKept
    EveryMessageSettles
