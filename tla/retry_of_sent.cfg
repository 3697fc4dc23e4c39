CONSTANTS
    Booking = {b1}
    Start = {1}
    Worker = {w1}
    Admin = {a1, a2}
    None = None
    BatchSize = 10
    MaxAttempts = 2
    MaxRevision = 3
    MaxFaults = 0
    Workload = {"reports", "retry"}
SPECIFICATION Spec
CHECK_DEADLOCK FALSE
PROPERTIES
    NeverRetriesAccepted
