CONSTANTS
    Booking = {b1}
    Start = {1}
    Worker = {w1}
    Admin = {}
    None = None
    BatchSize = 10
    MaxAttempts = 2
    MaxRevision = 3
    MaxFaults = 0
    Workload = {"cancel", "reschedule", "updateDetails", "time"}
SPECIFICATION FairSpec
CHECK_DEADLOCK FALSE
PROPERTIES
    ReminderIsSent
    WithdrawnStays
