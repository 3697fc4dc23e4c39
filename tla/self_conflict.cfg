CONSTANTS
    Booking = {b1}
    Block = {}
    Request = {r1}
    Offer = {}
    Client = {c1, c2}
    None = None
    Cell <- MCCell
    Place <- MCPlace
    BlockPlace <- MCBlockPlace
    Open <- MCOpen
    Span <- MCSpan
    Busy <- MCBusy
    StartAt <- MCStartAt
    HoldTtl = 1
    MaxNow = 2
    MaxRevision = 3
    Workload = {"createHold", "confirmHold", "requestChange", "approveChange"}
    RequestTtl = 1
    RescheduleLead = 1
    CancellationLead = 1
    LateCancellation = FALSE
    MaxActiveRequests = 1
SPECIFICATION ChangeSpec
CHECK_DEADLOCK FALSE
INVARIANTS
    LiveRequestIsApprovable
