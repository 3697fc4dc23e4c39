CONSTANTS
    Booking = {b1, b2}
    Block = {}
    Request = {r1}
    Offer = {}
    Client = {c1, c2}
    None = None
    Cell <- MCCell
    Place <- MCPlace
    BlockPlace <- MCBlockPlace
    Open <- MCOpen
    Span <- MCSpan
    Busy <- MCBusy
    StartAt <- MCStartAt
    HoldTtl = 1
    MaxNow = 2
    MaxRevision = 3
    Workload = {"createHold", "create", "requestChange", "approveChange", "rejectChange", "expireDue", "customerCancel"}
    RequestTtl = 1
    RescheduleLead = 1
    CancellationLead = 1
    LateCancellation = FALSE
    MaxActiveRequests = 1
    Hour = {h1, h2}
    Date = {d1}
    LastVisit = 2
    LastRevision = 1
    MaxCalls = 2
SPECIFICATION MCSpec
CHECK_DEADLOCK FALSE
SYMMETRY MCPageSymmetry
INVARIANTS
    ProposalReserved
    CancelledHasNoRequest
PROPERTIES
    CancellationAnnounced
    RequestKnowsPlace
