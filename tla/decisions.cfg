CONSTANTS
    Booking = {b1}
    Block = {k1}
    Request = {}
    Offer = {}
    Client = {c1, c2}
    None = None
    Cell <- MCCell
    Place <- MCPlace
    BlockPlace <- MCTraining
    Open <- MCOpen
    Span <- MCSpan
    Busy <- MCBusy
    StartAt <- MCStartAt
    HoldTtl = 1
    MaxNow = 2
    MaxRevision = 3
    Workload = {"createHold", "confirmHold", "approve", "reject", "cancel", "create", "updateDetails", "markNoShow", "revertNoShow", "board", "createBlock", "updateBlock", "cancelBlock"}
SPECIFICATION FairSpec
CHECK_DEADLOCK FALSE
PROPERTIES
    CalendarIsKept
    HoldFreed
    PastPendingExpires
