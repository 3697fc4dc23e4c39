CONSTANTS
    Booking = {b1}
    Block = {}
    Request = {}
    Offer = {}
    Client = {c1, c2}
    None = None
    Cell <- MCCell
    Place <- MCPlace
    BlockPlace <- MCBlockPlace
    Open <- MCOpen
    Span <- MCSpan
    Busy <- MCBusy
    StartAt <- MCStartAt
    HoldTtl = 1
    MaxNow = 2
    MaxRevision = 3
    Workload = {"createHold", "confirmHold", "approve"}
SPECIFICATION Spec
CHECK_DEADLOCK FALSE
PROPERTIES
    DecidedOnce
