CONSTANTS
    Booking = {b1, b2, b3, b4}
    Block = {k1}
    Request = {}
    Offer = {}
    Client = {c1, c2}
    Key = {s1}
    Customer = {x1, x2}
    Record = {z1}
    Clerk = {clerk, owner}
    Owner = {clerk, owner}
    Nobody = None
    MaxRevised = 3
    Service = {z1}
    Professional = {z1}
    BookedItem = {z1}
    Editor = {x1, x2}
    Length <- MCLength
    Offset <- MCOffset
    Pause <- MCPause
    Nil = None
    None = None
    Cell <- MCCell
    Place <- MCPlace
    BlockPlace <- MCBlockPlace
    Open <- MCOpen
    Span <- MCSpan
    Busy <- MCSpan
    StartAt <- MCStartAt
    HoldTtl = 1
    MaxNow = 1
    MaxRevision = 2
    Plan <- MCPlan
    Workload = {"createSeries", "createSeriesAdmin", "cancelSeries", "cancelSeriesAdmin", "approve", "reject", "createBlock", "updateBlock", "cancelBlock"}
SPECIFICATION MCSpec
CHECK_DEADLOCK FALSE
SYMMETRY MCSymmetry
INVARIANTS
    OneRowPerOccurrence
    BlockClear
    CancelledSeriesIsOver
    RevisionsChain
    NoMergeCycle
PROPERTIES
    OccurrenceCancelledOnce
    SettingsAreKept
