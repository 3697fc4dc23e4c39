CONSTANTS
    Booking = {b1, b2, b3}
    b1 = b1
    b2 = b2
    b3 = b3
    Block = {}
    Request = {}
    Offer = {o1, o2}
    Client = {c1, c2}
    Entry = {n1}
    None = None
    Cell <- MCCell
    Place <- MCPlace
    BlockPlace = {}
    Open <- MCPlace
    Span <- MCSpan
    Busy <- MCSpan
    StartAt <- MCStartAt
    HoldTtl = 1
    MaxNow = 1
    MaxRevision = 3
    Wanted <- MCWanted
    OfferTtl = 1
    MaxAttempts = 2
    MaxFaults = 1
    Workload = {"acceptOffer", "processRecovery", "suggestOffer", "cancelEntry", "cancelEntryAdmin"}
SPECIFICATION MCSpec
SYMMETRY MCSymmetry
CHECK_DEADLOCK FALSE
INVARIANTS
    OfferKept
    NoEventForgotten
PROPERTIES
    FulfilledIsFinal
