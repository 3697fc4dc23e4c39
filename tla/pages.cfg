CONSTANTS
    Single = {z1}
    Sole = {w1}
    Pair = {x1, x2}
    Pair2 = {y1, y2}
    Tab1 = t1
    Tab2 = t2
    Idle = None
    Few = 1
    Some = 2
    Many = 3
SPECIFICATION MCSpec
SYMMETRY MCSymmetry
CHECK_DEADLOCK FALSE
INVARIANTS
    SlotsFitSelection
    BoardIsOfDay
    LeftSeesNothing
    HistoryIsWhole
    OfferIsOfEntry
    ConsentBacksAnswers
    SaidIsKept
    ReasonIsForBlock

    
