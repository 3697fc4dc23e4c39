CONSTANTS
    Code = {x1, x2}
    Phone = {f1}
    Visitor = {y1, y2}
    NoCode = None
    Lifetime = 1
    ResendAfter = 1
    MaxAttempts = 2
    MaxPhone = 2
    LastTime = 1
    User = {u1, u2}
    Founder = u1
    Seat = {y1, y2}
    Desk = {d1, d2}
    Office = {d1}
    NoUser = None
    MaxFailed = 2
    Visit = {a1}
    Token = {t1, t2, t3}
    Hand = {y1, y2}
    Nothing = None
    Rating = {1, 5}
    MaxMissed = 1
    Appointment = {a1, a2}
    Date = {1, 2}
    Weekday = {"w1"}
    WeekdayOf <- MCWeekdayOf
    Stretch <- MCStretch
    Plan <- MCPlan
    NoPlan = None
    Limit = 1
    Query <- MCQuery
    EndOfDay = 8
    Template = {t1}
    Submission = {s1, s2}
    Writer = {y1, y2}
    NoForm = None
    MaxVersion = 3
SPECIFICATION MCSpec
SYMMETRY MCSymmetry
CHECK_DEADLOCK FALSE
INVARIANTS
    DismissedStaysOut
    InvitationOpens
    ShownIsAccepted
    GapIsShown
    OneDraft
PROPERTIES
    CodeUsedOnce
    NobodyLockedOut
