------------------------------ MODULE SlotEngine ------------------------------
(***************************************************************************)
(* How the calendar computes the starts it shows: what an appointment      *)
(* occupies (ProfessionalServiceResolver), the candidates and the filter   *)
(* (AvailabilityEngine), against the check that a booking with such a      *)
(* start has to pass (ScheduleValidationService).  Minutes are counted     *)
(* from the beginning of the day; a pair <<from, to>> is the half-open     *)
(* interval between them.                                                  *)
(***************************************************************************)
EXTENDS Integers, Sequences, FiniteSets

CONSTANTS
    Query,      \* what the calendar may be asked
    EndOfDay    \* minutes in a day

VARIABLES
    query,  \* the question
    answer,  \* the starts in the answer
    answered

slotVars == <<query, answer, answered>>

-----------------------------------------------------------------------------
(* ProfessionalServiceResolver *)

ServicePlan == [before : Nat, length : Nat \ {0}, after : Nat, phase : Nat, pause : Nat]

(* What comes with a question: the services, the hours, which lie in the day,
   what is busy, from whenever to whenever, the present minute (of another
   day: negative) and the notice. *)
Asked(q) ==
    /\ q.plan \in Seq(ServicePlan)
    /\ q.working \subseteq (0..EndOfDay) \X (0..EndOfDay)
    /\ q.busy \subseteq Int \X Int
    /\ q.now \in Int /\ q.notice \in Nat

ASSUME SlotAssumption == EndOfDay \in Nat /\ \A q \in Query : Asked(q)

(* assertConfiguration: the processing phase lies inside the service. *)
GoodPlan(s) == s.phase + s.pause <= s.length /\ (s.pause # 0 => s.phase # 0)

(* totalDurationMinutes of the services before the i-th *)
Begin(plan, i) ==
    LET sum[j \in 0..Len(plan)] == IF j = 0 THEN 0 ELSE sum[j - 1] + plan[j].length
    IN  sum[i - 1]

Duration(plan) == Begin(plan, Len(plan) + 1)

(* pushSegment drops what is empty. *)
Pushed(segments) == {s \in segments : s[1] < s[2]}

(* buildRelativeOccupancy *)
Occupancy(plan) ==
    Pushed(UNION {
        LET s == plan[i]
            start == Begin(plan, i)
            end == start + s.length
        IN  {<<start - s.before, start>>, <<end, end + s.after>>} \cup
            (IF s.pause = 0 THEN {<<start, end>>}
             ELSE {<<start, start + s.phase>>, <<start + s.phase + s.pause, end>>})
        : i \in 1..Len(plan)})

-----------------------------------------------------------------------------
(* AvailabilityEngine.buildCandidateStartsForPattern *)

Within(from, to, intervals) == \E w \in intervals : w[1] <= from /\ to <= w[2]

Hits(from, to, intervals) == \E b \in intervals : from < b[2] /\ b[1] < to

(* From the opening in steps, and wherever some part of the appointment may
   follow something busy. *)
Cadence(working, step) ==
    UNION {{t \in w[1]..w[2] : t < w[2] /\ (t - w[1]) % step = 0} : w \in working}

(* Mutant: as buildCandidateStartsForIntervals, which knows no pattern. *)
AfterBusyEnds(occupancy, busy) == {b[2] : b \in busy}

AfterBusy(occupancy, busy) == {b[2] - s[1] : b \in busy, s \in occupancy}

(* Mutant: only the time the customer sees has to lie in the hours. *)
CustomerFits(start, duration, occupancy, working, busy) ==
    /\ Within(start, start + duration, working)
    /\ \A s \in occupancy : ~Hits(start + s[1], start + s[2], busy)

Fitting(start, duration, occupancy, working, busy) ==
    /\ Within(start, start + duration, working)
    /\ \A s \in occupancy :
          /\ Within(start + s[1], start + s[2], working)
          /\ ~Hits(start + s[1], start + s[2], busy)

Starts(duration, occupancy, working, busy, step, minimum) ==
    {t \in Cadence(working, step) \cup AfterBusy(occupancy, busy) :
        t >= minimum /\ Fitting(t, duration, occupancy, working, busy)}

-----------------------------------------------------------------------------
(* AvailabilityService.get: busy times are cut at the ends of the day, the
   step is the one configured or the appointment's own length but for the
   salon, the notice and the last hour for today are the policy's. *)

Clipped(b) == <<IF b[1] < 0 THEN 0 ELSE b[1], IF b[2] > EndOfDay THEN EndOfDay ELSE b[2]>>

Step(q) ==
    CASE q.mode = "admin" -> q.adminStep
      [] q.mode = "public" /\ q.granularity > 0 -> q.granularity
      [] OTHER -> IF Duration(q.plan) > q.leastStep THEN Duration(q.plan) ELSE q.leastStep

Shown(q) ==
    IF q.mode = "public" /\ q.cutoff # 0 /\ q.now >= q.cutoff THEN {}
    ELSE {t \in Starts(Duration(q.plan), Occupancy(q.plan), q.working,
                       {Clipped(b) : b \in q.busy}, Step(q), q.now + 1) :
            q.mode = "public" => t >= q.now + q.notice}

(* ScheduleValidationService.assertAvailable on a start of this day: the day
   ends before the next, and hours and occupancy are asked as they are. *)
Accepted(q, t) ==
    /\ 0 <= t /\ t + Duration(q.plan) <= EndOfDay
    /\ \A i \in Occupancy(q.plan) \cup {<<0, Duration(q.plan)>>} :
          Within(t + i[1], t + i[2], q.working)
    /\ \A i \in Occupancy(q.plan) : ~Hits(t + i[1], t + i[2], q.busy)

-----------------------------------------------------------------------------
SlotInit ==
    /\ query \in Query
    /\ answer = {}
    /\ answered = FALSE

(* A plan the resolver refuses gets no answer. *)
get ==
    /\ ~answered
    /\ \A i \in DOMAIN query.plan : GoodPlan(query.plan[i])
    /\ answered' = TRUE
    /\ answer' = Shown(query)
    /\ UNCHANGED query

SlotNext == get

SlotSpec == SlotInit /\ [][SlotNext]_slotVars

-----------------------------------------------------------------------------
(* Properties *)

(* What the calendar shows the booking accepts, as long as nothing changes
   in between: buffers before and after, processing phases, appointments
   that reach over the ends of the day included. *)
ShownIsAccepted == \A t \in answer : Accepted(query, t)

(* Something busy is all that keeps t - 1 from being accepted. *)
RightBehind(q, t) ==
    /\ Accepted(q, t)
    /\ \E s \in Occupancy(q.plan) : Hits(t - 1 + s[1], t - 1 + s[2], q.busy)

(* No gap is lost: where something busy is all that keeps an appointment
   from beginning a minute earlier, the calendar shows the start. *)
GapIsShown ==
    answered /\ query.cutoff = 0 =>
        \A t \in query.now + query.notice + 1..EndOfDay :
            RightBehind(query, t) => t \in answer
=============================================================================
