---------------------------- MODULE OpeningHours ----------------------------
(***************************************************************************)
(* The opening hours of a branch: BusinessHoursService.  A week of plans,  *)
(* and plans for single dates that take their place.  Whoever changes      *)
(* hours or places a booking holds the branch lock for the whole           *)
(* transaction (BookingLifecycle models the lock), so each of these is one *)
(* step here; a cancellation takes no lock and only frees.                 *)
(***************************************************************************)
EXTENDS Integers, FiniteSets

CONSTANTS
    Appointment,  \* identifiers of rows of "bookings"
    Date,         \* days, numbered
    Weekday,      \* days of the week
    WeekdayOf,    \* weekdayForDate
    Stretch,       \* the sets of hours of a day an appointment may take
    Plan,         \* plans of a day: sets of intervals, an interval a set of hours
    NoPlan,       \* no override for the date
    Limit         \* how many bookings updateWeekly looks at: take: 50

ASSUME HoursAssumption ==
    /\ Date \subseteq Nat
    /\ WeekdayOf \in [Date -> Weekday]
    /\ Stretch # {}
    /\ {} \in Plan
    /\ NoPlan \notin Plan
    /\ Limit \in Nat

VARIABLES
    weekly,     \* table "branch_weekly_intervals"
    overrides,  \* table "branch_date_overrides"
    diary,      \* the bookings
    today       \* the date

hoursVars == <<weekly, overrides, diary, today>>

-----------------------------------------------------------------------------
(* forced: placed by the salon without regard to its hours *)
DiaryRow == [active : BOOLEAN, date : Date, hours : Stretch, forced : BOOLEAN]

NoAppointment == [active |-> FALSE, date |-> CHOOSE d \in Date : TRUE,
                  hours |-> CHOOSE l \in Stretch : TRUE, forced |-> FALSE]

(* bookingFits: within one interval of the plan *)
Fits(b, plan) == \E interval \in plan : diary[b].hours \subseteq interval

WeeklyPlan(date) == weekly[WeekdayOf[date]]

(* resolveEffectiveIntervals *)
PlanFor(date) == IF overrides[date] = NoPlan THEN WeeklyPlan(date) ELSE overrides[date]

ActiveOn(date) == {b \in Appointment : diary[b].active /\ diary[b].date = date}

Coming == {b \in Appointment : diary[b].active /\ diary[b].date >= today}

-----------------------------------------------------------------------------
(* assertAvailable with enforceWorkingHours, or the salon's own decision *)
PlaceAppointment(b, date, hours, forced) ==
    /\ ~diary[b].active
    /\ date >= today
    /\ forced \/ \E interval \in PlanFor(date) : hours \subseteq interval
    /\ diary' = [diary EXCEPT ![b] = [active |-> TRUE, date |-> date, hours |-> hours,
                                      forced |-> forced]]
    /\ UNCHANGED <<weekly, overrides, today>>

FreeAppointment(b) ==
    /\ diary[b].active
    /\ diary' = [diary EXCEPT ![b] = NoAppointment]
    /\ UNCHANGED <<weekly, overrides, today>>

(* The query has a limit and no order: any Limit of them *)
Taken(rows) ==
    {seen \in SUBSET rows :
        Cardinality(seen) = IF Cardinality(rows) <= Limit THEN Cardinality(rows) ELSE Limit}

(* Mutant: without startAt > now, what is over counts towards the limit. *)
AnyLookedAt == Taken({b \in Appointment : diary[b].active})

LookedAt == Taken(Coming)

(* Every booking looked at has to fit the new week, also one whose date has
   a plan of its own. *)
updateWeekly(week) ==
    /\ week # weekly
    /\ \E seen \in LookedAt : \A b \in seen : Fits(b, week[WeekdayOf[diary[b].date]])
    /\ weekly' = week
    /\ UNCHANGED <<overrides, diary, today>>

upsertOverride(date, plan) ==
    /\ \A b \in ActiveOn(date) : Fits(b, plan)
    /\ overrides' = [overrides EXCEPT ![date] = plan]
    /\ UNCHANGED <<weekly, diary, today>>

WeekCovers(date) == \A b \in ActiveOn(date) : Fits(b, WeeklyPlan(date))

deleteOverride(date) ==
    /\ overrides[date] # NoPlan
    /\ WeekCovers(date)
    /\ overrides' = [overrides EXCEPT ![date] = NoPlan]
    /\ UNCHANGED <<weekly, diary, today>>

DayPasses ==
    /\ today + 1 \in Date
    /\ today' = today + 1
    /\ UNCHANGED <<weekly, overrides, diary>>

(* Every branch begins open on every day of the week. *)
HoursInit ==
    /\ \E plan \in Plan \ {{}} : weekly = [w \in Weekday |-> plan]
    /\ overrides = [d \in Date |-> NoPlan]
    /\ diary = [b \in Appointment |-> NoAppointment]
    /\ today \in {d \in Date : d - 1 \notin Date}

HoursNext ==
    \/ \E b \in Appointment :
          \/ \E date \in Date, hours \in Stretch, forced \in BOOLEAN :
                PlaceAppointment(b, date, hours, forced)
          \/ FreeAppointment(b)
    \/ \E week \in [Weekday -> Plan] : updateWeekly(week)
    \/ \E date \in Date :
          \/ \E plan \in Plan : upsertOverride(date, plan)
          \/ deleteOverride(date)
    \/ DayPasses

HoursSpec == HoursInit /\ [][HoursNext]_hoursVars

-----------------------------------------------------------------------------
(* Properties *)

HoursTypeOK ==
    /\ weekly \in [Weekday -> Plan]
    /\ overrides \in [Date -> Plan \cup {NoPlan}]
    /\ diary \in [Appointment -> DiaryRow]
    /\ today \in Date

(* Who was inside the hours before a step, and is outside after it *)
LockedOut ==
    {b \in Coming : /\ diary'[b] = diary[b]
                    /\ Fits(b, PlanFor(diary[b].date))
                    /\ ~Fits(b, PlanFor(diary[b].date))'}

Excess == IF Cardinality(Coming) <= Limit THEN 0 ELSE Cardinality(Coming) - Limit

(* updateWeekly says "Yeni çalışma saatleri gelecekteki randevuları dışarıda
   bırakıyor. Önce bu randevuları taşıyın veya iptal edin", and looks at no
   more than Limit of them: a new week leaves outside no more bookings than
   there are beyond the limit, none while there are none beyond it, and the
   plan of a date, put there or taken away, leaves outside nobody at all. *)
HoursChange ==
    /\ Cardinality(LockedOut) <= Excess
    /\ overrides' # overrides => LockedOut = {}

NobodyLockedOut == [][HoursChange]_hoursVars

(* What the message says without the limit: refuted, the fifty-first booking
   is not looked at. *)
EverybodyIsInside ==
    \A b \in Coming : diary[b].forced \/ Fits(b, PlanFor(diary[b].date))
=============================================================================
