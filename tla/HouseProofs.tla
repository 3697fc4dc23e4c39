----------------------------- MODULE HouseProofs -----------------------------
(***************************************************************************)
(* The hours of a branch, the forms and the catalogue of a salon, and the  *)
(* slots of its calendar, for any number of bookings, dates, templates,    *)
(* services and requests.                                                  *)
(***************************************************************************)
EXTENDS OpeningHours, FormTemplates, Catalogue, SlotEngine, FiniteSetTheorems,
        FunctionTheorems, WellFoundedInduction, TLAPS

-----------------------------------------------------------------------------
(* Opening hours *)

(* The query of updateWeekly has a limit.  While there are no more bookings
   to come than that, it sees them all. *)
WithinLimit == Cardinality(Coming) <= Limit

(* A date with a plan of its own: nobody it is open to is outside of it. *)
SpecialDaysKept ==
    \A b \in Coming :
        overrides[diary[b].date] # NoPlan =>
            diary[b].forced \/ Fits(b, overrides[diary[b].date])

LEMMA InitHours == HoursInit => HoursTypeOK /\ Coming = {}
<1> USE HoursAssumption
<1> SUFFICES ASSUME HoursInit PROVE HoursTypeOK /\ Coming = {}
  OBVIOUS
<1>1. PICK day \in Date : today = day
  BY DEF HoursInit
<1>2. NoAppointment \in DiaryRow /\ ~NoAppointment.active
  BY <1>1 DEF NoAppointment, DiaryRow
<1> QED
  BY <1>1, <1>2 DEF HoursInit, HoursTypeOK, Coming

(* What a step does to the bookings and the plans has their types. *)
LEMMA HoursTypeStep == HoursTypeOK /\ [HoursNext]_hoursVars => HoursTypeOK'
<1> USE HoursAssumption
<1> SUFFICES ASSUME HoursTypeOK, [HoursNext]_hoursVars PROVE HoursTypeOK'
  OBVIOUS
<1>1. NoAppointment \in DiaryRow
  BY DEF NoAppointment, DiaryRow, HoursTypeOK
<1>2. ASSUME NEW b \in Appointment, NEW date \in Date, NEW hours \in Stretch,
             NEW forced \in BOOLEAN, PlaceAppointment(b, date, hours, forced)
      PROVE  HoursTypeOK'
  BY <1>2 DEF PlaceAppointment, HoursTypeOK, DiaryRow
<1>3. ASSUME NEW b \in Appointment, FreeAppointment(b)
      PROVE  HoursTypeOK'
  BY <1>1, <1>3 DEF FreeAppointment, HoursTypeOK
<1>4. ASSUME NEW week \in [Weekday -> Plan], updateWeekly(week)
      PROVE  HoursTypeOK'
  BY <1>4 DEF updateWeekly, HoursTypeOK
<1>5. ASSUME NEW date \in Date, NEW plan \in Plan, upsertOverride(date, plan)
      PROVE  HoursTypeOK'
  BY <1>5 DEF upsertOverride, HoursTypeOK
<1>6. ASSUME NEW date \in Date, deleteOverride(date)
      PROVE  HoursTypeOK'
  BY <1>6 DEF deleteOverride, HoursTypeOK
<1>7. CASE DayPasses
  BY <1>7 DEF DayPasses, HoursTypeOK
<1>8. CASE UNCHANGED hoursVars
  BY <1>8 DEF hoursVars, HoursTypeOK
<1> QED
  BY <1>2, <1>3, <1>4, <1>5, <1>6, <1>7, <1>8 DEF HoursNext

LEMMA DayPassesComing ==
    ASSUME HoursTypeOK, DayPasses, NEW b \in Coming'
    PROVE  b \in Coming
<1>1. b \in Appointment /\ diary[b].active /\ diary[b].date >= today + 1
  BY DEF DayPasses, Coming
<1>2. diary[b].date \in Nat /\ today \in Nat
  BY <1>1, HoursAssumption DEF HoursTypeOK, DiaryRow
<1> QED
  BY <1>1, <1>2 DEF Coming

(* A booking that is to come after the step and was not before it has just
   been placed; the others stay as they are. *)
LEMMA ComingStep ==
    ASSUME HoursTypeOK, NEW b \in Coming',
           \/ \E c \in Appointment, date \in Date, hours \in Stretch, forced \in BOOLEAN :
                 PlaceAppointment(c, date, hours, forced)
           \/ \E c \in Appointment : FreeAppointment(c)
    PROVE  /\ UNCHANGED <<weekly, overrides, today>>
           /\ \/ b \in Coming /\ diary'[b] = diary[b]
              \/ /\ diary'[b].date \in Date
                 /\ diary'[b].forced \/ \E interval \in PlanFor(diary'[b].date) :
                                           diary'[b].hours \subseteq interval
<1>1. CASE \E c \in Appointment, date \in Date, hours \in Stretch, forced \in BOOLEAN :
              PlaceAppointment(c, date, hours, forced)
  <2>1. PICK c \in Appointment, date \in Date, hours \in Stretch, forced \in BOOLEAN :
           PlaceAppointment(c, date, hours, forced)
    BY <1>1
  <2>2. CASE b = c
    BY <2>1, <2>2 DEF PlaceAppointment, HoursTypeOK
  <2>3. CASE b # c
    BY <2>1, <2>3 DEF PlaceAppointment, HoursTypeOK, Coming
  <2> QED
    BY <2>1, <2>2, <2>3 DEF PlaceAppointment
<1>2. CASE \E c \in Appointment : FreeAppointment(c)
  <2>1. PICK c \in Appointment : FreeAppointment(c)
    BY <1>2
  <2>2. ~NoAppointment.active
    BY DEF NoAppointment
  <2> QED
    BY <2>1, <2>2 DEF FreeAppointment, HoursTypeOK, Coming
<1> QED
  BY <1>1, <1>2

(* As many bookings looked at as there are: all of them were. *)
LEMMA AllLookedAt ==
    ASSUME IsFiniteSet(Appointment), WithinLimit, NEW seen \in LookedAt
    PROVE  seen = Coming
<1>1. IsFiniteSet(Coming)
  BY FS_Subset DEF Coming
<1>2. seen \in SUBSET Coming /\ Cardinality(seen) = Cardinality(Coming)
  BY DEF LookedAt, Taken, WithinLimit
<1> QED
  BY <1>1, <1>2, FS_Subset

LEMMA HoursStep ==
    ASSUME IsFiniteSet(Appointment), HoursTypeOK, EverybodyIsInside, WithinLimit,
           [HoursNext]_hoursVars
    PROVE  EverybodyIsInside'
<1> USE HoursAssumption
<1> SUFFICES ASSUME NEW b \in Coming'
             PROVE  (diary[b].forced \/ Fits(b, PlanFor(diary[b].date)))'
  BY DEF EverybodyIsInside
<1>1. CASE \/ \E c \in Appointment, date \in Date, hours \in Stretch, forced \in BOOLEAN :
                 PlaceAppointment(c, date, hours, forced)
           \/ \E c \in Appointment : FreeAppointment(c)
  <2>1. /\ UNCHANGED <<weekly, overrides, today>>
        /\ \/ b \in Coming /\ diary'[b] = diary[b]
           \/ /\ diary'[b].date \in Date
              /\ diary'[b].forced \/ \E interval \in PlanFor(diary'[b].date) :
                                        diary'[b].hours \subseteq interval
    BY <1>1, ComingStep
  <2> QED
    BY <2>1 DEF EverybodyIsInside, Fits, PlanFor, WeeklyPlan
<1>2. ASSUME NEW week \in [Weekday -> Plan], updateWeekly(week)
      PROVE  (diary[b].forced \/ Fits(b, PlanFor(diary[b].date)))'
  <2>1. b \in Coming /\ \A c \in Coming : Fits(c, week[WeekdayOf[diary[c].date]])
    BY <1>2, AllLookedAt DEF updateWeekly, Coming
  <2> QED
    BY <1>2, <2>1 DEF updateWeekly, EverybodyIsInside, Fits, PlanFor, WeeklyPlan
<1>3. ASSUME NEW date \in Date, NEW plan \in Plan, upsertOverride(date, plan)
      PROVE  (diary[b].forced \/ Fits(b, PlanFor(diary[b].date)))'
  <2>1. b \in Coming /\ diary[b].date \in Date
    BY <1>3 DEF upsertOverride, Coming, HoursTypeOK, DiaryRow
  <2>2. CASE diary[b].date = date
    <3>1. Fits(b, plan)
      BY <1>3, <2>1, <2>2 DEF upsertOverride, ActiveOn, Coming
    <3> QED
      BY <1>3, <2>2, <3>1 DEF upsertOverride, HoursTypeOK, Fits, PlanFor
  <2>3. CASE diary[b].date # date
    BY <1>3, <2>1, <2>3
       DEF upsertOverride, HoursTypeOK, EverybodyIsInside, Fits, PlanFor, WeeklyPlan
  <2> QED
    BY <2>2, <2>3
<1>4. ASSUME NEW date \in Date, deleteOverride(date)
      PROVE  (diary[b].forced \/ Fits(b, PlanFor(diary[b].date)))'
  <2>1. b \in Coming /\ diary[b].date \in Date
    BY <1>4 DEF deleteOverride, Coming, HoursTypeOK, DiaryRow
  <2>2. CASE diary[b].date = date
    <3>1. Fits(b, WeeklyPlan(date))
      BY <1>4, <2>1, <2>2 DEF deleteOverride, WeekCovers, ActiveOn, Coming
    <3> QED
      BY <1>4, <2>2, <3>1 DEF deleteOverride, HoursTypeOK, Fits, PlanFor, WeeklyPlan
  <2>3. CASE diary[b].date # date
    BY <1>4, <2>1, <2>3
       DEF deleteOverride, HoursTypeOK, EverybodyIsInside, Fits, PlanFor, WeeklyPlan
  <2> QED
    BY <2>2, <2>3
<1>5. CASE DayPasses
  <2>1. b \in Coming
    BY <1>5, DayPassesComing
  <2> QED
    BY <1>5, <2>1 DEF DayPasses, EverybodyIsInside, Fits, PlanFor, WeeklyPlan
<1>6. CASE UNCHANGED hoursVars
  BY <1>6 DEF hoursVars, EverybodyIsInside, Coming, Fits, PlanFor, WeeklyPlan
<1> QED
  BY <1>1, <1>2, <1>3, <1>4, <1>5, <1>6 DEF HoursNext

(* BusinessHoursService: every row of the plans and of the diary has its type. *)
THEOREM HoursTypeCorrect == HoursSpec => []HoursTypeOK
<1>1. HoursInit => HoursTypeOK
  BY InitHours
<1> QED
  BY <1>1, HoursTypeStep, PTL DEF HoursSpec

(* Bookings looked at are not left outside, and those not looked at are no
   more than the excess. *)
LEMMA FewAreLockedOut ==
    ASSUME IsFiniteSet(Appointment), HoursTypeOK, NEW week \in [Weekday -> Plan],
           updateWeekly(week)
    PROVE  Cardinality(LockedOut) <= Excess
<1>1. PICK seen \in LookedAt : \A b \in seen : Fits(b, week[WeekdayOf[diary[b].date]])
  BY DEF updateWeekly
<1>2. /\ IsFiniteSet(Coming) /\ seen \subseteq Coming
      /\ Cardinality(seen) = IF Cardinality(Coming) <= Limit THEN Cardinality(Coming) ELSE Limit
  BY <1>1, FS_Subset DEF Coming, LookedAt, Taken
<1>3. \A b \in seen : Fits(b, PlanFor(diary[b].date)) => Fits(b, PlanFor(diary[b].date))'
  BY <1>1 DEF updateWeekly, Fits, PlanFor, WeeklyPlan
<1>4. LockedOut \subseteq Coming \ seen
  BY <1>3 DEF LockedOut
<1>5. /\ IsFiniteSet(Coming \ seen) /\ Cardinality(LockedOut) <= Cardinality(Coming \ seen)
      /\ Cardinality(LockedOut) \in Nat
  BY <1>2, <1>4, FS_Subset, FS_CardinalityType
<1>6. /\ Cardinality(Coming) \in Nat /\ Cardinality(seen) \in Nat
      /\ Cardinality(Coming \ seen) = Cardinality(Coming) - Cardinality(seen)
  <2>1. IsFiniteSet(seen) /\ Coming \cap seen = seen
    BY <1>2, FS_Subset
  <2>2. QED
    BY <1>2, <2>1, FS_Difference, FS_CardinalityType
<1>7. QED
  BY <1>2, <1>5, <1>6, HoursAssumption DEF Excess

LEMMA EmptyIsWithin ==
    ASSUME IsFiniteSet(Appointment), LockedOut = {}
    PROVE  Cardinality(LockedOut) <= Excess
<1>1. IsFiniteSet(Coming)
  BY FS_Subset DEF Coming
<1>2. Cardinality(Coming) \in Nat
  BY <1>1, FS_CardinalityType
<1>3. QED
  BY <1>2, FS_EmptySet, HoursAssumption DEF Excess

LEMMA HoursChangeStep ==
    ASSUME IsFiniteSet(Appointment), HoursTypeOK, [HoursNext]_hoursVars
    PROVE  HoursChange
<1> USE HoursAssumption
<1>1. CASE UNCHANGED <<weekly, overrides>>
  BY <1>1, EmptyIsWithin DEF HoursChange, LockedOut, Fits, PlanFor, WeeklyPlan
<1>2. ASSUME NEW week \in [Weekday -> Plan], updateWeekly(week)
      PROVE  HoursChange
  BY <1>2, FewAreLockedOut DEF HoursChange, updateWeekly
<1>3. ASSUME NEW date \in Date, NEW plan \in Plan, upsertOverride(date, plan)
      PROVE  HoursChange
  <2>1. SUFFICES ASSUME NEW b \in Coming, Fits(b, PlanFor(diary[b].date))
                 PROVE  Fits(b, PlanFor(diary[b].date))'
    BY EmptyIsWithin DEF HoursChange, LockedOut
  <2>2. diary[b].date \in Date /\ (diary[b].date = date => Fits(b, plan))
    BY <1>3, <2>1 DEF upsertOverride, ActiveOn, Coming, HoursTypeOK, DiaryRow
  <2>3. QED
    BY <1>3, <2>1, <2>2 DEF upsertOverride, HoursTypeOK, Fits, PlanFor, WeeklyPlan
<1>4. ASSUME NEW date \in Date, deleteOverride(date)
      PROVE  HoursChange
  <2>1. SUFFICES ASSUME NEW b \in Coming, Fits(b, PlanFor(diary[b].date))
                 PROVE  Fits(b, PlanFor(diary[b].date))'
    BY EmptyIsWithin DEF HoursChange, LockedOut
  <2>2. diary[b].date \in Date /\ (diary[b].date = date => Fits(b, WeeklyPlan(date)))
    BY <1>4, <2>1 DEF deleteOverride, WeekCovers, ActiveOn, Coming, HoursTypeOK, DiaryRow
  <2>3. QED
    BY <1>4, <2>1, <2>2 DEF deleteOverride, HoursTypeOK, Fits, PlanFor, WeeklyPlan
<1>5. QED
  BY <1>1, <1>2, <1>3, <1>4 DEF HoursNext, PlaceAppointment, FreeAppointment, DayPasses, hoursVars

(* A new week leaves outside no more bookings than there are beyond the
   limit of its query, and the plan of a date leaves outside nobody: for any
   number of bookings and any limit. *)
THEOREM NobodyIsLockedOut ==
    ASSUME IsFiniteSet(Appointment)
    PROVE  HoursSpec => NobodyLockedOut
<1>1. HoursInit => HoursTypeOK
  BY InitHours
<1>2. HoursTypeOK /\ [HoursNext]_hoursVars => HoursTypeOK' /\ [HoursChange]_hoursVars
  BY HoursTypeStep, HoursChangeStep
<1>3. QED
  BY <1>1, <1>2, PTL DEF HoursSpec, NobodyLockedOut

(* As long as there are never more bookings to come than updateWeekly looks
   at, no booking is outside the hours unless the salon put it there.  The
   hypothesis is needed: with more of them the query misses some. *)
THEOREM EverybodyStaysInside ==
    ASSUME IsFiniteSet(Appointment)
    PROVE  HoursSpec /\ [](Cardinality(Coming) <= Limit) => []EverybodyIsInside
<1>1. HoursInit => HoursTypeOK /\ EverybodyIsInside
  BY InitHours DEF EverybodyIsInside
<1>2. HoursTypeOK /\ EverybodyIsInside /\ WithinLimit /\ [HoursNext]_hoursVars
         => HoursTypeOK' /\ EverybodyIsInside'
  BY HoursStep, HoursTypeStep
<1>3. [](Cardinality(Coming) <= Limit) => []WithinLimit
  BY PTL DEF WithinLimit
<1> QED
  BY <1>1, <1>2, <1>3, PTL DEF HoursSpec

(* Whatever the limit: on a date with a plan of its own nobody is outside.
   upsertOverride asks for all the bookings of its date. *)
THEOREM SpecialDaysAreKept == HoursSpec => []SpecialDaysKept
<1> USE HoursAssumption
<1>1. HoursInit => HoursTypeOK /\ SpecialDaysKept
  BY InitHours DEF SpecialDaysKept
<1>2. ASSUME HoursTypeOK, SpecialDaysKept, [HoursNext]_hoursVars
      PROVE  SpecialDaysKept'
  <2> SUFFICES ASSUME NEW b \in Coming', overrides'[diary'[b].date] # NoPlan
               PROVE  (diary[b].forced \/ Fits(b, overrides[diary[b].date]))'
    BY DEF SpecialDaysKept
  <2>1. CASE \/ \E c \in Appointment, date \in Date, hours \in Stretch, forced \in BOOLEAN :
                   PlaceAppointment(c, date, hours, forced)
             \/ \E c \in Appointment : FreeAppointment(c)
    <3>1. /\ UNCHANGED <<weekly, overrides, today>>
          /\ \/ b \in Coming /\ diary'[b] = diary[b]
             \/ /\ diary'[b].date \in Date
                /\ diary'[b].forced \/ \E interval \in PlanFor(diary'[b].date) :
                                          diary'[b].hours \subseteq interval
      BY <1>2, <2>1, ComingStep
    <3> QED
      BY <1>2, <3>1 DEF SpecialDaysKept, Fits, PlanFor
  <2>2. ASSUME NEW week \in [Weekday -> Plan], updateWeekly(week)
        PROVE  (diary[b].forced \/ Fits(b, overrides[diary[b].date]))'
    BY <1>2, <2>2 DEF updateWeekly, SpecialDaysKept, Coming, Fits
  <2>3. ASSUME NEW date \in Date, NEW plan \in Plan, upsertOverride(date, plan)
        PROVE  (diary[b].forced \/ Fits(b, overrides[diary[b].date]))'
    <3>1. b \in Coming /\ diary[b].date \in Date
      BY <1>2, <2>3 DEF upsertOverride, Coming, HoursTypeOK, DiaryRow
    <3>2. CASE diary[b].date = date
      BY <1>2, <2>3, <3>1, <3>2 DEF upsertOverride, ActiveOn, Coming, HoursTypeOK, Fits
    <3>3. CASE diary[b].date # date
      BY <1>2, <2>3, <3>1, <3>3 DEF upsertOverride, HoursTypeOK, SpecialDaysKept, Fits
    <3> QED
      BY <3>2, <3>3
  <2>4. ASSUME NEW date \in Date, deleteOverride(date)
        PROVE  (diary[b].forced \/ Fits(b, overrides[diary[b].date]))'
    <3>1. b \in Coming /\ diary[b].date \in Date
      BY <1>2, <2>4 DEF deleteOverride, Coming, HoursTypeOK, DiaryRow
    <3> QED
      BY <1>2, <2>4, <3>1 DEF deleteOverride, HoursTypeOK, SpecialDaysKept, Fits
  <2>5. CASE DayPasses
    <3>1. b \in Coming
      BY <1>2, <2>5, DayPassesComing
    <3> QED
      BY <1>2, <2>5, <3>1 DEF DayPasses, SpecialDaysKept, Fits
  <2>6. CASE UNCHANGED hoursVars
    BY <1>2, <2>6 DEF hoursVars, SpecialDaysKept, Coming, Fits
  <2> QED
    BY <1>2, <2>1, <2>2, <2>3, <2>4, <2>5, <2>6 DEF HoursNext
<1> QED
  BY <1>1, <1>2, HoursTypeStep, PTL DEF HoursSpec
-----------------------------------------------------------------------------
(* Forms *)

(* The versions of a template are numbered from 1 without a hole, each
   number stands in one row, and only the last may be a draft. *)
NumberedTo(t, n) ==
    /\ \A v \in VersionsOf(t) : v.version \in 1..n /\ (v.published \/ v.version = n)
    /\ \A k \in 1..n : \E v \in VersionsOf(t) : v.version = k
    /\ \A v, w \in VersionsOf(t) : v.version = w.version => v = w

Numbered == \A t \in Template : \E n \in 0..MaxVersion : NumberedTo(t, n)

(* A template that exists has a version. *)
TemplatesBegin == \A t \in Template : templates[t] = "NONE" <=> VersionsOf(t) = {}

(* What a writer knows stays true while it waits: its template exists, and
   below the version it is about to add there is a published one. *)
Knows(e) ==
    LET form == writers[e].form
    IN  /\ writers[e].op \in {"updateDraft", "publish"} =>
              form \in Template /\ templates[form] # "NONE"
        /\ writers[e].op = "updateDraft" /\ writers[e].fresh =>
              \E v \in VersionsOf(form) : v.published /\ v.version + 1 = writers[e].version
        /\ writers[e].op \in {"submit", "review"} => form \in Submission

WritersKnow == \A e \in Writer : Knows(e)

FormInv == FormTypeOK /\ Numbered /\ TemplatesBegin /\ WritersKnow

(* Where there are versions, the newest is the last number. *)
LEMMA LatestVersion ==
    ASSUME FormTypeOK, NEW t \in Template, NEW n \in 0..MaxVersion, NumberedTo(t, n),
           VersionsOf(t) # {}
    PROVE  /\ NewestVersion(VersionsOf(t)) \in VersionsOf(t)
           /\ NewestVersion(VersionsOf(t)).version = n
           /\ n # 0
<1>1. PICK v \in VersionsOf(t) : v.version = n /\ n # 0
  BY FormAssumption DEF NumberedTo
<1>2. \A w \in VersionsOf(t) : w.version <= v.version
  BY <1>1, FormAssumption DEF NumberedTo
<1>3. /\ NewestVersion(VersionsOf(t)) \in VersionsOf(t)
      /\ \A w \in VersionsOf(t) : w.version <= NewestVersion(VersionsOf(t)).version
  BY <1>2 DEF NewestVersion
<1> QED
  BY <1>1, <1>3, FormAssumption DEF NumberedTo

LEMMA LatestDraft ==
    ASSUME FormTypeOK, NEW t \in Template, NEW n \in 0..MaxVersion, NumberedTo(t, n),
           Draft(t) # {}
    PROVE  NewestVersion(Draft(t)) \in VersionsOf(t)
<1>1. PICK v \in Draft(t) : TRUE
  OBVIOUS
<1>2. \A w \in Draft(t) : w.version <= v.version
  BY <1>1, FormAssumption DEF NumberedTo, Draft
<1> QED
  BY <1>2 DEF NewestVersion, Draft

LEMMA NewestPublished ==
    ASSUME FormTypeOK, NEW t \in Template, NEW n \in 0..MaxVersion, NumberedTo(t, n),
           PublishedVersions(t) # {}
    PROVE  NewestVersion(PublishedVersions(t)).version \in 1..n
<1> USE FormAssumption
<1>1. \A v \in PublishedVersions(t) : v.version \in 1..n
  BY DEF NumberedTo, PublishedVersions
<1>2. \E v \in PublishedVersions(t) : \A w \in PublishedVersions(t) : w.version <= v.version
  <2>1. PICK v \in PublishedVersions(t) : TRUE
    OBVIOUS
  <2>2. n \in 1..n
    BY <1>1, <2>1
  <2>3. PICK last \in VersionsOf(t) : last.version = n
    BY <2>2 DEF NumberedTo
  <2>4. CASE last.published
    <3>1. last \in PublishedVersions(t)
      BY <2>4 DEF PublishedVersions
    <3> QED
      BY <1>1, <2>3, <3>1
  <2>5. CASE ~last.published
    <3>1. \A w \in PublishedVersions(t) : w.version \in 1..(n - 1)
      BY <1>1, <2>3, <2>5 DEF NumberedTo, PublishedVersions
    <3>2. n - 1 \in 1..n
      BY <2>1, <3>1
    <3>3. PICK w \in VersionsOf(t) : w.version = n - 1
      BY <3>2 DEF NumberedTo
    <3>4. w \in PublishedVersions(t)
      BY <3>3 DEF NumberedTo, PublishedVersions
    <3> QED
      BY <3>1, <3>3, <3>4
  <2> QED
    BY <2>4, <2>5
<1> QED
  BY <1>1, <1>2 DEF NewestVersion

(* A draft with the next number, when all the others are published. *)
LEMMA NextDraft ==
    ASSUME FormTypeOK, NEW t \in Template, NEW n \in Nat, NumberedTo(t, n),
           \A v \in VersionsOf(t) : v.published,
           versions' = versions \cup
              {[template |-> t, version |-> n + 1, copy |-> 1, published |-> FALSE]}
    PROVE  /\ NumberedTo(t, n + 1)'
           /\ VersionsOf(t)' # {}
           /\ VersionsOf(t) \subseteq VersionsOf(t)'
           /\ \A u \in Template \ {t} : VersionsOf(u)' = VersionsOf(u)
<1> DEFINE row == [template |-> t, version |-> n + 1, copy |-> 1, published |-> FALSE]
<1>1. row.template = t /\ row.version = n + 1
  OBVIOUS
<1>2. VersionsOf(t)' = VersionsOf(t) \cup {row}
  BY <1>1 DEF VersionsOf
<1>3. \A u \in Template \ {t} : VersionsOf(u)' = VersionsOf(u)
  BY <1>1 DEF VersionsOf
<1> HIDE DEF row
<1>4. \A v \in VersionsOf(t)' : v.version \in 1..(n + 1) /\ (v.published \/ v.version = n + 1)
  BY <1>1, <1>2 DEF NumberedTo
<1>5. \A k \in 1..(n + 1) : \E v \in VersionsOf(t)' : v.version = k
  BY <1>1, <1>2 DEF NumberedTo
<1>6. \A v, w \in VersionsOf(t)' : v.version = w.version => v = w
  BY <1>1, <1>2 DEF NumberedTo
<1> QED
  BY <1>2, <1>3, <1>4, <1>5, <1>6 DEF NumberedTo

(* To publish changes no number and no template. *)
LEMMA PublishKeeps ==
    ASSUME FormTypeOK, NEW t \in Template, NEW version,
           versions' = Publishes(t, version)
    PROVE  \A u \in Template :
              /\ VersionsOf(u)' = {} <=> VersionsOf(u) = {}
              /\ \A v \in VersionsOf(u) : v.published => v \in VersionsOf(u)'
              /\ \A n \in Nat : NumberedTo(u, n) => NumberedTo(u, n)'
<1> DEFINE After(v) == IF v.template = t /\ v.version = version
                       THEN [v EXCEPT !.published = TRUE] ELSE v
<1>1. versions' = {After(v) : v \in versions}
  BY DEF Publishes
<1>2. ASSUME NEW v \in versions
      PROVE  /\ After(v).template = v.template
             /\ After(v).version = v.version
             /\ v.published => After(v) = v /\ After(v).published
             /\ After(v).published \/ After(v) = v
  <2>1. v \in Version
    BY DEF FormTypeOK
  <2> QED
    BY <2>1 DEF Version
<1> HIDE DEF After
<1>3. ASSUME NEW u \in Template
      PROVE  VersionsOf(u)' = {After(v) : v \in VersionsOf(u)}
  BY <1>1, <1>2 DEF VersionsOf
<1>4. ASSUME NEW u \in Template, NEW n \in Nat, NumberedTo(u, n)
      PROVE  NumberedTo(u, n)'
  <2>1. \A v \in VersionsOf(u) : v \in versions
    BY DEF VersionsOf
  <2>2. \A v \in VersionsOf(u)' : v.version \in 1..n /\ (v.published \/ v.version = n)
    BY <1>2, <1>3, <1>4, <2>1 DEF NumberedTo
  <2>3. \A k \in 1..n : \E v \in VersionsOf(u)' : v.version = k
    BY <1>2, <1>3, <1>4, <2>1 DEF NumberedTo
  <2>4. \A v, w \in VersionsOf(u)' : v.version = w.version => v = w
    BY <1>2, <1>3, <1>4, <2>1 DEF NumberedTo
  <2> QED
    BY <2>2, <2>3, <2>4 DEF NumberedTo
<1>5. \A u \in Template : VersionsOf(u)' = {} <=> VersionsOf(u) = {}
  BY <1>3
<1>6. \A u \in Template : \A v \in VersionsOf(u) : v.published => v \in VersionsOf(u)'
  BY <1>2, <1>3 DEF VersionsOf
<1> QED
  BY <1>4, <1>5, <1>6

LEMMA InitForms == FormInit => FormInv
<1> USE FormAssumption
<1> SUFFICES ASSUME FormInit PROVE FormInv
  OBVIOUS
<1>1. NoSubmission \in SubmissionRow
  BY DEF NoSubmission, SubmissionRow
<1>2. NoWriter \in WriterRow
  BY DEF NoWriter, WriterRow
<1>3. FormTypeOK
  BY <1>1, <1>2 DEF FormInit, FormTypeOK, Status
<1>4. \A t \in Template : VersionsOf(t) = {}
  BY DEF FormInit, VersionsOf
<1>5. Numbered
  <2> SUFFICES ASSUME NEW t \in Template PROVE NumberedTo(t, 0)
    BY DEF Numbered
  <2> QED
    BY <1>4 DEF NumberedTo
<1>6. TemplatesBegin
  BY <1>4 DEF FormInit, TemplatesBegin
<1>7. WritersKnow
  BY DEF FormInit, WritersKnow, Knows, NoWriter
<1> QED
  BY <1>3, <1>5, <1>6, <1>7 DEF FormInv

(* What the writers read and the submissions: the versions and whether a
   template exists stay. *)
LEMMA ReadersKeepForms ==
    ASSUME FormInv, UNCHANGED versions,
           \A t \in Template : templates'[t] = "NONE" <=> templates[t] = "NONE"
    PROVE  Numbered' /\ TemplatesBegin'
BY DEF FormInv, Numbered, NumberedTo, TemplatesBegin, VersionsOf

(* A writer that stays in flight knows what it knew. *)
LEMMA KnowledgeStays ==
    ASSUME FormInv, NEW d \in Writer, writers'[d] = writers[d],
           \A t \in Template :
              /\ templates[t] # "NONE" => templates'[t] # "NONE"
              /\ \A v \in VersionsOf(t) : v.published => v \in VersionsOf(t)'
    PROVE  Knows(d)'
<1>1. Knows(d)
  BY DEF FormInv, WritersKnow
<1> DEFINE form == writers[d].form
<1>2. ASSUME writers[d].op \in {"updateDraft", "publish"}
      PROVE  form \in Template /\ templates'[form] # "NONE"
  BY <1>1, <1>2 DEF Knows
<1>3. ASSUME writers[d].op = "updateDraft", writers[d].fresh
      PROVE  \E v \in VersionsOf(form)' : v.published /\ v.version + 1 = writers[d].version
  BY <1>1, <1>2, <1>3 DEF Knows
<1> QED
  BY <1>1, <1>2, <1>3 DEF Knows, VersionsOf

(* The writer that has ended knows nothing; the others see their template
   and what is published of it. *)
LEMMA EndsKeeps ==
    ASSUME FormInv, NEW e \in Writer, Ends(e),
           \A t \in Template :
              /\ templates[t] # "NONE" => templates'[t] # "NONE"
              /\ \A v \in VersionsOf(t) : v.published => v \in VersionsOf(t)'
    PROVE  WritersKnow' /\ writers' \in [Writer -> WriterRow]
<1>1. NoWriter \in WriterRow /\ NoWriter.op = "none"
  BY FormAssumption DEF NoWriter, WriterRow
<1>2. writers' \in [Writer -> WriterRow]
  BY <1>1 DEF Ends, FormInv, FormTypeOK
<1>3. \A d \in Writer : writers'[d] = IF d = e THEN NoWriter ELSE writers[d]
  BY DEF Ends, FormInv, FormTypeOK
<1>4. ASSUME NEW d \in Writer PROVE Knows(d)'
  <2>1. CASE d = e
    BY <1>1, <1>3, <2>1 DEF Knows
  <2>2. CASE d # e
    BY <1>3, <2>2, KnowledgeStays
  <2> QED
    BY <2>1, <2>2
<1> QED
  BY <1>2, <1>4 DEF WritersKnow

(* A writer that begins knows what it has read. *)
LEMMA ReadsKeeps ==
    ASSUME FormInv, NEW e \in Writer, NEW row \in WriterRow, Reads(e, row),
           UNCHANGED <<templates, versions>>,
           row.op \in {"updateDraft", "publish"} =>
              row.form \in Template /\ templates[row.form] # "NONE",
           row.op = "updateDraft" /\ row.fresh =>
              \E v \in VersionsOf(row.form) : v.published /\ v.version + 1 = row.version,
           row.op \in {"submit", "review"} => row.form \in Submission
    PROVE  WritersKnow' /\ writers' \in [Writer -> WriterRow]
<1>1. writers' \in [Writer -> WriterRow]
  BY DEF Reads, FormInv, FormTypeOK
<1>2. \A d \in Writer : writers'[d] = IF d = e THEN row ELSE writers[d]
  BY DEF Reads, FormInv, FormTypeOK
<1>3. \A t \in Template : VersionsOf(t)' = VersionsOf(t)
  BY DEF VersionsOf
<1>4. ASSUME NEW d \in Writer PROVE Knows(d)'
  <2>1. CASE d = e
    BY <1>2, <2>1 DEF Knows, VersionsOf
  <2>2. CASE d # e
    BY <1>2, <1>3, <2>2, KnowledgeStays
  <2> QED
    BY <2>1, <2>2
<1> QED
  BY <1>1, <1>4 DEF WritersKnow

(* The operations that add or publish a version. *)
LEMMA CreateTemplateStep ==
    ASSUME FormInv, NEW t \in Template, createTemplate(t) PROVE FormInv'
<1> USE FormAssumption
<1> DEFINE row == [template |-> t, version |-> 1, copy |-> 1, published |-> FALSE]
<1>1. VersionsOf(t) = {}
  BY DEF createTemplate, FormInv, TemplatesBegin
<1>2. NumberedTo(t, 0)
  BY <1>1 DEF NumberedTo
<1>3. /\ NumberedTo(t, 1)'
      /\ VersionsOf(t)' # {}
      /\ VersionsOf(t) \subseteq VersionsOf(t)'
      /\ \A u \in Template \ {t} : VersionsOf(u)' = VersionsOf(u)
  BY <1>1, <1>2, NextDraft, 0 + 1 = 1 DEF createTemplate, FormInv
<1>4. FormTypeOK'
  <2>1. row \in Version
    BY DEF Version
  <2> QED
    BY <2>1 DEF createTemplate, FormInv, FormTypeOK, Status
<1>5. Numbered'
  <2>1. NumberedTo(t, 1)' /\ 1 \in 0..MaxVersion
    BY <1>3
  <2>2. \A u \in Template \ {t} : \A n : NumberedTo(u, n) => NumberedTo(u, n)'
    BY <1>3 DEF NumberedTo
  <2> QED
    BY <2>1, <2>2 DEF FormInv, Numbered
<1>6. TemplatesBegin'
  BY <1>3 DEF createTemplate, FormInv, FormTypeOK, TemplatesBegin
<1>7. WritersKnow'
  <2> SUFFICES ASSUME NEW d \in Writer PROVE Knows(d)'
    BY DEF WritersKnow
  <2>1. \A u \in Template :
           /\ templates[u] # "NONE" => templates'[u] # "NONE"
           /\ \A v \in VersionsOf(u) : v.published => v \in VersionsOf(u)'
    BY <1>1, <1>3 DEF createTemplate, FormInv, FormTypeOK
  <2> QED
    BY <2>1, KnowledgeStays DEF createTemplate
<1> QED
  BY <1>4, <1>5, <1>6, <1>7 DEF FormInv

LEMMA UpdateDraftStep ==
    ASSUME FormInv, NEW e \in Writer, updateDraft(e) PROVE FormInv'
<1> USE FormAssumption
<1>1. PICK t \in Template : t = writers[e].form /\ templates[t] # "NONE"
  BY DEF updateDraft, FormInv, WritersKnow, Knows
<1>2. PICK n \in 0..MaxVersion : NumberedTo(t, n)
  BY DEF FormInv, Numbered
<1>3. /\ templates' = [templates EXCEPT ![t] = "DRAFT"]
      /\ Ends(e)
      /\ submissions' = submissions
  BY <1>1 DEF updateDraft
<1>4. CASE ~writers[e].fresh
  <2>1. versions' = versions
    BY <1>4 DEF updateDraft
  <2>2. \A u \in Template : templates'[u] = "NONE" <=> templates[u] = "NONE"
    BY <1>1, <1>3 DEF FormInv, FormTypeOK
  <2>3. Numbered' /\ TemplatesBegin'
    BY <2>1, <2>2, ReadersKeepForms
  <2>4. WritersKnow' /\ writers' \in [Writer -> WriterRow]
    BY <1>3, <2>1, <2>2, EndsKeeps DEF VersionsOf
  <2>5. FormTypeOK'
    BY <1>3, <2>1, <2>4 DEF FormInv, FormTypeOK, Status
  <2> QED
    BY <2>3, <2>4, <2>5 DEF FormInv
<1>5. CASE writers[e].fresh
  <2> DEFINE row == [template |-> t, version |-> writers[e].version, copy |-> 1,
                     published |-> FALSE]
  <2>1. VersionIsFree(t, writers[e].version) /\ versions' = versions \cup {row}
    BY <1>1, <1>5 DEF updateDraft, VersionIsFree
  <2>2. PICK w \in VersionsOf(t) : w.published /\ w.version + 1 = writers[e].version
    BY <1>1, <1>5 DEF updateDraft, FormInv, WritersKnow, Knows
  <2>3. writers[e].version = n + 1 /\ w.version = n
    <3>1. w.version \in 1..n
      BY <1>2 DEF NumberedTo
    <3>2. w.version + 1 \notin 1..n
      BY <1>2, <2>1, <2>2 DEF NumberedTo, VersionIsFree
    <3> QED
      BY <2>2, <3>1, <3>2
  <2>4. \A v \in VersionsOf(t) : v.published
    BY <1>2, <2>2, <2>3 DEF NumberedTo
  <2>5. /\ NumberedTo(t, n + 1)'
        /\ VersionsOf(t)' # {}
        /\ VersionsOf(t) \subseteq VersionsOf(t)'
        /\ \A u \in Template \ {t} : VersionsOf(u)' = VersionsOf(u)
    BY <1>2, <2>1, <2>3, <2>4, NextDraft DEF FormInv
  <2>6. n + 1 \in 1..MaxVersion
    BY <2>3 DEF FormInv, FormTypeOK, WriterRow
  <2>7. \A u \in Template :
           /\ templates[u] # "NONE" => templates'[u] # "NONE"
           /\ \A v \in VersionsOf(u) : v.published => v \in VersionsOf(u)'
    BY <1>1, <1>3, <2>5 DEF FormInv, FormTypeOK
  <2>8. WritersKnow' /\ writers' \in [Writer -> WriterRow]
    BY <1>3, <2>7, EndsKeeps
  <2>9. FormTypeOK'
    <3>1. row \in Version
      BY <2>3, <2>6 DEF Version
    <3> QED
      BY <1>3, <2>1, <2>8, <3>1 DEF FormInv, FormTypeOK, Status
  <2>10. Numbered'
    <3>1. \A u \in Template \ {t} : \A k : NumberedTo(u, k) => NumberedTo(u, k)'
      BY <2>5 DEF NumberedTo
    <3> QED
      BY <2>5, <2>6, <3>1 DEF FormInv, Numbered
  <2>11. TemplatesBegin'
    BY <1>1, <1>3, <2>5 DEF FormInv, FormTypeOK, TemplatesBegin
  <2> QED
    BY <2>8, <2>9, <2>10, <2>11 DEF FormInv
<1> QED
  BY <1>4, <1>5

LEMMA PublishStep ==
    ASSUME FormInv, NEW e \in Writer, publish(e) PROVE FormInv'
<1> USE FormAssumption
<1>1. PICK t \in Template : t = writers[e].form /\ templates[t] # "NONE"
  BY DEF publish, FormInv, WritersKnow, Knows
<1>2. /\ versions' = Publishes(t, writers[e].version)
      /\ templates' = [templates EXCEPT ![t] = "PUBLISHED"]
      /\ Ends(e)
      /\ submissions' = submissions
  BY <1>1 DEF publish
<1>3. \A u \in Template :
         /\ VersionsOf(u)' = {} <=> VersionsOf(u) = {}
         /\ \A v \in VersionsOf(u) : v.published => v \in VersionsOf(u)'
         /\ \A n \in Nat : NumberedTo(u, n) => NumberedTo(u, n)'
  BY <1>2, PublishKeeps DEF FormInv
<1>4. \A u \in Template : templates'[u] = "NONE" <=> templates[u] = "NONE"
  BY <1>1, <1>2 DEF FormInv, FormTypeOK
<1>5. Numbered'
  BY <1>3 DEF FormInv, Numbered
<1>6. TemplatesBegin'
  BY <1>3, <1>4 DEF FormInv, TemplatesBegin
<1>7. WritersKnow' /\ writers' \in [Writer -> WriterRow]
  BY <1>2, <1>3, <1>4, EndsKeeps
<1>8. FormTypeOK'
  <2>1. \A v \in versions : [v EXCEPT !.published = TRUE] \in Version
    BY DEF FormInv, FormTypeOK, Version
  <2> QED
    BY <1>2, <1>7, <2>1 DEF Publishes, FormInv, FormTypeOK, Status
<1> QED
  BY <1>5, <1>6, <1>7, <1>8 DEF FormInv

(* What a request takes along has the type of its row. *)
LEMMA WriterRowMade ==
    ASSUME NEW op \in {"none", "updateDraft", "publish", "submit", "review"},
           NEW form \in Template \cup Submission \cup {NoForm},
           NEW version \in 0..MaxVersion, NEW fresh \in BOOLEAN
    PROVE  /\ [NoWriter EXCEPT !.op = op, !.form = form, !.fresh = fresh, !.version = version]
                 \in WriterRow
           /\ [NoWriter EXCEPT !.op = op, !.form = form, !.version = version] \in WriterRow
           /\ [NoWriter EXCEPT !.op = op, !.form = form] \in WriterRow
<1>1. NoWriter \in WriterRow
  BY FormAssumption DEF NoWriter, WriterRow
<1> HIDE DEF NoWriter
<1> QED
  BY <1>1 DEF WriterRow

(* A request that reads, when what it takes along is as it says. *)
LEMMA ReadsStep ==
    ASSUME FormInv, NEW e \in Writer, NEW row \in WriterRow, Reads(e, row),
           UNCHANGED <<templates, versions, submissions>>,
           row.op \in {"updateDraft", "publish"} =>
              row.form \in Template /\ templates[row.form] # "NONE",
           row.op = "updateDraft" /\ row.fresh =>
              \E v \in VersionsOf(row.form) : v.published /\ v.version + 1 = row.version,
           row.op \in {"submit", "review"} => row.form \in Submission
    PROVE  FormInv'
<1>1. WritersKnow' /\ writers' \in [Writer -> WriterRow]
  BY ReadsKeeps
<1>2. Numbered' /\ TemplatesBegin'
  BY ReadersKeepForms
<1>3. FormTypeOK'
  BY <1>1 DEF FormInv, FormTypeOK
<1> QED
  BY <1>1, <1>2, <1>3 DEF FormInv

LEMMA StartDraftStep ==
    ASSUME FormInv, NEW e \in Writer, NEW t \in Template, StartDraft(e, t) PROVE FormInv'
<1> USE FormAssumption
<1> DEFINE latest == NewestVersion(VersionsOf(t))
<1> DEFINE row == [NoWriter EXCEPT
              !.op = "updateDraft", !.form = t, !.fresh = latest.published,
              !.version = IF latest.published THEN latest.version + 1 ELSE latest.version]
<1>1. templates[t] # "NONE" /\ VersionsOf(t) # {}
  BY DEF StartDraft, FormInv, TemplatesBegin
<1>2. PICK n \in 0..MaxVersion : NumberedTo(t, n)
  BY DEF FormInv, Numbered
<1>3. latest \in VersionsOf(t) /\ latest.version = n
  BY <1>1, <1>2, LatestVersion DEF FormInv
<1>4. latest.published \in BOOLEAN
  BY <1>3 DEF VersionsOf, FormInv, FormTypeOK, Version
<1>5. latest.published => latest.version < MaxVersion
  BY DEF StartDraft
<1>6. Reads(e, row) /\ UNCHANGED <<templates, versions, submissions>>
  BY DEF StartDraft
<1> HIDE DEF latest
<1>7. /\ row \in WriterRow
      /\ row.op = "updateDraft" /\ row.form = t /\ row.fresh = latest.published
      /\ row.version = IF latest.published THEN latest.version + 1 ELSE latest.version
  <2> DEFINE version == IF latest.published THEN latest.version + 1 ELSE latest.version
  <2>1. version \in 0..MaxVersion
    BY <1>3, <1>4, <1>5
  <2> HIDE DEF version
  <2>2. row \in WriterRow
    BY <1>4, <2>1, WriterRowMade DEF version
  <2>3. /\ row.op = "updateDraft" /\ row.form = t /\ row.fresh = latest.published
        /\ row.version = version
    BY DEF NoWriter, version
  <2> QED
    BY <2>2, <2>3 DEF version
<1>8. row.fresh => \E v \in VersionsOf(t) : v.published /\ v.version + 1 = row.version
  BY <1>3, <1>7
<1> HIDE DEF row
<1> QED
  BY <1>1, <1>6, <1>7, <1>8, ReadsStep

LEMMA StartPublishStep ==
    ASSUME FormInv, NEW e \in Writer, NEW t \in Template, StartPublish(e, t) PROVE FormInv'
<1> USE FormAssumption
<1> DEFINE row == [NoWriter EXCEPT !.op = "publish", !.form = t,
                                   !.version = NewestVersion(Draft(t)).version]
<1>1. PICK n \in 0..MaxVersion : NumberedTo(t, n)
  BY DEF FormInv, Numbered
<1>2. NewestVersion(Draft(t)).version \in 0..MaxVersion
  BY <1>1, LatestDraft DEF StartPublish, FormInv, NumberedTo
<1>3. /\ row \in WriterRow
      /\ row.op = "publish" /\ row.form = t
  <2>1. row \in WriterRow
    BY <1>2, WriterRowMade
  <2> QED
    BY <2>1 DEF NoWriter
<1>4. Reads(e, row) /\ UNCHANGED <<templates, versions, submissions>> /\ templates[t] # "NONE"
  BY DEF StartPublish
<1> HIDE DEF row
<1> QED
  BY <1>3, <1>4, ReadsStep

(* The operations that only write a submission. *)
LEMMA SubmissionStep ==
    ASSUME FormInv, UNCHANGED <<templates, versions>>,
           submissions' \in [Submission -> SubmissionRow],
           WritersKnow' /\ writers' \in [Writer -> WriterRow]
    PROVE  FormInv'
<1>1. Numbered' /\ TemplatesBegin'
  BY ReadersKeepForms
<1>2. FormTypeOK'
  BY DEF FormInv, FormTypeOK
<1> QED
  BY <1>1, <1>2 DEF FormInv

LEMMA FormStep == FormInv /\ [FormNext]_formVars => FormInv'
<1> USE FormAssumption
<1> SUFFICES ASSUME FormInv, [FormNext]_formVars PROVE FormInv'
  OBVIOUS
<1>1. ASSUME NEW t \in Template, createTemplate(t) PROVE FormInv'
  BY <1>1, CreateTemplateStep
<1>2. ASSUME NEW t \in Template, archive(t) PROVE FormInv'
  <2>1. /\ UNCHANGED <<versions, submissions, writers>>
        /\ \A u \in Template : templates'[u] = "NONE" <=> templates[u] = "NONE"
        /\ templates' \in [Template -> Status]
    BY <1>2 DEF archive, FormInv, FormTypeOK, Status
  <2>2. Numbered' /\ TemplatesBegin'
    BY <2>1, ReadersKeepForms
  <2>3. \A d \in Writer : Knows(d)'
    BY <2>1, KnowledgeStays DEF VersionsOf
  <2> QED
    BY <2>1, <2>2, <2>3 DEF FormInv, FormTypeOK, WritersKnow
<1>3. ASSUME NEW t \in Template, NEW s \in Submission, assignRequiredForms(s, t)
      PROVE  FormInv'
  <2> DEFINE vs == PublishedVersions(t)
  <2>1. PICK n \in 0..MaxVersion : NumberedTo(t, n)
    BY DEF FormInv, Numbered
  <2>2. NewestVersion(vs).version \in 0..MaxVersion
    BY <1>3, <2>1, NewestPublished DEF assignRequiredForms, FormInv
  <2>3. [template |-> t, version |-> NewestVersion(vs).version, status |-> "PENDING"]
            \in SubmissionRow
    BY <2>2 DEF SubmissionRow
  <2>4. submissions' \in [Submission -> SubmissionRow]
    BY <1>3, <2>3 DEF assignRequiredForms, FormInv, FormTypeOK
  <2>5. UNCHANGED <<templates, versions, writers>>
    BY <1>3 DEF assignRequiredForms
  <2>6. \A d \in Writer : Knows(d)'
    BY <2>5, KnowledgeStays DEF VersionsOf
  <2> QED
    BY <2>4, <2>5, <2>6, SubmissionStep DEF WritersKnow, FormInv, FormTypeOK
<1>4. ASSUME NEW t \in Template, NEW e \in Writer, StartDraft(e, t) \/ StartPublish(e, t)
      PROVE  FormInv'
  BY <1>4, StartDraftStep, StartPublishStep
<1>5. ASSUME NEW e \in Writer, updateDraft(e) \/ publish(e)
      PROVE  FormInv'
  BY <1>5, UpdateDraftStep, PublishStep
<1>6. ASSUME NEW e \in Writer, submitForCustomer(e) \/ review(e) \/ DropWriter(e)
      PROVE  FormInv'
  <2>1. UNCHANGED <<templates, versions>> /\ Ends(e)
    BY <1>6 DEF submitForCustomer, review, DropWriter
  <2>2. WritersKnow' /\ writers' \in [Writer -> WriterRow]
    BY <2>1, EndsKeeps DEF VersionsOf
  <2>3. submissions' \in [Submission -> SubmissionRow]
    BY <1>6 DEF submitForCustomer, review, DropWriter, FormInv, FormTypeOK, SubmissionRow
  <2> QED
    BY <2>1, <2>2, <2>3, SubmissionStep
<1>7. ASSUME NEW e \in Writer, NEW s \in Submission,
             StartSubmission(e, s) \/ StartReview(e, s)
      PROVE  FormInv'
  <2>1. PICK op \in {"submit", "review"} :
           Reads(e, [NoWriter EXCEPT !.op = op, !.form = s])
    BY <1>7 DEF StartSubmission, StartReview
  <2> DEFINE row == [NoWriter EXCEPT !.op = op, !.form = s]
  <2>2. row \in WriterRow /\ row.op = op /\ row.form = s
    <3>1. 0 \in 0..MaxVersion /\ s \in Template \cup Submission \cup {NoForm}
      OBVIOUS
    <3>2. row \in WriterRow
      BY <3>1, WriterRowMade
    <3> QED
      BY <3>2 DEF NoWriter
  <2> HIDE DEF row
  <2>3. UNCHANGED <<templates, versions, submissions>>
    BY <1>7 DEF StartSubmission, StartReview
  <2> QED
    BY <2>1, <2>2, <2>3, ReadsStep DEF row
<1>8. CASE UNCHANGED formVars
  <2>1. UNCHANGED <<templates, versions, submissions, writers>>
    BY <1>8 DEF formVars
  <2>2. \A d \in Writer : Knows(d)'
    BY <2>1, KnowledgeStays DEF VersionsOf
  <2> QED
    BY <2>1, <2>2, SubmissionStep DEF WritersKnow, FormInv, FormTypeOK
<1> QED
  BY <1>1, <1>2, <1>3, <1>4, <1>5, <1>6, <1>7, <1>8 DEF FormNext

(* Numbers without a hole, one row each: there are as many rows as the last
   number says. *)
LEMMA NumberedCount ==
    ASSUME NEW t \in Template, NEW n \in Nat, NumberedTo(t, n)
    PROVE  /\ Cardinality(VersionsOf(t)) = n
           /\ {v.version : v \in VersionsOf(t)} = 1..n
<1> DEFINE Row == [k \in 1..n |-> CHOOSE v \in VersionsOf(t) : v.version = k]
<1>1. \A k \in 1..n : Row[k] \in VersionsOf(t) /\ Row[k].version = k
  BY DEF NumberedTo
<1>2. Row \in [1..n -> VersionsOf(t)]
  BY <1>1
<1> HIDE DEF Row
<1>3. \A v \in VersionsOf(t) : v.version \in 1..n /\ Row[v.version] = v
  BY <1>1 DEF NumberedTo
<1>4. Row \in Bijection(1..n, VersionsOf(t))
  BY <1>1, <1>2, <1>3, Fun_IsBij
<1>5. Cardinality(VersionsOf(t)) = n
  BY <1>4, FS_CountingElements DEF ExistsBijection
<1>6. {v.version : v \in VersionsOf(t)} = 1..n
  BY <1>1, <1>3
<1> QED
  BY <1>5, <1>6

(* FormsService: the templates, their versions, the submissions and what the
   requests in flight have read have their types. *)
THEOREM FormTypeCorrect == FormSpec => []FormTypeOK
<1>1. FormInv => FormTypeOK
  BY DEF FormInv
<1> QED
  BY <1>1, InitForms, FormStep, PTL DEF FormSpec

(* Whatever requests open, change and publish drafts of the same templates
   at the same time: the versions of a template are numbered from 1 without
   a hole, no number stands in two rows, and only the last is a draft. *)
THEOREM FormsHaveOneDraft == FormSpec => []OneDraft
<1>1. FormInv => OneDraft
  <2> SUFFICES ASSUME FormInv, NEW t \in Template
               PROVE  /\ {v.version : v \in VersionsOf(t)} = 1..Cardinality(VersionsOf(t))
                      /\ \A v \in Draft(t) : v.version = Cardinality(VersionsOf(t))
    BY DEF OneDraft
  <2>1. PICK n \in 0..MaxVersion : NumberedTo(t, n)
    BY DEF FormInv, Numbered
  <2>2. /\ Cardinality(VersionsOf(t)) = n
        /\ {v.version : v \in VersionsOf(t)} = 1..n
    BY <2>1, NumberedCount, FormAssumption
  <2> QED
    BY <2>1, <2>2 DEF NumberedTo, Draft
<1> QED
  BY <1>1, InitForms, FormStep, PTL DEF FormSpec

-----------------------------------------------------------------------------
(* The catalogue *)

CatalogueShape ==
    /\ DOMAIN edits = Editor
    /\ DOMAIN offered = Professional \X Service

LEMMA ShapeStays == CatalogueShape /\ [CatalogueNext]_catalogueVars => CatalogueShape'
BY DEF CatalogueShape, CatalogueNext, catalogueVars, StartService, updateService, StartProfessional,
       updateProfessional, StartConfigure, updateProfessionalService, StartResolve,
       resolveSelection, DropEdit, createService, Leaves, Opens, Closes

(* An edit of a list takes an offer away, adds one, or leaves it. *)
LEMMA ListsKeepSettings ==
    ASSUME CatalogueShape, NEW p \in Professional, NEW s \in Service, offered[<<p, s>>] # Nil,
           \/ \E e \in Editor : \/ \E active \in BOOLEAN, length \in Length,
                                     chosen \in SUBSET Professional :
                                     updateService(e, active, length, chosen)
                               \/ updateProfessional(e)
           \/ \E t \in Service, active \in BOOLEAN, length \in Length,
                 chosen \in SUBSET Professional : createService(t, active, length, chosen)
    PROVE  offered'[<<p, s>>] \in {Nil, offered[<<p, s>>]}
<1>1. \A old, chosen, had, x : old # Nil => Reassigned(old, chosen, had, x) \in {Nil, old}
  BY DEF Reassigned
<1>2. <<p, s>> \in DOMAIN offered
  BY DEF CatalogueShape
<1>3. ASSUME NEW e \in Editor, NEW active \in BOOLEAN, NEW length \in Length,
             NEW chosen \in SUBSET Professional, updateService(e, active, length, chosen)
      PROVE  offered'[<<p, s>>] \in {Nil, offered[<<p, s>>]}
  BY <1>1, <1>2, <1>3 DEF updateService
<1>4. ASSUME NEW e \in Editor, updateProfessional(e)
      PROVE  offered'[<<p, s>>] \in {Nil, offered[<<p, s>>]}
  BY <1>1, <1>2, <1>4 DEF updateProfessional
<1>5. ASSUME NEW t \in Service, NEW active \in BOOLEAN, NEW length \in Length,
             NEW chosen \in SUBSET Professional, createService(t, active, length, chosen)
      PROVE  offered'[<<p, s>>] \in {Nil, offered[<<p, s>>]}
  <2>1. t # s
    <3>1. p \in ProfessionalsOf(s)
      BY DEF ProfessionalsOf
    <3>2. ProfessionalsOf(t) = {}
      BY <1>5 DEF createService
    <3>3. QED
      BY <3>1, <3>2
  <2>2. QED
    BY <1>2, <1>5, <2>1 DEF createService
<1>6. QED
  BY <1>3, <1>4, <1>5

(* Who configures changes the one offer that is his. *)
LEMMA OnlyConfiguringChanges ==
    ASSUME CatalogueShape, [CatalogueNext]_catalogueVars,
           NEW o \in Professional \X Service,
           offered[o] # Nil, offered'[o] \notin {Nil, offered[o]}
    PROVE  \E e \in Editor : /\ edits[e].op = "configure" /\ edits'[e] = NoEdit
                            /\ o = <<edits[e].row, edits[e].of>>
                            /\ offered'[o] = edits[e].dto
<1>1. PICK p \in Professional, s \in Service : o = <<p, s>>
  OBVIOUS
<1>2. offered' # offered
  OBVIOUS
<1>3. \E e \in Editor : updateProfessionalService(e)
  BY <1>1, <1>2, ListsKeepSettings
     DEF CatalogueNext, catalogueVars, StartService, StartProfessional, StartConfigure,
         StartResolve, resolveSelection, DropEdit, Leaves
<1>4. PICK e \in Editor : updateProfessionalService(e)
  BY <1>3
<1>5. o = <<edits[e].row, edits[e].of>> /\ offered'[o] = edits[e].dto
  BY <1>4 DEF updateProfessionalService, CatalogueShape
<1>6. edits[e].op = "configure" /\ edits'[e] = NoEdit
  BY <1>4 DEF updateProfessionalService, Closes, CatalogueShape
<1>7. QED
  BY <1>5, <1>6

(* What was configured for a professional and a service changes by who
   configures it, for any number of requests that edit the lists of services
   and of professionals from a read that is past: createMany with
   skipDuplicates leaves alone the rows it did not know of. *)
THEOREM SettingsStay == CatalogueSpec => SettingsAreKept
<1>1. CatalogueInit => CatalogueShape
  BY DEF CatalogueInit, CatalogueShape
<1> DEFINE Kept ==
      \A o \in Professional \X Service :
          offered[o] # Nil /\ offered'[o] \notin {Nil, offered[o]} =>
              \E e \in Editor : /\ edits[e].op = "configure" /\ edits'[e] = NoEdit
                               /\ o = <<edits[e].row, edits[e].of>>
                               /\ offered'[o] = edits[e].dto
<1>2. CatalogueShape /\ [CatalogueNext]_catalogueVars => Kept
  BY OnlyConfiguringChanges
<1>3. CatalogueShape /\ [CatalogueNext]_catalogueVars => [Kept]_catalogueVars
  BY <1>2
<1> HIDE DEF Kept
<1>4. CatalogueSpec => [][Kept]_catalogueVars
  BY <1>1, <1>3, ShapeStays, PTL DEF CatalogueSpec
<1>5. QED
  BY <1>4 DEF Kept, SettingsAreKept

-----------------------------------------------------------------------------
(* Slots.  Begin is a recursive function; what it returns is shown to be a
   number by looking at the least argument for which it is none. *)

(* Any set of naturals that has an element has a least one. *)
LEMMA LeastNatural ==
    ASSUME NEW T, T \subseteq Nat, T # {}
    PROVE  \E x \in T : \A y \in T : x <= y
<1> DEFINE R == OpToRel(<, Nat)
<1>1. PICK x \in T : \A y \in T : ~ (<<y, x>> \in R)
  BY NatLessThanWellFounded, WFMin
<1>2. R = {ss \in Nat \X Nat : ss[1] < ss[2]}
  BY Zenon DEF OpToRel
<1> HIDE DEF R
<1>3. \A y \in Nat : y < x => <<y, x>> \in R
  BY <1>1, <1>2
<1>4. ASSUME NEW y \in T PROVE x <= y
  <2>1. x \in Nat /\ y \in Nat
    OBVIOUS
  <2>2. ~ (y < x)
    BY <1>1, <1>3, <2>1
  <2>3. QED
    BY <2>1, <2>2
<1>5. QED
  BY <1>4

(* Begin adds up, from the first service on. *)
IsSum(sum, plan) ==
    sum = [j \in 0..Len(plan) |-> IF j = 0 THEN 0 ELSE sum[j - 1] + plan[j].length]

(* Sums up to the n-th service *)
SumTo(sum, plan, n) ==
    /\ sum \in [0..n -> Nat]
    /\ \A j \in 0..n : sum[j] = IF j = 0 THEN 0 ELSE sum[j - 1] + plan[j].length

LEMMA LengthOfPlan ==
    ASSUME NEW plan \in Seq(ServicePlan)
    PROVE  /\ Len(plan) \in Nat
           /\ \A n \in 1..Len(plan) : plan[n].length \in Nat
<1>1. Len(plan) \in Nat /\ plan \in [1..Len(plan) -> ServicePlan]
  OBVIOUS
<1>2. \A s \in ServicePlan : s.length \in Nat
  BY DEF ServicePlan
<1>3. QED
  BY <1>1, <1>2

LEMMA SumExists ==
    ASSUME NEW plan \in Seq(ServicePlan)
    PROVE  \E sum : SumTo(sum, plan, Len(plan))
<1>0. /\ Len(plan) \in Nat
      /\ \A n \in 1..Len(plan) : plan[n].length \in Nat
  BY LengthOfPlan
<1> DEFINE T == {n \in 0..Len(plan) : ~ \E sum : SumTo(sum, plan, n)}
<1>1. SUFFICES ASSUME T # {} PROVE FALSE
  <2>1. Len(plan) \in 0..Len(plan)
    BY <1>0
  <2>2. QED
    BY <2>1
<1>2. PICK n \in T : \A m \in T : n <= m
  <2>1. T \subseteq Nat
    BY <1>0
  <2>2. QED
    BY <1>1, <2>1, LeastNatural, Zenon
<1>3. n \in 0..Len(plan) /\ ~ \E sum : SumTo(sum, plan, n)
  OBVIOUS
<1>4. n # 0
  <2>1. SumTo([j \in 0..0 |-> 0], plan, 0)
    BY DEF SumTo
  <2>2. QED
    BY <1>3, <2>1
<1>5. n - 1 \in 0..Len(plan) /\ n - 1 \notin T
  BY <1>2, <1>3, <1>4
<1>6. PICK sum : SumTo(sum, plan, n - 1)
  BY <1>5
<1> HIDE DEF T
<1>7. plan[n].length \in Nat
  BY <1>0, <1>3, <1>4
<1> DEFINE more == [j \in 0..n |-> IF j = n THEN sum[n - 1] + plan[n].length ELSE sum[j]]
<1>8. more \in [0..n -> Nat]
  BY <1>3, <1>4, <1>6, <1>7 DEF SumTo
<1>9. ASSUME NEW j \in 0..n
      PROVE  more[j] = IF j = 0 THEN 0 ELSE more[j - 1] + plan[j].length
  <2>1. CASE j = n
    BY <1>3, <1>4, <2>1
  <2>2. CASE j # n
    <3>1. j \in 0..n - 1
      BY <1>3, <2>2
    <3>2. sum[j] = IF j = 0 THEN 0 ELSE sum[j - 1] + plan[j].length
      BY <1>6, <3>1 DEF SumTo
    <3>3. QED
      BY <1>3, <2>2, <3>1, <3>2
  <2>3. QED
    BY <2>1, <2>2
<1>10. SumTo(more, plan, n)
  BY <1>8, <1>9 DEF SumTo
<1>11. QED
  BY <1>3, <1>10

(* A time at which a service begins is a number of minutes. *)
LEMMA BeginType ==
    ASSUME NEW plan \in Seq(ServicePlan), NEW i \in 1..Len(plan) + 1
    PROVE  Begin(plan, i) \in Nat
<1>0. /\ Len(plan) \in Nat
      /\ \A n \in 1..Len(plan) : plan[n].length \in Nat
  BY LengthOfPlan
<1>1. PICK some : SumTo(some, plan, Len(plan))
  BY SumExists
<1>2. some = [j \in 0..Len(plan) |-> some[j]]
  BY <1>1 DEF SumTo
<1>3. IsSum(some, plan)
  BY <1>1, <1>2 DEF SumTo, IsSum
<1> DEFINE sum == CHOOSE g : IsSum(g, plan)
<1>4. IsSum(sum, plan)
  BY <1>3
<1>5. Begin(plan, i) = sum[i - 1]
  BY DEF Begin, IsSum
<1> HIDE DEF sum
<1>6. \A j \in 0..Len(plan) : sum[j] = IF j = 0 THEN 0 ELSE sum[j - 1] + plan[j].length
  BY <1>4 DEF IsSum
<1> DEFINE T == {j \in 0..Len(plan) : sum[j] \notin Nat}
<1>7. T = {}
  <2>1. SUFFICES ASSUME T # {} PROVE FALSE
    OBVIOUS
  <2>2. PICK n \in T : \A m \in T : n <= m
    <3>1. T \subseteq Nat
      BY <1>0
    <3>2. QED
      BY <2>1, <3>1, LeastNatural, Zenon
  <2>3. n # 0
    BY <1>6, <2>2
  <2>4. n - 1 \in 0..Len(plan) /\ sum[n - 1] \in Nat
    BY <2>2, <2>3
  <2>5. plan[n].length \in Nat
    BY <1>0, <2>2, <2>3
  <2>6. QED
    BY <1>6, <2>2, <2>3, <2>4, <2>5
<1>8. i - 1 \in 0..Len(plan)
  OBVIOUS
<1>9. QED
  BY <1>5, <1>7, <1>8

(* The parts of an appointment are intervals of minutes that last. *)
LEMMA OccupancyType ==
    ASSUME NEW plan \in Seq(ServicePlan), NEW s \in Occupancy(plan)
    PROVE  s[1] \in Int /\ s[2] \in Int /\ s[1] < s[2]
<1> DEFINE Parts(i) ==
        LET p == plan[i]
            start == Begin(plan, i)
            end == start + p.length
        IN  {<<start - p.before, start>>, <<end, end + p.after>>} \cup
            (IF p.pause = 0 THEN {<<start, end>>}
             ELSE {<<start, start + p.phase>>, <<start + p.phase + p.pause, end>>})
<1>1. s[1] < s[2] /\ \E i \in 1..Len(plan) : s \in Parts(i)
  BY DEF Occupancy, Pushed
<1>2. PICK i \in 1..Len(plan) : s \in Parts(i)
  BY <1>1
<1>3. Begin(plan, i) \in Nat
  <2>1. i \in 1..Len(plan) + 1
    BY LengthOfPlan
  <2>2. QED
    BY <2>1, BeginType
<1>4. plan[i] \in ServicePlan
  OBVIOUS
<1>5. /\ plan[i].length \in Nat /\ plan[i].before \in Nat /\ plan[i].after \in Nat
      /\ plan[i].phase \in Nat /\ plan[i].pause \in Nat
  BY <1>4 DEF ServicePlan
<1> DEFINE b == Begin(plan, i)
<1>6. \/ s[1] = b - plan[i].before /\ s[2] = b
      \/ s[1] = b + plan[i].length /\ s[2] = b + plan[i].length + plan[i].after
      \/ s[1] = b /\ s[2] = b + plan[i].length
      \/ s[1] = b /\ s[2] = b + plan[i].phase
      \/ s[1] = b + plan[i].phase + plan[i].pause /\ s[2] = b + plan[i].length
  BY <1>2
<1>7. b \in Nat
  BY <1>3
<1> HIDE DEF b, Parts
<1>8. s[1] \in Int /\ s[2] \in Int
  <2> DEFINE l == plan[i].length
             x == plan[i].before
             y == plan[i].after
             u == plan[i].phase
             v == plan[i].pause
  <2>1. b \in Int /\ l \in Int /\ x \in Int /\ y \in Int /\ u \in Int /\ v \in Int
    BY <1>5, <1>7
  <2>2. \/ s[1] = b - x /\ s[2] = b
        \/ s[1] = b + l /\ s[2] = b + l + y
        \/ s[1] = b /\ s[2] = b + l
        \/ s[1] = b /\ s[2] = b + u
        \/ s[1] = b + u + v /\ s[2] = b + l
    BY <1>6
  <2> HIDE DEF l, x, y, u, v
  <2>3. QED
    BY <2>1, <2>2
<1>9. QED
  BY <1>1, <1>8

LEMMA DurationType ==
    ASSUME NEW plan \in Seq(ServicePlan)
    PROVE  Duration(plan) \in Nat
<1>1. Len(plan) + 1 \in 1..Len(plan) + 1
  BY LengthOfPlan
<1>2. QED
  BY <1>1, BeginType DEF Duration

(* A candidate is a minute. *)
LEMMA CandidateType ==
    ASSUME NEW q, Asked(q), NEW t \in Shown(q)
    PROVE  /\ t \in Int
           /\ Fitting(t, Duration(q.plan), Occupancy(q.plan), q.working,
                      {Clipped(b) : b \in q.busy})
<1> USE SlotAssumption
<1> DEFINE busy == {Clipped(b) : b \in q.busy}
<1>1. /\ t \in Cadence(q.working, Step(q)) \cup AfterBusy(Occupancy(q.plan), busy)
      /\ Fitting(t, Duration(q.plan), Occupancy(q.plan), q.working, busy)
  BY DEF Shown, Starts
<1>2. CASE t \in Cadence(q.working, Step(q))
  <2>1. PICK w \in q.working : t \in w[1]..w[2]
    BY <1>2 DEF Cadence
  <2>2. w[1] \in Int /\ w[2] \in Int
    BY <2>1 DEF Asked
  <2>3. QED
    BY <1>1, <2>1, <2>2
<1>3. CASE t \in AfterBusy(Occupancy(q.plan), busy)
  <2>1. PICK b \in q.busy, s \in Occupancy(q.plan) : t = Clipped(b)[2] - s[1]
    BY <1>3 DEF AfterBusy
  <2>2. Clipped(b)[2] \in Int
    BY <2>1 DEF Asked, Clipped
  <2>3. s[1] \in Int
    BY <2>1, OccupancyType DEF Asked
  <2>4. QED
    BY <1>1, <2>1, <2>2, <2>3
<1>4. QED
  BY <1>1, <1>2, <1>3

(* The calendar cuts what is busy at the ends of the day.  A part that lies
   in the hours loses nothing by it. *)
LEMMA CuttingIsHarmless ==
    ASSUME NEW q, Asked(q), NEW from \in Int, NEW to \in Int, from < to,
           Within(from, to, q.working)
    PROVE  Hits(from, to, q.busy) <=> Hits(from, to, {Clipped(b) : b \in q.busy})
<1> USE SlotAssumption
<1>1. 0 <= from /\ to <= EndOfDay
  <2>1. PICK w \in q.working : w[1] <= from /\ to <= w[2]
    BY DEF Within
  <2>2. w[1] \in 0..EndOfDay /\ w[2] \in 0..EndOfDay
    BY <2>1 DEF Asked
  <2>3. QED
    BY <2>1, <2>2
<1>2. ASSUME NEW b \in q.busy
      PROVE  /\ from < b[2] <=> from < Clipped(b)[2]
             /\ b[1] < to <=> Clipped(b)[1] < to
  <2>1. b[1] \in Int /\ b[2] \in Int
    BY DEF Asked
  <2>2. QED
    BY <1>1, <2>1 DEF Clipped
<1>3. QED
  BY <1>2 DEF Hits

(* Every start the calendar computes stands the check of a booking. *)
LEMMA ShownStands ==
    ASSUME NEW q, Asked(q), NEW t \in Shown(q)
    PROVE  Accepted(q, t)
<1> USE SlotAssumption
<1> DEFINE D == Duration(q.plan)
<1>1. /\ t \in Int
      /\ Fitting(t, D, Occupancy(q.plan), q.working, {Clipped(b) : b \in q.busy})
  BY CandidateType
<1>2. D \in Nat
  BY DurationType DEF Asked
<1> HIDE DEF D
<1>3. Within(t, t + D, q.working)
  BY <1>1 DEF Fitting
<1>4. 0 <= t /\ t + D <= EndOfDay
  <2>1. PICK w \in q.working : w[1] <= t /\ t + D <= w[2]
    BY <1>3 DEF Within
  <2>2. w[1] \in 0..EndOfDay /\ w[2] \in 0..EndOfDay
    BY <2>1 DEF Asked
  <2>3. QED
    BY <1>1, <1>2, <2>1, <2>2
<1>5. ASSUME NEW s \in Occupancy(q.plan)
      PROVE  /\ Within(t + s[1], t + s[2], q.working)
             /\ ~Hits(t + s[1], t + s[2], q.busy)
  <2>1. s[1] \in Int /\ s[2] \in Int /\ s[1] < s[2]
    BY OccupancyType DEF Asked
  <2>2. /\ Within(t + s[1], t + s[2], q.working)
        /\ ~Hits(t + s[1], t + s[2], {Clipped(b) : b \in q.busy})
    BY <1>1 DEF Fitting
  <2>3. t + s[1] \in Int /\ t + s[2] \in Int /\ t + s[1] < t + s[2]
    BY <1>1, <2>1
  <2>4. QED
    BY <2>2, <2>3, CuttingIsHarmless
<1>6. Within(t + <<0, D>>[1], t + <<0, D>>[2], q.working)
  BY <1>1, <1>3
<1>7. QED
  BY <1>4, <1>5, <1>6 DEF Accepted, D

(* A start right behind something busy is a candidate, and the booking's
   check is no weaker than the calendar's. *)
LEMMA RightBehindIsShown ==
    ASSUME NEW q, Asked(q), q.cutoff = 0,
           NEW t \in q.now + q.notice + 1..EndOfDay, RightBehind(q, t)
    PROVE  t \in Shown(q)
<1> USE SlotAssumption
<1> DEFINE D == Duration(q.plan)
           busy == {Clipped(b) : b \in q.busy}
<1>0. q.now \in Int /\ q.notice \in Nat
  BY DEF Asked
<1>1. t \in Int /\ t >= q.now + 1 /\ t >= q.now + q.notice
  BY <1>0
<1>2. Accepted(q, t)
  BY DEF RightBehind
<1>3. PICK s \in Occupancy(q.plan) : Hits(t - 1 + s[1], t - 1 + s[2], q.busy)
  BY DEF RightBehind
<1>4. PICK b \in q.busy : t - 1 + s[1] < b[2] /\ b[1] < t - 1 + s[2]
  BY <1>3 DEF Hits
<1>5. b[1] \in Int /\ b[2] \in Int
  BY <1>4 DEF Asked
<1>6. s[1] \in Int /\ s[2] \in Int /\ s[1] < s[2]
  BY <1>3, OccupancyType DEF Asked
<1>7. ~(t + s[1] < b[2] /\ b[1] < t + s[2])
  BY <1>2, <1>3, <1>4 DEF Accepted, Hits
<1>8. b[2] = t + s[1]
  BY <1>1, <1>4, <1>5, <1>6, <1>7
<1>9. t + s[1] < EndOfDay
  <2>1. Within(t + s[1], t + s[2], q.working)
    BY <1>2, <1>3 DEF Accepted
  <2>2. PICK w \in q.working : t + s[2] <= w[2]
    BY <2>1 DEF Within
  <2>3. w[2] \in 0..EndOfDay
    BY <2>2 DEF Asked
  <2>4. QED
    BY <1>1, <1>6, <2>2, <2>3
<1>10. Clipped(b)[2] = b[2]
  BY <1>5, <1>8, <1>9 DEF Clipped
<1>11. t \in AfterBusy(Occupancy(q.plan), busy)
  <2>1. t = Clipped(b)[2] - s[1]
    BY <1>1, <1>6, <1>8, <1>10
  <2>2. QED
    BY <1>3, <1>4, <2>1 DEF AfterBusy
<1> HIDE DEF busy
<1>12. Within(t, t + D, q.working)
  <2>1. Within(t + <<0, D>>[1], t + <<0, D>>[2], q.working)
    BY <1>2 DEF Accepted
  <2>2. t + <<0, D>>[1] = t /\ <<0, D>>[2] = D
    BY <1>1
  <2>3. QED
    BY <2>1, <2>2
<1>13. ASSUME NEW p \in Occupancy(q.plan)
       PROVE  /\ Within(t + p[1], t + p[2], q.working)
              /\ ~Hits(t + p[1], t + p[2], busy)
  <2>1. p[1] \in Int /\ p[2] \in Int /\ p[1] < p[2]
    BY OccupancyType DEF Asked
  <2>2. /\ Within(t + p[1], t + p[2], q.working)
        /\ ~Hits(t + p[1], t + p[2], q.busy)
    BY <1>2 DEF Accepted
  <2>3. t + p[1] \in Int /\ t + p[2] \in Int /\ t + p[1] < t + p[2]
    BY <1>1, <2>1
  <2>4. QED
    BY <2>2, <2>3, CuttingIsHarmless DEF busy
<1>14. t \in Starts(D, Occupancy(q.plan), q.working, busy, Step(q), q.now + 1)
  BY <1>1, <1>11, <1>12, <1>13 DEF Starts, Fitting
<1>15. QED
  BY <1>1, <1>14 DEF Shown, busy

(* The answer is that to the question. *)
SlotInv ==
    /\ query \in Query
    /\ answered \in BOOLEAN
    /\ answer = IF answered THEN Shown(query) ELSE {}

LEMMA SlotInvariant == SlotSpec => []SlotInv
<1>1. SlotInit => SlotInv
  BY DEF SlotInit, SlotInv
<1>2. SlotInv /\ [SlotNext]_slotVars => SlotInv'
  <2>1. SUFFICES ASSUME SlotInv, [SlotNext]_slotVars PROVE SlotInv'
    OBVIOUS
  <2>2. CASE get
    <3>1. query' = query /\ answered' = TRUE /\ answer' = Shown(query)
      BY <2>2 DEF get
    <3>2. QED
      BY <2>1, <3>1 DEF SlotInv
  <2>3. CASE UNCHANGED slotVars
    <3>1. query' = query /\ answered' = answered /\ answer' = answer
      BY <2>3 DEF slotVars
    <3>2. QED
      BY <2>1, <3>1 DEF SlotInv
  <2>4. QED
    BY <2>1, <2>2, <2>3 DEF SlotNext
<1>3. QED
  BY <1>1, <1>2, PTL DEF SlotSpec

(* Whatever the appointment is made of and whatever is busy, the booking
   accepts every start the calendar shows: get answers with nothing that
   assertAvailable refuses. *)
THEOREM ShownStartsAreAccepted == SlotSpec => []ShownIsAccepted
<1>1. SlotInv => ShownIsAccepted
  BY SlotAssumption, ShownStands DEF SlotInv, ShownIsAccepted
<1>2. QED
  BY <1>1, SlotInvariant, PTL

(* And no start that something busy alone keeps from being earlier is
   missing from the answer of get. *)
THEOREM GapsAreShown == SlotSpec => []GapIsShown
<1>1. SlotInv => GapIsShown
  <2>1. SUFFICES ASSUME SlotInv, answered, query.cutoff = 0,
                        NEW t \in query.now + query.notice + 1..EndOfDay,
                        RightBehind(query, t)
                 PROVE  t \in answer
    BY DEF GapIsShown
  <2>2. Asked(query) /\ answer = Shown(query)
    BY <2>1, SlotAssumption DEF SlotInv
  <2>3. QED
    BY <2>1, <2>2, RightBehindIsShown
<1>2. QED
  BY <1>1, SlotInvariant, PTL
=============================================================================
