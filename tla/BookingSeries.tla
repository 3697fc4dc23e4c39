----------------------------- MODULE BookingSeries -----------------------------
(***************************************************************************)
(* Series of appointments: BookingSeriesService on the schedule of         *)
(* BookingLifecycle.  A series is created as a whole, under the branch     *)
(* lock; it is cancelled from one of its occurrences on, without the lock  *)
(* and on the rows that were read before the transaction.                  *)
(***************************************************************************)
EXTENDS BookingLifecycle, Sequences

CONSTANTS
    Key,    \* idempotency keys, each of them one request of one customer
    Plan    \* the lists of places a series may ask for, on the dates of
            \* generateDates, one after another

ASSUME SeriesAssumption ==
    /\ Plan \subseteq Seq(AppointmentPlace) \ {<<>>}
    /\ \A plan \in Plan : \A i, j \in 1..Len(plan) :
          /\ i < j => StartAt[plan[i]] < StartAt[plan[j]]
          /\ i # j => /\ ~Overlap(Span[plan[i]], Span[plan[j]])
                      /\ ~Overlap(Busy[plan[i]], Busy[plan[j]])
    /\ None \notin Key

VARIABLES
    series,     \* table "booking_series", by idempotency key
    occurrence, \* series_id and occurrence_index of "bookings"
    reading     \* what a handler of this service has read

seriesVars == <<now, bookings, blocks, requests, offers, recovery, lock, tx, reopened,
                series, occurrence, reading>>

seriesOnly == <<series, occurrence, reading>>

-----------------------------------------------------------------------------
NoSeries == [key |-> None, index |-> 0]

(* rows: the bookings of the series as they were read; targets: those that
   are cancelled. *)
NotReading == [key |-> None, plan |-> <<>>, rows |-> [b \in {} |-> NoBooking], targets |-> {}]

Undecidable(row) == row.status \in {"PENDING_APPROVAL", "CONFIRMED"}

Occurrences(k) == {b \in Booking : occurrence[b].key = k}

(* The fresh rows a list of places may be written to, one for each. *)
RowsFor(plan) ==
    {f \in [1..Len(plan) -> {b \in Booking : FreshBooking(b)}] :
        \A i, j \in 1..Len(plan) : i # j => f[i] # f[j]}

EnoughRows(plan) == RowsFor(plan) # {}

FreshRows(plan) == CHOOSE f \in RowsFor(plan) : TRUE

SeriesStarts(c, op, r) ==
    /\ Starts(c, op, None, None, 0, FALSE)
    /\ reading' = [reading EXCEPT ![c] = r]

SeriesEnds(c) ==
    /\ Ends(c)
    /\ Unlocks(c)
    /\ reading' = [reading EXCEPT ![c] = NotReading]
    /\ UNCHANGED <<now, blocks, requests, offers, reopened>>

-----------------------------------------------------------------------------
(* createCustomer: the preview looks at every place on the public calendar,
   the transaction looks again at each of them under the lock. *)

previewCustomer(plan) == \A i \in 1..Len(plan) : Shown(plan[i])

BeginCreateSeries(c, k, plan) ==
    /\ "createSeries" \in Workload
    /\ previewCustomer(plan)
    /\ SeriesStarts(c, "createSeries", [NotReading EXCEPT !.key = k, !.plan = plan])
    /\ UNCHANGED <<series, occurrence>>

(* Mutant: the preview is trusted. *)
TrustsPreview(plan) == TRUE

AllAvailable(plan) == \A i \in 1..Len(plan) : Available(plan[i], None, None)

IsNew(k) == series[k] = "NONE"

(* The unique index on idempotency_key *)
KeyIsUnique(k) == series[k] = "NONE"

CreatesSeries(c) == Running(c, "createSeries") \/ Running(c, "createSeriesAdmin")

(* Mutant: the row of the series is saved on its own, before its bookings. *)
EnterSavesSeries(c) ==
    LET r == reading[c]
    IN  /\ CreatesSeries(c)
        /\ CanLock(c)
        /\ IsNew(r.key)
        /\ EnoughRows(r.plan)
        /\ Running(c, "createSeries") => AllAvailable(r.plan)
        /\ Locks(c)
        /\ series' = [series EXCEPT ![r.key] = "ACTIVE"]
        /\ UNCHANGED <<occurrence, reading>>

(* A series that exists is returned as it is. *)
EnterCreateSeries(c) ==
    LET r == reading[c]
    IN  /\ CreatesSeries(c)
        /\ CanLock(c)
        /\ IsNew(r.key)
        /\ EnoughRows(r.plan)
        /\ Running(c, "createSeries") => AllAvailable(r.plan)
        /\ Locks(c)
        /\ UNCHANGED seriesOnly

(* All the rows of the series, or none of them: the constraints are asked
   for each row. *)
OccurrenceRow(c, p) ==
    IF Running(c, "createSeries")
    THEN [NoBooking EXCEPT !.status = "PENDING_APPROVAL", !.place = p]
    ELSE [NoBooking EXCEPT !.status = "CONFIRMED", !.source = "MANUAL", !.place = p]

WriteCreateSeries(c) ==
    LET r == reading[c]
        rows == FreshRows(r.plan)
        index(b) == CHOOSE i \in 1..Len(r.plan) : rows[i] = b
        new == {rows[i] : i \in 1..Len(r.plan)}
    IN  /\ CreatesSeries(c)
        /\ lock = c
        /\ KeyIsUnique(r.key)
        /\ EnoughRows(r.plan)
        /\ \A i \in 1..Len(r.plan) :
              LET row == OccurrenceRow(c, r.plan[i])
              IN  ExclusionHolds(rows[i], row) /\ SegmentGuardHolds(rows[i], row)
        /\ bookings' = [b \in Booking |-> IF b \in new THEN OccurrenceRow(c, r.plan[index(b)])
                                                       ELSE bookings[b]]
        /\ occurrence' = [b \in Booking |-> IF b \in new THEN [key |-> r.key, index |-> index(b)]
                                                         ELSE occurrence[b]]
        /\ series' = [series EXCEPT ![r.key] = "ACTIVE"]
        /\ SeriesEnds(c)
        /\ UNCHANGED recovery

(* createAdmin asks neither the calendar nor the other bookings, only that
   nothing begins in the past. *)
BeginCreateSeriesAdmin(c, k, plan) ==
    /\ "createSeriesAdmin" \in Workload
    /\ \A i \in 1..Len(plan) : StartAt[plan[i]] > now
    /\ SeriesStarts(c, "createSeriesAdmin", [NotReading EXCEPT !.key = k, !.plan = plan])
    /\ UNCHANGED <<series, occurrence>>

-----------------------------------------------------------------------------
(* cancelCustomer and cancelAdmin *)

(* The future occurrences of the rows that were read, that are undecided or
   confirmed there. *)
ActiveFuture(rows) == {b \in DOMAIN rows : Undecidable(rows[b]) /\ StartAt[rows[b].place] > now}

BeginCancelSeries(c, op, k, from) ==
    LET rows == [b \in Occurrences(k) |-> bookings[b]]
        targets == {b \in ActiveFuture(rows) : occurrence[b].index >= from}
    IN  /\ op \in Workload
        /\ targets # {}
        /\ SeriesStarts(c, op, [key |-> k, plan |-> <<>>, rows |-> rows, targets |-> targets])
        /\ UNCHANGED <<series, occurrence>>

(* The customer's handler compares with what is in the future by now, the
   salon's with what was when it read.
   Mutant: the series is over when its last occurrence is cancelled. *)
LastIsCancelled(c) ==
    \E b \in reading[c].targets : \A d \in DOMAIN reading[c].rows :
        occurrence[d].index <= occurrence[b].index

WholeSeries(c) ==
    LET r == reading[c]
    IN  IF Running(c, "cancelSeries")
        THEN Cardinality(r.targets) = Cardinality(ActiveFuture(r.rows))
        ELSE \A b \in DOMAIN r.rows :
                Undecidable(r.rows[b]) /\ StartAt[r.rows[b].place] > tx[c].at => b \in r.targets

(* createMany of the events: one that exists already undoes it all.
   Mutant: events that exist are skipped. *)
SkipsDuplicates(es) == TRUE

EventsAreNew(es) == \A e \in es : ~Announced(e)

(* The update is by id, whatever the bookings have become, and the events
   name the places that were read. *)
WriteCancelSeries(c) ==
    LET r == reading[c]
        freed == {Freed("BOOKING_SERIES_CANCELLATION", b, 0, r.rows[b].place) : b \in r.targets}
    IN  /\ Running(c, "cancelSeries") \/ Running(c, "cancelSeriesAdmin")
        /\ EventsAreNew(freed)
        /\ bookings' = [b \in Booking |->
              IF b \in r.targets
              THEN [bookings[b] EXCEPT !.status = "CANCELLED", !.revision = @ + 1]
              ELSE bookings[b]]
        /\ series' = IF WholeSeries(c) THEN [series EXCEPT ![r.key] = "CANCELLED"] ELSE series
        /\ recovery' = recovery \cup freed
        /\ SeriesEnds(c)
        /\ UNCHANGED occurrence

(* A check, a constraint or the process fails: nothing is written. *)
SeriesGivesUp(c) ==
    /\ reading[c] # NotReading
    /\ Fails(c)
    /\ reading' = [reading EXCEPT ![c] = NotReading]
    /\ UNCHANGED <<series, occurrence>>

-----------------------------------------------------------------------------
SeriesInit ==
    /\ ScheduleInit
    /\ series = [k \in Key |-> "NONE"]
    /\ occurrence = [b \in Booking |-> NoSeries]
    /\ reading = [c \in Client |-> NotReading]

SeriesStep(c) ==
    \/ \E k \in Key, plan \in Plan :
          BeginCreateSeries(c, k, plan) \/ BeginCreateSeriesAdmin(c, k, plan)
    \/ EnterCreateSeries(c) \/ WriteCreateSeries(c)
    \/ \E k \in Key, b \in Booking, op \in {"cancelSeries", "cancelSeriesAdmin"} :
          occurrence[b].key = k /\ BeginCancelSeries(c, op, k, occurrence[b].index)
    \/ WriteCancelSeries(c)
    \/ SeriesGivesUp(c)

SeriesNext ==
    \/ \E c \in Client : SeriesStep(c)
    \/ /\ \/ \E c \in Client :
                \/ Begin(c) \/ Admission(c) \/ Write(c)
                \/ reading[c] = NotReading /\ GiveUp(c)
          \/ Timer
          \/ Tick
       /\ UNCHANGED seriesOnly

SeriesSpec == SeriesInit /\ [][SeriesNext]_seriesVars

-----------------------------------------------------------------------------
(* Properties *)

(* A series that exists has all its occurrences, one row for each, and rows
   of no other request: a request that is sent twice, or again while the
   first one is still waiting for the lock, does not book twice, and one that
   fails half way leaves no series that a repetition would take for done. *)
OneRowPerOccurrence ==
    \A k \in Key :
        /\ series[k] = "NONE" <=> Occurrences(k) = {}
        /\ \A a, b \in Occurrences(k) : occurrence[a].index = occurrence[b].index => a = b

(* A series that says CANCELLED has no occurrence left that still keeps a
   place in the future, in whatever order partial cancellations, by the
   customer and by the salon, and decisions on the occurrences commit. *)
CancelledSeriesIsOver ==
    \A k \in Key :
        series[k] = "CANCELLED" =>
            \A b \in Occurrences(k) : Active(b) => StartAt[bookings[b].place] <= now

(* Where the salon does not cancel single bookings, no occurrence is
   cancelled twice: of two cancellations of a series that have read the same
   rows the second is undone as a whole.  Nothing but the unique key of the
   recovery events sees to it. *)
OccurrenceCancelledOnce ==
    [][\A b \in Booking :
          bookings[b].status = "CANCELLED" => bookings'[b] = bookings[b]]_seriesVars

-----------------------------------------------------------------------------
(* What the repository says of itself, and the code does not do *)

(* bookings.service.ts:738, "this request has been concluded": a rejected
   occurrence is not cancelled, and not announced, a second time. *)
RejectedStays ==
    [][\A b \in Booking :
          bookings[b].status = "REJECTED" => bookings'[b].status = "REJECTED"]_seriesVars
=============================================================================
