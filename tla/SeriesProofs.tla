----------------------------- MODULE SeriesProofs -----------------------------
(***************************************************************************)
(* Proofs about BookingSeries: a series has one row for each occurrence,   *)
(* its bookings keep the rules of the calendar, and a cancelled series has *)
(* nothing left to come.  For any number of bookings, keys and clients.    *)
(***************************************************************************)
EXTENDS BookingSeries, BookingLifecycleProofs, FiniteSetTheorems

SeriesCreates == {"createSeries", "createSeriesAdmin"}

SeriesCancels == {"cancelSeries", "cancelSeriesAdmin"}

Reading == [key : Key \cup {None}, plan : Plan \cup {<<>>},
            rows : UNION {[S -> BookingRow] : S \in SUBSET Booking}, targets : SUBSET Booking]

SeriesTypeOK ==
    /\ series \in [Key -> {"NONE", "ACTIVE", "CANCELLED"}]
    /\ occurrence \in [Booking -> [key : Key \cup {None}, index : Nat]]
    /\ reading \in [Client -> Reading]

(* Who creates has a key and a plan, who cancels has read all the rows of
   its series and found something to cancel, nobody else has read. *)
ReaderOK(c) ==
    /\ tx[c].op \notin SeriesCreates \cup SeriesCancels => reading[c] = NotReading
    /\ tx[c].op \in SeriesCreates => reading[c].key \in Key /\ reading[c].plan \in Plan
    /\ tx[c].op \in SeriesCancels =>
          /\ reading[c].key \in Key
          /\ DOMAIN reading[c].rows = Occurrences(reading[c].key)
          /\ reading[c].targets \subseteq DOMAIN reading[c].rows
          /\ reading[c].targets # {}

ReadingOK == \A c \in Client : ReaderOK(c)

OccurrencesExist == \A b \in Booking : occurrence[b].key # None => bookings[b].status # "NONE"

(* What the creation of a series has found under the lock is still true:
   the key is new, and no block lies on its places. *)
SeriesStillNew(c) ==
    CreatesSeries(c) =>
        /\ series[reading[c].key] = "NONE"
        /\ Running(c, "createSeries") =>
              \A i \in 1..Len(reading[c].plan) : ~TakenByBlock(reading[c].plan[i])

LockProtectsSeries == \A c \in Client : lock = c => SeriesStillNew(c)

SeriesInv ==
    /\ IInv
    /\ SeriesTypeOK
    /\ ReadingOK
    /\ OccurrencesExist
    /\ OneRowPerOccurrence
    /\ LockProtectsSeries

-----------------------------------------------------------------------------
(* The rows a series is written to *)

PlanOf(c) == reading[c].plan

RowOf(c, i) == FreshRows(PlanOf(c))[i]

LEMMA PlanIs ==
    ASSUME NEW plan \in Plan, NEW i \in 1..Len(plan)
    PROVE  plan[i] \in AppointmentPlace /\ plan[i] \in Place /\ Len(plan) \in Nat
BY SeriesAssumption DEF AppointmentPlace

LEMMA RowsAreFresh ==
    ASSUME NEW plan, EnoughRows(plan), NEW i \in 1..Len(plan)
    PROVE  /\ FreshRows(plan)[i] \in Booking
           /\ FreshBooking(FreshRows(plan)[i])
           /\ \A j \in 1..Len(plan) : i # j => FreshRows(plan)[i] # FreshRows(plan)[j]
<1>1. FreshRows(plan) \in RowsFor(plan)
  BY DEF EnoughRows, FreshRows
<1>2. QED
  BY <1>1 DEF RowsFor

LEMMA OccurrenceRowIs ==
    ASSUME NEW c \in Client, CreatesSeries(c), NEW p \in Place
    PROVE  /\ OccurrenceRow(c, p) \in BookingRow
           /\ OccurrenceRow(c, p).status \in {"PENDING_APPROVAL", "CONFIRMED"}
           /\ OccurrenceRow(c, p).place = p
           /\ OccurrenceRow(c, p).source = "ONLINE" => Running(c, "createSeries")
           /\ ~OccurrenceRow(c, p).override
BY DEF OccurrenceRow, NoBooking, BookingRow, Status, CreatesSeries

(* A booking is left alone, or it is a row of the plan. *)
Untouched(b) == bookings'[b] = bookings[b] /\ occurrence'[b] = occurrence[b]

Becomes(c, b, i) ==
    /\ b = RowOf(c, i)
    /\ FreshBooking(b)
    /\ bookings'[b] = OccurrenceRow(c, PlanOf(c)[i])
    /\ occurrence'[b] = [key |-> reading[c].key, index |-> i]

LEMMA SeriesWritten ==
    ASSUME SeriesTypeOK, ReadingOK, NEW c \in Client, WriteCreateSeries(c)
    PROVE  /\ reading[c].key \in Key /\ PlanOf(c) \in Plan
           /\ \A b \in Booking : Untouched(b) \/ \E i \in 1..Len(PlanOf(c)) : Becomes(c, b, i)
           /\ \A i \in 1..Len(PlanOf(c)) : RowOf(c, i) \in Booking /\ Becomes(c, RowOf(c, i), i)
           /\ bookings' = [b \in Booking |-> bookings'[b]]
           /\ occurrence' = [b \in Booking |-> occurrence'[b]]
<1> DEFINE r == reading[c]
           rows == FreshRows(r.plan)
           index(b) == CHOOSE i \in 1..Len(r.plan) : rows[i] = b
           new == {rows[i] : i \in 1..Len(r.plan)}
<1>1. /\ CreatesSeries(c) /\ EnoughRows(r.plan)
      /\ bookings' = [b \in Booking |-> IF b \in new THEN OccurrenceRow(c, r.plan[index(b)])
                                                     ELSE bookings[b]]
      /\ occurrence' = [b \in Booking |-> IF b \in new THEN [key |-> r.key, index |-> index(b)]
                                                       ELSE occurrence[b]]
  BY DEF WriteCreateSeries
<1>2. r.key \in Key /\ r.plan \in Plan
  BY <1>1 DEF ReadingOK, ReaderOK, CreatesSeries, Running, SeriesCreates
<1>3. \A i \in 1..Len(r.plan) :
         /\ rows[i] \in Booking /\ FreshBooking(rows[i])
         /\ \A j \in 1..Len(r.plan) : i # j => rows[i] # rows[j]
  BY <1>1, RowsAreFresh
<1>4. ASSUME NEW i \in 1..Len(r.plan)
      PROVE  rows[i] \in Booking /\ Becomes(c, rows[i], i)
  <2>1. index(rows[i]) = i
    BY <1>3
  <2>2. rows[i] \in new /\ rows[i] \in Booking
    BY <1>3
  <2> HIDE DEF rows, index, new
  <2>3. /\ bookings'[rows[i]] = OccurrenceRow(c, r.plan[i])
        /\ occurrence'[rows[i]] = [key |-> r.key, index |-> i]
    BY <1>1, <2>1, <2>2
  <2>4. QED
    BY <1>3, <2>2, <2>3 DEF Becomes, RowOf, PlanOf, rows
<1>5. ASSUME NEW b \in Booking
      PROVE  Untouched(b) \/ \E i \in 1..Len(r.plan) : Becomes(c, b, i)
  BY <1>1, <1>4 DEF Untouched
<1>6. QED
  BY <1>1, <1>2, <1>4, <1>5 DEF PlanOf, RowOf

-----------------------------------------------------------------------------
(* The calendar after a series has been created *)

LEMMA CreateSeriesBase ==
    ASSUME SeriesInv, NEW c \in Client, WriteCreateSeries(c)
    PROVE  Base' /\ lock' = None
<1>1. /\ Base /\ SeriesTypeOK /\ ReadingOK
      /\ CreatesSeries(c) /\ lock = c /\ Ends(c) /\ Unlocks(c) /\ recovery' = recovery
      /\ UNCHANGED <<now, blocks, requests, offers, reopened>>
  BY DEF SeriesInv, IInv, Base, WriteCreateSeries, SeriesEnds
<1>2. ASSUME NEW b \in Booking
      PROVE  /\ bookings'[b] \in BookingRow
             /\ bookings'[b].status # "NONE" => bookings'[b].place \in Place
             /\ bookings[b].status # "NONE" => bookings'[b].status # "NONE"
             /\ \/ bookings'[b] = bookings[b]
                \/ \A d \in Client : tx[d].subject # b
  <2>1. CASE Untouched(b)
    BY <1>1, <2>1, RowTypes DEF Untouched
  <2>2. ASSUME NEW i \in 1..Len(PlanOf(c)), Becomes(c, b, i)
        PROVE  /\ bookings'[b] \in BookingRow /\ bookings'[b].place \in Place
               /\ bookings'[b].status # "NONE" /\ \A d \in Client : tx[d].subject # b
    <3>1. PlanOf(c)[i] \in Place
      BY <1>1, SeriesWritten, PlanIs
    <3>2. QED
      BY <1>1, <2>2, <3>1, OccurrenceRowIs DEF Becomes, FreshBooking
  <2>3. QED
    BY <1>1, <2>1, <2>2, SeriesWritten
<1>3. bookings' \in [Booking -> BookingRow]
  <2>1. bookings' = [b \in Booking |-> bookings'[b]]
    BY <1>1, SeriesWritten
  <2>2. QED
    BY <1>2, <2>1
<1>4. lock' = None
  BY <1>1 DEF Unlocks
<1>5. TypeOK'
  BY <1>1, <1>2, <1>3, <1>4, IdleIsTransaction DEF Base, TypeOK, ScheduleTypeOK, Ends
<1>6. /\ tx'[c] = Idle
      /\ \A d \in Client \ {c} : tx'[d] = tx[d]
      /\ LockOK'
  BY <1>1, EndsHandlers
<1>7. HandlerOK'
  BY <1>1, <1>2, <1>6, IdleHandles DEF Base, HandlerOK
<1>8. QED
  BY <1>4, <1>5, <1>6, <1>7 DEF Base

(* What the constraints, the assumption on plans and the check under the
   lock say of an occurrence that is being written. *)
LEMMA OccurrenceFits ==
    ASSUME SeriesInv, NEW c \in Client, WriteCreateSeries(c),
           NEW b \in Booking, NEW i \in 1..Len(PlanOf(c)), Becomes(c, b, i)
    PROVE  /\ bookings'[b].place = PlanOf(c)[i]
           /\ ExclusionHolds(b, bookings'[b]) /\ SegmentGuardHolds(b, bookings'[b])
           /\ Exclusive(bookings'[b]) => ~TakenByBlock(PlanOf(c)[i])
           /\ \A a \in Booking, j \in 1..Len(PlanOf(c)) :
                 a # b /\ Becomes(c, a, j) =>
                    /\ ~Overlap(Span[bookings'[a].place], Span[bookings'[b].place])
                    /\ ~Overlap(Busy[bookings'[a].place], Busy[bookings'[b].place])
<1>1. CreatesSeries(c) /\ lock = c /\ PlanOf(c) \in Plan
  BY SeriesWritten DEF SeriesInv, WriteCreateSeries
<1>2. bookings'[b] = OccurrenceRow(c, PlanOf(c)[i]) /\ PlanOf(c)[i] \in Place
  BY <1>1, PlanIs DEF Becomes
<1>3. bookings'[b].place = PlanOf(c)[i]
  BY <1>1, <1>2, OccurrenceRowIs
<1>4. ExclusionHolds(b, bookings'[b]) /\ SegmentGuardHolds(b, bookings'[b])
  BY <1>2 DEF WriteCreateSeries, Becomes, RowOf, PlanOf
<1>5. ASSUME Exclusive(bookings'[b])
      PROVE  ~TakenByBlock(PlanOf(c)[i])
  <2>1. Running(c, "createSeries")
    BY <1>1, <1>2, <1>5, OccurrenceRowIs DEF Exclusive
  <2>2. SeriesStillNew(c)
    BY <1>1 DEF SeriesInv, LockProtectsSeries
  <2>3. QED
    BY <1>1, <2>1, <2>2 DEF SeriesStillNew, PlanOf
<1>6. ASSUME NEW a \in Booking, NEW j \in 1..Len(PlanOf(c)), a # b, Becomes(c, a, j)
      PROVE  /\ ~Overlap(Span[bookings'[a].place], Span[bookings'[b].place])
             /\ ~Overlap(Busy[bookings'[a].place], Busy[bookings'[b].place])
  <2>1. bookings'[a].place = PlanOf(c)[j]
    BY <1>1, <1>6, PlanIs, OccurrenceRowIs DEF Becomes
  <2>2. i # j
    BY <1>6 DEF Becomes
  <2>3. QED
    BY <1>1, <1>3, <2>1, <2>2, SeriesAssumption
<1>7. QED
  BY <1>3, <1>4, <1>5, <1>6

LEMMA CreateSeriesIInv ==
    ASSUME SeriesInv, NEW c \in Client, WriteCreateSeries(c)
    PROVE  IInv'
<1> DEFINE n == Len(PlanOf(c))
<1>1. /\ Base /\ SeriesTypeOK /\ ReadingOK /\ NoOverlap /\ OnlineDisjoint /\ BlockClear
      /\ UNCHANGED <<blocks, reopened>>
  BY DEF SeriesInv, IInv, Base, WriteCreateSeries, SeriesEnds
<1>2. \A b \in Booking : Untouched(b) \/ \E i \in 1..n : Becomes(c, b, i)
  BY <1>1, SeriesWritten
<1>3. NoOverlap'
  <2> SUFFICES ASSUME NEW a \in Booking, NEW b \in Booking, a # b,
                      Exclusive(bookings'[a]), Exclusive(bookings'[b])
               PROVE  ~Overlap(Span[bookings'[a].place], Span[bookings'[b].place])
    BY DEF NoOverlap, Exclusive
  <2>1. CASE Untouched(a) /\ Untouched(b)
    BY <1>1, <2>1 DEF NoOverlap, Untouched
  <2>2. ASSUME NEW d \in Booking, NEW e \in Booking, d # e, Untouched(d), Exclusive(bookings'[d]),
               Exclusive(bookings'[e]), NEW i \in 1..n, Becomes(c, e, i)
        PROVE  ~Overlap(Span[bookings'[d].place], Span[bookings'[e].place])
    BY <2>2, OccurrenceFits DEF ExclusionHolds, Untouched
  <2>3. QED
    BY <1>2, <2>1, <2>2, OccurrenceFits, OverlapSymmetric
<1>4. OnlineDisjoint'
  <2> SUFFICES ASSUME NEW a \in Booking \ reopened, NEW b \in Booking \ reopened, a # b,
                      Active(a)', Active(b)', Online(a)', Online(b)'
               PROVE  ~Overlap(Busy[bookings'[a].place], Busy[bookings'[b].place])
    BY <1>1 DEF OnlineDisjoint
  <2>1. CASE Untouched(a) /\ Untouched(b)
    BY <1>1, <2>1 DEF OnlineDisjoint, Untouched, Active, Online
  <2>2. ASSUME NEW d \in Booking, NEW e \in Booking, d # e, Untouched(d), Active(d)', Active(e)',
               Online(e)', NEW i \in 1..n, Becomes(c, e, i)
        PROVE  ~Overlap(Busy[bookings'[d].place], Busy[bookings'[e].place])
    BY <2>2, OccurrenceFits DEF SegmentGuardHolds, TakenByBooking, Untouched, Active, Online
  <2>3. QED
    BY <1>2, <2>1, <2>2, OccurrenceFits, OverlapSymmetric
<1>5. BlockClear'
  <2> SUFFICES ASSUME NEW b \in Booking \ reopened, NEW k \in Block,
                      Exclusive(bookings'[b]), blocks[k].status = "ACTIVE"
               PROVE  ~Overlap(Busy[bookings'[b].place] \cap Span[bookings'[b].place],
                               Span[blocks[k].place])
    BY <1>1 DEF BlockClear, Exclusive
  <2>1. CASE Untouched(b)
    BY <1>1, <2>1 DEF BlockClear, Untouched
  <2>2. ASSUME NEW i \in 1..n, Becomes(c, b, i)
        PROVE  ~Overlap(Busy[bookings'[b].place] \cap Span[bookings'[b].place],
                        Span[blocks[k].place])
    <3>1. bookings'[b].place = PlanOf(c)[i] /\ ~TakenByBlock(PlanOf(c)[i])
      BY <2>2, OccurrenceFits
    <3>2. QED
      BY <3>1 DEF TakenByBlock, Overlap
  <2>3. QED
    BY <1>2, <2>1, <2>2
<1>6. LockProtectsCheck'
  BY CreateSeriesBase, NoneAssumption DEF LockProtectsCheck
<1>7. QED
  BY <1>3, <1>4, <1>5, <1>6, CreateSeriesBase DEF IInv, Base

(* A cancellation only takes bookings off the calendar. *)
LEMMA CancelSeriesWritten ==
    ASSUME SeriesInv, NEW c \in Client, WriteCancelSeries(c)
    PROVE  /\ reading[c].key \in Key /\ reading[c].targets \subseteq Booking
           /\ bookings' \in [Booking -> BookingRow]
           /\ \A b \in Booking : b \notin reading[c].targets => bookings'[b] = bookings[b]
           /\ \A b \in reading[c].targets :
                 /\ bookings'[b].status = "CANCELLED" /\ bookings'[b].place = bookings[b].place
                 /\ bookings[b].status # "NONE"
                 /\ occurrence[b].key = reading[c].key
                 /\ b \in DOMAIN reading[c].rows
           /\ recovery' \subseteq RecoveryEvent
<1> DEFINE r == reading[c]
<1>1. /\ r.key \in Key /\ r.key # None /\ DOMAIN r.rows = Occurrences(r.key)
      /\ r.targets \subseteq DOMAIN r.rows
  BY SeriesAssumption DEF SeriesInv, ReadingOK, ReaderOK, WriteCancelSeries, Running, SeriesCancels
<1>2. \A b \in r.targets : b \in Booking /\ occurrence[b].key = r.key
  BY <1>1 DEF Occurrences
<1>3. \A b \in r.targets : bookings[b].status # "NONE"
  BY <1>1, <1>2 DEF SeriesInv, OccurrencesExist
<1>4. bookings \in [Booking -> BookingRow] /\ recovery \subseteq RecoveryEvent
  BY DEF SeriesInv, IInv, TypeOK, ScheduleTypeOK
<1>5. ASSUME NEW b \in Booking
      PROVE  LET row == [bookings[b] EXCEPT !.status = "CANCELLED", !.revision = @ + 1]
             IN  row \in BookingRow /\ row.status = "CANCELLED" /\ row.place = bookings[b].place
  <2>1. bookings[b] \in BookingRow /\ bookings[b].revision + 1 \in Nat
    BY <1>4 DEF BookingRow
  <2>2. [bookings[b] EXCEPT !.status = "CANCELLED", !.revision = @ + 1] \in BookingRow
    BY <2>1, Zenon DEF BookingRow, Status
  <2>3. QED
    BY <2>1, <2>2 DEF BookingRow
<1>6. /\ bookings' = [b \in Booking |->
             IF b \in r.targets
             THEN [bookings[b] EXCEPT !.status = "CANCELLED", !.revision = @ + 1]
             ELSE bookings[b]]
      /\ recovery' = recovery \cup {Freed("BOOKING_SERIES_CANCELLATION", b, 0, r.rows[b].place) :
                                       b \in r.targets}
  BY DEF WriteCancelSeries
<1>7. bookings' \in [Booking -> BookingRow]
  BY <1>4, <1>5, <1>6
<1>8. recovery' \subseteq RecoveryEvent
  <2>1. r \in Reading
    BY DEF SeriesInv, SeriesTypeOK
  <2>2. PICK S \in SUBSET Booking : r.rows \in [S -> BookingRow]
    BY <2>1 DEF Reading
  <2>3. ASSUME NEW b \in r.targets
        PROVE  Freed("BOOKING_SERIES_CANCELLATION", b, 0, r.rows[b].place) \in RecoveryEvent
    <3>1. r.rows[b] \in BookingRow
      BY <1>1, <2>2
    <3>2. QED
      BY <1>2, <3>1 DEF Freed, RecoveryEvent, RecoverySource, BookingRow
  <2>4. QED
    BY <1>4, <1>6, <2>3
<1>9. QED
  BY <1>1, <1>2, <1>3, <1>5, <1>6, <1>7, <1>8

LEMMA CancelSeriesIInv ==
    ASSUME SeriesInv, NEW c \in Client, WriteCancelSeries(c)
    PROVE  IInv'
<1>1. /\ Base /\ IInv /\ Ends(c) /\ Unlocks(c)
      /\ UNCHANGED <<now, blocks, requests, offers, reopened>>
  BY DEF SeriesInv, IInv, Base, WriteCancelSeries, SeriesEnds
<1>2. \A b \in Booking :
         \/ bookings'[b] = bookings[b]
         \/ /\ bookings'[b].status = "CANCELLED" /\ bookings'[b].place = bookings[b].place
            /\ bookings[b].status # "NONE"
  BY CancelSeriesWritten
<1>3. TypeOK'
  <2>1. /\ bookings' \in [Booking -> BookingRow] /\ recovery' \subseteq RecoveryEvent
        /\ \A b \in Booking : bookings'[b].status # "NONE" => bookings'[b].place \in Place
    BY <1>1, <1>2, CancelSeriesWritten, RowTypes
  <2>2. QED
    BY <1>1, <2>1, IdleIsTransaction DEF Base, TypeOK, ScheduleTypeOK, Ends, Unlocks
<1>4. /\ tx'[c] = Idle
      /\ \A d \in Client \ {c} : tx'[d] = tx[d]
      /\ LockOK'
  BY <1>1, EndsHandlers
<1>5. HandlerOK'
  BY <1>1, <1>2, <1>4, IdleHandles DEF Base, HandlerOK
<1>6. \A b \in Booking :
         /\ Active(b)' => bookings'[b] = bookings[b]
         /\ Exclusive(bookings'[b]) => bookings'[b] = bookings[b]
  BY <1>2 DEF Active, Exclusive, Blocking
<1>7. OnlineDisjoint' /\ NoOverlap'
  BY <1>1, <1>6 DEF IInv, OnlineDisjoint, NoOverlap, Active, Online, Exclusive
<1>8. BlockClear'
  BY <1>1, <1>6 DEF IInv, BlockClear, Exclusive
<1>9. LockProtectsCheck'
  <2> SUFFICES ASSUME NEW d \in Client, lock' = d
               PROVE  CheckStillHolds(d)'
    BY DEF LockProtectsCheck
  <2>1. lock = d /\ tx'[d] = tx[d]
    BY <1>1, <1>4, NoneAssumption DEF Unlocks
  <2>2. CheckStillHolds(d)
    BY <1>1, <2>1 DEF IInv, LockProtectsCheck
  <2>3. QED
    BY <1>1, <1>6, <2>1, <2>2, SameReservations, ReservationsFade
       DEF CheckStillHolds, Running, TakenByBlock, Exclusive
<1>10. QED
  BY <1>3, <1>4, <1>5, <1>7, <1>8, <1>9 DEF IInv

-----------------------------------------------------------------------------
(* What keeps the rest of the invariant *)

LEMMA ReadersStay ==
    ASSUME ReadingOK,
           \A d \in Client : \/ tx'[d] = tx[d] /\ reading'[d] = reading[d]
                             \/ ReaderOK(d)',
           \A k \in Key : Occurrences(k) # {} => Occurrences(k)' = Occurrences(k)
    PROVE  ReadingOK'
<1> SUFFICES ASSUME NEW d \in Client, tx'[d] = tx[d], reading'[d] = reading[d]
             PROVE  ReaderOK(d)'
  BY DEF ReadingOK
<1>1. ReaderOK(d)
  BY DEF ReadingOK
<1>2. QED
  BY <1>1 DEF ReaderOK

LEMMA IdleReads ==
    ASSUME NEW c \in Client, tx'[c].op \notin SeriesCreates \cup SeriesCancels,
           reading'[c] = NotReading
    PROVE  ReaderOK(c)'
BY DEF ReaderOK

LEMMA IdleIsNoSeries == Idle.op \notin SeriesCreates \cup SeriesCancels
BY DEF Idle, SeriesCreates, SeriesCancels

LEMMA NotReadingType == NotReading \in Reading
<1>1. NotReading.rows \in [{} -> BookingRow]
  BY DEF NotReading
<1>2. {} \in SUBSET Booking
  OBVIOUS
<1>3. NotReading.rows \in UNION {[S -> BookingRow] : S \in SUBSET Booking}
  BY <1>1, <1>2
<1>4. QED
  BY <1>3 DEF NotReading, Reading

(* A step that has nothing to do with series. *)
LEMMA SeriesStaysOut ==
    ASSUME SeriesInv, IInv', UNCHANGED seriesOnly,
           \A b \in Booking : bookings[b].status # "NONE" => bookings'[b].status # "NONE",
           \A d \in Client :
              /\ \/ tx'[d] = tx[d]
                 \/ /\ tx'[d].op \notin SeriesCreates \cup SeriesCancels
                    /\ reading[d] = NotReading
              /\ lock' = d /\ tx'[d].op \in SeriesCreates =>
                    tx'[d] = tx[d] /\ lock = d /\ blocks' = blocks
    PROVE  SeriesInv'
<1>1. SeriesTypeOK' /\ OneRowPerOccurrence'
  BY DEF SeriesInv, SeriesTypeOK, OneRowPerOccurrence, Occurrences, seriesOnly
<1>2. ReadingOK'
  BY ReadersStay, IdleReads DEF SeriesInv, seriesOnly, Occurrences
<1>3. OccurrencesExist'
  BY DEF SeriesInv, OccurrencesExist, seriesOnly
<1>4. LockProtectsSeries'
  <2> SUFFICES ASSUME NEW d \in Client, lock' = d, CreatesSeries(d)'
               PROVE  SeriesStillNew(d)'
    BY DEF LockProtectsSeries, SeriesStillNew
  <2>1. tx'[d] = tx[d] /\ lock = d /\ blocks' = blocks
    BY DEF CreatesSeries, Running, SeriesCreates
  <2>2. SeriesStillNew(d)
    BY <2>1 DEF SeriesInv, LockProtectsSeries
  <2>3. QED
    BY <2>1, <2>2 DEF SeriesStillNew, CreatesSeries, Running, TakenByBlock, seriesOnly
<1>5. QED
  BY <1>1, <1>2, <1>3, <1>4 DEF SeriesInv

(* The steps of bookings and blocks, as they are taken beside series. *)
BookingPart ==
    /\ \/ \E c \in Client :
             \/ Begin(c) \/ Admission(c) \/ Write(c)
             \/ reading[c] = NotReading /\ GiveUp(c)
       \/ Timer
       \/ Tick
    /\ UNCHANGED seriesOnly

LEMMA BookingPartIsCalendar ==
    ASSUME SeriesInv, BookingPart
    PROVE  IInv' /\ CalendarStep
BY NextIInv, NextCalendar DEF SeriesInv, BookingPart, BookingNext

LEMMA WriteOps ==
    ASSUME NEW c \in Client, Write(c)
    PROVE  tx[c].op \in {"createHold", "create"} \cup ExistingOps \cup BlockOps /\ Ends(c)
BY DEF Write, WriteHold, WriteConfirm, WriteConfirmBlocked, WriteApprove, WriteReject, WriteCancel,
       WriteCreate, WriteReschedule, WriteUpdateDetails, WriteMarkNoShow, WriteRevertNoShow,
       WriteCreateBlock, WriteUpdateBlock, WriteCancelBlock, Puts, PutsBlock, Running, ExistingOps,
       BlockOps

LEMMA BeginOps ==
    ASSUME NEW c \in Client, Begin(c)
    PROVE  \E op \in Workload \cap ({"createHold", "create"} \cup ExistingOps \cup BlockOps) :
              \E subject, target, revision, override :
              Starts(c, op, subject, target, revision, override)
BY DEF Begin, BeginHold, BeginConfirm, BeginApprove, BeginReject, BeginCancel, BeginCreate,
       BeginReschedule, BeginUpdateDetails, BeginMarkNoShow, BeginRevertNoShow, BeginCreateBlock,
       BeginUpdateBlock, BeginCancelBlock, ExistingOps, BlockOps

LEMMA AdmissionOps ==
    ASSUME NEW c \in Client, Admission(c)
    PROVE  Locks(c)
BY DEF Admission, EnterHold, EnterReschedule, EnterUpdateDetails, EnterCreateBlock,
       EnterUpdateBlock, Enter

(* Who begins, writes or gives up there is not reading a series. *)
LEMMA BookingPartReaders ==
    ASSUME SeriesInv, BookingPart, NEW d \in Client
    PROVE  tx'[d] = tx[d] \/ reading[d] = NotReading
<1>1. tx \in [Client -> Transaction] /\ ReadingOK
  BY DEF SeriesInv, IInv, TypeOK, ScheduleTypeOK
<1>2. ASSUME NEW c \in Client, Begin(c) \/ Write(c)
      PROVE  tx[c].op \notin SeriesCreates \cup SeriesCancels /\ (d # c => tx'[d] = tx[d])
  <2>1. CASE Begin(c)
    <3>1. tx[c] = Idle /\ (d # c => tx'[d] = tx[d])
      BY <1>1, <2>1, BeginOps DEF Starts
    <3>2. QED
      BY <3>1, IdleIsNoSeries
  <2>2. CASE Write(c)
    BY <1>1, <2>2, WriteOps DEF Ends, ExistingOps, BlockOps, SeriesCreates, SeriesCancels
  <2>3. QED
    BY <1>2, <2>1, <2>2
<1>3. ASSUME NEW c \in Client, Begin(c) \/ Write(c)
      PROVE  tx'[d] = tx[d] \/ reading[d] = NotReading
  BY <1>1, <1>2, <1>3 DEF ReadingOK, ReaderOK
<1>4. ASSUME NEW c \in Client, Admission(c)
      PROVE  tx' = tx
  BY <1>4, AdmissionOps DEF Locks
<1>5. ASSUME NEW c \in Client, GiveUp(c), reading[c] = NotReading
      PROVE  tx'[d] = tx[d] \/ reading[d] = NotReading
  BY <1>1, <1>5 DEF GiveUp, Fails, Ends
<1>6. ASSUME Timer \/ Tick
      PROVE  tx' = tx
  BY <1>6 DEF Timer, expireStaleHolds, ExpiresHolds, expirePastPending, Tick
<1>7. QED
  BY <1>3, <1>4, <1>5, <1>6 DEF BookingPart

LEMMA BookingPartRows ==
    ASSUME SeriesInv, CalendarStep, NEW b \in Booking, bookings[b].status # "NONE"
    PROVE  bookings'[b].status # "NONE"
<1>1. CASE NoBookingMoves
  BY <1>1 DEF NoBookingMoves, Expires
<1>2. CASE OneBooking
  <2>1. PICK c \in Client, a \in Booking, row \in BookingRow : BookingWrite(c, a, row)
    BY <1>2 DEF OneBooking
  <2>2. Base /\ Commits(c, a, row) /\ row.status # "NONE"
    BY <2>1 DEF BookingWrite, SeriesInv, IInv, Base
  <2>3. QED
    BY <2>2, CommitEffect
<1>3. QED
  BY <1>1, <1>2 DEF CalendarStep

LEMMA BookingPartInv ==
    ASSUME SeriesInv, BookingPart
    PROVE  SeriesInv'
<1>1. IInv' /\ CalendarStep /\ UNCHANGED seriesOnly
  BY BookingPartIsCalendar DEF BookingPart
<1>2. ASSUME NEW d \in Client
      PROVE  /\ \/ tx'[d] = tx[d]
                \/ tx'[d].op \notin SeriesCreates \cup SeriesCancels /\ reading[d] = NotReading
             /\ lock' = d /\ tx'[d].op \in SeriesCreates =>
                   tx'[d] = tx[d] /\ lock = d /\ blocks' = blocks
  <2>1. tx'[d] = tx[d] \/ tx'[d] = Idle \/ tx'[d].op \in BookingOps
    BY <1>1 DEF CalendarStep, OwnHandlers
  <2>2. tx'[d] = tx[d] \/ tx'[d].op \notin SeriesCreates \cup SeriesCancels
    BY <2>1, IdleIsNoSeries DEF BookingOps, ExistingOps, BlockOps, SeriesCreates, SeriesCancels
  <2>3. ASSUME lock' = d, tx'[d].op \in SeriesCreates
        PROVE  tx'[d] = tx[d] /\ lock = d /\ blocks' = blocks
    <3>1. tx'[d] = tx[d] /\ (lock = d \/ tx[d].op \in BookingOps)
      BY <1>1, <2>3 DEF CalendarStep, OwnHandlers
    <3>2. lock = d
      BY <2>3, <3>1 DEF BookingOps, ExistingOps, BlockOps, SeriesCreates
    <3>3. blocks' = blocks
      BY <1>1, <2>3, NoneAssumption
         DEF CalendarStep, OneBooking, NoBookingMoves, BookingWrite, Commits
    <3>4. QED
      BY <3>1, <3>2, <3>3
  <2>4. QED
    BY <2>2, <2>3, BookingPartReaders
<1>3. QED
  BY <1>1, <1>2, BookingPartRows, SeriesStaysOut

-----------------------------------------------------------------------------
(* The steps of series *)

LEMMA SeriesBegins ==
    ASSUME SeriesInv, NEW c \in Client, NEW op \in SeriesCreates \cup SeriesCancels,
           NEW r \in Reading, SeriesStarts(c, op, r), UNCHANGED <<series, occurrence>>,
           op \in SeriesCreates => r.key \in Key /\ r.plan \in Plan,
           op \in SeriesCancels =>
              /\ r.key \in Key /\ DOMAIN r.rows = Occurrences(r.key)
              /\ r.targets \subseteq DOMAIN r.rows /\ r.targets # {}
    PROVE  SeriesInv'
<1>1. /\ tx \in [Client -> Transaction] /\ reading \in [Client -> Reading]
      /\ Starts(c, op, None, None, 0, FALSE) /\ reading' = [reading EXCEPT ![c] = r]
      /\ Base
  BY DEF SeriesInv, SeriesTypeOK, IInv, TypeOK, ScheduleTypeOK, SeriesStarts, Base
<1>2. /\ tx[c] = Idle /\ tx'[c].op = op /\ reading'[c] = r
      /\ \A d \in Client \ {c} : tx'[d] = tx[d] /\ reading'[d] = reading[d]
      /\ UNCHANGED <<now, bookings, blocks, requests, offers, recovery, lock, reopened>>
  BY <1>1 DEF Starts
<1>3. IInv'
  <2>1. /\ op \in Operation /\ None \in Subject
        /\ op \notin CreateOps \cup ExistingOps \cup BlockOps /\ op # "reschedule"
    BY DEF SeriesCreates, SeriesCancels, Operation, Subject, CreateOps, ExistingOps, BlockOps
  <2>2. op \notin CreateOps /\ op \notin ExistingOps /\ op \notin BlockOps
    BY <2>1
  <2>3. Base'
    BY <1>1, <2>1, <2>2, StartsBase
  <2>4. QED
    BY <1>1, <2>3, StartsIInv DEF SeriesInv
<1>4. SeriesTypeOK' /\ OneRowPerOccurrence' /\ OccurrencesExist'
  BY <1>1, <1>2
     DEF SeriesInv, SeriesTypeOK, OneRowPerOccurrence, Occurrences, OccurrencesExist
<1>5. ReadingOK'
  <2>1. op \in SeriesCreates => op \notin SeriesCancels
    BY DEF SeriesCreates, SeriesCancels
  <2>2. ReaderOK(c)'
    BY <1>2, <2>1 DEF ReaderOK, Occurrences
  <2>3. QED
    BY <1>2, <2>2, ReadersStay DEF SeriesInv, Occurrences
<1>6. LockProtectsSeries'
  <2> SUFFICES ASSUME NEW d \in Client, lock = d
               PROVE  SeriesStillNew(d)'
    BY <1>2 DEF LockProtectsSeries
  <2>1. d # c
    BY <1>2 DEF SeriesInv, IInv, LockOK
  <2>2. SeriesStillNew(d)
    BY DEF SeriesInv, LockProtectsSeries
  <2>3. QED
    BY <1>2, <2>1, <2>2 DEF SeriesStillNew, CreatesSeries, Running, TakenByBlock
<1>7. QED
  BY <1>3, <1>4, <1>5, <1>6 DEF SeriesInv

LEMMA BeginCreateSeriesInv ==
    ASSUME SeriesInv, NEW c \in Client, NEW k \in Key, NEW plan \in Plan,
           BeginCreateSeries(c, k, plan) \/ BeginCreateSeriesAdmin(c, k, plan)
    PROVE  SeriesInv'
<1> DEFINE r == [NotReading EXCEPT !.key = k, !.plan = plan]
<1>1. r \in Reading /\ r.key = k /\ r.plan = plan
  <2>1. NotReading \in Reading
    BY NotReadingType
  <2>2. QED
    BY <2>1 DEF Reading
<1>2. \E op \in SeriesCreates : SeriesStarts(c, op, r)
  BY DEF BeginCreateSeries, BeginCreateSeriesAdmin, SeriesCreates
<1>3. UNCHANGED <<series, occurrence>>
  BY DEF BeginCreateSeries, BeginCreateSeriesAdmin
<1>4. SeriesCreates \cap SeriesCancels = {}
  BY DEF SeriesCreates, SeriesCancels
<1> HIDE DEF r
<1>5. QED
  BY <1>1, <1>2, <1>3, <1>4, SeriesBegins

LEMMA BeginCancelSeriesInv ==
    ASSUME SeriesInv, NEW c \in Client, NEW k \in Key, NEW op \in SeriesCancels, NEW from,
           BeginCancelSeries(c, op, k, from)
    PROVE  SeriesInv'
<1> DEFINE rows == [b \in Occurrences(k) |-> bookings[b]]
           targets == {b \in ActiveFuture(rows) : occurrence[b].index >= from}
           r == [key |-> k, plan |-> <<>>, rows |-> rows, targets |-> targets]
<1>1. targets # {} /\ SeriesStarts(c, op, r) /\ UNCHANGED <<series, occurrence>>
  BY DEF BeginCancelSeries
<1>2. /\ rows \in [Occurrences(k) -> BookingRow] /\ DOMAIN rows = Occurrences(k)
      /\ Occurrences(k) \subseteq Booking
  BY DEF SeriesInv, IInv, TypeOK, ScheduleTypeOK, Occurrences
<1>3. targets \subseteq DOMAIN rows
  BY DEF ActiveFuture
<1>4. r \in Reading
  <2>1. rows \in UNION {[S -> BookingRow] : S \in SUBSET Booking}
    BY <1>2
  <2>2. QED
    BY <1>2, <1>3, <2>1 DEF Reading
<1>5. r.key = k /\ r.rows = rows /\ r.targets = targets
  OBVIOUS
<1>6. op \notin SeriesCreates
  BY DEF SeriesCreates, SeriesCancels
<1> HIDE DEF rows, targets, r
<1>7. QED
  BY <1>1, <1>2, <1>3, <1>4, <1>5, <1>6, SeriesBegins

LEMMA EnterCreateSeriesInv ==
    ASSUME SeriesInv, NEW c \in Client, EnterCreateSeries(c)
    PROVE  SeriesInv'
<1>1. /\ CreatesSeries(c) /\ Locks(c) /\ UNCHANGED seriesOnly
      /\ series[reading[c].key] = "NONE"
      /\ Running(c, "createSeries") => AllAvailable(reading[c].plan)
  BY DEF EnterCreateSeries, IsNew
<1>2. IInv'
  <2>1. Base'
    BY <1>1, LocksBase DEF SeriesInv, IInv, Base, CreatesSeries, Running, Idle
  <2>2. OnlineDisjoint' /\ NoOverlap' /\ BlockClear'
    BY <1>1, CalmStep DEF SeriesInv, IInv, Locks
  <2>3. LockProtectsCheck'
    BY <1>1 DEF Locks, LockProtectsCheck, CheckStillHolds, CreatesSeries, Running
  <2>4. QED
    BY <2>1, <2>2, <2>3 DEF IInv, Base
<1>3. SeriesTypeOK' /\ OneRowPerOccurrence' /\ OccurrencesExist'
  BY <1>1
     DEF SeriesInv, SeriesTypeOK, OneRowPerOccurrence, Occurrences, OccurrencesExist, seriesOnly,
         Locks
<1>4. ReadingOK'
  BY <1>1, ReadersStay DEF SeriesInv, seriesOnly, Locks, Occurrences
<1>5. LockProtectsSeries'
  <2>1. SeriesStillNew(c)'
    BY <1>1
       DEF SeriesStillNew, CreatesSeries, Running, AllAvailable, Available, TakenByBlock, Locks,
           seriesOnly
  <2>2. QED
    BY <1>1, <2>1 DEF LockProtectsSeries, Locks
<1>6. QED
  BY <1>2, <1>3, <1>4, <1>5 DEF SeriesInv

(* A handler of this service ends; whoever else has the lock keeps it. *)
LEMMA SeriesEnded ==
    ASSUME SeriesInv, NEW c \in Client, Ends(c), Unlocks(c),
           reading' = [reading EXCEPT ![c] = NotReading]
    PROVE  /\ tx'[c] = Idle /\ reading'[c] = NotReading /\ ReaderOK(c)'
           /\ \A d \in Client \ {c} : tx'[d] = tx[d] /\ reading'[d] = reading[d]
           /\ reading' \in [Client -> Reading]
           /\ \A d \in Client : lock' = d => lock = d /\ d # c
<1>1. reading \in [Client -> Reading] /\ Base
  BY DEF SeriesInv, SeriesTypeOK, IInv, Base
<1>2. tx'[c] = Idle /\ \A d \in Client \ {c} : tx'[d] = tx[d]
  BY <1>1, EndsHandlers
<1>3. /\ reading'[c] = NotReading /\ reading' \in [Client -> Reading]
      /\ \A d \in Client \ {c} : reading'[d] = reading[d]
  BY <1>1, NotReadingType
<1>4. ReaderOK(c)'
  BY <1>2, <1>3, IdleReads, IdleIsNoSeries
<1>5. QED
  BY <1>2, <1>3, <1>4, NoneAssumption DEF Unlocks

LEMMA SeriesGivesUpInv ==
    ASSUME SeriesInv, NEW c \in Client, SeriesGivesUp(c)
    PROVE  SeriesInv'
<1>1. /\ Fails(c) /\ reading' = [reading EXCEPT ![c] = NotReading]
      /\ UNCHANGED <<series, occurrence>> /\ Ends(c) /\ Unlocks(c) /\ UNCHANGED <<bookings, blocks>>
  BY DEF SeriesGivesUp, Fails
<1>2. IInv'
  BY <1>1, FailsIInv DEF SeriesInv
<1>3. /\ reading' \in [Client -> Reading] /\ ReaderOK(c)'
      /\ \A d \in Client \ {c} : tx'[d] = tx[d] /\ reading'[d] = reading[d]
      /\ \A d \in Client : lock' = d => lock = d /\ d # c
  BY <1>1, SeriesEnded
<1>4. SeriesTypeOK' /\ OneRowPerOccurrence' /\ OccurrencesExist'
  BY <1>1, <1>3 DEF SeriesInv, SeriesTypeOK, OneRowPerOccurrence, Occurrences, OccurrencesExist
<1>5. ReadingOK'
  BY <1>1, <1>3, ReadersStay DEF SeriesInv, Occurrences
<1>6. LockProtectsSeries'
  BY <1>1, <1>3
     DEF SeriesInv, LockProtectsSeries, SeriesStillNew, CreatesSeries, Running, TakenByBlock
<1>7. QED
  BY <1>2, <1>4, <1>5, <1>6 DEF SeriesInv

LEMMA WriteCancelSeriesInv ==
    ASSUME SeriesInv, NEW c \in Client, WriteCancelSeries(c)
    PROVE  SeriesInv'
<1> DEFINE r == reading[c]
<1>1. /\ Ends(c) /\ Unlocks(c) /\ reading' = [reading EXCEPT ![c] = NotReading]
      /\ UNCHANGED <<occurrence, blocks>>
      /\ series' = series \/ series' = [series EXCEPT ![r.key] = "CANCELLED"]
  BY DEF WriteCancelSeries, SeriesEnds
<1>2. r.key \in Key /\ Occurrences(r.key) # {}
  <2>1. tx[c].op \in SeriesCancels
    BY DEF WriteCancelSeries, Running, SeriesCancels
  <2>2. QED
    BY <2>1 DEF SeriesInv, ReadingOK, ReaderOK
<1>3. /\ series' \in [Key -> {"NONE", "ACTIVE", "CANCELLED"}]
      /\ \A k \in Key : series'[k] = "NONE" <=> series[k] = "NONE"
  BY <1>1, <1>2 DEF SeriesInv, SeriesTypeOK, OneRowPerOccurrence
<1>4. SeriesTypeOK' /\ OneRowPerOccurrence'
  <2>1. reading' \in [Client -> Reading]
    BY <1>1, SeriesEnded
  <2>2. QED
    BY <1>1, <1>3, <2>1 DEF SeriesInv, SeriesTypeOK, OneRowPerOccurrence, Occurrences
<1>5. OccurrencesExist'
  BY <1>1, CancelSeriesWritten DEF SeriesInv, OccurrencesExist
<1>6. ReadingOK'
  BY <1>1, SeriesEnded, ReadersStay DEF SeriesInv, Occurrences
<1>7. LockProtectsSeries'
  <2> SUFFICES ASSUME NEW d \in Client, lock' = d, CreatesSeries(d)'
               PROVE  SeriesStillNew(d)'
    BY DEF LockProtectsSeries, SeriesStillNew
  <2>1. lock = d /\ tx'[d] = tx[d] /\ reading'[d] = reading[d]
    BY <1>1, SeriesEnded
  <2>2. SeriesStillNew(d) /\ CreatesSeries(d)
    BY <2>1 DEF SeriesInv, LockProtectsSeries, CreatesSeries, Running
  <2>3. reading[d].key \in Key
    BY <2>2 DEF SeriesInv, ReadingOK, ReaderOK, CreatesSeries, Running, SeriesCreates
  <2>4. QED
    BY <1>1, <1>3, <2>1, <2>2, <2>3 DEF SeriesStillNew, CreatesSeries, Running, TakenByBlock
<1>8. QED
  BY <1>4, <1>5, <1>6, <1>7, CancelSeriesIInv DEF SeriesInv

(* The key was new, so its occurrences are the rows that are written now. *)
LEMMA WriteCreateSeriesInv ==
    ASSUME SeriesInv, NEW c \in Client, WriteCreateSeries(c)
    PROVE  SeriesInv'
<1> DEFINE r == reading[c]
           n == Len(PlanOf(c))
<1>1. /\ CreatesSeries(c) /\ lock = c /\ Ends(c) /\ Unlocks(c)
      /\ reading' = [reading EXCEPT ![c] = NotReading]
      /\ series' = [series EXCEPT ![r.key] = "ACTIVE"] /\ SeriesTypeOK /\ ReadingOK
  BY DEF WriteCreateSeries, SeriesEnds, SeriesInv
<1>2. /\ r.key \in Key /\ PlanOf(c) \in Plan
      /\ \A b \in Booking : Untouched(b) \/ \E i \in 1..n : Becomes(c, b, i)
      /\ \A i \in 1..n : RowOf(c, i) \in Booking /\ Becomes(c, RowOf(c, i), i)
      /\ occurrence' = [b \in Booking |-> occurrence'[b]]
  BY <1>1, SeriesWritten
<1>3. Occurrences(r.key) = {} /\ r.key # None
  BY <1>1, <1>2, SeriesAssumption
     DEF SeriesInv, LockProtectsSeries, SeriesStillNew, OneRowPerOccurrence
<1>4. n \in Nat /\ 1 \in 1..n
  <2>1. PlanOf(c) \in Seq(AppointmentPlace) /\ PlanOf(c) # <<>>
    BY <1>2, SeriesAssumption
  <2>2. QED
    BY <2>1
<1>5. ASSUME NEW b \in Booking, NEW i \in 1..n, Becomes(c, b, i)
      PROVE  /\ occurrence[b].key = None /\ occurrence'[b].key = r.key /\ occurrence'[b].index = i
             /\ occurrence'[b] \in [key : Key \cup {None}, index : Nat]
  BY <1>2, <1>4, <1>5 DEF Becomes, FreshBooking, SeriesInv, OccurrencesExist
<1> HIDE DEF r, n
<1>6. ASSUME NEW k \in Key \ {r.key}
      PROVE  Occurrences(k)' = Occurrences(k)
  <2>1. k # None
    BY SeriesAssumption
  <2>2. \A b \in Booking : occurrence'[b].key = k <=> occurrence[b].key = k
    BY <1>2, <1>5, <2>1 DEF Untouched
  <2>3. QED
    BY <2>2 DEF Occurrences
<1>7. ASSUME NEW b \in Booking, occurrence'[b].key = r.key
      PROVE  \E i \in 1..n : Becomes(c, b, i)
  <2>1. ~Untouched(b)
    BY <1>3, <1>7 DEF Untouched, Occurrences
  <2>2. QED
    BY <1>2, <2>1
<1>8. \E b \in Booking : occurrence'[b].key = r.key
  BY <1>2, <1>4, <1>5
<1>9. SeriesTypeOK'
  <2>1. \A b \in Booking : occurrence'[b] \in [key : Key \cup {None}, index : Nat]
    BY <1>1, <1>2, <1>5 DEF SeriesTypeOK, Untouched
  <2>2. QED
    BY <1>1, <1>2, <2>1, SeriesEnded DEF SeriesTypeOK
<1>10. OneRowPerOccurrence'
  <2> SUFFICES ASSUME NEW k \in Key
               PROVE  /\ series'[k] = "NONE" <=> Occurrences(k)' = {}
                      /\ \A a, b \in Occurrences(k)' :
                            occurrence'[a].index = occurrence'[b].index => a = b
    BY DEF OneRowPerOccurrence, Occurrences
  <2>1. CASE k = r.key
    <3>1. series'[k] = "ACTIVE"
      BY <1>1, <1>2, <2>1 DEF SeriesTypeOK
    <3>2. ASSUME NEW a \in Booking, NEW b \in Booking, occurrence'[a].key = k,
                 occurrence'[b].key = k, occurrence'[a].index = occurrence'[b].index
          PROVE  a = b
      <4>1. PICK i \in 1..n : Becomes(c, a, i)
        BY <1>7, <2>1, <3>2
      <4>2. PICK j \in 1..n : Becomes(c, b, j)
        BY <1>7, <2>1, <3>2
      <4>3. i = j
        BY <1>5, <3>2, <4>1, <4>2
      <4>4. QED
        BY <4>1, <4>2, <4>3 DEF Becomes
    <3>3. QED
      BY <1>8, <2>1, <3>1, <3>2 DEF Occurrences
  <2>2. CASE k # r.key
    <3>1. /\ series'[k] = series[k] /\ Occurrences(k)' = Occurrences(k)
          /\ \A a \in Occurrences(k) : occurrence'[a] = occurrence[a]
      BY <1>1, <1>2, <1>5, <1>6, <2>2, SeriesAssumption DEF SeriesTypeOK, Occurrences, Untouched
    <3>2. QED
      BY <3>1 DEF SeriesInv, OneRowPerOccurrence
  <2>3. QED
    BY <2>1, <2>2
<1>11. OccurrencesExist'
  <2> SUFFICES ASSUME NEW b \in Booking, occurrence'[b].key # None
               PROVE  bookings'[b].status # "NONE"
    BY DEF OccurrencesExist
  <2>1. CASE Untouched(b)
    BY <2>1 DEF SeriesInv, OccurrencesExist, Untouched
  <2>2. ASSUME NEW i \in 1..n, Becomes(c, b, i)
        PROVE  bookings'[b].status # "NONE"
    <3>1. PlanOf(c)[i] \in Place
      BY <1>2, PlanIs DEF n
    <3>2. QED
      BY <1>1, <2>2, <3>1, OccurrenceRowIs DEF Becomes
  <2>3. QED
    BY <1>2, <2>1, <2>2
<1>12. ReadingOK'
  BY <1>1, <1>3, <1>6, SeriesEnded, ReadersStay
<1>13. LockProtectsSeries'
  BY CreateSeriesBase, NoneAssumption DEF LockProtectsSeries
<1>14. QED
  BY <1>9, <1>10, <1>11, <1>12, <1>13, CreateSeriesIInv DEF SeriesInv

LEMMA SeriesStepInv ==
    ASSUME SeriesInv, NEW c \in Client, SeriesStep(c)
    PROVE  SeriesInv'
<1>1. ASSUME NEW k \in Key, NEW b \in Booking, NEW op \in {"cancelSeries", "cancelSeriesAdmin"},
             BeginCancelSeries(c, op, k, occurrence[b].index)
      PROVE  SeriesInv'
  BY <1>1, BeginCancelSeriesInv DEF SeriesCancels
<1>2. QED
  BY <1>1, BeginCreateSeriesInv, EnterCreateSeriesInv, WriteCreateSeriesInv, WriteCancelSeriesInv,
     SeriesGivesUpInv DEF SeriesStep

LEMMA SeriesStutterInv ==
    ASSUME SeriesInv, UNCHANGED seriesVars
    PROVE  SeriesInv'
<1>1. IInv'
  BY NextIInv DEF SeriesInv, seriesVars, vars
<1>2. UNCHANGED seriesOnly /\ UNCHANGED <<bookings, blocks, tx, lock>>
  BY DEF seriesVars, seriesOnly
<1>3. QED
  BY <1>1, <1>2, SeriesStaysOut

LEMMA SeriesNextInv == ASSUME SeriesInv, [SeriesNext]_seriesVars PROVE SeriesInv'
<1>1. SeriesNext => (\E c \in Client : SeriesStep(c)) \/ BookingPart
  BY DEF SeriesNext, BookingPart
<1>2. QED
  BY <1>1, SeriesStepInv, BookingPartInv, SeriesStutterInv

LEMMA InitSeries == ASSUME SeriesInit PROVE SeriesInv
<1>1. IInv
  BY InitIInv DEF SeriesInit, Init
<1>2. SeriesTypeOK
  BY NotReadingType, SeriesAssumption DEF SeriesInit, SeriesTypeOK, NoSeries
<1>3. ReadingOK
  BY IdleIsNoSeries DEF SeriesInit, ScheduleInit, ReadingOK, ReaderOK
<1>4. OccurrencesExist /\ OneRowPerOccurrence
  BY SeriesAssumption DEF SeriesInit, OccurrencesExist, OneRowPerOccurrence, Occurrences, NoSeries
<1>5. LockProtectsSeries
  BY NoneAssumption DEF SeriesInit, ScheduleInit, LockProtectsSeries
<1>6. QED
  BY <1>1, <1>2, <1>3, <1>4, <1>5 DEF SeriesInv

LEMMA SeriesInvariance == SeriesSpec => []SeriesInv
<1>1. SeriesInit => SeriesInv
  BY InitSeries
<1>2. SeriesInv /\ [SeriesNext]_seriesVars => SeriesInv'
  BY SeriesNextInv
<1>3. QED
  BY <1>1, <1>2, PTL DEF SeriesSpec

(* A series that exists has one row for each of its occurrences, whatever
   requests with its key are repeated, or wait for the lock at once. *)
THEOREM SeriesHaveTheirRows == SeriesSpec => []OneRowPerOccurrence
<1>1. SeriesInv => OneRowPerOccurrence
  BY DEF SeriesInv
<1>2. QED
  BY <1>1, SeriesInvariance, PTL

(* The rules of the calendar survive series: several bookings written at
   once are on no other online booking, not on each other and under no
   schedule block. *)
THEOREM SeriesKeepTheCalendar == SeriesSpec => [](OnlineDisjoint /\ NoOverlap /\ BlockClear)
<1>1. SeriesInv => OnlineDisjoint /\ NoOverlap /\ BlockClear
  BY DEF SeriesInv, IInv
<1>2. QED
  BY <1>1, SeriesInvariance, PTL

-----------------------------------------------------------------------------
(* What a cancellation has read *)

(* No confirmation is about an occurrence, and none is a hold. *)
NeverHeld ==
    /\ \A b \in Booking : occurrence[b].key # None => bookings[b].status # "HOLD"
    /\ \A c \in Client : Running(c, "confirmHold") => occurrence[Id(c)].key = None

(* The occurrences of a series follow each other in time. *)
InOrder ==
    \A a, b \in Booking :
        occurrence[a].key # None /\ occurrence[a].key = occurrence[b].key
            /\ occurrence[a].index < occurrence[b].index
            => StartAt[bookings[a].place] < StartAt[bookings[b].place]

(* The rows are still where they were, those that were closed still are, and
   the targets are the coming ones from some occurrence on. *)
RowsAreKnown(c) ==
    LET r == reading[c]
    IN  /\ tx[c].at <= now
        /\ \A b \in DOMAIN r.rows :
              /\ r.rows[b].place = bookings[b].place
              /\ r.rows[b].status # "HOLD"
              /\ r.rows[b].status \notin Blocking => ~Active(b)
        /\ \E from \in Nat :
              r.targets = {b \in DOMAIN r.rows : /\ Undecidable(r.rows[b])
                                                 /\ StartAt[r.rows[b].place] > tx[c].at
                                                 /\ occurrence[b].index >= from}

KnownInv ==
    /\ NeverHeld
    /\ InOrder
    /\ \A c \in Client : tx[c].op \in SeriesCancels => RowsAreKnown(c)
    /\ CancelledSeriesIsOver

-----------------------------------------------------------------------------
(* What happens to the occurrences of a series *)

(* Nobody moves single bookings. *)
NobodyMoves == \A c \in Client : tx[c].op # "reschedule"

(* An occurrence keeps its place, and is not put back on the calendar. *)
Settles ==
    \A b \in Booking :
        occurrence[b].key # None =>
            /\ bookings'[b].place = bookings[b].place
            /\ Active(b)' => Active(b)
            /\ bookings'[b].status # "HOLD"

LEMMA DecisionSettles ==
    ASSUME SeriesInv, NobodyMoves, NeverHeld, NEW c \in Client, Write(c),
           NEW b \in Booking, occurrence[b].key # None
    PROVE  /\ bookings'[b].place = bookings[b].place
           /\ Active(b)' => Active(b)
           /\ bookings'[b].status # "HOLD"
<1>1. /\ bookings \in [Booking -> BookingRow] /\ HandlerOK
      /\ bookings[b].status # "NONE" /\ bookings[b].status # "HOLD"
  BY DEF SeriesInv, IInv, TypeOK, ScheduleTypeOK, OccurrencesExist, NeverHeld
<1>2. bookings[b] \in BookingRow
  BY <1>1
<1>3. CASE bookings' = bookings
  BY <1>1, <1>3 DEF Active
<1>4. CASE WriteCreateBlock(c) \/ WriteUpdateBlock(c) \/ WriteCancelBlock(c)
  BY <1>3, <1>4 DEF WriteCreateBlock, WriteUpdateBlock, WriteCancelBlock, PutsBlock
<1>5. ASSUME NEW row, Puts(c, Id(c), row), Id(c) # b
      PROVE  bookings'[b] = bookings[b]
  BY <1>1, <1>5 DEF Puts
<1>6. CASE WriteHold(c) \/ WriteConfirm(c) \/ WriteConfirmBlocked(c) \/ WriteCreate(c)
  <2>1. Id(c) # b
    BY <1>1, <1>6
       DEF WriteHold, WriteConfirm, WriteConfirmBlocked, WriteCreate, HandlerOK, Running, Id,
           CreateOps, NeverHeld
  <2>2. bookings'[b] = bookings[b]
    BY <1>5, <1>6, <2>1 DEF WriteHold, WriteConfirm, WriteConfirmBlocked, WriteCreate
  <2>3. QED
    BY <1>1, <2>2 DEF Active
<1>7. CASE \/ WriteApprove(c) \/ WriteReject(c) \/ WriteCancel(c)
           \/ WriteUpdateDetails(c) \/ WriteMarkNoShow(c) \/ WriteRevertNoShow(c)
  <2>1. PICK row : Puts(c, Id(c), row)
    BY <1>7 DEF WriteApprove, WriteReject, WriteCancel, WriteUpdateDetails, WriteMarkNoShow,
                WriteRevertNoShow
  <2>2. CASE Id(c) # b
    BY <1>1, <1>5, <2>1, <2>2 DEF Active
  <2>3. CASE Id(c) = b
    <3> DEFINE kept == /\ bookings'[b].place = bookings[b].place
                       /\ \/ bookings'[b].status = bookings[b].status
                          \/ bookings'[b].status \in {"REJECTED", "CANCELLED"}
                          \/ /\ bookings'[b].status = "CONFIRMED"
                             /\ bookings[b].status = "PENDING_APPROVAL"
    <3>1. /\ Mine(c) = bookings[b]
          /\ \A anew : Puts(c, Id(c), anew) => bookings'[b] = anew
      BY <1>1, <2>3 DEF Puts, Mine
    <3>2. ASSUME WriteApprove(c) PROVE kept
      <4>1. /\ bookings'[b] = [bookings[b] EXCEPT !.status = "CONFIRMED", !.visit = "SCHEDULED",
                                                  !.revision = @ + 1]
            /\ bookings[b].status = "PENDING_APPROVAL"
        BY <3>1, <3>2 DEF WriteApprove, Undecided
      <4>2. QED
        BY <1>2, <4>1 DEF BookingRow
    <3>3. ASSUME WriteReject(c) PROVE kept
      <4>1. bookings'[b] = [bookings[b] EXCEPT !.status = "REJECTED", !.revision = @ + 1]
        BY <3>1, <3>3 DEF WriteReject
      <4>2. QED
        BY <1>2, <4>1 DEF BookingRow
    <3>4. ASSUME WriteCancel(c) PROVE kept
      <4>1. bookings'[b] = [bookings[b] EXCEPT !.status = "CANCELLED", !.revision = @ + 1]
        BY <3>1, <3>4 DEF WriteCancel
      <4>2. QED
        BY <1>2, <4>1 DEF BookingRow
    <3>5. ASSUME WriteUpdateDetails(c) PROVE kept
      <4>1. bookings'[b] = [bookings[b] EXCEPT !.revision = @ + 1]
        BY <3>1, <3>5 DEF WriteUpdateDetails
      <4>2. QED
        BY <1>2, <4>1 DEF BookingRow
    <3>6. ASSUME WriteMarkNoShow(c) PROVE kept
      <4>1. bookings'[b] = [bookings[b] EXCEPT !.visit = "NO_SHOW", !.revision = @ + 1]
        BY <3>1, <3>6 DEF WriteMarkNoShow
      <4>2. QED
        BY <1>2, <4>1 DEF BookingRow
    <3>7. ASSUME WriteRevertNoShow(c) PROVE kept
      <4>1. bookings'[b] = [bookings[b] EXCEPT !.visit = "SCHEDULED", !.revision = @ + 1]
        BY <3>1, <3>7 DEF WriteRevertNoShow
      <4>2. QED
        BY <1>2, <4>1 DEF BookingRow
    <3>8. kept
      BY <1>7, <3>2, <3>3, <3>4, <3>5, <3>6, <3>7
    <3>9. QED
      BY <1>1, <3>8 DEF Active, Blocking
  <2>4. QED
    BY <2>2, <2>3
<1>8. ~WriteReschedule(c)
  BY DEF WriteReschedule, Running, NobodyMoves
<1>9. QED
  BY <1>4, <1>6, <1>7, <1>8 DEF Write

LEMMA BookingPartSettles ==
    ASSUME SeriesInv, NobodyMoves, NeverHeld, BookingPart
    PROVE  Settles /\ now \in Nat /\ now' \in Nat /\ now' >= now
<1>1. /\ bookings \in [Booking -> BookingRow] /\ now \in Nat
      /\ \A b \in Booking : occurrence[b].key # None => bookings[b].status # "HOLD"
  BY DEF SeriesInv, IInv, TypeOK, ScheduleTypeOK, NeverHeld
<1>2. now' = now \/ Tick
  <2>1. ASSUME NEW c \in Client, Begin(c)
        PROVE  now' = now
    BY <2>1, BeginOps DEF Starts
  <2>2. ASSUME NEW c \in Client, Admission(c)
        PROVE  now' = now
    BY <2>2, AdmissionOps DEF Locks
  <2>3. ASSUME NEW c \in Client, Write(c)
        PROVE  now' = now
    BY <2>3 DEF Write, WriteHold, WriteConfirm, WriteConfirmBlocked, WriteApprove, WriteReject,
                WriteCancel, WriteCreate, WriteReschedule, WriteUpdateDetails, WriteMarkNoShow,
                WriteRevertNoShow, WriteCreateBlock, WriteUpdateBlock, WriteCancelBlock, Puts,
                PutsBlock
  <2>4. ASSUME NEW c \in Client, GiveUp(c)
        PROVE  now' = now
    BY <2>4 DEF GiveUp, Fails
  <2>5. Timer => now' = now
    BY DEF Timer, expireStaleHolds, ExpiresHolds, expirePastPending
  <2>6. QED
    BY <2>1, <2>2, <2>3, <2>4, <2>5 DEF BookingPart
<1>3. now' \in Nat /\ now' >= now
  BY <1>1, <1>2 DEF Tick
<1>4. ASSUME bookings' = bookings
      PROVE  Settles
  <2>1. \A b \in Booking : Active(b)' <=> Active(b)
    BY <1>4 DEF Active
  <2>2. QED
    BY <1>1, <1>4, <2>1 DEF Settles
<1>5. ASSUME ExpiresHolds
      PROVE  Settles
  <2>1. \A b \in Booking : occurrence[b].key # None => bookings'[b] = bookings[b]
    BY <1>1, <1>5 DEF ExpiresHolds, StaleHold
  <2>2. QED
    BY <1>1, <2>1 DEF Settles, Active
<1>6. ASSUME NEW a \in Booking, expirePastPending(a)
      PROVE  Settles
  <2>1. \A b \in Booking : \/ bookings'[b] = bookings[b]
                           \/ /\ bookings'[b].status = "EXPIRED"
                              /\ bookings'[b].place = bookings[b].place
    BY <1>1, <1>6 DEF expirePastPending, BookingRow
  <2>2. QED
    BY <1>1, <2>1 DEF Settles, Active, Blocking
<1>7. ASSUME NEW c \in Client, Write(c)
      PROVE  Settles
  BY <1>7, DecisionSettles DEF Settles
<1>8. Settles
  BY <1>4, <1>5, <1>6, <1>7, StepsWithoutWrites DEF BookingPart, Timer, expireStaleHolds, Tick
<1>9. QED
  BY <1>1, <1>3, <1>8

(* None of these handlers cancels a series. *)
LEMMA BookingPartNoSeries ==
    ASSUME SeriesInv, BookingPart, NEW d \in Client, tx'[d].op \in SeriesCancels
    PROVE  tx'[d] = tx[d]
<1>1. tx \in [Client -> Transaction]
  BY DEF SeriesInv, IInv, TypeOK, ScheduleTypeOK
<1>2. ASSUME NEW c \in Client, Begin(c)
      PROVE  tx'[d] = tx[d]
  BY <1>1, <1>2, BeginOps DEF Starts, ExistingOps, BlockOps, SeriesCancels
<1>3. ASSUME NEW c \in Client, Write(c) \/ GiveUp(c)
      PROVE  tx'[d] = tx[d]
  <2>1. Ends(c)
    BY <1>3, WriteOps DEF GiveUp, Fails
  <2>2. QED
    BY <1>1, <2>1 DEF Ends, Idle, SeriesCancels
<1>4. ASSUME NEW c \in Client, Admission(c)
      PROVE  tx' = tx
  BY <1>4, AdmissionOps DEF Locks
<1>5. ASSUME Timer \/ Tick
      PROVE  tx' = tx
  BY <1>5 DEF Timer, expireStaleHolds, ExpiresHolds, expirePastPending, Tick
<1>6. QED
  BY <1>2, <1>3, <1>4, <1>5 DEF BookingPart

(* A handler that begins to confirm has seen a hold. *)
LEMMA ConfirmsHolds ==
    ASSUME SeriesInv, NeverHeld, BookingPart, NEW d \in Client, Running(d, "confirmHold")'
    PROVE  occurrence[tx'[d].subject].key = None
<1>1. tx \in [Client -> Transaction]
  BY DEF SeriesInv, IInv, TypeOK, ScheduleTypeOK
<1>2. CASE tx'[d] = tx[d]
  BY <1>2 DEF NeverHeld, Running, Id
<1>3. CASE \E c \in Client : Begin(c)
  <2>1. PICK c \in Client : Begin(c)
    BY <1>3
  <2>2. CASE c # d
    BY <1>1, <1>2, <2>1, <2>2, BeginOps DEF Starts
  <2>3. CASE c = d
    <3>1. CASE \E b \in Booking : BeginConfirm(c, b)
      <4>1. PICK b \in Booking : BeginConfirm(c, b)
        BY <3>1
      <4>2. bookings[b].status = "HOLD" /\ tx'[c].subject = b
        BY <1>1, <4>1 DEF BeginConfirm, Starts
      <4>3. QED
        BY <2>3, <4>2 DEF NeverHeld
    <3>2. CASE ~\E b \in Booking : BeginConfirm(c, b)
      <4>1. \E op, subject, target, revision, override :
               op # "confirmHold" /\ Starts(c, op, subject, target, revision, override)
        BY <2>1, <3>2
           DEF Begin, BeginHold, BeginApprove, BeginReject, BeginCancel, BeginCreate,
               BeginReschedule, BeginUpdateDetails, BeginMarkNoShow, BeginRevertNoShow,
               BeginCreateBlock, BeginUpdateBlock, BeginCancelBlock
      <4>2. QED
        BY <1>1, <2>3, <4>1 DEF Starts, Running
    <3>3. QED
      BY <3>1, <3>2
  <2>4. QED
    BY <2>2, <2>3
<1>4. ASSUME NEW c \in Client, Write(c) \/ GiveUp(c)
      PROVE  tx'[d] = tx[d]
  <2>1. Ends(c)
    BY <1>4, WriteOps DEF GiveUp, Fails
  <2>2. QED
    BY <1>1, <2>1 DEF Ends, Running, Idle
<1>5. ASSUME NEW c \in Client, Admission(c)
      PROVE  tx' = tx
  BY <1>5, AdmissionOps DEF Locks
<1>6. ASSUME Timer \/ Tick
      PROVE  tx' = tx
  BY <1>6 DEF Timer, expireStaleHolds, ExpiresHolds, expirePastPending, Tick
<1>7. QED
  BY <1>2, <1>3, <1>4, <1>5, <1>6 DEF BookingPart

-----------------------------------------------------------------------------
(* What is known stays known *)

(* An occurrence stays one, where it is, and is not put back. *)
Endures(b) ==
    /\ occurrence'[b] = occurrence[b]
    /\ bookings'[b].place = bookings[b].place
    /\ Active(b)' => Active(b)

LEMMA OccurrencePlace ==
    ASSUME SeriesInv, NEW b \in Booking, occurrence[b].key # None
    PROVE  bookings[b].place \in Place /\ StartAt[bookings[b].place] \in Nat
BY PlaceAssumption DEF SeriesInv, IInv, TypeOK, ScheduleTypeOK, OccurrencesExist

LEMMA RowsStayKnown ==
    ASSUME SeriesInv, \A b \in Booking : occurrence[b].key # None => Endures(b),
           now \in Nat, now' \in Nat, now' >= now,
           NEW c \in Client, tx[c].op \in SeriesCancels, RowsAreKnown(c),
           tx'[c] = tx[c], reading'[c] = reading[c], tx[c].at \in Nat
    PROVE  RowsAreKnown(c)'
<1> DEFINE r == reading[c]
           chosen(from) == {b \in DOMAIN r.rows : /\ Undecidable(r.rows[b])
                                                  /\ StartAt[r.rows[b].place] > tx[c].at
                                                  /\ occurrence[b].index >= from}
<1>1. \A b \in DOMAIN r.rows : b \in Booking /\ occurrence[b].key # None
  BY SeriesAssumption DEF SeriesInv, ReadingOK, ReaderOK, Occurrences
<1>2. \A b \in DOMAIN r.rows : Endures(b)
  BY <1>1
<1>3. \A b \in DOMAIN r.rows :
         /\ r.rows[b].place = bookings'[b].place
         /\ r.rows[b].status # "HOLD"
         /\ r.rows[b].status \notin Blocking => ~Active(b)'
  BY <1>2 DEF RowsAreKnown, Endures
<1>4. PICK from \in Nat : r.targets = chosen(from)
  BY DEF RowsAreKnown
<1>5. chosen(from) = {b \in DOMAIN r.rows : /\ Undecidable(r.rows[b])
                                            /\ StartAt[r.rows[b].place] > tx[c].at
                                            /\ occurrence'[b].index >= from}
  BY <1>2 DEF Endures
<1>6. tx[c].at <= now'
  BY DEF RowsAreKnown
<1> HIDE DEF chosen
<1>7. QED
  BY <1>3, <1>4, <1>5, <1>6 DEF RowsAreKnown, Undecidable

LEMMA KnownStays ==
    ASSUME SeriesInv, KnownInv, Settles, occurrence' = occurrence,
           now \in Nat, now' \in Nat, now' >= now,
           \A d \in Client :
              /\ tx[d].op \in SeriesCancels => tx[d].at \in Nat
              /\ Running(d, "confirmHold")' => occurrence[tx'[d].subject].key = None
              /\ tx'[d].op \in SeriesCancels =>
                    (tx'[d] = tx[d] /\ reading'[d] = reading[d]) \/ RowsAreKnown(d)'
    PROVE  /\ NeverHeld' /\ InOrder'
           /\ \A c \in Client : (tx[c].op \in SeriesCancels)' => RowsAreKnown(c)'
           /\ \A k \in Key, b \in Booking :
                 series[k] = "CANCELLED" /\ occurrence[b].key = k /\ Active(b)'
                    => StartAt[bookings'[b].place] <= now'
<1>1. NeverHeld'
  BY DEF Settles, NeverHeld, Running, Id
<1>2. InOrder'
  BY DEF Settles, InOrder, KnownInv
<1>3. \A b \in Booking : occurrence[b].key # None => Endures(b)
  BY DEF Settles, Endures
<1>4. ASSUME NEW c \in Client, tx'[c].op \in SeriesCancels
      PROVE  RowsAreKnown(c)'
  <2>1. CASE tx'[c] = tx[c] /\ reading'[c] = reading[c]
    <3>1. tx[c].op \in SeriesCancels /\ RowsAreKnown(c) /\ tx[c].at \in Nat
      BY <1>4, <2>1 DEF KnownInv
    <3>2. QED
      BY <1>3, <2>1, <3>1, RowsStayKnown
  <2>2. QED
    BY <1>4, <2>1
<1>5. ASSUME NEW k \in Key, NEW b \in Booking, series[k] = "CANCELLED", occurrence[b].key = k,
             Active(b)'
      PROVE  StartAt[bookings'[b].place] <= now'
  <2>1. occurrence[b].key # None
    BY <1>5, SeriesAssumption
  <2>2. Active(b) /\ bookings'[b].place = bookings[b].place
    BY <1>5, <2>1 DEF Settles
  <2>3. StartAt[bookings[b].place] <= now
    BY <1>5, <2>2 DEF KnownInv, CancelledSeriesIsOver, Occurrences
  <2>4. StartAt[bookings[b].place] \in Nat
    BY <2>1, <2>2, OccurrencePlace
  <2>5. QED
    BY <2>2, <2>3, <2>4
<1>6. QED
  BY <1>1, <1>2, <1>4, <1>5

LEMMA StillOver ==
    ASSUME \A k \in Key, b \in Booking :
              series[k] = "CANCELLED" /\ occurrence[b].key = k /\ Active(b)'
                 => StartAt[bookings'[b].place] <= now',
           \A k \in Key : series'[k] = "CANCELLED" => series[k] = "CANCELLED",
           occurrence' = occurrence
    PROVE  CancelledSeriesIsOver'
BY DEF CancelledSeriesIsOver, Occurrences

LEMMA KnownTypes ==
    ASSUME SeriesInv
    PROVE  /\ now \in Nat /\ tx \in [Client -> Transaction] /\ \A d \in Client : tx[d].at \in Nat
           /\ bookings \in [Booking -> BookingRow] /\ reading \in [Client -> Reading]
<1>1. now \in Nat /\ tx \in [Client -> Transaction] /\ bookings \in [Booking -> BookingRow]
  BY DEF SeriesInv, IInv, TypeOK, ScheduleTypeOK
<1>2. reading \in [Client -> Reading]
  BY DEF SeriesInv, SeriesTypeOK
<1>3. \A d \in Client : tx[d].at \in Nat
  BY <1>1 DEF Transaction
<1>4. QED
  BY <1>1, <1>2, <1>3

LEMMA NothingMoved ==
    ASSUME KnownInv, bookings' = bookings
    PROVE  Settles
<1>1. \A b \in Booking : Active(b)' <=> Active(b)
  BY DEF Active
<1>2. QED
  BY <1>1 DEF KnownInv, NeverHeld, Settles

LEMMA BookingPartKnown ==
    ASSUME SeriesInv, KnownInv, NobodyMoves, BookingPart
    PROVE  KnownInv'
<1>1. Settles /\ now \in Nat /\ now' \in Nat /\ now' >= now
  BY BookingPartSettles DEF KnownInv
<1>2. UNCHANGED <<series, occurrence, reading>>
  BY DEF BookingPart, seriesOnly
<1>3. ASSUME NEW d \in Client
      PROVE  /\ tx[d].at \in Nat
             /\ Running(d, "confirmHold")' => occurrence[tx'[d].subject].key = None
             /\ tx'[d].op \in SeriesCancels => tx'[d] = tx[d] /\ reading'[d] = reading[d]
  <2>1. tx[d].at \in Nat
    BY KnownTypes
  <2>2. Running(d, "confirmHold")' => occurrence[tx'[d].subject].key = None
    BY ConfirmsHolds DEF KnownInv
  <2>3. tx'[d].op \in SeriesCancels => tx'[d] = tx[d]
    BY BookingPartNoSeries
  <2>4. QED
    BY <1>2, <2>1, <2>2, <2>3
<1>4. QED
  BY <1>1, <1>2, <1>3, KnownStays, StillOver DEF KnownInv

(* A creation begins, one is admitted, a handler of a series gives up. *)
LEMMA OthersKnown ==
    ASSUME SeriesInv, KnownInv, UNCHANGED <<now, bookings, series, occurrence>>,
           \A d \in Client :
              \/ tx'[d] = tx[d] /\ reading'[d] = reading[d]
              \/ tx'[d].op \notin SeriesCancels \cup {"confirmHold"}
              \/ tx'[d].op \in SeriesCancels /\ RowsAreKnown(d)'
    PROVE  KnownInv'
<1>1. Settles /\ now \in Nat /\ now' \in Nat /\ now' >= now
  BY NothingMoved, KnownTypes
<1>2. ASSUME NEW d \in Client
      PROVE  /\ tx[d].at \in Nat
             /\ Running(d, "confirmHold")' => occurrence[tx'[d].subject].key = None
             /\ tx'[d].op \in SeriesCancels =>
                   (tx'[d] = tx[d] /\ reading'[d] = reading[d]) \/ RowsAreKnown(d)'
  <2>1. tx[d].at \in Nat
    BY KnownTypes
  <2>2. Running(d, "confirmHold")' => occurrence[tx'[d].subject].key = None
    BY DEF Running, SeriesCancels, KnownInv, NeverHeld, Id
  <2>3. QED
    BY <2>1, <2>2
<1>3. QED
  BY <1>1, <1>2, KnownStays, StillOver DEF KnownInv

LEMMA CreationBeginsKnown ==
    ASSUME SeriesInv, KnownInv, NEW c \in Client, NEW op \in SeriesCreates, NEW r,
           SeriesStarts(c, op, r), UNCHANGED <<series, occurrence>>
    PROVE  KnownInv'
<1>1. tx \in [Client -> Transaction] /\ reading \in [Client -> Reading]
  BY KnownTypes
<1>2. UNCHANGED <<now, bookings>> /\ tx'[c].op = op
      /\ \A d \in Client \ {c} : tx'[d] = tx[d] /\ reading'[d] = reading[d]
  BY <1>1 DEF SeriesStarts, Starts
<1>3. op \notin SeriesCancels \cup {"confirmHold"}
  BY DEF SeriesCreates, SeriesCancels
<1>4. QED
  BY <1>2, <1>3, OthersKnown

LEMMA EndedKnown ==
    ASSUME SeriesInv, NEW c \in Client, Ends(c), reading' = [reading EXCEPT ![c] = NotReading]
    PROVE  /\ tx'[c].op \notin SeriesCancels \cup {"confirmHold"}
           /\ \A d \in Client \ {c} : tx'[d] = tx[d] /\ reading'[d] = reading[d]
<1>1. tx \in [Client -> Transaction] /\ reading \in [Client -> Reading]
  BY KnownTypes
<1>2. QED
  BY <1>1 DEF Ends, Idle, SeriesCancels

LEMMA GivesUpKnown ==
    ASSUME SeriesInv, KnownInv, NEW c \in Client, SeriesGivesUp(c)
    PROVE  KnownInv'
<1>1. /\ Ends(c) /\ reading' = [reading EXCEPT ![c] = NotReading]
      /\ UNCHANGED <<now, bookings, series, occurrence>>
  BY DEF SeriesGivesUp, Fails
<1>2. QED
  BY <1>1, EndedKnown, OthersKnown

LEMMA EnterKnown ==
    ASSUME SeriesInv, KnownInv, NEW c \in Client, EnterCreateSeries(c)
    PROVE  KnownInv'
<1>1. UNCHANGED <<now, bookings, tx, series, occurrence, reading>>
  BY DEF EnterCreateSeries, Locks, seriesOnly
<1>2. QED
  BY <1>1, OthersKnown

(* What is read at the start of a cancellation is what is there. *)
LEMMA CancelBeginsKnown ==
    ASSUME SeriesInv, KnownInv, NEW c \in Client, NEW op \in SeriesCancels, NEW k \in Key,
           NEW b \in Booking, BeginCancelSeries(c, op, k, occurrence[b].index)
    PROVE  KnownInv'
<1> DEFINE from == occurrence[b].index
           rows == [a \in Occurrences(k) |-> bookings[a]]
           targets == {a \in ActiveFuture(rows) : occurrence[a].index >= from}
           r == [key |-> k, plan |-> <<>>, rows |-> rows, targets |-> targets]
<1>1. SeriesStarts(c, op, r) /\ UNCHANGED <<series, occurrence>>
  BY DEF BeginCancelSeries
<1>2. tx \in [Client -> Transaction] /\ reading \in [Client -> Reading] /\ now \in Nat
  BY KnownTypes
<1>3. /\ UNCHANGED <<now, bookings>> /\ tx'[c].op = op /\ tx'[c].at = now /\ reading'[c] = r
      /\ \A d \in Client \ {c} : tx'[d] = tx[d] /\ reading'[d] = reading[d]
  <2> HIDE DEF r
  <2>1. QED
    BY <1>1, <1>2 DEF SeriesStarts, Starts
<1>4. from \in Nat
  BY DEF SeriesInv, SeriesTypeOK
<1>5. \A a \in Occurrences(k) : a \in Booking /\ occurrence[a].key # None /\ rows[a] = bookings[a]
  BY SeriesAssumption DEF Occurrences
<1>6. targets = {a \in DOMAIN rows : /\ Undecidable(rows[a])
                                     /\ StartAt[rows[a].place] > now
                                     /\ occurrence[a].index >= from}
  BY DEF ActiveFuture
<1>7. r.rows = rows /\ r.targets = targets /\ DOMAIN rows = Occurrences(k)
  OBVIOUS
<1>8. \A a \in Occurrences(k) : /\ rows[a].place = bookings[a].place
                                /\ rows[a].status # "HOLD"
                                /\ rows[a].status \notin Blocking => ~Active(a)
  BY <1>5 DEF KnownInv, NeverHeld, Active
<1> HIDE DEF r, rows, targets, from
<1>9. RowsAreKnown(c)'
  <2>1. \A a \in Occurrences(k) : Active(a)' <=> Active(a)
    BY <1>3 DEF Active
  <2>2. tx'[c].at <= now'
    BY <1>2, <1>3
  <2>3. \A a \in DOMAIN reading'[c].rows :
           /\ reading'[c].rows[a].place = bookings'[a].place
           /\ reading'[c].rows[a].status # "HOLD"
           /\ reading'[c].rows[a].status \notin Blocking => ~Active(a)'
    BY <1>3, <1>7, <1>8, <2>1
  <2>4. reading'[c].targets = {a \in DOMAIN reading'[c].rows :
                                  /\ Undecidable(reading'[c].rows[a])
                                  /\ StartAt[reading'[c].rows[a].place] > tx'[c].at
                                  /\ occurrence'[a].index >= from}
    BY <1>1, <1>3, <1>6, <1>7
  <2>5. QED
    BY <1>4, <2>2, <2>3, <2>4 DEF RowsAreKnown, Undecidable
<1>10. QED
  BY <1>1, <1>3, <1>9, OthersKnown

(* The new rows of a series are of a key that had none, and follow each
   other as the plan does. *)
LEMMA SeriesWrittenKnown ==
    ASSUME SeriesInv, KnownInv, NEW c \in Client, WriteCreateSeries(c)
    PROVE  KnownInv'
<1> DEFINE k == reading[c].key
           n == Len(PlanOf(c))
<1>1. /\ CreatesSeries(c) /\ lock = c /\ Ends(c) /\ reading' = [reading EXCEPT ![c] = NotReading]
      /\ series' = [series EXCEPT ![k] = "ACTIVE"] /\ now' = now
      /\ SeriesTypeOK /\ ReadingOK /\ HandlerOK
  BY DEF WriteCreateSeries, SeriesEnds, SeriesInv, IInv
<1>2. /\ k \in Key /\ PlanOf(c) \in Plan
      /\ \A b \in Booking : Untouched(b) \/ \E i \in 1..n : Becomes(c, b, i)
  BY <1>1, SeriesWritten
<1>3. /\ series[k] = "NONE" /\ Occurrences(k) = {}
  BY <1>1, <1>2 DEF SeriesInv, LockProtectsSeries, SeriesStillNew, OneRowPerOccurrence
<1>4. now \in Nat /\ now' \in Nat /\ now' >= now /\ \A d \in Client : tx[d].at \in Nat
  BY <1>1, KnownTypes
<1>5. ASSUME NEW b \in Booking, bookings[b].status # "NONE"
      PROVE  Untouched(b)
  BY <1>2, <1>5 DEF Becomes, FreshBooking
<1>6. ASSUME NEW b \in Booking, occurrence[b].key # None
      PROVE  Untouched(b) /\ Endures(b)
  BY <1>5, <1>6 DEF SeriesInv, OccurrencesExist, Untouched, Endures, Active
<1>7. ASSUME NEW b \in Booking, NEW i \in 1..n, Becomes(c, b, i)
      PROVE  /\ bookings'[b].place = PlanOf(c)[i] /\ bookings'[b].status # "HOLD"
             /\ occurrence'[b].key = k /\ occurrence'[b].index = i
  <2>1. PlanOf(c)[i] \in Place
    BY <1>2, PlanIs
  <2>2. QED
    BY <1>1, <1>7, <2>1, OccurrenceRowIs DEF Becomes
<1>8. NeverHeld'
  <2>1. ASSUME NEW b \in Booking, occurrence'[b].key # None
        PROVE  bookings'[b].status # "HOLD"
    BY <1>2, <1>7, <2>1 DEF Untouched, KnownInv, NeverHeld
  <2>2. ASSUME NEW d \in Client, Running(d, "confirmHold")'
        PROVE  occurrence'[Id(d)'].key = None
    <3>1. tx'[d] = tx[d] /\ Running(d, "confirmHold")
      BY <1>1, <2>2, EndedKnown DEF Running
    <3>2. tx[d].subject \in Booking /\ bookings[tx[d].subject].status # "NONE"
      BY <1>1, <3>1 DEF HandlerOK, ExistingOps, Running
    <3>3. Untouched(tx[d].subject)
      BY <1>5, <3>2
    <3>4. QED
      BY <3>1, <3>3 DEF Untouched, KnownInv, NeverHeld, Id
  <2>3. QED
    BY <2>1, <2>2 DEF NeverHeld
<1>9. InOrder'
  <2>1. SUFFICES ASSUME NEW a \in Booking, NEW b \in Booking, occurrence'[a].key # None,
                        occurrence'[a].key = occurrence'[b].key,
                        occurrence'[a].index < occurrence'[b].index
                 PROVE  StartAt[bookings'[a].place] < StartAt[bookings'[b].place]
    BY DEF InOrder
  <2>2. CASE Untouched(a) /\ Untouched(b)
    BY <2>1, <2>2 DEF Untouched, KnownInv, InOrder
  <2>3. ASSUME NEW e \in Booking, NEW d \in Booking, Untouched(e), occurrence'[e].key = occurrence'[d].key,
               NEW i \in 1..n, Becomes(c, d, i)
        PROVE  FALSE
    BY <1>3, <1>7, <2>3 DEF Untouched, Occurrences
  <2>4. ASSUME NEW i \in 1..n, NEW j \in 1..n, Becomes(c, a, i), Becomes(c, b, j)
        PROVE  StartAt[bookings'[a].place] < StartAt[bookings'[b].place]
    <3>1. i < j
      BY <1>7, <2>1, <2>4
    <3>2. StartAt[PlanOf(c)[i]] < StartAt[PlanOf(c)[j]]
      BY <1>2, <3>1, SeriesAssumption
    <3>3. QED
      BY <1>7, <2>4, <3>2
  <2>5. QED
    BY <1>2, <2>1, <2>2, <2>3, <2>4
<1>10. ASSUME NEW d \in Client, tx'[d].op \in SeriesCancels
       PROVE  RowsAreKnown(d)'
  <2>1. tx'[d] = tx[d] /\ reading'[d] = reading[d]
    BY <1>1, <1>10, EndedKnown
  <2>2. QED
    BY <1>4, <1>6, <1>10, <2>1, RowsStayKnown DEF KnownInv
<1>11. CancelledSeriesIsOver'
  <2>1. SUFFICES ASSUME NEW j \in Key, series'[j] = "CANCELLED", NEW b \in Booking,
                        occurrence'[b].key = j, Active(b)'
                 PROVE  StartAt[bookings'[b].place] <= now'
    BY DEF CancelledSeriesIsOver, Occurrences
  <2>2. j # k /\ series[j] = "CANCELLED"
    BY <1>1, <1>2, <2>1 DEF SeriesTypeOK
  <2>3. Untouched(b)
    BY <1>2, <1>7, <2>1, <2>2
  <2>4. occurrence[b].key = j /\ Active(b) /\ bookings'[b] = bookings[b]
    BY <2>1, <2>3 DEF Untouched, Active
  <2>5. QED
    BY <1>1, <2>1, <2>2, <2>4 DEF KnownInv, CancelledSeriesIsOver, Occurrences
<1>12. QED
  BY <1>8, <1>9, <1>10, <1>11 DEF KnownInv

-----------------------------------------------------------------------------
(* A series that is cancelled *)

(* The customer's handler counts what is in the future by now among the rows
   it has read.  Time passes from the first occurrence on, so what it has
   left out is over before anything it cancels: equal numbers mean that the
   targets are all there is. *)
LEMMA TargetsAreWhole ==
    ASSUME IsFiniteSet(Booking), SeriesInv, KnownInv, NEW c \in Client,
           tx[c].op \in SeriesCancels, WholeSeries(c),
           NEW b \in DOMAIN reading[c].rows, Undecidable(reading[c].rows[b]),
           StartAt[bookings[b].place] > now
    PROVE  b \in reading[c].targets
<1> DEFINE r == reading[c]
           future == ActiveFuture(r.rows)
<1>1. /\ r.key \in Key /\ DOMAIN r.rows = Occurrences(r.key) /\ r.targets \subseteq DOMAIN r.rows
      /\ RowsAreKnown(c)
  BY DEF SeriesInv, ReadingOK, ReaderOK, KnownInv
<1>2. \A a \in DOMAIN r.rows : /\ a \in Booking /\ occurrence[a].key = r.key /\ r.key # None
                               /\ r.rows[a].place = bookings[a].place
  BY <1>1, SeriesAssumption DEF Occurrences, RowsAreKnown
<1>3. \A a \in DOMAIN r.rows : StartAt[bookings[a].place] \in Nat /\ occurrence[a].index \in Nat
  BY <1>2, OccurrencePlace DEF SeriesInv, SeriesTypeOK
<1>4. now \in Nat /\ tx[c].at \in Nat /\ tx[c].at <= now
  BY <1>1, KnownTypes DEF RowsAreKnown
<1>5. PICK from \in Nat :
         r.targets = {a \in DOMAIN r.rows : /\ Undecidable(r.rows[a])
                                            /\ StartAt[r.rows[a].place] > tx[c].at
                                            /\ occurrence[a].index >= from}
  BY <1>1 DEF RowsAreKnown
<1>6. StartAt[r.rows[b].place] > now /\ StartAt[r.rows[b].place] > tx[c].at
  BY <1>2, <1>3, <1>4
<1>7. CASE ~Running(c, "cancelSeries")
  BY <1>6, <1>7 DEF WholeSeries
<1>8. CASE Running(c, "cancelSeries") /\ b \notin r.targets
  <2>1. occurrence[b].index < from
    BY <1>3, <1>5, <1>6, <1>8
  <2>2. ASSUME NEW a \in r.targets
        PROVE  a \in future
    <3>1. a \in DOMAIN r.rows /\ Undecidable(r.rows[a]) /\ occurrence[a].index >= from
      BY <1>5
    <3>2. occurrence[b].index < occurrence[a].index
      BY <1>3, <2>1, <3>1
    <3>3. StartAt[bookings[b].place] < StartAt[bookings[a].place]
      BY <1>2, <3>1, <3>2 DEF KnownInv, InOrder
    <3>4. StartAt[r.rows[a].place] > now
      BY <1>2, <1>3, <1>4, <3>1, <3>3
    <3>5. QED
      BY <3>1, <3>4 DEF ActiveFuture
  <2>3. future \in SUBSET Booking /\ b \in future
    BY <1>2, <1>6 DEF ActiveFuture
  <2>4. IsFiniteSet(future)
    BY <2>3, FS_Subset
  <2>5. Cardinality(r.targets) = Cardinality(future)
    BY <1>8 DEF WholeSeries
  <2>6. r.targets \in SUBSET future
    BY <2>2
  <2>7. r.targets = future
    BY <2>4, <2>5, <2>6, FS_Subset
  <2>8. QED
    BY <1>8, <2>3, <2>7
<1>9. QED
  BY <1>7, <1>8

LEMMA WriteCancelKnown ==
    ASSUME IsFiniteSet(Booking), SeriesInv, KnownInv, NEW c \in Client, WriteCancelSeries(c)
    PROVE  KnownInv'
<1> DEFINE r == reading[c]
<1>1. /\ Ends(c) /\ reading' = [reading EXCEPT ![c] = NotReading]
      /\ UNCHANGED <<now, occurrence>> /\ tx[c].op \in SeriesCancels
      /\ series' = IF WholeSeries(c) THEN [series EXCEPT ![r.key] = "CANCELLED"] ELSE series
  BY DEF WriteCancelSeries, SeriesEnds, SeriesCancels, Running
<1>2. /\ r.key \in Key
      /\ \A b \in Booking : b \notin r.targets => bookings'[b] = bookings[b]
      /\ \A b \in r.targets :
            bookings'[b].status = "CANCELLED" /\ bookings'[b].place = bookings[b].place
  BY CancelSeriesWritten
<1>3. Settles
  <2>1. ASSUME NEW b \in Booking, occurrence[b].key # None, b \notin r.targets
        PROVE  bookings'[b].place = bookings[b].place /\ (Active(b)' => Active(b))
               /\ bookings'[b].status # "HOLD"
    BY <1>2, <2>1 DEF Active, KnownInv, NeverHeld
  <2>2. ASSUME NEW b \in r.targets
        PROVE  bookings'[b].place = bookings[b].place /\ ~Active(b)' /\ bookings'[b].status # "HOLD"
    BY <1>2, <2>2 DEF Active, Blocking
  <2>3. QED
    BY <2>1, <2>2 DEF Settles
<1>4. ASSUME NEW d \in Client
      PROVE  /\ tx[d].at \in Nat
             /\ Running(d, "confirmHold")' => occurrence[tx'[d].subject].key = None
             /\ tx'[d].op \in SeriesCancels => tx'[d] = tx[d] /\ reading'[d] = reading[d]
  <2>1. tx[d].at \in Nat
    BY KnownTypes
  <2>2. QED
    BY <1>1, <2>1, EndedKnown DEF Running, KnownInv, NeverHeld, Id
<1>5. now \in Nat /\ now' \in Nat /\ now' >= now
  BY <1>1, KnownTypes
<1>6. /\ NeverHeld' /\ InOrder'
      /\ \A d \in Client : (tx[d].op \in SeriesCancels)' => RowsAreKnown(d)'
      /\ \A k \in Key, b \in Booking :
            series[k] = "CANCELLED" /\ occurrence[b].key = k /\ Active(b)'
               => StartAt[bookings'[b].place] <= now'
  BY <1>1, <1>3, <1>4, <1>5, KnownStays
<1>7. ASSUME NEW b \in Booking, WholeSeries(c), occurrence[b].key = r.key, Active(b)'
      PROVE  StartAt[bookings'[b].place] <= now'
  <2>1. b \notin r.targets
    BY <1>2, <1>7 DEF Active, Blocking
  <2>2. bookings'[b] = bookings[b] /\ Active(b)
    BY <1>2, <1>7, <2>1 DEF Active
  <2>3. b \in DOMAIN r.rows /\ RowsAreKnown(c)
    BY <1>1, <1>7 DEF SeriesInv, ReadingOK, ReaderOK, Occurrences, KnownInv
  <2>4. r.rows[b].status \in {"PENDING_APPROVAL", "CONFIRMED"}
    BY <2>2, <2>3 DEF RowsAreKnown, Blocking
  <2>5. ~(StartAt[bookings[b].place] > now)
    BY <1>1, <1>7, <2>1, <2>3, <2>4, TargetsAreWhole DEF Undecidable
  <2>6. StartAt[bookings[b].place] \in Nat
    BY <1>2, <1>7, OccurrencePlace, SeriesAssumption
  <2>7. QED
    BY <1>1, <1>5, <2>2, <2>5, <2>6
<1>8. CancelledSeriesIsOver'
  <2>1. SUFFICES ASSUME NEW k \in Key, series'[k] = "CANCELLED", NEW b \in Booking,
                        occurrence'[b].key = k, Active(b)'
                 PROVE  StartAt[bookings'[b].place] <= now'
    BY DEF CancelledSeriesIsOver, Occurrences
  <2>2. CASE series[k] = "CANCELLED"
    BY <1>1, <1>6, <2>1, <2>2
  <2>3. CASE series[k] # "CANCELLED"
    <3>1. WholeSeries(c) /\ k = r.key
      BY <1>1, <1>2, <2>1, <2>3 DEF SeriesInv, SeriesTypeOK
    <3>2. QED
      BY <1>1, <1>7, <2>1, <3>1
  <2>4. QED
    BY <2>2, <2>3
<1>9. QED
  BY <1>6, <1>8 DEF KnownInv

LEMMA SeriesStepKnown ==
    ASSUME IsFiniteSet(Booking), SeriesInv, KnownInv, NEW c \in Client, SeriesStep(c)
    PROVE  KnownInv'
<1>1. ASSUME NEW k \in Key, NEW plan \in Plan,
             BeginCreateSeries(c, k, plan) \/ BeginCreateSeriesAdmin(c, k, plan)
      PROVE  KnownInv'
  BY <1>1, CreationBeginsKnown DEF BeginCreateSeries, BeginCreateSeriesAdmin, SeriesCreates
<1>2. ASSUME NEW k \in Key, NEW b \in Booking, NEW op \in {"cancelSeries", "cancelSeriesAdmin"},
             BeginCancelSeries(c, op, k, occurrence[b].index)
      PROVE  KnownInv'
  BY <1>2, CancelBeginsKnown DEF SeriesCancels
<1>3. QED
  BY <1>1, <1>2, EnterKnown, SeriesWrittenKnown, WriteCancelKnown, GivesUpKnown DEF SeriesStep

(* Which handlers never run *)
Avoids(Ops) == \A c \in Client : tx[c].op \notin Ops

LEMMA AvoidsStays ==
    ASSUME NEW Ops, Workload \cap Ops = {}, Idle.op \notin Ops, SeriesInv, Avoids(Ops),
           [SeriesNext]_seriesVars
    PROVE  Avoids(Ops)'
<1>1. tx \in [Client -> Transaction]
  BY KnownTypes
<1>2. ASSUME NEW c \in Client, Ends(c)
      PROVE  Avoids(Ops)'
  BY <1>1, <1>2 DEF Ends, Avoids
<1>3. ASSUME NEW c \in Client, NEW op \in Workload, NEW subject, NEW target, NEW revision,
             NEW override, Starts(c, op, subject, target, revision, override)
      PROVE  Avoids(Ops)'
  BY <1>1, <1>3 DEF Starts, Avoids
<1>4. ASSUME tx' = tx
      PROVE  Avoids(Ops)'
  BY <1>4 DEF Avoids
<1>5. ASSUME NEW c \in Client, SeriesStep(c)
      PROVE  Avoids(Ops)'
  <2>1. CASE \E k \in Key, plan \in Plan :
                BeginCreateSeries(c, k, plan) \/ BeginCreateSeriesAdmin(c, k, plan)
    BY <1>3, <2>1 DEF BeginCreateSeries, BeginCreateSeriesAdmin, SeriesStarts
  <2>2. CASE \E k \in Key, b \in Booking, op \in {"cancelSeries", "cancelSeriesAdmin"} :
                BeginCancelSeries(c, op, k, occurrence[b].index)
    BY <1>3, <2>2 DEF BeginCancelSeries, SeriesStarts
  <2>3. CASE EnterCreateSeries(c)
    BY <1>4, <2>3 DEF EnterCreateSeries, Locks
  <2>4. CASE WriteCreateSeries(c) \/ WriteCancelSeries(c) \/ SeriesGivesUp(c)
    BY <1>2, <2>4 DEF WriteCreateSeries, WriteCancelSeries, SeriesGivesUp, SeriesEnds, Fails
  <2>5. QED
    BY <1>5, <2>1, <2>2, <2>3, <2>4 DEF SeriesStep
<1>6. ASSUME BookingPart
      PROVE  Avoids(Ops)'
  <2>1. ASSUME NEW c \in Client, Begin(c)
        PROVE  Avoids(Ops)'
    BY <1>3, <2>1, BeginOps
  <2>2. ASSUME NEW c \in Client, Admission(c)
        PROVE  Avoids(Ops)'
    BY <1>4, <2>2, AdmissionOps DEF Locks
  <2>3. ASSUME NEW c \in Client, Write(c) \/ GiveUp(c)
        PROVE  Avoids(Ops)'
    BY <1>2, <2>3, WriteOps DEF GiveUp, Fails
  <2>4. ASSUME Timer \/ Tick
        PROVE  Avoids(Ops)'
    BY <1>4, <2>4 DEF Timer, expireStaleHolds, ExpiresHolds, expirePastPending, Tick
  <2>5. QED
    BY <1>6, <2>1, <2>2, <2>3, <2>4 DEF BookingPart
<1>7. SeriesNext => (\E c \in Client : SeriesStep(c)) \/ BookingPart
  BY DEF SeriesNext, BookingPart
<1>8. QED
  BY <1>4, <1>5, <1>6, <1>7 DEF seriesVars

LEMMA AvoidsInit ==
    ASSUME NEW Ops, Idle.op \notin Ops, SeriesInit
    PROVE  Avoids(Ops)
BY DEF SeriesInit, ScheduleInit, Avoids

LEMMA KnownStutters ==
    ASSUME SeriesInv, KnownInv, UNCHANGED seriesVars
    PROVE  KnownInv'
<1>1. UNCHANGED <<now, bookings, tx, series, occurrence, reading>>
  BY DEF seriesVars
<1>2. QED
  BY <1>1, OthersKnown

LEMMA InitKnown == ASSUME SeriesInit PROVE KnownInv
<1>1. /\ \A b \in Booking : occurrence[b].key = None
      /\ \A c \in Client : tx[c] = Idle
      /\ \A k \in Key : series[k] = "NONE"
  BY DEF SeriesInit, ScheduleInit, NoSeries
<1>2. QED
  BY <1>1, SeriesAssumption
     DEF KnownInv, NeverHeld, InOrder, CancelledSeriesIsOver, Occurrences, Running, Idle,
         SeriesCancels

LEMMA KnownInvariance ==
    ASSUME IsFiniteSet(Booking), "reschedule" \notin Workload
    PROVE  SeriesSpec => []KnownInv
<1> DEFINE Ops == {"reschedule"}
<1>1. Workload \cap Ops = {} /\ Idle.op \notin Ops
  BY DEF Idle
<1>2. SeriesInit => Avoids(Ops) /\ KnownInv
  BY <1>1, AvoidsInit, InitKnown
<1>3. SeriesInv /\ Avoids(Ops) /\ [SeriesNext]_seriesVars => Avoids(Ops)'
  BY <1>1, AvoidsStays
<1>4. ASSUME SeriesInv, Avoids(Ops), KnownInv, [SeriesNext]_seriesVars
      PROVE  KnownInv'
  <2>1. NobodyMoves
    BY <1>4 DEF Avoids, NobodyMoves
  <2>2. SeriesNext => (\E c \in Client : SeriesStep(c)) \/ BookingPart
    BY DEF SeriesNext, BookingPart
  <2>3. QED
    BY <1>4, <2>1, <2>2, SeriesStepKnown, BookingPartKnown, KnownStutters
<1> HIDE DEF Ops
<1>5. QED
  BY <1>2, <1>3, <1>4, SeriesInvariance, PTL DEF SeriesSpec

(* Where single bookings are not moved: a series that says CANCELLED has
   nothing left to come, in whatever order cancellations of a part of it by
   customer and salon, decisions on its occurrences and the passing of time
   commit, though the rows were read before, the update looks at nothing,
   and the customer's handler only compares two numbers. *)
THEOREM CancelledSeriesAreOver ==
    ASSUME IsFiniteSet(Booking), "reschedule" \notin Workload
    PROVE  SeriesSpec => []CancelledSeriesIsOver
<1>1. KnownInv => CancelledSeriesIsOver
  BY DEF KnownInv
<1>2. QED
  BY <1>1, KnownInvariance, PTL

-----------------------------------------------------------------------------
(* An occurrence that is cancelled once *)

(* The handlers that write to a single confirmed booking. *)
SingleOps == {"cancel", "reschedule", "updateDetails", "markNoShow", "revertNoShow"}

(* A cancelled booking has been announced by its series, at its place. *)
CancelledIsAnnounced ==
    \A b \in Booking :
        bookings[b].status = "CANCELLED" =>
            /\ occurrence[b].key # None
            /\ Announced(Freed("BOOKING_SERIES_CANCELLATION", b, 0, bookings[b].place))

(* No booking becomes cancelled, and none that is is written to. *)
CancelledAlone ==
    /\ \A b \in Booking :
          /\ bookings[b].status = "CANCELLED" => Untouched(b)
          /\ bookings'[b].status = "CANCELLED" => bookings[b].status = "CANCELLED"
    /\ recovery \subseteq recovery'

LEMMA AloneStays ==
    ASSUME CancelledIsAnnounced, CancelledAlone
    PROVE  /\ CancelledIsAnnounced'
           /\ \A b \in Booking : bookings[b].status = "CANCELLED" => bookings'[b] = bookings[b]
<1> DEFINE e(b) == Freed("BOOKING_SERIES_CANCELLATION", b, 0, bookings[b].place)
<1>1. ASSUME NEW b \in Booking, bookings'[b].status = "CANCELLED"
      PROVE  /\ occurrence'[b].key # None /\ bookings'[b].place = bookings[b].place
             /\ \E f \in recovery' : /\ f.type = e(b).type /\ f.source = e(b).source
                                     /\ f.revision = e(b).revision
                                     /\ StartAt[f.place] = StartAt[e(b).place]
  <2>1. bookings'[b] = bookings[b] /\ occurrence'[b] = occurrence[b]
        /\ bookings[b].status = "CANCELLED"
    BY <1>1 DEF CancelledAlone, Untouched
  <2>2. occurrence[b].key # None /\ Announced(e(b))
    BY <2>1 DEF CancelledIsAnnounced
  <2>3. QED
    BY <2>1, <2>2 DEF Announced, CancelledAlone
<1>2. CancelledIsAnnounced'
  BY <1>1 DEF CancelledIsAnnounced, Announced, Freed
<1>3. QED
  BY <1>2 DEF CancelledAlone, Untouched

LEMMA BookingPartAlone ==
    ASSUME SeriesInv, KnownInv, CancelledIsAnnounced, Avoids(SingleOps), BookingPart
    PROVE  CancelledAlone
<1>1. bookings \in [Booking -> BookingRow] /\ HandlerOK /\ occurrence' = occurrence
  BY KnownTypes DEF SeriesInv, IInv, BookingPart, seriesOnly
<1>2. ASSUME UNCHANGED <<bookings, recovery>>
      PROVE  CancelledAlone
  BY <1>1, <1>2 DEF CancelledAlone, Untouched
<1>3. ASSUME ExpiresHolds
      PROVE  CancelledAlone
  BY <1>1, <1>3 DEF ExpiresHolds, StaleHold, CancelledAlone, Untouched, BookingRow
<1>4. ASSUME NEW a \in Booking, expirePastPending(a)
      PROVE  CancelledAlone
  BY <1>1, <1>4 DEF expirePastPending, PastPending, CancelledAlone, Untouched, BookingRow
<1>5. ASSUME NEW c \in Client, NEW row, Puts(c, Id(c), row), row.status # "CANCELLED",
             Id(c) \in Booking, bookings[Id(c)].status # "CANCELLED",
             recovery \subseteq recovery'
      PROVE  CancelledAlone
  BY <1>1, <1>5 DEF Puts, CancelledAlone, Untouched
<1>6. ASSUME NEW c \in Client, Write(c)
      PROVE  CancelledAlone
  <2>1. CASE WriteHold(c)
    <3>1. /\ Puts(c, Id(c), HeldRow(c)) /\ recovery' = recovery
          /\ Id(c) \in Booking /\ bookings[Id(c)].status = "NONE"
      BY <1>1, <2>1 DEF WriteHold, HandlerOK, CreateOps, Running, Id
    <3>2. HeldRow(c).status = "HOLD"
      BY DEF HeldRow, NoBooking
    <3>3. QED
      BY <1>5, <3>1, <3>2
  <2>2. CASE WriteCreate(c)
    <3>1. /\ Id(c) \in Booking /\ bookings[Id(c)].status = "NONE" /\ recovery' = recovery
          /\ Puts(c, Id(c), [NoBooking EXCEPT !.status = "CONFIRMED", !.source = "MANUAL",
                                              !.place = tx[c].target])
      BY <1>1, <2>2 DEF WriteCreate, HandlerOK, CreateOps, Running, Id
    <3>2. [NoBooking EXCEPT !.status = "CONFIRMED", !.source = "MANUAL",
                            !.place = tx[c].target].status = "CONFIRMED"
      BY DEF NoBooking
    <3>3. QED
      BY <1>5, <3>1, <3>2
  <2>3. CASE WriteConfirm(c) \/ WriteConfirmBlocked(c)
    <3>1. Running(c, "confirmHold") /\ recovery' = recovery
      BY <2>3 DEF WriteConfirm, WriteConfirmBlocked
    <3>2. Id(c) \in Booking /\ bookings[Id(c)].status # "CANCELLED"
      BY <1>1, <3>1 DEF HandlerOK, ExistingOps, Running, Id, KnownInv, NeverHeld,
                        CancelledIsAnnounced
    <3>3. Puts(c, Id(c), ConfirmedRow(c)) \/ Puts(c, Id(c), ReleasedRow(c))
      BY <2>3 DEF WriteConfirm, WriteConfirmBlocked
    <3>4. ConfirmedRow(c).status = "PENDING_APPROVAL" /\ ReleasedRow(c).status = "EXPIRED"
      BY <1>1, <3>2 DEF ConfirmedRow, ReleasedRow, Mine, BookingRow
    <3>5. QED
      BY <1>5, <3>1, <3>2, <3>3, <3>4
  <2>4. CASE WriteApprove(c) \/ WriteReject(c)
    <3>1. /\ Id(c) \in Booking /\ bookings[Id(c)].status = "PENDING_APPROVAL"
          /\ recovery \subseteq recovery'
      BY <1>1, <2>4 DEF WriteApprove, WriteReject, Undecided, Mine, HandlerOK, ExistingOps,
                        Running, Id, Announces
    <3>2. \/ Puts(c, Id(c), [Mine(c) EXCEPT !.status = "CONFIRMED", !.visit = "SCHEDULED",
                                            !.revision = @ + 1])
          \/ Puts(c, Id(c), [Mine(c) EXCEPT !.status = "REJECTED", !.revision = @ + 1])
      BY <2>4 DEF WriteApprove, WriteReject
    <3>3. /\ [Mine(c) EXCEPT !.status = "CONFIRMED", !.visit = "SCHEDULED",
                             !.revision = @ + 1].status = "CONFIRMED"
          /\ [Mine(c) EXCEPT !.status = "REJECTED", !.revision = @ + 1].status = "REJECTED"
      BY <1>1, <3>1 DEF Mine, BookingRow
    <3>4. QED
      BY <1>5, <3>1, <3>2, <3>3
  <2>5. CASE WriteCreateBlock(c) \/ WriteUpdateBlock(c) \/ WriteCancelBlock(c)
    <3>1. bookings' = bookings /\ recovery \subseteq recovery'
      BY <2>5 DEF WriteCreateBlock, WriteUpdateBlock, WriteCancelBlock, PutsBlock, Announces
    <3>2. QED
      BY <1>1, <3>1 DEF CancelledAlone, Untouched
  <2>6. ~(\/ WriteCancel(c) \/ WriteReschedule(c) \/ WriteUpdateDetails(c)
          \/ WriteMarkNoShow(c) \/ WriteRevertNoShow(c))
    BY DEF WriteCancel, WriteReschedule, WriteUpdateDetails, WriteMarkNoShow, WriteRevertNoShow,
           Running, Avoids, SingleOps
  <2>7. QED
    BY <1>6, <2>1, <2>2, <2>3, <2>4, <2>5, <2>6 DEF Write
<1>7. ASSUME NEW c \in Client, Begin(c)
      PROVE  CancelledAlone
  BY <1>2, <1>7, BeginOps DEF Starts
<1>8. ASSUME NEW c \in Client, Admission(c)
      PROVE  CancelledAlone
  BY <1>2, <1>8, AdmissionOps DEF Locks
<1>9. ASSUME NEW c \in Client, GiveUp(c)
      PROVE  CancelledAlone
  BY <1>2, <1>9 DEF GiveUp, Fails
<1>10. ASSUME Timer \/ Tick
       PROVE  CancelledAlone
  <2>1. CASE ExpiresHolds
    <3>1. recovery' = recovery
      BY <2>1 DEF ExpiresHolds
    <3>2. QED
      BY <1>3, <2>1
  <2>2. QED
    BY <1>2, <1>4, <1>10, <2>1 DEF Timer, expireStaleHolds, Tick
<1>11. QED
  BY <1>6, <1>7, <1>8, <1>9, <1>10 DEF BookingPart

LEMMA SeriesStepAlone ==
    ASSUME SeriesInv, NEW c \in Client, SeriesStep(c), ~WriteCancelSeries(c)
    PROVE  CancelledAlone
<1>1. CASE WriteCreateSeries(c)
  <2>1. \A b \in Booking : Untouched(b) \/ \E i \in 1..Len(PlanOf(c)) : Becomes(c, b, i)
    BY <1>1, SeriesWritten DEF SeriesInv
  <2>2. ASSUME NEW b \in Booking, NEW i \in 1..Len(PlanOf(c)), Becomes(c, b, i)
        PROVE  bookings[b].status = "NONE" /\ bookings'[b].status # "CANCELLED"
    <3>1. PlanOf(c)[i] \in Place /\ CreatesSeries(c)
      BY <1>1, SeriesWritten, PlanIs DEF SeriesInv, WriteCreateSeries
    <3>2. QED
      BY <2>2, <3>1, OccurrenceRowIs DEF Becomes, FreshBooking
  <2>3. recovery' = recovery
    BY <1>1 DEF WriteCreateSeries
  <2>4. QED
    BY <2>1, <2>2, <2>3 DEF CancelledAlone, Untouched
<1>2. CASE ~WriteCreateSeries(c)
  <2>1. UNCHANGED <<bookings, recovery, occurrence>>
    BY <1>2 DEF SeriesStep, BeginCreateSeries, BeginCreateSeriesAdmin, EnterCreateSeries,
                BeginCancelSeries, SeriesStarts, Starts, Locks, SeriesGivesUp, Fails, seriesOnly
  <2>2. QED
    BY <2>1 DEF CancelledAlone, Untouched
<1>3. QED
  BY <1>1, <1>2

(* The second of two cancellations finds the events of the first. *)
LEMMA WriteCancelOnce ==
    ASSUME SeriesInv, KnownInv, CancelledIsAnnounced, NEW c \in Client, WriteCancelSeries(c)
    PROVE  /\ CancelledIsAnnounced'
           /\ \A b \in Booking : bookings[b].status = "CANCELLED" => bookings'[b] = bookings[b]
<1> DEFINE r == reading[c]
           e(b) == Freed("BOOKING_SERIES_CANCELLATION", b, 0, bookings[b].place)
<1>1. /\ tx[c].op \in SeriesCancels /\ occurrence' = occurrence
      /\ EventsAreNew({Freed("BOOKING_SERIES_CANCELLATION", b, 0, r.rows[b].place) : b \in r.targets})
      /\ recovery' = recovery \cup
            {Freed("BOOKING_SERIES_CANCELLATION", b, 0, r.rows[b].place) : b \in r.targets}
  BY DEF WriteCancelSeries, SeriesCancels, Running
<1>2. /\ r.key \in Key /\ r.targets \subseteq Booking
      /\ \A b \in Booking : b \notin r.targets => bookings'[b] = bookings[b]
      /\ \A b \in r.targets :
            /\ bookings'[b].status = "CANCELLED" /\ bookings'[b].place = bookings[b].place
            /\ occurrence[b].key = r.key /\ b \in DOMAIN r.rows
  BY CancelSeriesWritten
<1>3. \A b \in r.targets : r.rows[b].place = bookings[b].place
  BY <1>1, <1>2 DEF KnownInv, RowsAreKnown
<1>4. ASSUME NEW b \in r.targets
      PROVE  /\ ~Announced(e(b)) /\ e(b) \in recovery'
             /\ bookings[b].status # "CANCELLED" /\ occurrence[b].key # None
  <2>1. ~Announced(e(b)) /\ e(b) \in recovery'
    BY <1>1, <1>3 DEF EventsAreNew
  <2>2. QED
    BY <1>2, <2>1, SeriesAssumption DEF CancelledIsAnnounced
<1>5. ASSUME NEW b \in Booking, bookings[b].status = "CANCELLED"
      PROVE  bookings'[b] = bookings[b]
  BY <1>2, <1>4, <1>5
<1>6. ASSUME NEW b \in Booking, bookings'[b].status = "CANCELLED"
      PROVE  /\ occurrence'[b].key # None
             /\ \E f \in recovery' : /\ f.type = e(b).type /\ f.source = e(b).source
                                     /\ f.revision = e(b).revision
                                     /\ StartAt[f.place] = StartAt[e(b).place]
             /\ bookings'[b].place = bookings[b].place
  <2>1. CASE b \in r.targets
    BY <1>1, <1>2, <1>4, <2>1
  <2>2. CASE b \notin r.targets
    <3>1. bookings'[b] = bookings[b]
      BY <1>2, <2>2
    <3>2. occurrence[b].key # None /\ Announced(e(b))
      BY <1>6, <3>1 DEF CancelledIsAnnounced
    <3>3. recovery \subseteq recovery'
      BY <1>1
    <3>4. QED
      BY <1>1, <3>1, <3>2, <3>3 DEF Announced
  <2>3. QED
    BY <2>1, <2>2
<1>7. CancelledIsAnnounced'
  BY <1>6 DEF CancelledIsAnnounced, Announced, Freed
<1>8. QED
  BY <1>5, <1>7

(* Where the salon does not write to single confirmed bookings: no
   occurrence is cancelled a second time, though two cancellations may have
   read the same rows and neither looks at what they have become.  The
   recovery event of the first one, unique in its source and start, undoes
   the second one as a whole. *)
THEOREM OccurrencesAreCancelledOnce ==
    ASSUME IsFiniteSet(Booking), Workload \cap SingleOps = {}
    PROVE  SeriesSpec => OccurrenceCancelledOnce
<1> DEFINE Once == \A b \in Booking : bookings[b].status = "CANCELLED" => bookings'[b] = bookings[b]
<1>1. Idle.op \notin SingleOps /\ "reschedule" \notin Workload
  BY DEF Idle, SingleOps
<1>2. SeriesInit => Avoids(SingleOps) /\ CancelledIsAnnounced
  <2>1. ASSUME SeriesInit
        PROVE  CancelledIsAnnounced
    BY <2>1 DEF SeriesInit, ScheduleInit, CancelledIsAnnounced, NoBooking
  <2>2. QED
    BY <1>1, <2>1, AvoidsInit
<1>3. SeriesInv /\ Avoids(SingleOps) /\ [SeriesNext]_seriesVars => Avoids(SingleOps)'
  BY <1>1, AvoidsStays
<1>4. ASSUME SeriesInv, KnownInv, Avoids(SingleOps), CancelledIsAnnounced, [SeriesNext]_seriesVars
      PROVE  CancelledIsAnnounced' /\ Once
  <2>1. ASSUME NEW c \in Client, WriteCancelSeries(c)
        PROVE  CancelledIsAnnounced' /\ Once
    BY <1>4, <2>1, WriteCancelOnce
  <2>2. ASSUME NEW c \in Client, SeriesStep(c), ~WriteCancelSeries(c)
        PROVE  CancelledAlone
    BY <1>4, <2>2, SeriesStepAlone
  <2>3. BookingPart => CancelledAlone
    BY <1>4, BookingPartAlone
  <2>4. UNCHANGED seriesVars => CancelledAlone
    BY DEF seriesVars, CancelledAlone, Untouched
  <2>5. SeriesNext => (\E c \in Client : SeriesStep(c)) \/ BookingPart
    BY DEF SeriesNext, BookingPart
  <2>6. QED
    BY <1>4, <2>1, <2>2, <2>3, <2>4, <2>5, AloneStays
<1>5. SeriesSpec => []KnownInv
  BY <1>1, KnownInvariance
<1>6. SeriesInv /\ KnownInv /\ Avoids(SingleOps) /\ CancelledIsAnnounced
         /\ [SeriesNext]_seriesVars => CancelledIsAnnounced' /\ [Once]_seriesVars
  BY <1>4
<1>7. QED
  BY <1>2, <1>3, <1>5, <1>6, SeriesInvariance, PTL DEF SeriesSpec, OccurrenceCancelledOnce
=============================================================================
