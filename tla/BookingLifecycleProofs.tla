------------------------ MODULE BookingLifecycleProofs ------------------------
(***************************************************************************)
(* Proofs about BookingLifecycle, for any number of bookings, blocks,      *)
(* clients and places.                                                     *)
(***************************************************************************)
EXTENDS BookingLifecycle, FiniteSetTheorems, TLAPS

(* The part of the inductive invariant that speaks of types. *)
Base == TypeOK /\ HandlerOK /\ LockOK

(* No place is reserved by a step that was not reserved before. *)
Releases ==
    /\ \A r \in Request : LiveRequest(r)' => LiveRequest(r) /\ requests'[r] = requests[r]
    /\ \A o \in Offer : LiveOffer(o)' => LiveOffer(o) /\ offers'[o] = offers[o]

(* The end of a transaction that writes one booking. *)
Commits(c, b, row) ==
    /\ bookings' = [bookings EXCEPT ![b] = row]
    /\ Ends(c)
    /\ Unlocks(c)
    /\ UNCHANGED <<now, blocks>>
    /\ requests' \in [Request -> RequestRow]
    /\ offers' \in [Offer -> OfferRow]
    /\ Releases

-----------------------------------------------------------------------------
(* What the building blocks of the handlers do to the types *)

LEMMA IdleIsTransaction == Idle \in Transaction
BY DEF Idle, Transaction, Subject, Operation

LEMMA StartsType ==
    ASSUME TypeOK, NEW c \in Client, NEW op \in Operation, NEW subject \in Subject,
           NEW target \in Place \cup {None}, NEW revision \in Nat, NEW override \in BOOLEAN,
           Starts(c, op, subject, target, revision, override)
    PROVE  TypeOK'
BY DEF TypeOK, ScheduleTypeOK, Starts, Transaction

LEMMA LocksType ==
    ASSUME TypeOK, NEW c \in Client, Locks(c)
    PROVE  TypeOK'
BY DEF TypeOK, ScheduleTypeOK, Locks

LEMMA CommitType ==
    ASSUME TypeOK, NEW c \in Client, NEW b \in Booking, NEW row \in BookingRow,
           row.status # "NONE" => row.place \in Place,
           Commits(c, b, row),
           recovery' \subseteq RecoveryEvent, reopened' \subseteq Booking
    PROVE  TypeOK'
BY IdleIsTransaction DEF TypeOK, ScheduleTypeOK, Commits, Ends, Unlocks

LEMMA PutsBlockType ==
    ASSUME TypeOK, NEW c \in Client, NEW k \in Block, k = Id(c), NEW row \in BlockRow,
           row.place \in Place,
           PutsBlock(c, row), recovery' \subseteq RecoveryEvent
    PROVE  TypeOK'
BY IdleIsTransaction DEF TypeOK, ScheduleTypeOK, PutsBlock, Ends, Unlocks

-----------------------------------------------------------------------------
(* ... and to the handlers in flight *)

LEMMA IdleHandles ==
    /\ Idle.op \notin CreateOps
    /\ Idle.op \notin ExistingOps
    /\ Idle.op # "reschedule"
    /\ Idle.op \notin BlockOps
BY DEF Idle, CreateOps, ExistingOps, BlockOps

LEMMA StartsBase ==
    ASSUME Base, NEW c \in Client, NEW op \in Operation, NEW subject \in Subject,
           NEW target \in Place \cup {None}, NEW revision \in Nat, NEW override \in BOOLEAN,
           Starts(c, op, subject, target, revision, override),
           op \in CreateOps => /\ subject \in Booking
                               /\ target \in Place
                               /\ FreshBooking(subject),
           op \in ExistingOps => subject \in Booking /\ bookings[subject].status # "NONE",
           op = "reschedule" => target \in Place,
           op \in BlockOps => subject \in Block /\ target \in Place
    PROVE  Base'
<1>1. TypeOK'
  BY StartsType DEF Base
<1>2. /\ tx[c] = Idle
      /\ tx'[c].op = op /\ tx'[c].subject = subject /\ tx'[c].target = target
      /\ \A d \in Client \ {c} : tx'[d] = tx[d]
      /\ bookings' = bookings /\ lock' = lock
  BY DEF Base, TypeOK, ScheduleTypeOK, Starts
<1>3. HandlerOK'
  BY <1>2 DEF Base, HandlerOK, FreshBooking
<1>4. LockOK'
  BY <1>2, NoneAssumption DEF Base, LockOK
<1>5. QED
  BY <1>1, <1>3, <1>4 DEF Base

LEMMA EndsHandlers ==
    ASSUME Base, NEW c \in Client, Ends(c), Unlocks(c)
    PROVE  /\ tx'[c] = Idle
           /\ \A d \in Client \ {c} : tx'[d] = tx[d]
           /\ LockOK'
<1>1. tx'[c] = Idle /\ \A d \in Client \ {c} : tx'[d] = tx[d]
  BY DEF Base, TypeOK, ScheduleTypeOK, Ends
<1>2. LockOK'
  BY <1>1, NoneAssumption DEF Base, LockOK, Unlocks
<1>3. QED
  BY <1>1, <1>2

(* A transaction that leaves the bookings and the blocks alone. *)
LEMMA EndsBase ==
    ASSUME Base, NEW c \in Client, Ends(c), Unlocks(c),
           UNCHANGED <<now, bookings, blocks, recovery, reopened>>,
           requests' \in [Request -> RequestRow], offers' \in [Offer -> OfferRow]
    PROVE  Base'
<1>1. TypeOK'
  BY IdleIsTransaction DEF Base, TypeOK, ScheduleTypeOK, Ends, Unlocks
<1>2. /\ tx'[c] = Idle
      /\ \A d \in Client \ {c} : tx'[d] = tx[d]
      /\ LockOK' /\ bookings' = bookings
  BY EndsHandlers
<1>3. HandlerOK'
  BY <1>2, IdleHandles DEF Base, HandlerOK
<1>4. QED
  BY <1>1, <1>2, <1>3 DEF Base

LEMMA FailsBase ==
    ASSUME Base, NEW c \in Client, Fails(c)
    PROVE  Base'
BY EndsBase DEF Fails, Base, TypeOK, ScheduleTypeOK

LEMMA LocksBase ==
    ASSUME Base, NEW c \in Client, Locks(c), tx[c] # Idle
    PROVE  Base'
<1>1. TypeOK'
  BY LocksType DEF Base
<1>2. HandlerOK' /\ LockOK'
  BY DEF Base, HandlerOK, LockOK, Locks
<1>3. QED
  BY <1>1, <1>2 DEF Base

LEMMA CommitBase ==
    ASSUME Base, NEW c \in Client, NEW b \in Booking, NEW row \in BookingRow,
           row.status # "NONE", row.place \in Place,
           \A d \in Client \ {c} : tx[d].op \in CreateOps => tx[d].subject # b,
           Commits(c, b, row),
           recovery' \subseteq RecoveryEvent, reopened' \subseteq Booking
    PROVE  Base'
<1>1. TypeOK'
  BY CommitType DEF Base
<1>2. /\ tx'[c] = Idle
      /\ \A d \in Client \ {c} : tx'[d] = tx[d]
      /\ LockOK'
  BY EndsHandlers DEF Commits
<1>3. bookings'[b] = row /\ \A a \in Booking \ {b} : bookings'[a] = bookings[a]
  BY DEF Base, TypeOK, ScheduleTypeOK, Commits
<1>4. HandlerOK'
  BY <1>2, <1>3, IdleHandles DEF Base, HandlerOK
<1>5. QED
  BY <1>1, <1>2, <1>4 DEF Base

LEMMA PutsBlockBase ==
    ASSUME Base, NEW c \in Client, Id(c) \in Block, NEW row \in BlockRow,
           row.place \in Place, PutsBlock(c, row), recovery' \subseteq RecoveryEvent
    PROVE  Base'
<1>1. TypeOK'
  BY PutsBlockType DEF Base
<1>2. /\ tx'[c] = Idle
      /\ \A d \in Client \ {c} : tx'[d] = tx[d]
      /\ LockOK' /\ bookings' = bookings
  BY EndsHandlers DEF PutsBlock
<1>3. HandlerOK'
  BY <1>2, IdleHandles DEF Base, HandlerOK
<1>4. QED
  BY <1>1, <1>2, <1>3 DEF Base

-----------------------------------------------------------------------------
(* The types, step by step *)

LEMMA RowTypes ==
    ASSUME Base, NEW b \in Booking
    PROVE  /\ bookings[b] \in BookingRow
           /\ bookings[b].status # "NONE" => bookings[b].place \in Place
BY DEF Base, TypeOK, ScheduleTypeOK

LEMMA BeginBase ==
    ASSUME Base, NEW c \in Client, Begin(c)
    PROVE  Base'
<1> USE DEF Operation, CreateOps, ExistingOps, BlockOps, Subject
<1>1. ASSUME NEW b \in Booking, NEW p \in Place, BeginHold(c, b, p)
      PROVE  Base'
  BY <1>1, StartsBase DEF BeginHold
<1>2. ASSUME NEW b \in Booking, BeginConfirm(c, b)
      PROVE  Base'
  BY <1>2, StartsBase DEF BeginConfirm
<1>3. ASSUME NEW b \in Booking, BeginApprove(c, b)
      PROVE  Base'
  BY <1>3, StartsBase DEF BeginApprove
<1>4. ASSUME NEW b \in Booking, BeginReject(c, b)
      PROVE  Base'
  BY <1>4, RowTypes, StartsBase DEF BeginReject
<1>5. ASSUME NEW b \in Booking, BeginCancel(c, b)
      PROVE  Base'
  BY <1>5, RowTypes, StartsBase DEF BeginCancel
<1>6. ASSUME NEW b \in Booking, NEW p \in Place, BeginCreate(c, b, p)
      PROVE  Base'
  BY <1>6, StartsBase DEF BeginCreate
<1>7. ASSUME NEW b \in Booking, NEW p \in Place, NEW override \in BOOLEAN,
             BeginReschedule(c, b, p, override)
      PROVE  Base'
  <2>1. bookings[b].revision \in Nat
    BY RowTypes DEF BookingRow
  <2>2. QED
    BY <1>7, <2>1, StartsBase DEF BeginReschedule
<1>8. ASSUME NEW b \in Booking, BeginUpdateDetails(c, b)
      PROVE  Base'
  <2>1. bookings[b].revision \in Nat
    BY RowTypes DEF BookingRow
  <2>2. QED
    BY <1>8, <2>1, StartsBase DEF BeginUpdateDetails
<1>9. ASSUME NEW b \in Booking, BeginMarkNoShow(c, b)
      PROVE  Base'
  BY <1>9, StartsBase DEF BeginMarkNoShow
<1>10. ASSUME NEW b \in Booking, BeginRevertNoShow(c, b)
       PROVE  Base'
  BY <1>10, StartsBase DEF BeginRevertNoShow
<1>11. ASSUME NEW k \in Block, NEW p \in Place, BeginCreateBlock(c, k, p)
       PROVE  Base'
  BY <1>11, StartsBase DEF BeginCreateBlock
<1>12. ASSUME NEW k \in Block, NEW p \in Place, BeginUpdateBlock(c, k, p)
       PROVE  Base'
  <2>1. blocks[k].version \in Nat
    BY DEF Base, TypeOK, ScheduleTypeOK, BlockRow
  <2>2. /\ "updateBlock" \in Operation /\ "updateBlock" \notin CreateOps \cup ExistingOps
        /\ k \in Subject
    OBVIOUS
  <2>3. QED
    BY <1>12, <2>1, <2>2, StartsBase DEF BeginUpdateBlock
<1>13. ASSUME NEW k \in Block, BeginCancelBlock(c, k)
       PROVE  Base'
  <2>1. blocks[k].status = "ACTIVE" => blocks[k].place \in Place
    BY DEF Base, TypeOK, ScheduleTypeOK
  <2>2. /\ "cancelBlock" \in Operation /\ "cancelBlock" \notin CreateOps \cup ExistingOps
        /\ k \in Subject
    OBVIOUS
  <2>3. QED
    BY <1>13, <2>1, <2>2, StartsBase DEF BeginCancelBlock
<1>14. QED
  BY <1>1, <1>2, <1>3, <1>4, <1>5, <1>6, <1>7, <1>8, <1>9, <1>10, <1>11, <1>12, <1>13
     DEF Begin

LEMMA AdmissionBase ==
    ASSUME Base, NEW c \in Client, Admission(c)
    PROVE  Base'
BY LocksBase
   DEF Admission, EnterHold, EnterReschedule, EnterUpdateDetails, EnterCreateBlock,
       EnterUpdateBlock, Enter, Running, Idle

-----------------------------------------------------------------------------
(* What a handler may write.  A row keeps its place when it takes up no more
   of the calendar than before; it fits when it disturbs nobody. *)

Keeps(b, row) ==
    row.status \in Blocking =>
        /\ Active(b)
        /\ row.source = bookings[b].source
        /\ row.override = bookings[b].override
        /\ row.place = bookings[b].place

(* No live request and no live offer is left on the place. *)
Unreserved(p) ==
    /\ \A r \in Request : LiveRequest(r)' => ~Overlap(Busy[requests'[r].place], Busy[p])
    /\ \A o \in Offer : LiveOffer(o)' => ~Overlap(Busy[offers'[o].place], Busy[p])

Fits(b, row) ==
    /\ ExclusionHolds(b, row)
    /\ SegmentGuardHolds(b, row)
    /\ Exclusive(row) => ~TakenByBlock(row.place) /\ Unreserved(row.place)

BookingWrite(c, b, row) ==
    /\ b \in Booking
    /\ \A d \in Client \ {c} : tx[d].op \in CreateOps => tx[d].subject # b
    /\ row \in BookingRow
    /\ row.status # "NONE" /\ row.place \in Place
    /\ Commits(c, b, row)
    /\ recovery' \subseteq RecoveryEvent
    /\ reopened \subseteq reopened' /\ reopened' \subseteq Booking
    /\ bookings[b].status \in Terminal /\ row.status # bookings[b].status => b \in reopened'
    /\ \/ Keeps(b, row)
       \/ b \in reopened' /\ ExclusionHolds(b, row)
       \/ lock \in {c, None} /\ Fits(b, row)

LEMMA SameReservations ==
    ASSUME requests' = requests, offers' = offers, now' = now
    PROVE  /\ Releases
           /\ \A p : ~TakenByRequest(p) /\ ~TakenByOffer(p, None) => Unreserved(p)
<1>1. Releases
  BY DEF Releases, LiveRequest, LiveOffer
<1>2. ASSUME NEW p, ~TakenByRequest(p), ~TakenByOffer(p, None)
      PROVE  Unreserved(p)
  BY <1>2, NoneAssumption DEF Unreserved, TakenByRequest, TakenByOffer, LiveRequest, LiveOffer
<1>3. QED
  BY <1>1, <1>2

(* A place that was free of reservations stays free of them. *)
LEMMA ReservationsFade ==
    ASSUME Releases
    PROVE  /\ \A p : TakenByRequest(p)' => TakenByRequest(p)
           /\ \A p, o : TakenByOffer(p, o)' => TakenByOffer(p, o)
BY DEF Releases, TakenByRequest, TakenByOffer

(* What the handlers of this module have in common when they write. *)
LEMMA HandlerWrites ==
    ASSUME Base, NEW c \in Client, tx[c].op \in CreateOps \cup ExistingOps,
           NEW row \in BookingRow, row.status # "NONE", row.place \in Place,
           Puts(c, Id(c), row), requests' = requests,
           recovery' \subseteq RecoveryEvent,
           reopened \subseteq reopened', reopened' \subseteq Booking,
           Mine(c).status \in Terminal /\ row.status # Mine(c).status => Id(c) \in reopened',
           \/ Keeps(Id(c), row)
           \/ Id(c) \in reopened' /\ ExclusionHolds(Id(c), row)
           \/ lock \in {c, None} /\ Fits(Id(c), row)
    PROVE  BookingWrite(c, Id(c), row)
<1>1. /\ Id(c) \in Booking
      /\ \A d \in Client \ {c} : tx[d].op \in CreateOps => tx[d].subject # Id(c)
  BY DEF Base, HandlerOK, Id
<1>2. Releases
  BY SameReservations DEF Puts
<1>3. Commits(c, Id(c), row)
  BY <1>2 DEF Puts, Commits, Base, TypeOK, ScheduleTypeOK
<1>4. QED
  BY <1>1, <1>3 DEF BookingWrite, Mine

LEMMA Existing ==
    ASSUME Base, NEW c \in Client, tx[c].op \in ExistingOps
    PROVE  /\ Id(c) \in Booking
           /\ Mine(c) \in BookingRow
           /\ Mine(c).status # "NONE"
           /\ Mine(c).place \in Place
           /\ tx[c] \in Transaction
BY RowTypes DEF Base, TypeOK, ScheduleTypeOK, HandlerOK, Id, Mine

LEMMA FreedType ==
    ASSUME NEW type \in RecoverySource, NEW source \in Booking \cup Block,
           NEW revision \in Nat, NEW place \in Place \cup {None}, Base,
           Announces(Freed(type, source, revision, place))
    PROVE  recovery' \subseteq RecoveryEvent
BY DEF Base, TypeOK, ScheduleTypeOK, Announces, Freed, RecoveryEvent

LEMMA NoBookingType == NoBooking \in BookingRow
BY DEF NoBooking, BookingRow, Status

LEMMA WriteHoldIs ==
    ASSUME Base, LockProtectsCheck, NEW c \in Client, WriteHold(c)
    PROVE  BookingWrite(c, Id(c), HeldRow(c))
<1>1. /\ Id(c) \in Booking /\ tx[c].target \in Place
      /\ tx[c] \in Transaction /\ Mine(c).status = "NONE"
  BY DEF WriteHold, Running, Base, TypeOK, ScheduleTypeOK, HandlerOK, CreateOps, Id, Mine
<1>2. HeldRow(c) \in BookingRow
  <2>1. tx[c].at + HoldTtl \in Nat
    BY <1>1, BoundAssumption DEF Transaction
  <2>2. QED
    BY <1>1, <2>1, NoBookingType, Zenon DEF HeldRow, BookingRow, Status
<1>3. HeldRow(c).status = "HOLD" /\ HeldRow(c).place = tx[c].target
  BY DEF HeldRow, NoBooking
<1>4. ~TakenByBlock(tx[c].target) /\ Unreserved(tx[c].target)
  BY SameReservations DEF WriteHold, Puts, LockProtectsCheck, CheckStillHolds
<1>5. Fits(Id(c), HeldRow(c)) /\ lock \in {c, None}
  BY <1>3, <1>4 DEF WriteHold, Fits
<1>6. recovery' \subseteq RecoveryEvent /\ reopened \subseteq reopened' /\ reopened' \subseteq Booking
  BY DEF WriteHold, Base, TypeOK, ScheduleTypeOK
<1>7. QED
  BY <1>1, <1>2, <1>3, <1>5, <1>6, HandlerWrites DEF WriteHold, Terminal, Running, CreateOps

LEMMA ReopeningType ==
    ASSUME Base, NEW c \in Client, Id(c) \in Booking, NotesReopening(c)
    PROVE  /\ reopened \subseteq reopened' /\ reopened' \subseteq Booking
           /\ Decided(Id(c)) => Id(c) \in reopened'
BY DEF Base, TypeOK, ScheduleTypeOK, NotesReopening

LEMMA WriteConfirmIs ==
    ASSUME Base, NEW c \in Client, WriteConfirm(c)
    PROVE  BookingWrite(c, Id(c), ConfirmedRow(c))
<1>1. /\ Id(c) \in Booking /\ Mine(c) \in BookingRow
      /\ Mine(c).status # "NONE" /\ Mine(c).place \in Place
  BY Existing DEF WriteConfirm, Running, ExistingOps
<1>2. /\ ConfirmedRow(c) \in BookingRow
      /\ ConfirmedRow(c).status = "PENDING_APPROVAL"
      /\ ConfirmedRow(c).place = Mine(c).place
      /\ ConfirmedRow(c).source = Mine(c).source
      /\ ConfirmedRow(c).override = Mine(c).override
  BY <1>1 DEF ConfirmedRow, BookingRow, Status
<1>3. /\ reopened \subseteq reopened' /\ reopened' \subseteq Booking
      /\ Decided(Id(c)) => Id(c) \in reopened'
  BY <1>1, ReopeningType DEF WriteConfirm
<1>4. ~Decided(Id(c)) => Keeps(Id(c), ConfirmedRow(c))
  BY <1>1, <1>2 DEF Decided, Keeps, Active, Blocking, Terminal, Mine, BookingRow, Status
<1>5. recovery' \subseteq RecoveryEvent
  BY DEF WriteConfirm, Base, TypeOK, ScheduleTypeOK
<1>6. QED
  BY <1>1, <1>2, <1>3, <1>4, <1>5, HandlerWrites DEF WriteConfirm, Decided, Mine, Running, ExistingOps

LEMMA WriteConfirmBlockedIs ==
    ASSUME Base, NEW c \in Client, WriteConfirmBlocked(c)
    PROVE  BookingWrite(c, Id(c), ReleasedRow(c))
<1>1. /\ Id(c) \in Booking /\ Mine(c) \in BookingRow
      /\ Mine(c).status # "NONE" /\ Mine(c).place \in Place
  BY Existing DEF WriteConfirmBlocked, Running, ExistingOps
<1>2. /\ ReleasedRow(c) \in BookingRow
      /\ ReleasedRow(c).status = "EXPIRED"
      /\ ReleasedRow(c).place = Mine(c).place
  BY <1>1 DEF ReleasedRow, BookingRow, Status
<1>3. /\ reopened \subseteq reopened' /\ reopened' \subseteq Booking
      /\ Decided(Id(c)) => Id(c) \in reopened'
  BY <1>1, ReopeningType DEF WriteConfirmBlocked
<1>4. Keeps(Id(c), ReleasedRow(c))
  BY <1>2 DEF Keeps, Blocking
<1>5. recovery' \subseteq RecoveryEvent
  BY DEF WriteConfirmBlocked, Base, TypeOK, ScheduleTypeOK
<1>6. QED
  BY <1>1, <1>2, <1>3, <1>4, <1>5, HandlerWrites DEF WriteConfirmBlocked, Decided, Mine, Running, ExistingOps

LEMMA WriteApproveIs ==
    ASSUME Base, NEW c \in Client, WriteApprove(c)
    PROVE  \E row \in BookingRow : BookingWrite(c, Id(c), row)
<1> DEFINE row == [Mine(c) EXCEPT !.status = "CONFIRMED", !.visit = "SCHEDULED",
                                   !.revision = @ + 1]
<1>1. /\ Id(c) \in Booking /\ Mine(c) \in BookingRow
      /\ Mine(c).status # "NONE" /\ Mine(c).place \in Place
      /\ tx[c] \in Transaction
  BY Existing DEF WriteApprove, Running, ExistingOps
<1>2. row \in BookingRow /\ row.status # "NONE" /\ row.place \in Place
  <2>1. Mine(c).revision + 1 \in Nat
    BY <1>1 DEF BookingRow
  <2>2. row \in BookingRow
    BY <1>1, <2>1, Zenon DEF BookingRow, Status
  <2>3. row.status # "NONE" /\ row.place \in Place
    BY <1>1 DEF BookingRow
  <2>4. QED
    BY <2>2, <2>3
<1>3. Keeps(Id(c), row)
  BY <1>1 DEF WriteApprove, Undecided, Keeps, Active, Blocking, Mine, BookingRow
<1>4. recovery' \subseteq RecoveryEvent
  BY <1>1
     DEF WriteApprove, Undecided, Base, TypeOK, ScheduleTypeOK
<1>5. Mine(c).status \in Terminal => row.status = Mine(c).status
  BY <1>1 DEF WriteApprove, Undecided, Terminal, BookingRow
<1>6. /\ Puts(c, Id(c), row) /\ requests' = requests /\ reopened' = reopened
      /\ tx[c].op \in ExistingOps
  BY DEF WriteApprove, Running, ExistingOps
<1>7. reopened \subseteq reopened' /\ reopened' \subseteq Booking
  BY <1>6 DEF Base, TypeOK, ScheduleTypeOK
<1>8. BookingWrite(c, Id(c), row)
  BY <1>1, <1>2, <1>3, <1>4, <1>5, <1>6, <1>7, HandlerWrites
<1>9. QED
  BY <1>2, <1>8

LEMMA WriteRejectIs ==
    ASSUME Base, NEW c \in Client, WriteReject(c)
    PROVE  \E row \in BookingRow : BookingWrite(c, Id(c), row)
<1> DEFINE row == [Mine(c) EXCEPT !.status = "REJECTED", !.revision = @ + 1]
<1>1. /\ Id(c) \in Booking /\ Mine(c) \in BookingRow
      /\ Mine(c).status # "NONE" /\ Mine(c).place \in Place
      /\ tx[c] \in Transaction
  BY Existing DEF WriteReject, Running, ExistingOps
<1>2. row \in BookingRow /\ row.status # "NONE" /\ row.place \in Place
  <2>1. Mine(c).revision + 1 \in Nat
    BY <1>1 DEF BookingRow
  <2>2. row \in BookingRow
    BY <1>1, <2>1, Zenon DEF BookingRow, Status
  <2>3. row.status # "NONE" /\ row.place \in Place
    BY <1>1 DEF BookingRow
  <2>4. QED
    BY <2>2, <2>3
<1>3. Keeps(Id(c), row)
  BY <1>1 DEF Keeps, Active, Blocking, Mine, BookingRow
<1>4. recovery' \subseteq RecoveryEvent
  BY <1>1, FreedType
     DEF WriteReject, Undecided, RecoverySource, Transaction
<1>5. Mine(c).status \in Terminal => row.status = Mine(c).status
  BY <1>1 DEF WriteReject, Undecided, Terminal, BookingRow
<1>6. /\ Puts(c, Id(c), row) /\ requests' = requests /\ reopened' = reopened
      /\ tx[c].op \in ExistingOps
  BY DEF WriteReject, Running, ExistingOps
<1>7. reopened \subseteq reopened' /\ reopened' \subseteq Booking
  BY <1>6 DEF Base, TypeOK, ScheduleTypeOK
<1>8. BookingWrite(c, Id(c), row)
  BY <1>1, <1>2, <1>3, <1>4, <1>5, <1>6, <1>7, HandlerWrites
<1>9. QED
  BY <1>2, <1>8

LEMMA WriteCancelIs ==
    ASSUME Base, NEW c \in Client, WriteCancel(c)
    PROVE  \E row \in BookingRow : BookingWrite(c, Id(c), row)
<1> DEFINE row == [Mine(c) EXCEPT !.status = "CANCELLED", !.revision = @ + 1]
<1>1. /\ Id(c) \in Booking /\ Mine(c) \in BookingRow
      /\ Mine(c).status # "NONE" /\ Mine(c).place \in Place
      /\ tx[c] \in Transaction
  BY Existing DEF WriteCancel, Running, ExistingOps
<1>2. row \in BookingRow /\ row.status # "NONE" /\ row.place \in Place
  <2>1. Mine(c).revision + 1 \in Nat
    BY <1>1 DEF BookingRow
  <2>2. row \in BookingRow
    BY <1>1, <2>1, Zenon DEF BookingRow, Status
  <2>3. row.status # "NONE" /\ row.place \in Place
    BY <1>1 DEF BookingRow
  <2>4. QED
    BY <2>2, <2>3
<1>3. Keeps(Id(c), row)
  BY <1>1 DEF Keeps, Active, Blocking, Mine, BookingRow
<1>4. recovery' \subseteq RecoveryEvent
  BY <1>1, FreedType
     DEF WriteCancel, RecoverySource, Transaction
<1>5. Mine(c).status \in Terminal => row.status = Mine(c).status
  BY <1>1 DEF WriteCancel, Terminal, BookingRow
<1>6. /\ Puts(c, Id(c), row) /\ requests' = requests /\ reopened' = reopened
      /\ tx[c].op \in ExistingOps
  BY DEF WriteCancel, Running, ExistingOps
<1>7. reopened \subseteq reopened' /\ reopened' \subseteq Booking
  BY <1>6 DEF Base, TypeOK, ScheduleTypeOK
<1>8. BookingWrite(c, Id(c), row)
  BY <1>1, <1>2, <1>3, <1>4, <1>5, <1>6, <1>7, HandlerWrites
<1>9. QED
  BY <1>2, <1>8

LEMMA WriteUpdateDetailsIs ==
    ASSUME Base, NEW c \in Client, WriteUpdateDetails(c)
    PROVE  \E row \in BookingRow : BookingWrite(c, Id(c), row)
<1> DEFINE row == [Mine(c) EXCEPT !.revision = @ + 1]
<1>1. /\ Id(c) \in Booking /\ Mine(c) \in BookingRow
      /\ Mine(c).status # "NONE" /\ Mine(c).place \in Place
      /\ tx[c] \in Transaction
  BY Existing DEF WriteUpdateDetails, Running, ExistingOps
<1>2. row \in BookingRow /\ row.status # "NONE" /\ row.place \in Place
  <2>1. Mine(c).revision + 1 \in Nat
    BY <1>1 DEF BookingRow
  <2>2. row \in BookingRow
    BY <1>1, <2>1, Zenon DEF BookingRow, Status
  <2>3. row.status # "NONE" /\ row.place \in Place
    BY <1>1 DEF BookingRow
  <2>4. QED
    BY <2>2, <2>3
<1>3. Keeps(Id(c), row)
  BY <1>1 DEF Keeps, Active, Blocking, Mine, BookingRow
<1>4. recovery' \subseteq RecoveryEvent
  BY <1>1
     DEF WriteUpdateDetails, Base, TypeOK, ScheduleTypeOK
<1>5. Mine(c).status \in Terminal => row.status = Mine(c).status
  BY <1>1 DEF WriteUpdateDetails, Terminal, BookingRow
<1>6. /\ Puts(c, Id(c), row) /\ requests' = requests /\ reopened' = reopened
      /\ tx[c].op \in ExistingOps
  BY DEF WriteUpdateDetails, Running, ExistingOps
<1>7. reopened \subseteq reopened' /\ reopened' \subseteq Booking
  BY <1>6 DEF Base, TypeOK, ScheduleTypeOK
<1>8. BookingWrite(c, Id(c), row)
  BY <1>1, <1>2, <1>3, <1>4, <1>5, <1>6, <1>7, HandlerWrites
<1>9. QED
  BY <1>2, <1>8

LEMMA WriteMarkNoShowIs ==
    ASSUME Base, NEW c \in Client, WriteMarkNoShow(c)
    PROVE  \E row \in BookingRow : BookingWrite(c, Id(c), row)
<1> DEFINE row == [Mine(c) EXCEPT !.visit = "NO_SHOW", !.revision = @ + 1]
<1>1. /\ Id(c) \in Booking /\ Mine(c) \in BookingRow
      /\ Mine(c).status # "NONE" /\ Mine(c).place \in Place
      /\ tx[c] \in Transaction
  BY Existing DEF WriteMarkNoShow, Running, ExistingOps
<1>2. row \in BookingRow /\ row.status # "NONE" /\ row.place \in Place
  <2>1. Mine(c).revision + 1 \in Nat
    BY <1>1 DEF BookingRow
  <2>2. row \in BookingRow
    BY <1>1, <2>1, Zenon DEF BookingRow, Status
  <2>3. row.status # "NONE" /\ row.place \in Place
    BY <1>1 DEF BookingRow
  <2>4. QED
    BY <2>2, <2>3
<1>3. Keeps(Id(c), row)
  BY <1>1 DEF Keeps, Active, Blocking, Mine, BookingRow
<1>4. recovery' \subseteq RecoveryEvent
  BY <1>1
     DEF WriteMarkNoShow, Base, TypeOK, ScheduleTypeOK
<1>5. Mine(c).status \in Terminal => row.status = Mine(c).status
  BY <1>1 DEF WriteMarkNoShow, Terminal, BookingRow
<1>6. /\ Puts(c, Id(c), row) /\ requests' = requests /\ reopened' = reopened
      /\ tx[c].op \in ExistingOps
  BY DEF WriteMarkNoShow, Running, ExistingOps
<1>7. reopened \subseteq reopened' /\ reopened' \subseteq Booking
  BY <1>6 DEF Base, TypeOK, ScheduleTypeOK
<1>8. BookingWrite(c, Id(c), row)
  BY <1>1, <1>2, <1>3, <1>4, <1>5, <1>6, <1>7, HandlerWrites
<1>9. QED
  BY <1>2, <1>8

LEMMA WriteRevertNoShowIs ==
    ASSUME Base, NEW c \in Client, WriteRevertNoShow(c)
    PROVE  \E row \in BookingRow : BookingWrite(c, Id(c), row)
<1> DEFINE row == [Mine(c) EXCEPT !.visit = "SCHEDULED", !.revision = @ + 1]
<1>1. /\ Id(c) \in Booking /\ Mine(c) \in BookingRow
      /\ Mine(c).status # "NONE" /\ Mine(c).place \in Place
      /\ tx[c] \in Transaction
  BY Existing DEF WriteRevertNoShow, Running, ExistingOps
<1>2. row \in BookingRow /\ row.status # "NONE" /\ row.place \in Place
  <2>1. Mine(c).revision + 1 \in Nat
    BY <1>1 DEF BookingRow
  <2>2. row \in BookingRow
    BY <1>1, <2>1, Zenon DEF BookingRow, Status
  <2>3. row.status # "NONE" /\ row.place \in Place
    BY <1>1 DEF BookingRow
  <2>4. QED
    BY <2>2, <2>3
<1>3. Keeps(Id(c), row)
  BY <1>1 DEF Keeps, Active, Blocking, Mine, BookingRow
<1>4. recovery' \subseteq RecoveryEvent
  BY <1>1
     DEF WriteRevertNoShow, Base, TypeOK, ScheduleTypeOK
<1>5. Mine(c).status \in Terminal => row.status = Mine(c).status
  BY <1>1 DEF WriteRevertNoShow, Terminal, BookingRow
<1>6. /\ Puts(c, Id(c), row) /\ requests' = requests /\ reopened' = reopened
      /\ tx[c].op \in ExistingOps
  BY DEF WriteRevertNoShow, Running, ExistingOps
<1>7. reopened \subseteq reopened' /\ reopened' \subseteq Booking
  BY <1>6 DEF Base, TypeOK, ScheduleTypeOK
<1>8. BookingWrite(c, Id(c), row)
  BY <1>1, <1>2, <1>3, <1>4, <1>5, <1>6, <1>7, HandlerWrites
<1>9. QED
  BY <1>2, <1>8

LEMMA WriteCreateIs ==
    ASSUME Base, NEW c \in Client, WriteCreate(c)
    PROVE  \E row \in BookingRow : BookingWrite(c, Id(c), row)
<1> DEFINE row == [NoBooking EXCEPT !.status = "CONFIRMED", !.source = "MANUAL",
                                    !.place = tx[c].target]
<1>1. Id(c) \in Booking /\ tx[c].target \in Place /\ Mine(c).status = "NONE"
  BY DEF WriteCreate, Running, Base, HandlerOK, CreateOps, Id, Mine
<1>2. /\ row \in BookingRow /\ row.status = "CONFIRMED"
      /\ row.source = "MANUAL" /\ row.place \in Place
  <2>1. row \in BookingRow
    BY <1>1, NoBookingType, Zenon DEF BookingRow, Status
  <2>2. row.status = "CONFIRMED" /\ row.source = "MANUAL" /\ row.place = tx[c].target
    BY NoBookingType, Zenon DEF BookingRow
  <2>3. QED
    BY <1>1, <2>1, <2>2
<1>3. Fits(Id(c), row) /\ lock \in {c, None}
  BY <1>2 DEF WriteCreate, CanLock, Fits, ExclusionHolds, SegmentGuardHolds, Exclusive
<1>4. /\ Puts(c, Id(c), row) /\ requests' = requests
      /\ recovery' \subseteq RecoveryEvent
      /\ reopened \subseteq reopened' /\ reopened' \subseteq Booking
      /\ tx[c].op \in CreateOps
  BY DEF WriteCreate, Base, TypeOK, ScheduleTypeOK, Running, CreateOps
<1>5. BookingWrite(c, Id(c), row)
  BY <1>1, <1>2, <1>3, <1>4, HandlerWrites DEF Terminal
<1>6. QED
  BY <1>2, <1>5

(* An override may be written on top of a block, and a booking without one
   only where the check under the lock has found none. *)
LEMMA WriteRescheduleIs ==
    ASSUME Base, LockProtectsCheck, NEW c \in Client, WriteReschedule(c)
    PROVE  BookingWrite(c, Id(c), MovedRow(c))
<1>1. /\ Id(c) \in Booking /\ Mine(c) \in BookingRow
      /\ Mine(c).status # "NONE" /\ Mine(c).place \in Place
      /\ tx[c] \in Transaction /\ tx[c].target \in Place
  BY Existing DEF WriteReschedule, Running, ExistingOps, Base, HandlerOK
<1>2. /\ MovedRow(c) \in BookingRow
      /\ MovedRow(c).status = Mine(c).status
      /\ MovedRow(c).place = tx[c].target
      /\ MovedRow(c).override = tx[c].override
  <2>1. tx[c].revision + 1 \in Nat /\ tx[c].override \in BOOLEAN
    BY <1>1 DEF Transaction
  <2>2. MovedRow(c) \in BookingRow
    BY <1>1, <2>1, Zenon DEF MovedRow, BookingRow
  <2>3. QED
    BY <1>1, <2>2, Zenon DEF MovedRow, BookingRow
<1>3. Exclusive(MovedRow(c)) => ~TakenByBlock(tx[c].target) /\ Unreserved(tx[c].target)
  BY <1>1, <1>2, SameReservations
     DEF WriteReschedule, Puts, LockProtectsCheck, CheckStillHolds, Exclusive
<1>4. Fits(Id(c), MovedRow(c)) /\ lock \in {c, None}
  BY <1>2, <1>3 DEF WriteReschedule, Fits
<1>5. recovery' \subseteq RecoveryEvent
  BY <1>1, FreedType DEF WriteReschedule, RecoverySource, Transaction
<1>6. reopened \subseteq reopened' /\ reopened' \subseteq Booking
  BY DEF WriteReschedule, Base, TypeOK, ScheduleTypeOK
<1>7. QED
  BY <1>1, <1>2, <1>4, <1>5, <1>6, HandlerWrites DEF WriteReschedule, Running, ExistingOps

LEMMA WriteOfBooking ==
    ASSUME Base, LockProtectsCheck, NEW c \in Client,
           \/ WriteHold(c)
           \/ WriteConfirm(c) \/ WriteConfirmBlocked(c)
           \/ WriteApprove(c) \/ WriteReject(c) \/ WriteCancel(c)
           \/ WriteCreate(c) \/ WriteReschedule(c) \/ WriteUpdateDetails(c)
           \/ WriteMarkNoShow(c) \/ WriteRevertNoShow(c)
    PROVE  \E row \in BookingRow : BookingWrite(c, Id(c), row)
<1>1. ASSUME NEW row, BookingWrite(c, Id(c), row)
      PROVE  \E r \in BookingRow : BookingWrite(c, Id(c), r)
  BY <1>1 DEF BookingWrite
<1>2. QED
  BY <1>1, WriteHoldIs, WriteConfirmIs, WriteConfirmBlockedIs, WriteApproveIs, WriteRejectIs,
     WriteCancelIs, WriteCreateIs, WriteRescheduleIs, WriteUpdateDetailsIs,
     WriteMarkNoShowIs, WriteRevertNoShowIs

-----------------------------------------------------------------------------
(* Such a write preserves the invariant *)

LEMMA OverlapSymmetric ==
    ASSUME NEW s, NEW t
    PROVE  Overlap(s, t) <=> Overlap(t, s)
BY DEF Overlap

(* The bookings after the write, one by one. *)
LEMMA CommitEffect ==
    ASSUME Base, NEW c \in Client, NEW b \in Booking, NEW row, Commits(c, b, row)
    PROVE  /\ bookings'[b] = row
           /\ \A a \in Booking \ {b} : bookings'[a] = bookings[a]
           /\ blocks' = blocks
           /\ tx'[c] = Idle
           /\ \A d \in Client \ {c} : tx'[d] = tx[d]
           /\ \A d \in Client : lock' = d => lock = d /\ d # c
<1>1. \A d \in Client : lock' = d => lock = d /\ d # c
  BY NoneAssumption DEF Commits, Unlocks
<1>2. QED
  BY <1>1 DEF Base, TypeOK, ScheduleTypeOK, Commits, Ends

LEMMA KeepsNoOverlap ==
    ASSUME NoOverlap, NEW b \in Booking, NEW row, Keeps(b, row)
    PROVE  ExclusionHolds(b, row)
BY DEF NoOverlap, Keeps, ExclusionHolds, Exclusive, Active

LEMMA WriteNoOverlap ==
    ASSUME Base, NoOverlap, NEW c \in Client, NEW b, NEW row, BookingWrite(c, b, row)
    PROVE  NoOverlap'
<1>1. ExclusionHolds(b, row)
  BY KeepsNoOverlap DEF BookingWrite, Fits
<1>2. /\ b \in Booking
      /\ bookings'[b] = row
      /\ \A a \in Booking \ {b} : bookings'[a] = bookings[a]
  BY CommitEffect DEF BookingWrite
<1>3. QED
  BY <1>1, <1>2, OverlapSymmetric DEF NoOverlap, ExclusionHolds, Exclusive

LEMMA WriteOnlineDisjoint ==
    ASSUME Base, OnlineDisjoint, NEW c \in Client, NEW b, NEW row, BookingWrite(c, b, row)
    PROVE  OnlineDisjoint'
<1>1. /\ b \in Booking
      /\ bookings'[b] = row
      /\ \A a \in Booking \ {b} : bookings'[a] = bookings[a]
      /\ reopened \subseteq reopened'
  BY CommitEffect DEF BookingWrite
<1>2. ASSUME b \notin reopened', row.status \in Blocking, row.source = "ONLINE",
             NEW a \in Booking \ reopened', a # b, Active(a), Online(a)
      PROVE  ~Overlap(Busy[bookings[a].place], Busy[row.place])
  <2>1. CASE Keeps(b, row)
    BY <1>1, <1>2, <2>1 DEF Keeps, OnlineDisjoint, Active, Online
  <2>2. CASE Fits(b, row)
    BY <1>1, <1>2, <2>2 DEF Fits, SegmentGuardHolds, TakenByBooking
  <2>3. QED
    BY <1>2, <2>1, <2>2 DEF BookingWrite
<1>3. ASSUME NEW a \in Booking \ reopened', NEW d \in Booking \ reopened',
             a # d, Active(a)', Active(d)', Online(a)', Online(d)'
      PROVE  ~Overlap(Busy[bookings'[a].place], Busy[bookings'[d].place])
  <2>1. CASE a = b
    BY <1>1, <1>2, <1>3, <2>1, OverlapSymmetric DEF Active, Online
  <2>2. CASE d = b
    BY <1>1, <1>2, <1>3, <2>2, OverlapSymmetric DEF Active, Online
  <2>3. CASE a # b /\ d # b
    BY <1>1, <1>3, <2>3 DEF OnlineDisjoint, Active, Online
  <2>4. QED
    BY <2>1, <2>2, <2>3
<1>4. QED
  BY <1>3 DEF OnlineDisjoint

LEMMA WriteBlockClear ==
    ASSUME Base, BlockClear, NEW c \in Client, NEW b, NEW row, BookingWrite(c, b, row)
    PROVE  BlockClear'
<1>1. /\ b \in Booking
      /\ bookings'[b] = row
      /\ \A a \in Booking \ {b} : bookings'[a] = bookings[a]
      /\ reopened \subseteq reopened'
      /\ blocks' = blocks
  BY CommitEffect DEF BookingWrite
<1>2. ASSUME b \notin reopened', Exclusive(row), NEW k \in Block, blocks[k].status = "ACTIVE"
      PROVE  ~Overlap(Busy[row.place] \cap Span[row.place], Span[blocks[k].place])
  <2>1. CASE Keeps(b, row)
    BY <1>1, <1>2, <2>1 DEF Keeps, BlockClear, Active, Exclusive
  <2>2. CASE Fits(b, row)
    BY <1>2, <2>2 DEF Fits, TakenByBlock, Overlap
  <2>3. QED
    BY <1>2, <2>1, <2>2 DEF BookingWrite
<1>3. QED
  BY <1>1, <1>2 DEF BlockClear

LEMMA WriteLockProtects ==
    ASSUME Base, LockProtectsCheck, NEW c \in Client, NEW b, NEW row, BookingWrite(c, b, row)
    PROVE  LockProtectsCheck'
<1>1. /\ b \in Booking
      /\ bookings'[b] = row
      /\ \A a \in Booking \ {b} : bookings'[a] = bookings[a]
      /\ reopened \subseteq reopened'
      /\ blocks' = blocks
      /\ \A d \in Client \ {c} : tx'[d] = tx[d]
      /\ \A d \in Client : lock' = d => lock = d /\ d # c
  BY CommitEffect DEF BookingWrite
<1>2. ASSUME NEW d \in Client, lock' = d
      PROVE  CheckStillHolds(d)'
  <2>1. lock = d /\ d # c /\ tx'[d] = tx[d] /\ CheckStillHolds(d)
    BY <1>1, <1>2 DEF LockProtectsCheck
  <2>2. Exclusive(row) /\ b \notin reopened' => Exclusive(bookings[b]) /\ row.place = bookings[b].place
    BY <2>1, NoneAssumption DEF BookingWrite, Keeps, Exclusive, Active
  <2>3. Releases
    BY DEF BookingWrite, Commits
  <2>4. QED
    BY <1>1, <2>1, <2>2, <2>3, ReservationsFade DEF CheckStillHolds, Running, TakenByBlock
<1>3. QED
  BY <1>2 DEF LockProtectsCheck

LEMMA WriteIInv ==
    ASSUME IInv, NEW c \in Client, NEW b, NEW row, BookingWrite(c, b, row)
    PROVE  IInv'
<1>1. Base
  BY DEF IInv, Base
<1>2. Base'
  BY <1>1, CommitBase DEF BookingWrite
<1>3. OnlineDisjoint' /\ NoOverlap' /\ BlockClear' /\ LockProtectsCheck'
  BY <1>1, WriteOnlineDisjoint, WriteNoOverlap, WriteBlockClear, WriteLockProtects DEF IInv
<1>4. QED
  BY <1>2, <1>3 DEF IInv, Base

-----------------------------------------------------------------------------
(* Steps that write no booking and no block *)

LEMMA CalmStep ==
    ASSUME OnlineDisjoint, NoOverlap, BlockClear,
           bookings' = bookings, blocks' = blocks, reopened' = reopened
    PROVE  OnlineDisjoint' /\ NoOverlap' /\ BlockClear'
BY DEF OnlineDisjoint, NoOverlap, BlockClear, Active, Online, Exclusive

LEMMA CalmLock ==
    ASSUME LockProtectsCheck,
           bookings' = bookings, blocks' = blocks, reopened' = reopened, Releases,
           \A d \in Client : lock' = d => lock = d /\ tx'[d] = tx[d]
    PROVE  LockProtectsCheck'
<1> SUFFICES ASSUME NEW d \in Client, lock' = d
             PROVE  CheckStillHolds(d)'
  BY DEF LockProtectsCheck
<1>1. CheckStillHolds(d) /\ tx'[d] = tx[d]
  BY DEF LockProtectsCheck
<1>2. QED
  BY <1>1, ReservationsFade DEF CheckStillHolds, Running, Exclusive, TakenByBlock

LEMMA CalmIInv ==
    ASSUME IInv, Base',
           bookings' = bookings, blocks' = blocks, reopened' = reopened,
           \/ lock' = None
           \/ Releases /\ \A d \in Client : lock' = d => lock = d /\ tx'[d] = tx[d]
    PROVE  IInv'
<1>1. OnlineDisjoint' /\ NoOverlap' /\ BlockClear'
  BY CalmStep DEF IInv
<1>2. LockProtectsCheck'
  BY CalmLock, NoneAssumption DEF IInv, LockProtectsCheck
<1>3. QED
  BY <1>1, <1>2 DEF IInv, Base

LEMMA StartsIInv ==
    ASSUME IInv, Base', NEW c \in Client, NEW op, NEW subject, NEW target, NEW revision,
           NEW override, Starts(c, op, subject, target, revision, override)
    PROVE  IInv'
<1>1. /\ tx[c] = Idle /\ \A d \in Client \ {c} : tx'[d] = tx[d]
      /\ bookings' = bookings /\ blocks' = blocks /\ reopened' = reopened /\ lock' = lock
      /\ requests' = requests /\ offers' = offers /\ now' = now
  BY DEF IInv, TypeOK, ScheduleTypeOK, Starts
<1>2. \A d \in Client : lock' = d => lock = d /\ tx'[d] = tx[d]
  BY <1>1 DEF IInv, LockOK
<1>3. QED
  BY <1>1, <1>2, CalmIInv, SameReservations

LEMMA BeginIInv ==
    ASSUME IInv, NEW c \in Client, Begin(c)
    PROVE  IInv'
<1>1. Base'
  BY BeginBase DEF IInv, Base
<1>2. \E op, subject, target, revision, override :
         Starts(c, op, subject, target, revision, override)
  BY DEF Begin, BeginHold, BeginConfirm, BeginApprove, BeginReject, BeginCancel, BeginCreate,
         BeginReschedule, BeginUpdateDetails, BeginMarkNoShow, BeginRevertNoShow,
         BeginCreateBlock, BeginUpdateBlock, BeginCancelBlock
<1>3. QED
  BY <1>1, <1>2, StartsIInv

LEMMA FailsIInv ==
    ASSUME IInv, NEW c \in Client, Fails(c)
    PROVE  IInv'
<1>1. Base' /\ Base
  BY FailsBase DEF IInv, Base
<1>2. \A d \in Client \ {c} : tx'[d] = tx[d]
  BY <1>1, EndsHandlers DEF Fails
<1>3. \A d \in Client : lock' = d => lock = d /\ d # c
  BY NoneAssumption DEF Fails, Unlocks
<1>4. QED
  BY <1>1, <1>2, <1>3, CalmIInv, SameReservations DEF Fails

(* The check is made in the step that takes the lock. *)
LEMMA AdmissionIInv ==
    ASSUME IInv, NEW c \in Client, Admission(c)
    PROVE  IInv'
<1>1. Base'
  BY AdmissionBase DEF IInv, Base
<1>2. Locks(c)
  BY DEF Admission, EnterHold, EnterReschedule, EnterUpdateDetails, EnterCreateBlock,
         EnterUpdateBlock, Enter
<1>3. CheckStillHolds(c)
  <2>1. CASE EnterHold(c)
    BY <2>1 DEF EnterHold, Enter, Running, HoldAdmitted, Available, CheckStillHolds
  <2>2. CASE EnterReschedule(c)
    BY <2>2 DEF EnterReschedule, Enter, Running, RescheduleAdmitted, Available, CheckStillHolds
  <2>3. CASE EnterUpdateDetails(c)
    BY <2>3 DEF EnterUpdateDetails, Enter, Running, CheckStillHolds
  <2>4. CASE EnterCreateBlock(c)
    BY <2>4 DEF EnterCreateBlock, Enter, Running, CreateBlockAdmitted, BlockFits, Exclusive,
                Active, CheckStillHolds
  <2>5. CASE EnterUpdateBlock(c)
    BY <2>5 DEF EnterUpdateBlock, Enter, Running, UpdateBlockAdmitted, BlockFits, Exclusive,
                Active, CheckStillHolds
  <2>6. QED
    BY <2>1, <2>2, <2>3, <2>4, <2>5 DEF Admission
<1>4. LockProtectsCheck'
  BY <1>2, <1>3
     DEF Locks, LockProtectsCheck, CheckStillHolds, Running, Exclusive, TakenByBlock,
         TakenByRequest, TakenByOffer, LiveRequest, LiveOffer
<1>5. OnlineDisjoint' /\ NoOverlap' /\ BlockClear'
  BY <1>2, CalmStep DEF IInv, Locks
<1>6. QED
  BY <1>1, <1>4, <1>5 DEF IInv, Base

-----------------------------------------------------------------------------
(* Writes of a block *)

LEMMA BlockWriteIInv ==
    ASSUME IInv, NEW c \in Client, tx[c].op \in BlockOps, lock \in {c, None},
           NEW row \in BlockRow, row.place \in Place, PutsBlock(c, row),
           recovery' \subseteq RecoveryEvent,
           \A b \in Booking \ reopened :
              Exclusive(bookings[b]) /\ row.status = "ACTIVE"
                  => ~Overlap(Span[bookings[b].place], Span[row.place])
    PROVE  IInv'
<1> DEFINE k == Id(c)
<1>1. k \in Block /\ Base
  BY DEF IInv, HandlerOK, Base, Id
<1>2. Base'
  BY <1>1, PutsBlockBase
<1>3. /\ blocks'[k] = row /\ \A j \in Block \ {k} : blocks'[j] = blocks[j]
      /\ bookings' = bookings /\ reopened' = reopened
  BY <1>1 DEF Base, TypeOK, ScheduleTypeOK, PutsBlock
<1>4. OnlineDisjoint' /\ NoOverlap'
  BY <1>3 DEF IInv, OnlineDisjoint, NoOverlap, Active, Online, Exclusive
<1>5. BlockClear'
  <2>1. ASSUME NEW b \in Booking \ reopened, Exclusive(bookings[b]), row.status = "ACTIVE"
        PROVE  ~Overlap(Busy[bookings[b].place] \cap Span[bookings[b].place], Span[row.place])
    BY <2>1 DEF Overlap
  <2>2. QED
    BY <1>1, <1>3, <2>1 DEF IInv, BlockClear, Exclusive
<1>6. lock' = None
  BY DEF PutsBlock, Unlocks
<1>7. LockProtectsCheck'
  BY <1>6, NoneAssumption DEF LockProtectsCheck
<1>8. QED
  BY <1>2, <1>4, <1>5, <1>7 DEF IInv, Base

LEMMA BlockSubject ==
    ASSUME IInv, NEW c \in Client, tx[c].op \in BlockOps
    PROVE  /\ Id(c) \in Block /\ tx[c].target \in Place
           /\ blocks[Id(c)] \in BlockRow
           /\ blocks[Id(c)].status # "NONE" => blocks[Id(c)].place \in Place
           /\ recovery \subseteq RecoveryEvent
BY DEF IInv, HandlerOK, TypeOK, ScheduleTypeOK, Id

LEMMA WriteCreateBlockIInv ==
    ASSUME IInv, NEW c \in Client, WriteCreateBlock(c)
    PROVE  IInv'
<1> DEFINE row == [status |-> "ACTIVE", place |-> tx[c].target, version |-> 1]
<1>1. /\ tx[c].op \in BlockOps /\ lock = c /\ PutsBlock(c, row) /\ recovery' = recovery
      /\ CheckStillHolds(c) /\ Running(c, "createBlock")
  BY DEF WriteCreateBlock, Running, BlockOps, IInv, LockProtectsCheck
<1>2. row \in BlockRow /\ row.place \in Place /\ row.place = tx[c].target
  BY <1>1, BlockSubject DEF BlockRow
<1>3. QED
  BY <1>1, <1>2, BlockSubject, BlockWriteIInv DEF CheckStillHolds

LEMMA WriteUpdateBlockIInv ==
    ASSUME IInv, NEW c \in Client, WriteUpdateBlock(c)
    PROVE  IInv'
<1> DEFINE row == [blocks[Id(c)] EXCEPT !.place = tx[c].target, !.version = @ + 1]
<1>1. /\ tx[c].op \in BlockOps /\ lock = c /\ PutsBlock(c, row) /\ recovery' = recovery
      /\ CheckStillHolds(c) /\ Running(c, "updateBlock")
  BY DEF WriteUpdateBlock, Running, BlockOps, IInv, LockProtectsCheck
<1>2. row \in BlockRow /\ row.place \in Place /\ row.place = tx[c].target
  <2>1. blocks[Id(c)].version + 1 \in Nat /\ blocks[Id(c)] \in BlockRow
    BY <1>1, BlockSubject DEF BlockRow
  <2>2. row \in BlockRow
    BY <1>1, <2>1, BlockSubject, Zenon DEF BlockRow
  <2>3. QED
    BY <1>1, <2>1, <2>2, BlockSubject DEF BlockRow
<1>3. QED
  BY <1>1, <1>2, BlockSubject, BlockWriteIInv DEF CheckStillHolds

LEMMA WriteCancelBlockIInv ==
    ASSUME IInv, NEW c \in Client, WriteCancelBlock(c)
    PROVE  IInv'
<1> DEFINE row == [blocks[Id(c)] EXCEPT !.status = "CANCELLED", !.version = @ + 1]
<1>1. /\ tx[c].op \in BlockOps /\ lock = None /\ PutsBlock(c, row)
      /\ blocks[Id(c)].status = "ACTIVE"
  BY DEF WriteCancelBlock, Running, BlockOps, CanLock
<1>2. row \in BlockRow /\ row.place \in Place /\ row.status = "CANCELLED"
  <2>1. blocks[Id(c)].version + 1 \in Nat /\ blocks[Id(c)] \in BlockRow
    BY <1>1, BlockSubject DEF BlockRow
  <2>2. row \in BlockRow
    BY <1>1, <2>1, BlockSubject, Zenon DEF BlockRow
  <2>3. QED
    BY <1>1, <2>1, <2>2, BlockSubject DEF BlockRow
<1>3. recovery' \subseteq RecoveryEvent
  BY <1>1, BlockSubject, FreedType DEF WriteCancelBlock, RecoverySource, IInv, Base
<1>4. QED
  BY <1>1, <1>2, <1>3, BlockWriteIInv

-----------------------------------------------------------------------------
(* The timer and the clock *)

(* Bookings that expire leave the calendar; the others stay as they are. *)
LEMMA ExpiryIInv ==
    ASSUME IInv,
           UNCHANGED <<blocks, requests, offers, recovery, lock, tx, reopened>>,
           now' \in Nat, now' >= now, bookings' \in [Booking -> BookingRow],
           \A b \in Booking :
              \/ bookings'[b] = bookings[b]
              \/ /\ bookings[b].status # "NONE"
                 /\ bookings'[b].status = "EXPIRED"
                 /\ bookings'[b].place = bookings[b].place
    PROVE  IInv'
<1>1. TypeOK'
  BY DEF IInv, TypeOK, ScheduleTypeOK
<1>2. HandlerOK' /\ LockOK'
  BY DEF IInv, HandlerOK, LockOK
<1>3. \A b \in Booking :
         /\ Active(b)' => bookings'[b] = bookings[b]
         /\ Exclusive(bookings[b])' => bookings'[b] = bookings[b]
  BY DEF Active, Exclusive, Blocking
<1>4. OnlineDisjoint' /\ NoOverlap'
  BY <1>3 DEF IInv, OnlineDisjoint, NoOverlap, Active, Online
<1>5. BlockClear'
  BY <1>3 DEF IInv, BlockClear
<1>6. Releases
  <2>1. now \in Nat /\ requests \in [Request -> RequestRow] /\ offers \in [Offer -> OfferRow]
    BY DEF IInv, TypeOK, ScheduleTypeOK
  <2>2. \A n \in Nat : n > now' => n > now
    BY <2>1
  <2>3. QED
    BY <2>1, <2>2 DEF Releases, LiveRequest, LiveOffer, RequestRow, OfferRow
<1>7. LockProtectsCheck'
  <2>1. ASSUME NEW d \in Client, lock' = d
        PROVE  CheckStillHolds(d)'
    <3>1. CheckStillHolds(d)
      BY <2>1 DEF IInv, LockProtectsCheck
    <3>2. QED
      BY <1>3, <1>6, <3>1, ReservationsFade DEF CheckStillHolds, Running, TakenByBlock
  <2>2. QED
    BY <2>1 DEF LockProtectsCheck
<1>8. QED
  BY <1>1, <1>2, <1>4, <1>5, <1>7 DEF IInv

LEMMA SweepIInv ==
    ASSUME IInv, ExpiresHolds
    PROVE  IInv'
<1>1. bookings \in [Booking -> BookingRow] /\ now \in Nat
  BY DEF IInv, TypeOK, ScheduleTypeOK
<1>2. \A b \in Booking : [bookings[b] EXCEPT !.status = "EXPIRED"] \in BookingRow
  BY <1>1 DEF BookingRow, Status
<1>3. bookings' \in [Booking -> BookingRow]
  BY <1>1, <1>2 DEF ExpiresHolds
<1>4. ASSUME NEW b \in Booking
      PROVE  \/ bookings'[b] = bookings[b]
             \/ /\ bookings[b].status # "NONE"
                /\ bookings'[b].status = "EXPIRED"
                /\ bookings'[b].place = bookings[b].place
  BY <1>1 DEF ExpiresHolds, StaleHold, BookingRow
<1>5. QED
  BY <1>1, <1>3, <1>4, ExpiryIInv DEF ExpiresHolds

LEMMA PastPendingIInv ==
    ASSUME IInv, NEW b \in Booking, expirePastPending(b)
    PROVE  IInv'
<1>1. bookings \in [Booking -> BookingRow] /\ now \in Nat /\ bookings[b].revision + 1 \in Nat
  BY DEF IInv, TypeOK, ScheduleTypeOK, BookingRow
<1> DEFINE row == [bookings[b] EXCEPT !.status = "EXPIRED", !.revision = @ + 1]
<1>2. bookings' = [bookings EXCEPT ![b] = row]
  BY <1>1 DEF expirePastPending, PastPending
<1>3. row \in BookingRow
  BY <1>1, Zenon DEF BookingRow, Status
<1>4. row.status = "EXPIRED" /\ row.place = bookings[b].place
  BY <1>1 DEF BookingRow
<1>5. QED
  BY <1>1, <1>2, <1>3, <1>4, ExpiryIInv DEF expirePastPending, PastPending

-----------------------------------------------------------------------------
(* The theorems *)

LEMMA InitIInv == ASSUME Init PROVE IInv
<1>1. TypeOK
  BY NoBookingType, IdleIsTransaction
     DEF Init, ScheduleInit, TypeOK, ScheduleTypeOK, NoBooking, NoBlock, NoRequest, NoOffer,
         BlockRow, RequestRow, OfferRow
<1>2. HandlerOK /\ LockOK /\ LockProtectsCheck
  BY NoneAssumption, IdleHandles
     DEF Init, ScheduleInit, HandlerOK, LockOK, LockProtectsCheck
<1>3. OnlineDisjoint /\ NoOverlap /\ BlockClear
  BY DEF Init, ScheduleInit, OnlineDisjoint, NoOverlap, BlockClear, Active, Exclusive, NoBooking,
         Blocking
<1>4. QED
  BY <1>1, <1>2, <1>3 DEF IInv

LEMMA NextIInv == ASSUME IInv, [BookingNext]_vars PROVE IInv'
<1>1. ASSUME NEW c \in Client, Write(c)
      PROVE  IInv'
  BY <1>1, WriteOfBooking, WriteIInv, WriteCreateBlockIInv, WriteUpdateBlockIInv,
     WriteCancelBlockIInv DEF Write, IInv, Base
<1>2. CASE Tick
  BY <1>2, ExpiryIInv DEF Tick, IInv, TypeOK, ScheduleTypeOK
<1>3. CASE UNCHANGED vars
  BY <1>3, ExpiryIInv DEF vars, IInv, TypeOK, ScheduleTypeOK
<1>4. CASE Timer \/ getAdminBookingBoard
  BY <1>4, SweepIInv, PastPendingIInv DEF Timer, expireStaleHolds, getAdminBookingBoard
<1>5. QED
  BY <1>1, <1>2, <1>3, <1>4, BeginIInv, AdmissionIInv, FailsIInv DEF BookingNext, GiveUp

(* Every step of every interleaving preserves the invariant. *)
THEOREM Invariance == Spec => []IInv
<1>1. Init => IInv
  BY InitIInv
<1>2. IInv /\ [BookingNext]_vars => IInv'
  BY NextIInv
<1>3. QED
  BY <1>1, <1>2, PTL DEF Spec

(* The tables hold rows of their types, whatever handlers run at once. *)
THEOREM TypeCorrect == Spec => []TypeOK
<1>1. IInv => TypeOK
  BY DEF IInv
<1>2. QED
  BY <1>1, Invariance, PTL

(* No professional is needed by two online bookings in the same five
   minutes, except through a late confirmation. *)
THEOREM OnlineBookingsAreDisjoint == Spec => []OnlineDisjoint
<1>1. IInv => OnlineDisjoint
  BY DEF IInv
<1>2. QED
  BY <1>1, Invariance, PTL

(* booking_no_overlap holds of the table, late confirmations included. *)
THEOREM IntervalsDoNotOverlap == Spec => []NoOverlap
<1>1. IInv => NoOverlap
  BY DEF IInv
<1>2. QED
  BY <1>1, Invariance, PTL

(* The branch lock keeps bookings and schedule blocks apart. *)
THEOREM BlocksStayClear == Spec => []BlockClear
<1>1. IInv => BlockClear
  BY DEF IInv
<1>2. QED
  BY <1>1, Invariance, PTL

(* What was checked under the lock is still true at the commit. *)
THEOREM LockProtects == Spec => []LockProtectsCheck
<1>1. IInv => LockProtectsCheck
  BY DEF IInv
<1>2. QED
  BY <1>1, Invariance, PTL

-----------------------------------------------------------------------------
(* Closed bookings *)

LEMMA StepsWithoutWrites ==
    ASSUME NEW c \in Client, Begin(c) \/ Admission(c) \/ GiveUp(c)
    PROVE  UNCHANGED <<bookings, blocks, requests, offers, recovery, reopened>>
BY DEF Begin, BeginHold, BeginConfirm, BeginApprove, BeginReject, BeginCancel, BeginCreate,
       BeginReschedule, BeginUpdateDetails, BeginMarkNoShow, BeginRevertNoShow,
       BeginCreateBlock, BeginUpdateBlock, BeginCancelBlock, Starts,
       Admission, EnterHold, EnterReschedule, EnterUpdateDetails, EnterCreateBlock,
       EnterUpdateBlock, Enter, Locks, GiveUp, Fails

LEMMA StepIsFinal ==
    ASSUME IInv, [BookingNext]_vars, NEW b \in Booking,
           bookings[b].status \in Terminal, bookings'[b].status # bookings[b].status
    PROVE  b \in reopened'
<1>1. ASSUME NEW c \in Client, NEW a, NEW row, BookingWrite(c, a, row)
      PROVE  b \in reopened'
  <2>1. bookings'[a] = row /\ \A d \in Booking \ {a} : bookings'[d] = bookings[d]
    BY <1>1, CommitEffect DEF IInv, Base, BookingWrite
  <2>2. b = a
    BY <2>1
  <2>3. QED
    BY <1>1, <2>1, <2>2 DEF BookingWrite
<1>2. ASSUME NEW c \in Client, Write(c)
      PROVE  b \in reopened'
  <2>1. CASE WriteCreateBlock(c) \/ WriteUpdateBlock(c) \/ WriteCancelBlock(c)
    BY <2>1 DEF WriteCreateBlock, WriteUpdateBlock, WriteCancelBlock, PutsBlock
  <2>2. QED
    BY <1>1, <1>2, <2>1, WriteOfBooking DEF Write, IInv, Base
<1>3. ASSUME NEW c \in Client, Begin(c) \/ Admission(c) \/ GiveUp(c)
      PROVE  bookings' = bookings
  BY <1>3, StepsWithoutWrites
<1>4. ASSUME ExpiresHolds
      PROVE  bookings'[b] = bookings[b]
  BY <1>4 DEF ExpiresHolds, StaleHold, Terminal
<1>5. ASSUME NEW a \in Booking, expirePastPending(a)
      PROVE  bookings'[b] = bookings[b]
  BY <1>5 DEF expirePastPending, PastPending, Terminal, IInv, TypeOK, ScheduleTypeOK
<1>6. QED
  BY <1>2, <1>3, <1>4, <1>5
     DEF BookingNext, Timer, expireStaleHolds, getAdminBookingBoard, Tick, vars

(* No handler but a late confirmation changes the status of a booking that
   was rejected, cancelled or expired. *)
THEOREM ClosedStaysClosed == Spec => TerminalFinal
<1>1. IInv /\ [BookingNext]_vars =>
        [\A b \in Booking :
           bookings[b].status \in Terminal /\ bookings'[b].status # bookings[b].status
               => b \in reopened']_vars
  BY StepIsFinal
<1>2. QED
  BY <1>1, Invariance, PTL DEF Spec, TerminalFinal

-----------------------------------------------------------------------------
(* What a step of this module looks like to the services that share its
   tables: it reserves nothing, its handlers are its own, and it writes one
   booking by the rules, or some that expire, or a block. *)

BookingOps == {"createHold", "create"} \cup ExistingOps \cup BlockOps

Expires(b) ==
    /\ bookings[b].status # "NONE"
    /\ bookings'[b].status = "EXPIRED"
    /\ bookings'[b].place = bookings[b].place

OwnHandlers ==
    \A d \in Client :
        /\ tx'[d] = tx[d] \/ tx'[d] = Idle \/ (tx[d] = Idle /\ tx'[d].op \in BookingOps)
        /\ lock' = d => tx'[d] = tx[d] /\ (lock = d \/ tx[d].op \in BookingOps)

OneBooking == \E c \in Client, b \in Booking, row \in BookingRow : BookingWrite(c, b, row)

NoBookingMoves ==
    /\ \A b \in Booking : bookings'[b] = bookings[b] \/ Expires(b)
    /\ reopened' = reopened
    /\ blocks' = blocks \/ lock' = None

CalendarStep ==
    /\ requests' = requests /\ offers' = offers /\ Releases
    /\ OwnHandlers
    /\ OneBooking \/ NoBookingMoves

(* No online booking comes to a place it did not have. *)
NobodyComes ==
    \A b \in Booking \ reopened' :
        Exclusive(bookings'[b]) =>
            /\ b \notin reopened
            /\ Exclusive(bookings[b])
            /\ bookings'[b].place = bookings[b].place

LEMMA UnlockedWrite ==
    ASSUME Base, NEW c \in Client, NEW b, NEW row, BookingWrite(c, b, row), lock \notin {c, None}
    PROVE  NobodyComes
<1>1. b \in Booking /\ Commits(c, b, row) /\ reopened \subseteq reopened'
  BY DEF BookingWrite
<1>2. bookings'[b] = row /\ \A a \in Booking \ {b} : bookings'[a] = bookings[a]
  BY <1>1, CommitEffect
<1>3. QED
  BY <1>1, <1>2 DEF BookingWrite, NobodyComes, Keeps, Exclusive, Active

LEMMA NobodyMovesNobodyComes ==
    ASSUME NoBookingMoves
    PROVE  NobodyComes
BY DEF NobodyComes, NoBookingMoves, Expires, Exclusive, Blocking

LEMMA ClockReleases ==
    ASSUME Base, requests' = requests, offers' = offers, now' \in Nat, now' >= now
    PROVE  Releases
<1>1. now \in Nat /\ requests \in [Request -> RequestRow] /\ offers \in [Offer -> OfferRow]
  BY DEF Base, TypeOK, ScheduleTypeOK
<1>2. \A n \in Nat : n > now' => n > now
  BY <1>1
<1>3. QED
  BY <1>1, <1>2 DEF Releases, LiveRequest, LiveOffer, RequestRow, OfferRow

LEMMA BeginCalendar ==
    ASSUME IInv, NEW c \in Client, Begin(c)
    PROVE  CalendarStep
<1>1. \E op \in BookingOps : \E subject, target, revision, override :
         Starts(c, op, subject, target, revision, override)
  BY DEF Begin, BeginHold, BeginConfirm, BeginApprove, BeginReject, BeginCancel, BeginCreate,
         BeginReschedule, BeginUpdateDetails, BeginMarkNoShow, BeginRevertNoShow,
         BeginCreateBlock, BeginUpdateBlock, BeginCancelBlock, BookingOps, ExistingOps, BlockOps
<1>2. /\ tx[c] = Idle /\ tx'[c].op \in BookingOps /\ \A d \in Client \ {c} : tx'[d] = tx[d]
      /\ bookings' = bookings /\ blocks' = blocks /\ reopened' = reopened /\ lock' = lock
      /\ requests' = requests /\ offers' = offers /\ now' = now
  BY <1>1 DEF IInv, TypeOK, ScheduleTypeOK, Starts
<1>3. \A d \in Client : lock' = d => lock = d /\ tx'[d] = tx[d]
  BY <1>2 DEF IInv, LockOK
<1>4. OwnHandlers /\ NoBookingMoves
  BY <1>2, <1>3 DEF OwnHandlers, NoBookingMoves
<1>5. QED
  BY <1>2, <1>4, SameReservations DEF CalendarStep

LEMMA AdmissionCalendar ==
    ASSUME IInv, NEW c \in Client, Admission(c)
    PROVE  CalendarStep
<1>1. Locks(c) /\ tx[c].op \in BookingOps
  BY DEF Admission, EnterHold, EnterReschedule, EnterUpdateDetails, EnterCreateBlock,
         EnterUpdateBlock, Enter, Running, BookingOps, ExistingOps, BlockOps
<1>2. OwnHandlers /\ NoBookingMoves
  BY <1>1 DEF Locks, OwnHandlers, NoBookingMoves
<1>3. QED
  BY <1>1, <1>2, SameReservations DEF Locks, CalendarStep

LEMMA GiveUpCalendar ==
    ASSUME IInv, NEW c \in Client, GiveUp(c)
    PROVE  CalendarStep
<1>1. tx'[c] = Idle /\ \A d \in Client \ {c} : tx'[d] = tx[d]
  BY EndsHandlers DEF GiveUp, Fails, IInv, Base
<1>2. \A d \in Client : lock' = d => lock = d /\ d # c
  BY NoneAssumption DEF GiveUp, Fails, Unlocks
<1>3. OwnHandlers /\ NoBookingMoves
  BY <1>1, <1>2 DEF GiveUp, Fails, OwnHandlers, NoBookingMoves
<1>4. QED
  BY <1>3, SameReservations DEF GiveUp, Fails, CalendarStep

LEMMA WriteCalendar ==
    ASSUME IInv, NEW c \in Client, Write(c)
    PROVE  CalendarStep
<1>1. Base
  BY DEF IInv, Base
<1>2. CASE WriteCreateBlock(c) \/ WriteUpdateBlock(c) \/ WriteCancelBlock(c)
  <2>1. PutsBlock(c, blocks'[Id(c)])
    BY <1>2, BlockSubject
       DEF WriteCreateBlock, WriteUpdateBlock, WriteCancelBlock, PutsBlock, Running, BlockOps,
           IInv, TypeOK, ScheduleTypeOK
  <2>2. lock' = None
    BY <1>2 DEF WriteCreateBlock, WriteUpdateBlock, WriteCancelBlock, PutsBlock, Unlocks, CanLock
  <2>3. tx'[c] = Idle /\ \A d \in Client \ {c} : tx'[d] = tx[d]
    BY <1>1, <2>1, EndsHandlers DEF PutsBlock
  <2>4. OwnHandlers /\ NoBookingMoves
    BY <2>1, <2>2, <2>3, NoneAssumption DEF PutsBlock, OwnHandlers, NoBookingMoves
  <2>5. QED
    BY <2>1, <2>4, SameReservations DEF PutsBlock, CalendarStep
<1>3. CASE ~(WriteCreateBlock(c) \/ WriteUpdateBlock(c) \/ WriteCancelBlock(c))
  <2>1. PICK row \in BookingRow : BookingWrite(c, Id(c), row)
    BY <1>1, <1>3, WriteOfBooking DEF Write, IInv
  <2>2. requests' = requests /\ offers' = offers
    BY <1>3 DEF Write, WriteHold, WriteConfirm, WriteConfirmBlocked, WriteApprove, WriteReject,
                WriteCancel, WriteCreate, WriteReschedule, WriteUpdateDetails, WriteMarkNoShow,
                WriteRevertNoShow, Puts
  <2>3. Id(c) \in Booking /\ Releases /\ Commits(c, Id(c), row)
    BY <2>1 DEF BookingWrite, Commits
  <2>4. OwnHandlers
    BY <1>1, <2>3, CommitEffect DEF OwnHandlers
  <2>5. OneBooking
    BY <2>1, <2>3 DEF OneBooking
  <2>6. QED
    BY <2>2, <2>3, <2>4, <2>5 DEF CalendarStep
<1>4. QED
  BY <1>2, <1>3

LEMMA SweepCalendar ==
    ASSUME IInv, ExpiresHolds
    PROVE  CalendarStep
<1>1. bookings \in [Booking -> BookingRow]
  BY DEF IInv, TypeOK, ScheduleTypeOK
<1>2. \A b \in Booking : bookings'[b] = bookings[b] \/ Expires(b)
  BY <1>1 DEF ExpiresHolds, StaleHold, Expires, BookingRow
<1>3. OwnHandlers /\ NoBookingMoves
  BY <1>2, NoneAssumption DEF ExpiresHolds, OwnHandlers, NoBookingMoves
<1>4. QED
  BY <1>3, SameReservations DEF ExpiresHolds, CalendarStep

LEMMA PastPendingCalendar ==
    ASSUME IInv, NEW b \in Booking, expirePastPending(b)
    PROVE  CalendarStep
<1>1. bookings \in [Booking -> BookingRow]
  BY DEF IInv, TypeOK, ScheduleTypeOK
<1>2. \A a \in Booking : bookings'[a] = bookings[a] \/ Expires(a)
  BY <1>1 DEF expirePastPending, PastPending, Expires, BookingRow
<1>3. OwnHandlers /\ NoBookingMoves
  BY <1>2, NoneAssumption DEF expirePastPending, OwnHandlers, NoBookingMoves
<1>4. QED
  BY <1>3, SameReservations DEF expirePastPending, CalendarStep

LEMMA NextCalendar ==
    ASSUME IInv, [BookingNext]_vars
    PROVE  CalendarStep
<1>1. CASE Tick
  <2>1. now' \in Nat /\ now' >= now
    BY <1>1 DEF Tick, IInv, TypeOK, ScheduleTypeOK
  <2>2. Releases
    BY <1>1, <2>1, ClockReleases DEF Tick, IInv, Base
  <2>3. OwnHandlers /\ NoBookingMoves
    BY <1>1 DEF Tick, OwnHandlers, NoBookingMoves
  <2>4. QED
    BY <1>1, <2>2, <2>3 DEF Tick, CalendarStep
<1>2. CASE UNCHANGED vars
  <2>1. OwnHandlers /\ NoBookingMoves
    BY <1>2 DEF vars, OwnHandlers, NoBookingMoves
  <2>2. QED
    BY <1>2, <2>1, SameReservations DEF vars, CalendarStep
<1>3. CASE Timer \/ getAdminBookingBoard
  BY <1>3, SweepCalendar, PastPendingCalendar DEF Timer, expireStaleHolds, getAdminBookingBoard
<1>4. QED
  BY <1>1, <1>2, <1>3, BeginCalendar, AdmissionCalendar, WriteCalendar, GiveUpCalendar
     DEF BookingNext
-----------------------------------------------------------------------------
(* What leaves its place is announced *)

(* A decision on the booking no longer counts, or it has been made. *)
Settled(b) == Decided(b) \/ b \in reopened

(* A rejection announces what it read at the start, so as long as the booking
   is undecided that is where it is; and only what was confirmed moves. *)
FreedInv ==
    /\ \A b \in Booking : bookings[b].status = "NONE" => bookings[b].place = None
    /\ \A c \in Client :
          tx[c].op = "reject" => Settled(Id(c)) \/ tx[c].target = Mine(c).place
    /\ \A c \in Client : lock = c /\ tx[c].op = "reschedule" => Settled(Id(c))

(* What any step does to a booking. *)
Orderly(b) ==
    \/ bookings'[b] = bookings[b]
    \/ bookings[b].status = "NONE" /\ bookings'[b].status \in {"HOLD", "CONFIRMED"}
    \/ /\ bookings[b].status # "NONE" /\ bookings'[b].status # "NONE"
       /\ Decided(b) => bookings'[b].status \in Terminal \cup {"CONFIRMED"} \/ b \in reopened'
       /\ bookings'[b].place = bookings[b].place \/ Settled(b)

(* ... and what the property asks of it. *)
Departure(b) ==
    LET p == bookings[b].place
        moved == p # None /\ bookings'[b].place # p
        rejected == bookings[b].status # "REJECTED" /\ bookings'[b].status = "REJECTED"
    IN  b \notin reopened /\ (moved \/ rejected) =>
            Cardinality({e \in recovery' \ recovery : e.source = b /\ e.place = p}) = 1

LEMMA OrderlyKeepsFreed ==
    ASSUME FreedInv, HandlerOK, reopened \subseteq reopened', \A b \in Booking : Orderly(b),
           \A d \in Client : tx'[d] = tx[d] \/ tx'[d] = Idle, lock' \in {lock, None}
    PROVE  FreedInv'
<1>1. \A b \in Booking : bookings'[b].status = "NONE" => bookings'[b].place = None
  BY DEF FreedInv, Orderly
<1>2. ASSUME NEW d \in Client, tx'[d].op \in {"reject", "reschedule"}
      PROVE  /\ tx'[d] = tx[d] /\ Id(d) \in Booking /\ bookings[Id(d)].status # "NONE"
             /\ Settled(Id(d)) => Settled(Id(d))'
             /\ bookings'[Id(d)].place = bookings[Id(d)].place \/ Settled(Id(d))'
  <2>1. tx'[d] = tx[d]
    BY <1>2 DEF Idle
  <2>2. Id(d) \in Booking /\ bookings[Id(d)].status # "NONE"
    BY <1>2, <2>1 DEF HandlerOK, ExistingOps, Id
  <2>3. Id(d)' = Id(d)
    BY <2>1 DEF Id
  <2>4. \A b \in Booking : bookings[b].status # "NONE" =>
           /\ Decided(b) \/ b \in reopened =>
                 bookings'[b].status \in Terminal \cup {"CONFIRMED"} \/ b \in reopened'
           /\ bookings'[b].place = bookings[b].place
                 \/ bookings'[b].status \in Terminal \cup {"CONFIRMED"} \/ b \in reopened'
    BY DEF Orderly, Settled, Decided
  <2>5. QED
    BY <2>1, <2>2, <2>3, <2>4 DEF Settled, Decided
<1>3. \A d \in Client :
         tx'[d].op = "reject" => Settled(Id(d))' \/ tx'[d].target = Mine(d)'.place
  <2>1. SUFFICES ASSUME NEW d \in Client, tx'[d].op = "reject"
                 PROVE  Settled(Id(d))' \/ tx'[d].target = Mine(d)'.place
    OBVIOUS
  <2>2. tx'[d] = tx[d] /\ Mine(d)' = bookings'[Id(d)]
    BY <1>2, <2>1 DEF Mine, Id
  <2>3. Settled(Id(d)) \/ tx[d].target = bookings[Id(d)].place
    BY <2>1, <2>2 DEF FreedInv, Mine
  <2>4. QED
    BY <1>2, <2>1, <2>2, <2>3
<1>4. \A d \in Client : lock' = d /\ tx'[d].op = "reschedule" => Settled(Id(d))'
  BY <1>2, NoneAssumption DEF FreedInv
<1>5. QED
  BY <1>1, <1>3, <1>4 DEF FreedInv

(* Exactly one event is new. *)
LEMMA OneIsNew ==
    ASSUME NEW type, NEW b, NEW revision, NEW p, Announces(Freed(type, b, revision, p))
    PROVE  Cardinality({e \in recovery' \ recovery : e.source = b /\ e.place = p}) = 1
<1> DEFINE event == Freed(type, b, revision, p)
<1>1. recovery' = recovery \cup {event} /\ event \notin recovery
  BY DEF Announces, Announced
<1>2. event.source = b /\ event.place = p
  BY DEF Freed
<1>3. {e \in recovery' \ recovery : e.source = b /\ e.place = p} = {event}
  BY <1>1, <1>2
<1>4. QED
  BY <1>3, FS_Singleton

LEMMA WriteLeavesOthers ==
    ASSUME IInv, NEW c \in Client, NEW row \in BookingRow, BookingWrite(c, Id(c), row)
    PROVE  /\ Id(c) \in Booking /\ bookings'[Id(c)] = row /\ row.status # "NONE"
           /\ \A a \in Booking \ {Id(c)} : bookings'[a] = bookings[a]
           /\ \A d \in Client : tx'[d] = tx[d] \/ tx'[d] = Idle
           /\ lock' \in {lock, None} /\ reopened \subseteq reopened'
<1>1. Base
  BY DEF IInv, Base
<1>2. Commits(c, Id(c), row) /\ Id(c) \in Booking /\ row.status # "NONE"
      /\ reopened \subseteq reopened'
  BY DEF BookingWrite
<1>3. /\ bookings'[Id(c)] = row /\ \A a \in Booking \ {Id(c)} : bookings'[a] = bookings[a]
      /\ tx'[c] = Idle /\ \A d \in Client \ {c} : tx'[d] = tx[d]
  BY <1>1, <1>2, CommitEffect
<1>4. lock' \in {lock, None}
  BY <1>2 DEF Commits, Unlocks
<1>5. QED
  BY <1>2, <1>3, <1>4
LEMMA BirthIsOrderly ==
    ASSUME IInv, FreedInv, NEW c \in Client, WriteHold(c) \/ WriteCreate(c)
    PROVE  Orderly(Id(c)) /\ Departure(Id(c))
<1>1. Id(c) \in Booking /\ bookings[Id(c)].status = "NONE" /\ bookings \in [Booking -> BookingRow]
  BY DEF WriteHold, WriteCreate, Running, IInv, TypeOK, ScheduleTypeOK, HandlerOK, CreateOps, Id
<1>2. bookings[Id(c)].place = None
  BY <1>1 DEF FreedInv
<1>3. bookings'[Id(c)].status \in {"HOLD", "CONFIRMED"}
  BY <1>1 DEF WriteHold, WriteCreate, HeldRow, NoBooking, Puts
<1>4. Orderly(Id(c))
  BY <1>1, <1>3 DEF Orderly
<1>5. bookings'[Id(c)].status # "REJECTED"
  BY <1>3
<1>6. Departure(Id(c))
  BY <1>2, <1>5 DEF Departure
<1>7. QED
  BY <1>4, <1>6

(* The handlers that leave a booking where it is, and do not reject it. *)
LEMMA StayingIsOrderly ==
    ASSUME IInv, NEW c \in Client,
           \/ WriteConfirm(c) \/ WriteConfirmBlocked(c) \/ WriteApprove(c) \/ WriteCancel(c)
           \/ WriteUpdateDetails(c) \/ WriteMarkNoShow(c) \/ WriteRevertNoShow(c)
    PROVE  Orderly(Id(c)) /\ Departure(Id(c))
<1> DEFINE b == Id(c)
           row == bookings[b]
<1>1. b \in Booking /\ row.status # "NONE" /\ row \in BookingRow /\ bookings \in [Booking -> BookingRow]
  BY DEF WriteConfirm, WriteConfirmBlocked, WriteApprove, WriteCancel, WriteUpdateDetails,
         WriteMarkNoShow, WriteRevertNoShow, Running, IInv, TypeOK, ScheduleTypeOK, HandlerOK,
         ExistingOps, Id
<1>2. /\ bookings'[b].place = row.place /\ bookings'[b].status # "NONE"
      /\ bookings'[b].status = "REJECTED" => row.status = "REJECTED"
      /\ Decided(b) => bookings'[b].status \in Terminal \cup {"CONFIRMED"} \/ b \in reopened'
  <2>1. CASE WriteConfirm(c)
    <3>1. bookings'[b] = [row EXCEPT !.status = "PENDING_APPROVAL", !.holdUntil = 0]
      BY <1>1, <2>1 DEF WriteConfirm, Puts, ConfirmedRow, Mine
    <3>2. bookings'[b].place = row.place /\ bookings'[b].status = "PENDING_APPROVAL"
      BY <1>1, <3>1 DEF BookingRow
    <3>3. Decided(b) => b \in reopened'
      BY <2>1 DEF WriteConfirm, NotesReopening
    <3>4. QED
      BY <3>2, <3>3
  <2>2. CASE WriteConfirmBlocked(c)
    <3>1. bookings'[b] = [row EXCEPT !.status = "EXPIRED", !.holdUntil = 0]
      BY <1>1, <2>2 DEF WriteConfirmBlocked, Puts, ReleasedRow, Mine
    <3>2. bookings'[b].place = row.place /\ bookings'[b].status = "EXPIRED"
      BY <1>1, <3>1 DEF BookingRow
    <3>3. QED
      BY <3>2 DEF Terminal
  <2>3. CASE WriteApprove(c)
    <3>1. bookings'[b] = [row EXCEPT !.status = "CONFIRMED", !.visit = "SCHEDULED",
                                     !.revision = @ + 1]
      BY <1>1, <2>3 DEF WriteApprove, Puts, Mine
    <3>2. bookings'[b].place = row.place /\ bookings'[b].status = "CONFIRMED"
      BY <1>1, <3>1 DEF BookingRow
    <3>3. QED
      BY <3>2
  <2>4. CASE WriteCancel(c)
    <3>1. bookings'[b] = [row EXCEPT !.status = "CANCELLED", !.revision = @ + 1]
      BY <1>1, <2>4 DEF WriteCancel, Puts, Mine
    <3>2. bookings'[b].place = row.place /\ bookings'[b].status = "CANCELLED"
      BY <1>1, <3>1 DEF BookingRow
    <3>3. QED
      BY <3>2 DEF Terminal
  <2>5. CASE WriteUpdateDetails(c) \/ WriteMarkNoShow(c) \/ WriteRevertNoShow(c)
    <3>1. \/ bookings'[b] = [row EXCEPT !.revision = @ + 1]
          \/ \E visit \in {"NO_SHOW", "SCHEDULED"} :
                bookings'[b] = [row EXCEPT !.visit = visit, !.revision = @ + 1]
      BY <1>1, <2>5 DEF WriteUpdateDetails, WriteMarkNoShow, WriteRevertNoShow, Puts, Mine
    <3>2. bookings'[b].place = row.place /\ bookings'[b].status = row.status
      BY <1>1, <3>1 DEF BookingRow
    <3>3. QED
      BY <1>1, <3>2 DEF Decided
  <2>6. QED
    BY <2>1, <2>2, <2>3, <2>4, <2>5
<1>3. Orderly(b)
  BY <1>1, <1>2 DEF Orderly
<1>4. Departure(b)
  BY <1>2 DEF Departure
<1>5. QED
  BY <1>3, <1>4

LEMMA RejectionIsOrderly ==
    ASSUME IInv, FreedInv, NEW c \in Client, WriteReject(c)
    PROVE  Orderly(Id(c)) /\ Departure(Id(c))
<1> DEFINE b == Id(c)
           row == bookings[b]
<1>1. b \in Booking /\ row.status = "PENDING_APPROVAL" /\ row \in BookingRow
      /\ bookings \in [Booking -> BookingRow] /\ tx[c].op = "reject"
  BY DEF WriteReject, Undecided, Mine, Running, IInv, TypeOK, ScheduleTypeOK, HandlerOK,
         ExistingOps, Id
<1>2. bookings'[b] = [row EXCEPT !.status = "REJECTED", !.revision = @ + 1]
  BY <1>1 DEF WriteReject, Puts, Mine
<1>3. bookings'[b].place = row.place /\ bookings'[b].status = "REJECTED"
  BY <1>1, <1>2 DEF BookingRow
<1>4. Orderly(b)
  BY <1>1, <1>3 DEF Orderly, Terminal
<1>5. ~Decided(b)
  BY <1>1 DEF Decided, Terminal
<1>6. b \notin reopened => tx[c].target = row.place
  BY <1>1, <1>5 DEF FreedInv, Settled, Mine
<1>7. Announces(Freed("BOOKING_REJECTION", b, 0, tx[c].target))
  BY DEF WriteReject
<1>8. Departure(b)
  BY <1>6, <1>7, OneIsNew DEF Departure
<1>9. QED
  BY <1>4, <1>8

LEMMA MoveIsOrderly ==
    ASSUME IInv, FreedInv, NEW c \in Client, WriteReschedule(c)
    PROVE  Orderly(Id(c)) /\ Departure(Id(c))
<1> DEFINE b == Id(c)
           row == bookings[b]
<1>1. /\ b \in Booking /\ row.status # "NONE" /\ row \in BookingRow
      /\ bookings \in [Booking -> BookingRow] /\ lock = c /\ tx[c].op = "reschedule"
  BY DEF WriteReschedule, Running, IInv, TypeOK, ScheduleTypeOK, HandlerOK, ExistingOps, Id
<1>2. bookings'[b] = [row EXCEPT !.place = tx[c].target, !.override = tx[c].override,
                                 !.revision = tx[c].revision + 1]
  BY <1>1 DEF WriteReschedule, Puts, MovedRow, Mine
<1>3. bookings'[b].status = row.status
  BY <1>1, <1>2 DEF BookingRow
<1>4. Settled(b)
  BY <1>1 DEF FreedInv
<1>5. Orderly(b)
  BY <1>1, <1>3, <1>4 DEF Orderly, Decided
<1>6. Announces(Freed("BOOKING_RESCHEDULE", b, tx[c].revision, row.place))
  BY DEF WriteReschedule, Mine
<1>7. Departure(b)
  BY <1>6, OneIsNew DEF Departure
<1>8. QED
  BY <1>5, <1>7

(* A booking no step touches has neither moved nor been rejected. *)
LEMMA UntouchedIsOrderly ==
    ASSUME NEW b \in Booking, bookings'[b] = bookings[b]
    PROVE  Orderly(b) /\ Departure(b)
BY DEF Orderly, Departure

(* Nor has one that expires. *)
LEMMA ExpiryIsOrderly ==
    ASSUME NEW b \in Booking, bookings[b].status \in {"HOLD", "PENDING_APPROVAL"},
           bookings'[b].status = "EXPIRED", bookings'[b].place = bookings[b].place
    PROVE  Orderly(b) /\ Departure(b)
BY DEF Orderly, Departure, Terminal

LEMMA WriteFreed ==
    ASSUME IInv, FreedInv, NEW c \in Client, Write(c)
    PROVE  FreedInv' /\ \A b \in Booking : Departure(b)
<1>1. HandlerOK /\ Base
  BY DEF IInv, Base
<1>2. CASE WriteCreateBlock(c) \/ WriteUpdateBlock(c) \/ WriteCancelBlock(c)
  <2>1. PutsBlock(c, blocks'[Id(c)])
    BY <1>2, BlockSubject
       DEF WriteCreateBlock, WriteUpdateBlock, WriteCancelBlock, PutsBlock, Running, BlockOps,
           IInv, TypeOK, ScheduleTypeOK
  <2>2. bookings' = bookings /\ reopened' = reopened /\ lock' \in {lock, None}
    BY <2>1 DEF PutsBlock, Unlocks
  <2>3. \A d \in Client : tx'[d] = tx[d] \/ tx'[d] = Idle
    BY <1>1, <2>1, EndsHandlers DEF PutsBlock
  <2>4. \A b \in Booking : Orderly(b) /\ Departure(b)
    BY <2>2, UntouchedIsOrderly
  <2>5. QED
    BY <1>1, <2>2, <2>3, <2>4, OrderlyKeepsFreed
<1>3. CASE ~(WriteCreateBlock(c) \/ WriteUpdateBlock(c) \/ WriteCancelBlock(c))
  <2>1. PICK row \in BookingRow : BookingWrite(c, Id(c), row)
    BY <1>1, <1>3, WriteOfBooking DEF Write, IInv
  <2>2. Orderly(Id(c)) /\ Departure(Id(c))
    BY <1>3, BirthIsOrderly, StayingIsOrderly, RejectionIsOrderly, MoveIsOrderly DEF Write
  <2>3. \A b \in Booking : Orderly(b) /\ Departure(b)
    BY <2>1, <2>2, WriteLeavesOthers, UntouchedIsOrderly
  <2>4. QED
    BY <1>1, <2>1, <2>3, WriteLeavesOthers, OrderlyKeepsFreed
<1>4. QED
  BY <1>2, <1>3

LEMMA BeginFreed ==
    ASSUME IInv, FreedInv, NEW c \in Client, Begin(c)
    PROVE  FreedInv'
<1>1. bookings' = bookings /\ reopened' = reopened /\ tx \in [Client -> Transaction]
  BY StepsWithoutWrites DEF IInv, TypeOK, ScheduleTypeOK
<1>2. /\ tx[c] = Idle /\ lock' = lock /\ \A d \in Client \ {c} : tx'[d] = tx[d]
      /\ tx'[c].op = "reject" => tx'[c].target = bookings[tx'[c].subject].place
  BY <1>1 DEF Begin, BeginHold, BeginConfirm, BeginApprove, BeginReject, BeginCancel, BeginCreate,
       BeginReschedule, BeginUpdateDetails, BeginMarkNoShow, BeginRevertNoShow,
       BeginCreateBlock, BeginUpdateBlock, BeginCancelBlock, Starts
<1>3. lock # c
  BY <1>2 DEF IInv, LockOK
<1>4. QED
  BY <1>1, <1>2, <1>3 DEF FreedInv, Settled, Decided, Mine, Id

LEMMA AdmissionFreed ==
    ASSUME IInv, FreedInv, NEW c \in Client, Admission(c)
    PROVE  FreedInv'
<1>1. bookings' = bookings /\ reopened' = reopened
  BY StepsWithoutWrites
<1>2. tx' = tx /\ lock' = c /\ (tx[c].op = "reschedule" => Mine(c).status = "CONFIRMED")
  BY DEF Admission, EnterHold, EnterReschedule, EnterUpdateDetails, EnterCreateBlock,
         EnterUpdateBlock, Enter, Locks, Running, RescheduleAdmitted
<1>3. QED
  BY <1>1, <1>2 DEF FreedInv, Settled, Decided, Mine, Id

LEMMA StepFreed ==
    ASSUME IInv, FreedInv, [BookingNext]_vars
    PROVE  FreedInv' /\ \A b \in Booking : Departure(b)
<1>1. HandlerOK /\ Base /\ bookings \in [Booking -> BookingRow]
  BY DEF IInv, Base, TypeOK, ScheduleTypeOK
<1>2. ASSUME reopened' = reopened, \A d \in Client : tx'[d] = tx[d] \/ tx'[d] = Idle,
             lock' \in {lock, None}, \A b \in Booking : Orderly(b) /\ Departure(b)
      PROVE  FreedInv' /\ \A b \in Booking : Departure(b)
  BY <1>1, <1>2, OrderlyKeepsFreed
<1>3. ASSUME NEW c \in Client, Begin(c) \/ Admission(c) \/ GiveUp(c)
      PROVE  FreedInv' /\ \A b \in Booking : Departure(b)
  <2>1. \A b \in Booking : Orderly(b) /\ Departure(b)
    BY <1>3, StepsWithoutWrites, UntouchedIsOrderly
  <2>2. CASE GiveUp(c)
    <3>1. Ends(c) /\ Unlocks(c) /\ reopened' = reopened
      BY <2>2 DEF GiveUp, Fails
    <3>2. \A d \in Client : tx'[d] = tx[d] \/ tx'[d] = Idle
      BY <1>1, <3>1, EndsHandlers
    <3>3. QED
      BY <1>2, <2>1, <3>1, <3>2 DEF Unlocks
  <2>3. QED
    BY <1>3, <2>1, <2>2, BeginFreed, AdmissionFreed
<1>4. CASE ExpiresHolds
  <2>1. \A b \in Booking : Orderly(b) /\ Departure(b)
    <3>1. TAKE b \in Booking
    <3>2. CASE StaleHold(b)
      BY <1>1, <1>4, <3>2, ExpiryIsOrderly DEF ExpiresHolds, StaleHold, BookingRow
    <3>3. CASE ~StaleHold(b)
      BY <1>4, <3>3, UntouchedIsOrderly DEF ExpiresHolds
    <3>4. QED
      BY <3>2, <3>3
  <2>2. QED
    BY <1>2, <1>4, <2>1 DEF ExpiresHolds
<1>5. ASSUME NEW a \in Booking, expirePastPending(a)
      PROVE  FreedInv' /\ \A b \in Booking : Departure(b)
  <2>1. Orderly(a) /\ Departure(a)
    BY <1>1, <1>5, ExpiryIsOrderly DEF expirePastPending, PastPending, BookingRow
  <2>2. \A b \in Booking \ {a} : Orderly(b) /\ Departure(b)
    BY <1>1, <1>5, UntouchedIsOrderly DEF expirePastPending
  <2>3. QED
    BY <1>2, <1>5, <2>1, <2>2 DEF expirePastPending
<1>6. CASE Tick \/ UNCHANGED vars
  BY <1>2, <1>6, UntouchedIsOrderly DEF Tick, vars
<1>7. QED
  BY <1>3, <1>4, <1>5, <1>6, WriteFreed
     DEF BookingNext, Timer, expireStaleHolds, getAdminBookingBoard

(* A booking that is moved or rejected leaves exactly one recovery event for
   the place it leaves, in the same step: a move announces the place of the
   moment, and a rejection the place it read before its transaction, which is
   still the place as long as the booking is undecided, because only what was
   confirmed is moved and a late confirmation is noted. *)
THEOREM FreedPlacesAreAnnounced == Spec => FreedIsAnnounced
<1>1. Init => FreedInv
  BY DEF Init, ScheduleInit, FreedInv, NoBooking, Idle
<1>2. IInv /\ FreedInv /\ [BookingNext]_vars => FreedInv'
  BY StepFreed
<1>3. IInv /\ FreedInv /\ [BookingNext]_vars => [\A b \in Booking : Departure(b)]_vars
  BY StepFreed
<1>4. [\A b \in Booking : Departure(b)]_vars =>
        [\A b \in Booking :
           LET p == bookings[b].place
               moved == p # None /\ bookings'[b].place # p
               rejected == bookings[b].status # "REJECTED" /\ bookings'[b].status = "REJECTED"
           IN  b \notin reopened /\ (moved \/ rejected) =>
                  Cardinality({e \in recovery' \ recovery : e.source = b /\ e.place = p}) = 1]_vars
  BY DEF Departure
<1>5. QED
  BY <1>1, <1>2, <1>3, <1>4, Invariance, PTL DEF Spec, FreedIsAnnounced

-----------------------------------------------------------------------------
(* The calendar is kept *)

(* No two schedule blocks stand in the same cells. *)
BlocksApart ==
    \A j, k \in Block :
        j # k /\ blocks[j].status = "ACTIVE" /\ blocks[k].status = "ACTIVE"
            => ~Overlap(Span[blocks[j].place], Span[blocks[k].place])

(* A new block has an identifier to itself, and what was checked against the
   other blocks under the lock is still true at the commit. *)
DiaryInv ==
    /\ \A b \in reopened : bookings[b].status # "NONE"
    /\ \A c \in Client : tx[c].op = "createBlock" =>
          /\ blocks[Id(c)].status = "NONE"
          /\ \A d \in Client \ {c} : tx[d].op = "createBlock" => Id(d) # Id(c)
    /\ \A c \in Client : lock = c /\ tx[c].op \in {"createBlock", "updateBlock"} =>
          \A j \in Block \ {Id(c)} :
             blocks[j].status = "ACTIVE" => ~Overlap(Span[blocks[j].place], Span[tx[c].target])
    /\ BlocksApart

(* Handlers end, the lock is given back, and the blocks stay as they are. *)
LEMMA CalmDiary ==
    ASSUME DiaryInv, blocks' = blocks, lock' \in {lock, None},
           \A d \in Client : tx'[d] = tx[d] \/ tx'[d] = Idle,
           \A b \in reopened' : bookings'[b].status # "NONE"
    PROVE  DiaryInv'
<1>1. \A d \in Client : tx'[d].op \in {"createBlock", "updateBlock"} =>
         tx'[d] = tx[d] /\ Id(d)' = Id(d)
  BY DEF Idle, Id
<1>2. \A d \in Client : lock' = d => lock = d
  BY NoneAssumption
<1>3. BlocksApart'
  BY DEF DiaryInv, BlocksApart
<1>4. QED
  BY <1>1, <1>2, <1>3 DEF DiaryInv

LEMMA BeginDiary ==
    ASSUME IInv, DiaryInv, NEW c \in Client, Begin(c)
    PROVE  DiaryInv'
<1>1. bookings' = bookings /\ reopened' = reopened /\ blocks' = blocks
  BY StepsWithoutWrites
<1>2. /\ tx[c] = Idle /\ lock' = lock /\ \A d \in Client \ {c} : tx'[d] = tx[d]
      /\ tx'[c].op = "createBlock" => FreshBlock(tx'[c].subject)
  <2>1. tx \in [Client -> Transaction]
    BY DEF IInv, TypeOK, ScheduleTypeOK
  <2>2. CASE \E k \in Block, p \in Place : BeginCreateBlock(c, k, p)
    BY <2>1, <2>2 DEF BeginCreateBlock, Starts
  <2>3. CASE ~\E k \in Block, p \in Place : BeginCreateBlock(c, k, p)
    BY <2>1, <2>3
       DEF Begin, BeginHold, BeginConfirm, BeginApprove, BeginReject, BeginCancel, BeginCreate,
           BeginReschedule, BeginUpdateDetails, BeginMarkNoShow, BeginRevertNoShow,
           BeginUpdateBlock, BeginCancelBlock, Starts
  <2>4. QED
    BY <2>2, <2>3
<1>3. lock # c
  BY <1>2 DEF IInv, LockOK
<1>4. tx'[c].op = "createBlock" =>
         /\ blocks[tx'[c].subject].status = "NONE"
         /\ \A d \in Client : tx[d].subject # tx'[c].subject
  BY <1>2 DEF FreshBlock
<1>5. BlocksApart'
  BY <1>1 DEF DiaryInv, BlocksApart
<1>6. \A d \in Client : tx'[d].op = "createBlock" =>
          /\ blocks[tx'[d].subject].status = "NONE"
          /\ \A e \in Client \ {d} : tx'[e].op = "createBlock" => tx'[e].subject # tx'[d].subject
  BY <1>2, <1>4 DEF DiaryInv, Id
<1>7. QED
  BY <1>1, <1>2, <1>3, <1>5, <1>6 DEF DiaryInv, Id

(* The blocks are checked in the step that takes the lock. *)
LEMMA AdmissionDiary ==
    ASSUME DiaryInv, NEW c \in Client, Admission(c)
    PROVE  DiaryInv'
<1>1. bookings' = bookings /\ reopened' = reopened /\ blocks' = blocks
  BY StepsWithoutWrites
<1>2. /\ tx' = tx /\ lock' = c
      /\ tx[c].op \in {"createBlock", "updateBlock"} => BlockFits(tx[c].target, Id(c))
  BY DEF Admission, EnterHold, EnterReschedule, EnterUpdateDetails, EnterCreateBlock,
         EnterUpdateBlock, Enter, Locks, Running, CreateBlockAdmitted, UpdateBlockAdmitted
<1>3. BlocksApart'
  BY <1>1 DEF DiaryInv, BlocksApart
<1>4. QED
  BY <1>1, <1>2, <1>3 DEF DiaryInv, BlockFits, Id

(* What the three handlers of a block write, and that one at a time. *)
LEMMA BlockWriteIs ==
    ASSUME IInv, DiaryInv, NEW c \in Client,
           WriteCreateBlock(c) \/ WriteUpdateBlock(c) \/ WriteCancelBlock(c)
    PROVE  /\ Id(c) \in Block /\ lock' = None
           /\ bookings' = bookings /\ reopened' = reopened
           /\ \A k \in Block \ {Id(c)} : blocks'[k] = blocks[k]
           /\ tx'[c] = Idle /\ \A d \in Client \ {c} : tx'[d] = tx[d]
           /\ \/ /\ blocks[Id(c)].status \in {"NONE", "ACTIVE"}
                 /\ blocks'[Id(c)].status = "ACTIVE"
                 /\ blocks[Id(c)].status = "NONE" => tx[c].op = "createBlock"
                 /\ \A k \in Block \ {Id(c)} : blocks[k].status = "ACTIVE" =>
                       ~Overlap(Span[blocks[k].place], Span[blocks'[Id(c)].place])
              \/ blocks[Id(c)].status = "ACTIVE" /\ blocks'[Id(c)].status = "CANCELLED"
              \/ blocks[Id(c)].status # "ACTIVE" /\ blocks'[Id(c)].status = blocks[Id(c)].status
<1> DEFINE k == Id(c)
<1>1. /\ k \in Block /\ blocks[k] \in BlockRow /\ blocks \in [Block -> BlockRow] /\ Base
      /\ \A d \in Client \ {c} : tx[d].op = "createBlock" /\ tx[c].op = "createBlock" => Id(d) # k
  BY BlockSubject DEF WriteCreateBlock, WriteUpdateBlock, WriteCancelBlock, Running, BlockOps,
                      IInv, Base, TypeOK, ScheduleTypeOK, DiaryInv
<1>2. PICK row : PutsBlock(c, row) /\ lock \in {c, None}
         /\ \/ /\ tx[c].op = "createBlock" /\ lock = c
               /\ row = [status |-> "ACTIVE", place |-> tx[c].target, version |-> 1]
            \/ /\ tx[c].op = "updateBlock" /\ lock = c
               /\ row = [blocks[k] EXCEPT !.place = tx[c].target, !.version = @ + 1]
            \/ /\ blocks[k].status = "ACTIVE"
               /\ row = [blocks[k] EXCEPT !.status = "CANCELLED", !.version = @ + 1]
  BY DEF WriteCreateBlock, WriteUpdateBlock, WriteCancelBlock, Running, CanLock
<1>3. /\ blocks'[k] = row /\ \A j \in Block \ {k} : blocks'[j] = blocks[j]
      /\ bookings' = bookings /\ reopened' = reopened /\ lock' = None
      /\ tx'[c] = Idle /\ \A d \in Client \ {c} : tx'[d] = tx[d]
  BY <1>1, <1>2, EndsHandlers DEF PutsBlock, Unlocks
<1>4. CASE tx[c].op \in {"createBlock", "updateBlock"} /\ lock = c /\ row.place = tx[c].target
  <2>1. \A j \in Block \ {k} : blocks[j].status = "ACTIVE" =>
           ~Overlap(Span[blocks[j].place], Span[row.place])
    BY <1>4 DEF DiaryInv
  <2>2. CASE tx[c].op = "createBlock"
    BY <1>1, <1>2, <1>3, <2>1, <2>2 DEF DiaryInv
  <2>3. CASE tx[c].op = "updateBlock"
    BY <1>1, <1>2, <1>3, <2>1, <2>3 DEF BlockRow
  <2>4. QED
    BY <1>4, <2>2, <2>3
<1>5. CASE blocks[k].status = "ACTIVE" /\ row.status = "CANCELLED"
  BY <1>1, <1>3, <1>5
<1>6. \/ tx[c].op \in {"createBlock", "updateBlock"} /\ lock = c /\ row.place = tx[c].target
      \/ blocks[k].status = "ACTIVE" /\ row.status = "CANCELLED"
  <2>1. CASE row = [status |-> "ACTIVE", place |-> tx[c].target, version |-> 1]
    BY <1>2, <2>1
  <2>2. CASE row = [blocks[k] EXCEPT !.place = tx[c].target, !.version = @ + 1]
    BY <1>1, <1>2, <2>2 DEF BlockRow
  <2>3. CASE row = [blocks[k] EXCEPT !.status = "CANCELLED", !.version = @ + 1]
    BY <1>1, <1>2, <2>3 DEF BlockRow
  <2>4. QED
    BY <1>2, <2>1, <2>2, <2>3
<1>7. QED
  BY <1>4, <1>5, <1>6

LEMMA BlockWriteDiary ==
    ASSUME IInv, DiaryInv, NEW c \in Client,
           WriteCreateBlock(c) \/ WriteUpdateBlock(c) \/ WriteCancelBlock(c)
    PROVE  DiaryInv'
<1> DEFINE k == Id(c)
<1>1. /\ k \in Block /\ lock' = None /\ bookings' = bookings /\ reopened' = reopened
      /\ \A j \in Block \ {k} : blocks'[j] = blocks[j]
      /\ tx'[c] = Idle /\ \A d \in Client \ {c} : tx'[d] = tx[d]
      /\ \/ /\ blocks[k].status = "NONE" => tx[c].op = "createBlock"
            /\ blocks'[k].status = "ACTIVE"
            /\ \A j \in Block \ {k} : blocks[j].status = "ACTIVE" =>
                  ~Overlap(Span[blocks[j].place], Span[blocks'[k].place])
         \/ blocks[k].status # "NONE" /\ blocks'[k].status # "ACTIVE"
         \/ blocks[k].status # "ACTIVE" /\ blocks'[k].status = blocks[k].status
  BY BlockWriteIs
<1>2. BlocksApart'
  BY <1>1, OverlapSymmetric DEF DiaryInv, BlocksApart
<1>3. \A d \in Client : lock' # d
  BY <1>1, NoneAssumption
<1>4. ASSUME NEW d \in Client, tx'[d].op = "createBlock"
      PROVE  /\ blocks'[tx'[d].subject].status = "NONE"
             /\ \A e \in Client \ {d} : tx'[e].op = "createBlock" => tx'[e].subject # tx'[d].subject
  <2>1. d # c /\ tx'[d] = tx[d]
    BY <1>1, <1>4 DEF Idle
  <2>2. /\ blocks[tx[d].subject].status = "NONE" /\ tx[d].subject \in Block
        /\ tx[c].op = "createBlock" => tx[c].subject # tx[d].subject
    BY <1>4, <2>1 DEF DiaryInv, Id, IInv, HandlerOK, BlockOps
  <2>3. blocks'[tx[d].subject].status = "NONE"
    BY <1>1, <2>2 DEF Id
  <2>4. \A e \in Client \ {d} : tx'[e].op = "createBlock" => tx'[e].subject # tx[d].subject
    BY <1>1, <1>4, <2>1 DEF DiaryInv, Id, Idle
  <2>5. QED
    BY <2>1, <2>3, <2>4
<1>5. QED
  BY <1>1, <1>2, <1>3, <1>4 DEF DiaryInv, Id

(* A booking that a late confirmation writes again exists. *)
LEMMA ReopenedExist ==
    ASSUME IInv, DiaryInv, NEW c \in Client, Write(c),
           ~(WriteCreateBlock(c) \/ WriteUpdateBlock(c) \/ WriteCancelBlock(c))
    PROVE  \A b \in reopened' : bookings'[b].status # "NONE"
<1>1. PICK row \in BookingRow : BookingWrite(c, Id(c), row)
  BY WriteOfBooking DEF Write, IInv, Base
<1>2. /\ bookings'[Id(c)] = row /\ row.status # "NONE"
      /\ \A a \in Booking \ {Id(c)} : bookings'[a] = bookings[a]
  BY <1>1, WriteLeavesOthers
<1>3. reopened \subseteq Booking /\ reopened' \subseteq reopened \cup {Id(c)}
  BY DEF Write, WriteHold, WriteConfirm, WriteConfirmBlocked, WriteApprove, WriteReject, WriteCancel,
         WriteCreate, WriteReschedule, WriteUpdateDetails, WriteMarkNoShow, WriteRevertNoShow,
         NotesReopening, IInv, TypeOK, ScheduleTypeOK
<1>4. QED
  BY <1>2, <1>3 DEF DiaryInv

LEMMA StepDiary ==
    ASSUME IInv, DiaryInv, [BookingNext]_vars
    PROVE  DiaryInv'
<1>1. ASSUME NEW c \in Client, Write(c)
      PROVE  DiaryInv'
  <2>1. CASE WriteCreateBlock(c) \/ WriteUpdateBlock(c) \/ WriteCancelBlock(c)
    BY <2>1, BlockWriteDiary
  <2>2. CASE ~(WriteCreateBlock(c) \/ WriteUpdateBlock(c) \/ WriteCancelBlock(c))
    <3>1. PICK row \in BookingRow : BookingWrite(c, Id(c), row)
      BY <1>1, <2>2, WriteOfBooking DEF Write, IInv, Base
    <3>2. blocks' = blocks
      BY <3>1 DEF BookingWrite, Commits
    <3>3. lock' \in {lock, None} /\ \A d \in Client : tx'[d] = tx[d] \/ tx'[d] = Idle
      BY <3>1, WriteLeavesOthers
    <3>4. \A b \in reopened' : bookings'[b].status # "NONE"
      BY <1>1, <2>2, ReopenedExist
    <3>5. QED
      BY <3>2, <3>3, <3>4, CalmDiary
  <2>3. QED
    BY <2>1, <2>2
<1>2. ASSUME NEW c \in Client, GiveUp(c)
      PROVE  DiaryInv'
  <2>1. \A d \in Client : tx'[d] = tx[d] \/ tx'[d] = Idle
    BY <1>2, EndsHandlers DEF GiveUp, Fails, IInv, Base
  <2>2. QED
    BY <1>2, <2>1, CalmDiary DEF GiveUp, Fails, Unlocks, DiaryInv
<1>3. ASSUME ExpiresHolds \/ \E a \in Booking : expirePastPending(a)
      PROVE  DiaryInv'
  <2>1. /\ reopened \subseteq Booking /\ bookings \in [Booking -> BookingRow]
        /\ reopened' = reopened /\ blocks' = blocks /\ tx' = tx /\ lock' = lock
    BY <1>3 DEF ExpiresHolds, expirePastPending, IInv, TypeOK, ScheduleTypeOK
  <2>2. \A b \in Booking : bookings'[b].status # bookings[b].status => bookings'[b].status = "EXPIRED"
    <3>1. CASE ExpiresHolds
      BY <2>1, <3>1 DEF ExpiresHolds, BookingRow
    <3>2. ASSUME NEW a \in Booking, expirePastPending(a)
          PROVE  \A b \in Booking :
                    bookings'[b].status # bookings[b].status => bookings'[b].status = "EXPIRED"
      BY <2>1, <3>2 DEF expirePastPending, BookingRow
    <3>3. QED
      BY <1>3, <3>1, <3>2
  <2>3. QED
    BY <2>1, <2>2, CalmDiary DEF DiaryInv
<1>4. CASE Tick \/ UNCHANGED vars
  BY <1>4, CalmDiary DEF Tick, vars, DiaryInv
<1>5. QED
  BY <1>1, <1>2, <1>3, <1>4, BeginDiary, AdmissionDiary
     DEF BookingNext, Timer, expireStaleHolds, getAdminBookingBoard

LEMMA InitDiary == ASSUME Init PROVE DiaryInv
BY DEF Init, ScheduleInit, DiaryInv, BlocksApart, NoBlock, Idle, Id

(* Two schedule blocks never stand in the same cells of the calendar: both
   checks look at the other blocks under the branch lock. *)
THEOREM BlocksDoNotOverlap == Spec => []BlocksApart
<1>1. Init => DiaryInv
  BY InitDiary
<1>2. IInv /\ DiaryInv /\ [BookingNext]_vars => DiaryInv'
  BY StepDiary
<1>3. DiaryInv => BlocksApart
  BY DEF DiaryInv
<1>4. QED
  BY <1>1, <1>2, <1>3, Invariance, PTL DEF Spec

(* The entries of the calendar, before and after a step. *)
LEMMA BookingEntries ==
    ASSUME NEW b \in Booking
    PROVE  /\ <<"booking", b>> \in CalendarEntry
           /\ CalendarStanding[<<"booking", b>>] = BookingStanding(b)
           /\ CalendarStanding'[<<"booking", b>>] = BookingStanding(b)'
           /\ CalendarRoom[<<"booking", b>>] = BookingRoom(b)
           /\ CalendarRoom'[<<"booking", b>>] = BookingRoom(b)'
BY DEF CalendarEntry, CalendarStanding, CalendarRoom

LEMMA BlockEntries ==
    ASSUME NEW k \in Block
    PROVE  /\ <<"block", k>> \in CalendarEntry
           /\ CalendarStanding[<<"block", k>>] = BlockStanding(k)
           /\ CalendarStanding'[<<"block", k>>] = BlockStanding(k)'
           /\ CalendarRoom[<<"block", k>>] = BlockRoom(k)
           /\ CalendarRoom'[<<"block", k>>] = BlockRoom(k)'
BY DEF CalendarEntry, CalendarStanding, CalendarRoom

LEMMA EntryIs ==
    ASSUME NEW e \in CalendarEntry
    PROVE  (\E b \in Booking : e = <<"booking", b>>) \/ (\E k \in Block : e = <<"block", k>>)
BY DEF CalendarEntry

(* No two entries have a cell in common after a step, and what they have is
   part of the calendar. *)
LEMMA RoomsApart ==
    ASSUME IInv', DiaryInv'
    PROVE  /\ \A e \in CalendarEntry : CalendarRoom'[e] \in SUBSET Cell
           /\ \A e, f \in CalendarEntry : e # f => CalendarRoom'[e] \cap CalendarRoom'[f] = {}
<1>1. ASSUME NEW b \in Booking, BookingRoom(b)' # {}
      PROVE  /\ Active(b)' /\ Online(b)' /\ b \notin reopened' /\ Exclusive(bookings[b])'
             /\ bookings'[b].place \in Place
             /\ BookingRoom(b)' = Busy[bookings'[b].place] \cap Span[bookings'[b].place]
  BY <1>1 DEF BookingRoom, UnderRules, Active, Online, Exclusive, Blocking, IInv, TypeOK, ScheduleTypeOK
<1>2. ASSUME NEW k \in Block, BlockRoom(k)' # {}
      PROVE  /\ blocks'[k].status = "ACTIVE" /\ blocks'[k].place \in Place
             /\ BlockRoom(k)' = Span[blocks'[k].place]
  BY <1>2 DEF BlockRoom, IInv, TypeOK, ScheduleTypeOK
<1>3. ASSUME NEW a \in Booking, NEW b \in Booking, a # b
      PROVE  BookingRoom(a)' \cap BookingRoom(b)' = {}
  <2>1. CASE BookingRoom(a)' # {} /\ BookingRoom(b)' # {}
    <3>1. ~Overlap(Busy[bookings'[a].place], Busy[bookings'[b].place])
      BY <1>1, <1>3, <2>1 DEF IInv, OnlineDisjoint
    <3>2. QED
      BY <1>1, <2>1, <3>1 DEF Overlap
  <2>2. QED
    BY <2>1
<1>4. ASSUME NEW b \in Booking, NEW k \in Block
      PROVE  BookingRoom(b)' \cap BlockRoom(k)' = {}
  <2>1. CASE BookingRoom(b)' # {} /\ BlockRoom(k)' # {}
    <3>1. ~Overlap(Busy[bookings'[b].place] \cap Span[bookings'[b].place], Span[blocks'[k].place])
      BY <1>1, <1>2, <2>1 DEF IInv, BlockClear
    <3>2. QED
      BY <1>1, <1>2, <2>1, <3>1 DEF Overlap
  <2>2. QED
    BY <2>1
<1>5. ASSUME NEW j \in Block, NEW k \in Block, j # k
      PROVE  BlockRoom(j)' \cap BlockRoom(k)' = {}
  <2>1. CASE BlockRoom(j)' # {} /\ BlockRoom(k)' # {}
    <3>1. ~Overlap(Span[blocks'[j].place], Span[blocks'[k].place])
      BY <1>2, <1>5, <2>1 DEF DiaryInv, BlocksApart
    <3>2. QED
      BY <1>2, <2>1, <3>1 DEF Overlap
  <2>2. QED
    BY <2>1
<1>6. \A e \in CalendarEntry : CalendarRoom'[e] \in SUBSET Cell
  <2>1. \A b \in Booking : BookingRoom(b)' \in SUBSET Cell
    BY <1>1, PlaceAssumption
  <2>2. \A k \in Block : BlockRoom(k)' \in SUBSET Cell
    BY <1>2, PlaceAssumption
  <2>3. QED
    BY <2>1, <2>2, EntryIs, BookingEntries, BlockEntries
<1>7. ASSUME NEW e \in CalendarEntry, NEW f \in CalendarEntry, e # f
      PROVE  CalendarRoom'[e] \cap CalendarRoom'[f] = {}
  <2>1. CASE \E a \in Booking : e = <<"booking", a>>
    <3>1. PICK a \in Booking : e = <<"booking", a>>
      BY <2>1
    <3>2. \A b \in Booking : f = <<"booking", b>> => CalendarRoom'[e] \cap CalendarRoom'[f] = {}
      BY <1>3, <1>7, <3>1, BookingEntries
    <3>3. \A k \in Block : f = <<"block", k>> => CalendarRoom'[e] \cap CalendarRoom'[f] = {}
      BY <1>4, <3>1, BookingEntries, BlockEntries
    <3>4. QED
      BY <3>2, <3>3, EntryIs
  <2>2. CASE \E j \in Block : e = <<"block", j>>
    <3>1. PICK j \in Block : e = <<"block", j>>
      BY <2>2
    <3>2. \A b \in Booking : f = <<"booking", b>> => CalendarRoom'[e] \cap CalendarRoom'[f] = {}
      BY <1>4, <3>1, BookingEntries, BlockEntries
    <3>3. \A k \in Block : f = <<"block", k>> => CalendarRoom'[e] \cap CalendarRoom'[f] = {}
      BY <1>5, <1>7, <3>1, BlockEntries
    <3>4. QED
      BY <3>2, <3>3, EntryIs
  <2>3. QED
    BY <2>1, <2>2, EntryIs
<1>8. QED
  BY <1>6, <1>7

-----------------------------------------------------------------------------
(* One entry moves *)

(* How far an entry may come in one step. *)
Course(old, new, stays, leaves) ==
    \/ new = old /\ stays
    \/ old = "NONE" /\ new = "HOLD"
    \/ old = "HOLD" /\ new = "PENDING_APPROVAL" /\ stays
    \/ old = "PENDING_APPROVAL" /\ new = "CONFIRMED" /\ stays
    \/ old \in {"NONE", "CONFIRMED", "OUTSIDE"} /\ new = "CONFIRMED"
    \/ old \notin Terminal \cup {"NONE"} /\ new \in Terminal /\ leaves
    \/ old \in Terminal \cup {"NONE", "CONFIRMED"} /\ new = "OUTSIDE" /\ leaves

LEMMA EntryMoves ==
    ASSUME IInv', DiaryInv', NEW e \in CalendarEntry,
           \A f \in CalendarEntry \ {e} : /\ CalendarStanding'[f] = CalendarStanding[f]
                                          /\ CalendarRoom'[f] = CalendarRoom[f],
           Course(CalendarStanding[e], CalendarStanding'[e],
                  CalendarRoom'[e] = CalendarRoom[e], CalendarRoom'[e] = {})
    PROVE  [Kept!Next]_<<CalendarStanding, CalendarRoom>>
<1> DEFINE old == CalendarStanding[e]
           new == CalendarStanding'[e]
           cells == CalendarRoom'[e]
<1>1. /\ CalendarStanding = [f \in CalendarEntry |-> CalendarStanding[f]]
      /\ CalendarStanding' = [f \in CalendarEntry |-> CalendarStanding'[f]]
      /\ CalendarRoom = [f \in CalendarEntry |-> CalendarRoom[f]]
      /\ CalendarRoom' = [f \in CalendarEntry |-> CalendarRoom'[f]]
  BY DEF CalendarStanding, CalendarRoom
<1>2. /\ CalendarStanding' = [CalendarStanding EXCEPT ![e] = new]
      /\ CalendarRoom' = [CalendarRoom EXCEPT ![e] = cells]
  BY <1>1
<1>3. Kept!Becomes(e, new)
  BY <1>2 DEF Kept!Becomes
<1>4. Kept!Takes(e)
  <2>1. cells \in SUBSET Cell /\ \A f \in CalendarEntry \ {e} : CalendarRoom[f] \cap cells = {}
    BY RoomsApart
  <2>2. QED
    BY <1>2, <2>1 DEF Kept!Takes
<1>5. CASE new = old /\ cells = CalendarRoom[e]
  BY <1>1, <1>2, <1>5
<1>6. CASE old = "NONE" /\ new = "HOLD"
  BY <1>3, <1>4, <1>6 DEF Kept!Next, Kept!Hold
<1>7. CASE cells = CalendarRoom[e] /\ \/ old = "HOLD" /\ new = "PENDING_APPROVAL"
                                      \/ old = "PENDING_APPROVAL" /\ new = "CONFIRMED"
  <2>1. CalendarRoom' = CalendarRoom
    BY <1>1, <1>2, <1>7
  <2>2. QED
    BY <1>3, <1>7, <2>1 DEF Kept!Next, Kept!Ask, Kept!Agree
<1>8. CASE old \in {"NONE", "CONFIRMED", "OUTSIDE"} /\ new = "CONFIRMED"
  BY <1>3, <1>4, <1>8 DEF Kept!Next, Kept!WriteDown
<1>9. CASE old \notin Terminal \cup {"NONE"} /\ new \in Terminal /\ cells = {}
  <2>1. Kept!Close({e}, new)
    BY <1>1, <1>9 DEF Kept!Close, Kept!Closed, Terminal
  <2>2. {e} \in SUBSET CalendarEntry /\ new \in Kept!Closed
    BY <1>9 DEF Kept!Closed, Terminal
  <2>3. QED
    BY <2>1, <2>2 DEF Kept!Next
<1>10. CASE old \in Terminal \cup {"NONE", "CONFIRMED"} /\ new = "OUTSIDE" /\ cells = {}
  BY <1>2, <1>3, <1>10 DEF Kept!Next, Kept!StepOutside, Kept!Closed, Terminal
<1>11. QED
  BY <1>5, <1>6, <1>7, <1>8, <1>9, <1>10 DEF Course

BookingCourse(b) ==
    Course(BookingStanding(b), BookingStanding(b)',
           BookingRoom(b)' = BookingRoom(b), BookingRoom(b)' = {})

(* The room of a booking is the one of its standing and its place. *)
LEMMA RoomOfStanding ==
    ASSUME NEW b \in Booking
    PROVE  /\ BookingStanding(b) \notin Blocking => BookingRoom(b) = {}
           /\ BookingStanding(b)' \notin Blocking => BookingRoom(b)' = {}
           /\ /\ BookingStanding(b) \in Blocking /\ BookingStanding(b)' \in Blocking
              /\ bookings'[b].place = bookings[b].place
              => BookingRoom(b)' = BookingRoom(b)
BY DEF BookingRoom, BookingStanding, UnderRules, Active, Blocking

(* A booking a step does not touch stays as it is. *)
LEMMA UnwrittenCourse ==
    ASSUME NEW b \in Booking, bookings'[b] = bookings[b], b \in reopened' <=> b \in reopened
    PROVE  BookingStanding(b)' = BookingStanding(b) /\ BookingRoom(b)' = BookingRoom(b)
BY DEF BookingRoom, BookingStanding, UnderRules, Active

LEMMA BirthCourse ==
    ASSUME IInv, DiaryInv, NEW c \in Client, NEW b \in Booking, b = Id(c), WriteHold(c) \/ WriteCreate(c)
    PROVE  BookingCourse(b)
<1>1. b \in Booking /\ bookings[b].status = "NONE" /\ bookings \in [Booking -> BookingRow]
  BY DEF WriteHold, WriteCreate, Running, IInv, TypeOK, ScheduleTypeOK, HandlerOK, CreateOps, Id
<1>2. b \notin reopened /\ reopened' = reopened
  BY <1>1 DEF DiaryInv, WriteHold, WriteCreate
<1>3. BookingStanding(b) = "NONE"
  BY <1>1, <1>2 DEF BookingStanding, UnderRules, Active, Blocking
<1>4. CASE WriteHold(c)
  <2>1. bookings'[b] = HeldRow(c)
    BY <1>1, <1>4 DEF WriteHold, Puts
  <2>2. HeldRow(c).status = "HOLD" /\ HeldRow(c).source = "ONLINE" /\ HeldRow(c).override = FALSE
    BY DEF HeldRow, NoBooking
  <2>3. BookingStanding(b)' = "HOLD"
    BY <1>2, <2>1, <2>2 DEF BookingStanding, UnderRules, Exclusive, Blocking
  <2>4. QED
    BY <1>3, <2>3 DEF BookingCourse, Course
<1>5. CASE WriteCreate(c)
  <2>1. bookings'[b].status = "CONFIRMED" /\ bookings'[b].source = "MANUAL"
    BY <1>1, <1>5 DEF WriteCreate, Puts, NoBooking
  <2>2. BookingStanding(b)' = "OUTSIDE" /\ BookingRoom(b)' = {}
    BY <2>1 DEF BookingStanding, BookingRoom, UnderRules, Active, Exclusive, Blocking
  <2>3. QED
    BY <1>3, <2>2 DEF BookingCourse, Course
<1>6. QED
  BY <1>4, <1>5

(* A write that leaves a booking where it is, online or not, as an exception
   or not, and is no late confirmation. *)
LEMMA StatusCourse ==
    ASSUME NEW b \in Booking, bookings[b] \in BookingRow,
           b \in reopened' <=> b \in reopened,
           bookings'[b].place = bookings[b].place,
           bookings'[b].source = bookings[b].source,
           bookings'[b].override = bookings[b].override,
           \/ bookings'[b].status = bookings[b].status
           \/ bookings[b].status = "HOLD" /\ bookings'[b].status = "PENDING_APPROVAL"
           \/ bookings[b].status = "PENDING_APPROVAL" /\ bookings'[b].status = "CONFIRMED"
           \/ Active(b) /\ bookings'[b].status \in Terminal
    PROVE  BookingCourse(b)
<1>1. CASE BookingStanding(b) = "OUTSIDE" /\ BookingStanding(b)' = "OUTSIDE"
  BY <1>1, RoomOfStanding DEF BookingCourse, Course, Blocking
<1>2. CASE bookings'[b].status = bookings[b].status
  <2>1. BookingStanding(b)' = BookingStanding(b) /\ BookingRoom(b)' = BookingRoom(b)
    BY <1>2 DEF BookingStanding, BookingRoom, UnderRules, Exclusive, Active
  <2>2. QED
    BY <2>1 DEF BookingCourse, Course
<1>3. CASE \/ bookings[b].status = "HOLD" /\ bookings'[b].status = "PENDING_APPROVAL"
           \/ bookings[b].status = "PENDING_APPROVAL" /\ bookings'[b].status = "CONFIRMED"
  <2>1. UnderRules(b)' <=> UnderRules(b)
    BY <1>3 DEF UnderRules, Exclusive, Active, Blocking
  <2>2. CASE UnderRules(b)
    <3>1. BookingStanding(b) = bookings[b].status /\ BookingStanding(b)' = bookings'[b].status
      BY <2>1, <2>2 DEF BookingStanding
    <3>2. QED
      BY <1>3, <3>1, RoomOfStanding DEF BookingCourse, Course, Blocking
  <2>3. CASE ~UnderRules(b)
    BY <1>1, <2>1, <2>3 DEF BookingStanding
  <2>4. QED
    BY <2>2, <2>3
<1>4. CASE Active(b) /\ bookings'[b].status \in Terminal
  <2>1. CASE b \in reopened
    BY <1>1, <2>1 DEF BookingStanding, UnderRules
  <2>2. CASE b \notin reopened
    <3>1. BookingStanding(b)' \in Terminal
      BY <1>4, <2>2 DEF BookingStanding, UnderRules, Active, Terminal, Blocking
    <3>2. BookingStanding(b) \notin Terminal \cup {"NONE"}
      BY <1>4 DEF BookingStanding, Active, Terminal, Blocking
    <3>3. BookingRoom(b)' = {}
      BY <3>1, RoomOfStanding DEF Terminal, Blocking
    <3>4. QED
      BY <3>1, <3>2, <3>3 DEF BookingCourse, Course
  <2>3. QED
    BY <2>1, <2>2
<1>5. QED
  BY <1>2, <1>3, <1>4

(* A confirmation: of a booking that is still undecided, or a late one. *)
LEMMA ConfirmationCourse ==
    ASSUME IInv, NEW c \in Client, NEW b \in Booking, b = Id(c), WriteConfirm(c) \/ WriteConfirmBlocked(c)
    PROVE  BookingCourse(b)
<1> DEFINE row == bookings[b]
<1>1. b \in Booking /\ row.status # "NONE" /\ row \in BookingRow /\ bookings \in [Booking -> BookingRow]
  BY DEF WriteConfirm, WriteConfirmBlocked, Running, IInv, TypeOK, ScheduleTypeOK, HandlerOK,
         ExistingOps, Id
<1>2. PICK how \in {"PENDING_APPROVAL", "EXPIRED"} :
         bookings'[b] = [row EXCEPT !.status = how, !.holdUntil = 0]
  BY <1>1 DEF WriteConfirm, WriteConfirmBlocked, Puts, ConfirmedRow, ReleasedRow, Mine
<1>3. /\ bookings'[b].place = row.place /\ bookings'[b].status = how
      /\ bookings'[b].source = row.source /\ bookings'[b].override = row.override
  BY <1>1, <1>2 DEF BookingRow
<1>4. reopened' = reopened \cup {a \in {b} : Decided(a)}
  BY DEF WriteConfirm, WriteConfirmBlocked, NotesReopening
<1>5. CASE Decided(b)
  <2>1. BookingStanding(b)' = "OUTSIDE" /\ BookingRoom(b)' = {}
    BY <1>4, <1>5 DEF BookingStanding, BookingRoom, UnderRules
  <2>2. BookingStanding(b) \in Terminal \cup {"CONFIRMED", "OUTSIDE"}
    BY <1>5 DEF Decided, BookingStanding
  <2>3. CASE BookingStanding(b) = "OUTSIDE"
    BY <1>1, <2>1, <2>3, RoomOfStanding DEF BookingCourse, Course, Blocking
  <2>4. QED
    BY <2>1, <2>2, <2>3 DEF BookingCourse, Course
<1>6. CASE ~Decided(b)
  <2>1. b \in reopened' <=> b \in reopened
    BY <1>4, <1>6
  <2>2. row.status \in {"HOLD", "PENDING_APPROVAL"}
    BY <1>1, <1>6 DEF Decided, BookingRow, Status, Terminal
  <2>3. Active(b)
    BY <2>2 DEF Active, Blocking
  <2>4. QED
    BY <1>1, <1>3, <2>1, <2>2, <2>3, StatusCourse DEF Terminal
<1>7. QED
  BY <1>5, <1>6

(* The handlers that look at the status before they change it, and those
   that leave it alone. *)
LEMMA DecisionCourse ==
    ASSUME IInv, NEW c \in Client, NEW b \in Booking, b = Id(c),
           \/ WriteApprove(c) \/ WriteReject(c) \/ WriteCancel(c)
           \/ WriteUpdateDetails(c) \/ WriteMarkNoShow(c) \/ WriteRevertNoShow(c)
    PROVE  BookingCourse(b)
<1> DEFINE row == bookings[b]
<1>1. b \in Booking /\ row.status # "NONE" /\ row \in BookingRow /\ bookings \in [Booking -> BookingRow]
  BY DEF WriteApprove, WriteReject, WriteCancel, WriteUpdateDetails, WriteMarkNoShow,
         WriteRevertNoShow, Running, IInv, TypeOK, ScheduleTypeOK, HandlerOK, ExistingOps, Id
<1>2. reopened' = reopened
  BY DEF WriteApprove, WriteReject, WriteCancel, WriteUpdateDetails, WriteMarkNoShow,
         WriteRevertNoShow
<1>3. CASE WriteApprove(c)
  <2>1. /\ row.status = "PENDING_APPROVAL"
        /\ bookings'[b] = [row EXCEPT !.status = "CONFIRMED", !.visit = "SCHEDULED",
                                      !.revision = @ + 1]
    BY <1>1, <1>3 DEF WriteApprove, Undecided, Puts, Mine
  <2>2. QED
    BY <1>1, <1>2, <2>1, StatusCourse DEF BookingRow
<1>4. CASE WriteReject(c) \/ WriteCancel(c)
  <2>1. /\ row.status \in {"PENDING_APPROVAL", "CONFIRMED"}
        /\ \E how \in Terminal : bookings'[b] = [row EXCEPT !.status = how, !.revision = @ + 1]
    BY <1>1, <1>4 DEF WriteReject, WriteCancel, Undecided, Puts, Mine, Terminal
  <2>2. Active(b)
    BY <2>1 DEF Active, Blocking
  <2>3. QED
    BY <1>1, <1>2, <2>1, <2>2, StatusCourse DEF BookingRow
<1>5. CASE WriteUpdateDetails(c) \/ WriteMarkNoShow(c) \/ WriteRevertNoShow(c)
  <2>1. \/ bookings'[b] = [row EXCEPT !.revision = @ + 1]
        \/ \E visit \in {"NO_SHOW", "SCHEDULED"} :
              bookings'[b] = [row EXCEPT !.visit = visit, !.revision = @ + 1]
    BY <1>1, <1>5 DEF WriteUpdateDetails, WriteMarkNoShow, WriteRevertNoShow, Puts, Mine
  <2>2. QED
    BY <1>1, <1>2, <2>1, StatusCourse DEF BookingRow
<1>6. QED
  BY <1>3, <1>4, <1>5

(* A move: of what is confirmed, or of what has been closed in between. *)
LEMMA MoveCourse ==
    ASSUME IInv, FreedInv, NEW c \in Client, NEW b \in Booking, b = Id(c), WriteReschedule(c)
    PROVE  BookingCourse(b)
<1> DEFINE row == bookings[b]
<1>1. /\ b \in Booking /\ row \in BookingRow /\ bookings \in [Booking -> BookingRow]
      /\ Settled(b) /\ reopened' = reopened
  BY DEF WriteReschedule, Running, IInv, TypeOK, ScheduleTypeOK, HandlerOK, ExistingOps, Id, FreedInv
<1>2. bookings'[b] = [row EXCEPT !.place = tx[c].target, !.override = tx[c].override,
                                 !.revision = tx[c].revision + 1]
  BY <1>1 DEF WriteReschedule, Puts, MovedRow, Mine
<1>3. bookings'[b].status = row.status
  BY <1>1, <1>2 DEF BookingRow
<1>4. CASE BookingStanding(b)' = BookingStanding(b) /\ BookingStanding(b) \notin Blocking
  BY <1>1, <1>4, RoomOfStanding DEF BookingCourse, Course
<1>5. CASE b \in reopened
  BY <1>1, <1>4, <1>5 DEF BookingStanding, UnderRules, Blocking
<1>6. CASE b \notin reopened /\ row.status \in Terminal
  BY <1>1, <1>3, <1>4, <1>6 DEF BookingStanding, UnderRules, Active, Terminal, Blocking
<1>7. CASE b \notin reopened /\ row.status = "CONFIRMED"
  <2>1. /\ BookingStanding(b) \in {"CONFIRMED", "OUTSIDE"}
        /\ BookingStanding(b)' \in {"CONFIRMED", "OUTSIDE"}
    BY <1>3, <1>7 DEF BookingStanding
  <2>2. BookingStanding(b)' = "OUTSIDE" => BookingRoom(b)' = {}
    BY <1>1, RoomOfStanding DEF Blocking
  <2>3. QED
    BY <1>4, <2>1, <2>2 DEF BookingCourse, Course, Blocking
<1>8. QED
  BY <1>1, <1>5, <1>6, <1>7 DEF Settled, Decided

-----------------------------------------------------------------------------
(* Every step is one of the calendar *)

LEMMA BookingMoves ==
    ASSUME IInv', DiaryInv', NEW b \in Booking, BookingCourse(b), blocks' = blocks,
           \A a \in Booking \ {b} : /\ bookings'[a] = bookings[a]
                                    /\ a \in reopened' <=> a \in reopened
    PROVE  [Kept!Next]_<<CalendarStanding, CalendarRoom>>
<1> DEFINE e == <<"booking", b>>
<1>1. ASSUME NEW f \in CalendarEntry \ {e}
      PROVE  CalendarStanding'[f] = CalendarStanding[f] /\ CalendarRoom'[f] = CalendarRoom[f]
  <2>1. \A a \in Booking \ {b} :
           BookingStanding(a)' = BookingStanding(a) /\ BookingRoom(a)' = BookingRoom(a)
    BY UnwrittenCourse
  <2>2. \A k \in Block : BlockStanding(k)' = BlockStanding(k) /\ BlockRoom(k)' = BlockRoom(k)
    BY DEF BlockStanding, BlockRoom
  <2>3. QED
    BY <2>1, <2>2, EntryIs, BookingEntries, BlockEntries
<1>2. Course(CalendarStanding[e], CalendarStanding'[e],
             CalendarRoom'[e] = CalendarRoom[e], CalendarRoom'[e] = {})
  BY BookingEntries DEF BookingCourse
<1>3. e \in CalendarEntry
  BY BookingEntries
<1>4. QED
  BY <1>1, <1>2, <1>3, EntryMoves

LEMMA BlockMoves ==
    ASSUME IInv, DiaryInv, IInv', DiaryInv', NEW c \in Client,
           WriteCreateBlock(c) \/ WriteUpdateBlock(c) \/ WriteCancelBlock(c)
    PROVE  [Kept!Next]_<<CalendarStanding, CalendarRoom>>
<1>1. PICK k \in Block : k = Id(c)
  BY BlockWriteIs
<1> DEFINE e == <<"block", k>>
<1>2. /\ bookings' = bookings /\ reopened' = reopened
      /\ \A j \in Block \ {k} : blocks'[j] = blocks[j]
      /\ \/ blocks[k].status \in {"NONE", "ACTIVE"} /\ blocks'[k].status = "ACTIVE"
         \/ blocks[k].status = "ACTIVE" /\ blocks'[k].status = "CANCELLED"
         \/ blocks[k].status # "ACTIVE" /\ blocks'[k].status = blocks[k].status
  BY <1>1, BlockWriteIs
<1>3. ASSUME NEW f \in CalendarEntry \ {e}
      PROVE  CalendarStanding'[f] = CalendarStanding[f] /\ CalendarRoom'[f] = CalendarRoom[f]
  <2>1. \A b \in Booking :
           BookingStanding(b)' = BookingStanding(b) /\ BookingRoom(b)' = BookingRoom(b)
    BY <1>2, UnwrittenCourse
  <2>2. \A j \in Block \ {k} :
           BlockStanding(j)' = BlockStanding(j) /\ BlockRoom(j)' = BlockRoom(j)
    BY <1>2 DEF BlockStanding, BlockRoom
  <2>3. QED
    BY <2>1, <2>2, EntryIs, BookingEntries, BlockEntries
<1>4. Course(BlockStanding(k), BlockStanding(k)', BlockRoom(k)' = BlockRoom(k), BlockRoom(k)' = {})
  <2>1. CASE blocks[k].status \in {"NONE", "ACTIVE"} /\ blocks'[k].status = "ACTIVE"
    BY <2>1 DEF Course, BlockStanding
  <2>2. CASE blocks[k].status = "ACTIVE" /\ blocks'[k].status = "CANCELLED"
    BY <2>2 DEF Course, BlockStanding, BlockRoom, Terminal
  <2>3. CASE blocks[k].status # "ACTIVE" /\ blocks'[k].status = blocks[k].status
    BY <2>3 DEF Course, BlockStanding, BlockRoom
  <2>4. QED
    BY <1>2, <2>1, <2>2, <2>3
<1>5. QED
  BY <1>3, <1>4, BlockEntries, EntryMoves

(* Bookings that stand under the rules when the sweep finds them close
   together; the others stay outside. *)
LEMMA SweepMoves ==
    ASSUME IInv, ExpiresHolds
    PROVE  [Kept!Next]_<<CalendarStanding, CalendarRoom>>
<1> DEFINE Gone(b) == StaleHold(b) /\ b \notin reopened
<1>1. bookings \in [Booking -> BookingRow] /\ reopened' = reopened /\ blocks' = blocks
  BY DEF ExpiresHolds, IInv, TypeOK, ScheduleTypeOK
<1>2. ASSUME NEW b \in Booking, Gone(b)
      PROVE  /\ BookingStanding(b) \notin Terminal \cup {"NONE"}
             /\ BookingStanding(b)' = "EXPIRED" /\ BookingRoom(b)' = {}
  <2>1. bookings[b].status = "HOLD" /\ bookings'[b].status = "EXPIRED"
    BY <1>1, <1>2 DEF ExpiresHolds, StaleHold, BookingRow
  <2>2. QED
    BY <1>1, <1>2, <2>1
       DEF BookingStanding, BookingRoom, UnderRules, Active, Blocking, Terminal
<1>3. ASSUME NEW b \in Booking, ~Gone(b)
      PROVE  BookingStanding(b)' = BookingStanding(b) /\ BookingRoom(b)' = BookingRoom(b)
  <2>1. CASE b \in reopened
    BY <1>1, <2>1 DEF BookingStanding, BookingRoom, UnderRules
  <2>2. CASE b \notin reopened
    <3>1. bookings'[b] = bookings[b]
      BY <1>3, <2>2 DEF ExpiresHolds
    <3>2. QED
      BY <1>1, <3>1, UnwrittenCourse
  <2>3. QED
    BY <2>1, <2>2
<1>4. \A k \in Block : BlockStanding(k)' = BlockStanding(k) /\ BlockRoom(k)' = BlockRoom(k)
  BY <1>1 DEF BlockStanding, BlockRoom
<1>5. \E E \in SUBSET CalendarEntry :
         /\ \A b \in Booking : <<"booking", b>> \in E <=> Gone(b)
         /\ \A k \in Block : <<"block", k>> \notin E
  <2> DEFINE E == {e \in CalendarEntry : \E b \in Booking : e = <<"booking", b>> /\ Gone(b)}
  <2>1. /\ \A b \in Booking : <<"booking", b>> \in E <=> Gone(b)
        /\ \A k \in Block : <<"block", k>> \notin E
    BY BookingEntries
  <2>2. QED
    BY <2>1
<1>6. PICK E \in SUBSET CalendarEntry :
         /\ \A b \in Booking : <<"booking", b>> \in E <=> Gone(b)
         /\ \A k \in Block : <<"block", k>> \notin E
  BY <1>5
<1>7. \A e \in CalendarEntry :
         /\ e \in E => CalendarStanding[e] \notin Terminal \cup {"NONE"}
         /\ CalendarStanding'[e] = IF e \in E THEN "EXPIRED" ELSE CalendarStanding[e]
         /\ CalendarRoom'[e] = IF e \in E THEN {} ELSE CalendarRoom[e]
  <2>1. ASSUME NEW b \in Booking, NEW e, e = <<"booking", b>>
        PROVE  /\ e \in E => CalendarStanding[e] \notin Terminal \cup {"NONE"}
               /\ CalendarStanding'[e] = IF e \in E THEN "EXPIRED" ELSE CalendarStanding[e]
               /\ CalendarRoom'[e] = IF e \in E THEN {} ELSE CalendarRoom[e]
    BY <1>2, <1>3, <1>6, <2>1, BookingEntries
  <2>2. ASSUME NEW k \in Block, NEW e, e = <<"block", k>>
        PROVE  /\ e \notin E
               /\ CalendarStanding'[e] = CalendarStanding[e]
               /\ CalendarRoom'[e] = CalendarRoom[e]
    BY <1>4, <1>6, <2>2, BlockEntries
  <2>3. QED
    BY <2>1, <2>2, EntryIs
<1>8. /\ CalendarStanding' = [e \in CalendarEntry |-> CalendarStanding'[e]]
      /\ CalendarRoom' = [e \in CalendarEntry |-> CalendarRoom'[e]]
  BY DEF CalendarStanding, CalendarRoom
<1>9. Kept!Close(E, "EXPIRED")
  BY <1>7, <1>8 DEF Kept!Close, Kept!Closed, Terminal
<1>10. QED
  BY <1>9 DEF Kept!Next, Kept!Closed

LEMMA StillCalendar ==
    ASSUME bookings' = bookings, blocks' = blocks, reopened' = reopened
    PROVE  UNCHANGED <<CalendarStanding, CalendarRoom>>
BY DEF CalendarStanding, CalendarRoom, BookingStanding, BlockStanding, BookingRoom, BlockRoom,
       UnderRules, Active

LEMMA WriteMoves ==
    ASSUME IInv, FreedInv, DiaryInv, IInv', DiaryInv', NEW c \in Client, Write(c)
    PROVE  [Kept!Next]_<<CalendarStanding, CalendarRoom>>
<1>1. CASE WriteCreateBlock(c) \/ WriteUpdateBlock(c) \/ WriteCancelBlock(c)
  BY <1>1, BlockMoves
<1>2. CASE ~(WriteCreateBlock(c) \/ WriteUpdateBlock(c) \/ WriteCancelBlock(c))
  <2>1. PICK row \in BookingRow : BookingWrite(c, Id(c), row)
    BY <1>2, WriteOfBooking DEF Write, IInv, Base
  <2>2. PICK b \in Booking : b = Id(c)
    BY <2>1 DEF BookingWrite
  <2>3. blocks' = blocks /\ \A a \in Booking \ {b} : bookings'[a] = bookings[a]
    BY <2>1, <2>2, WriteLeavesOthers DEF BookingWrite, Commits
  <2>4. \A a \in Booking \ {b} : a \in reopened' <=> a \in reopened
    BY <1>2, <2>2
       DEF Write, WriteHold, WriteConfirm, WriteConfirmBlocked, WriteApprove, WriteReject,
           WriteCancel, WriteCreate, WriteReschedule, WriteUpdateDetails, WriteMarkNoShow,
           WriteRevertNoShow, NotesReopening
  <2>5. BookingCourse(b)
    BY <1>2, <2>2, BirthCourse, ConfirmationCourse, DecisionCourse, MoveCourse DEF Write
  <2>6. QED
    BY <2>3, <2>4, <2>5, BookingMoves
<1>3. QED
  BY <1>1, <1>2

LEMMA PastPendingMoves ==
    ASSUME IInv, IInv', DiaryInv', NEW b \in Booking, expirePastPending(b)
    PROVE  [Kept!Next]_<<CalendarStanding, CalendarRoom>>
<1>1. /\ bookings \in [Booking -> BookingRow] /\ bookings[b].status = "PENDING_APPROVAL"
      /\ reopened' = reopened /\ blocks' = blocks
  BY DEF expirePastPending, PastPending, IInv, TypeOK, ScheduleTypeOK
<1>2. \A a \in Booking \ {b} : bookings'[a] = bookings[a]
  BY <1>1 DEF expirePastPending
<1>3. /\ bookings'[b].status = "EXPIRED" /\ bookings'[b].place = bookings[b].place
      /\ bookings'[b].source = bookings[b].source /\ bookings'[b].override = bookings[b].override
  BY <1>1 DEF expirePastPending, BookingRow
<1>4. Active(b)
  BY <1>1 DEF Active, Blocking
<1>5. BookingCourse(b)
  BY <1>1, <1>3, <1>4, StatusCourse DEF Terminal
<1>6. QED
  BY <1>1, <1>2, <1>5, BookingMoves

LEMMA CalendarMoves ==
    ASSUME IInv, FreedInv, DiaryInv, [BookingNext]_vars
    PROVE  [Kept!Next]_<<CalendarStanding, CalendarRoom>>
<1>1. IInv' /\ DiaryInv'
  BY NextIInv, StepDiary
<1>2. CASE \E c \in Client : Begin(c) \/ Admission(c) \/ GiveUp(c)
  BY <1>2, StepsWithoutWrites, StillCalendar
<1>3. CASE Tick \/ UNCHANGED vars
  BY <1>3, StillCalendar DEF Tick, vars
<1>4. QED
  BY <1>1, <1>2, <1>3, WriteMoves, SweepMoves, PastPendingMoves
     DEF BookingNext, Timer, expireStaleHolds, getAdminBookingBoard

(* The refinement: whatever handlers, confirmations that come late, decisions,
   moves, sweeps and blocks run at the same time, bookings and blocks change
   as if one writer at a time kept one calendar. *)
THEOREM HandlersKeepTheCalendar == Spec => CalendarIsKept
<1>1. Init => Kept!Init
  <2>1. ASSUME Init, NEW b \in Booking
        PROVE  BookingStanding(b) = "NONE" /\ BookingRoom(b) = {}
    BY <2>1 DEF Init, ScheduleInit, BookingStanding, BookingRoom, UnderRules, Active, Blocking, NoBooking
  <2>2. ASSUME Init, NEW k \in Block
        PROVE  BlockStanding(k) = "NONE" /\ BlockRoom(k) = {}
    BY <2>2 DEF Init, ScheduleInit, BlockStanding, BlockRoom, NoBlock
  <2>3. ASSUME Init, NEW e \in CalendarEntry
        PROVE  CalendarStanding[e] = "NONE" /\ CalendarRoom[e] = {}
    BY <2>1, <2>2, <2>3, EntryIs, BookingEntries, BlockEntries
  <2>4. QED
    BY <2>3 DEF Kept!Init, CalendarStanding, CalendarRoom
<1>2. Init => FreedInv /\ DiaryInv
  BY InitDiary DEF Init, ScheduleInit, FreedInv, NoBooking, Idle
<1>3. IInv /\ FreedInv /\ DiaryInv /\ [BookingNext]_vars => FreedInv' /\ DiaryInv'
  BY StepFreed, StepDiary
<1>4. IInv /\ FreedInv /\ DiaryInv /\ [BookingNext]_vars
         => [Kept!Next]_<<CalendarStanding, CalendarRoom>>
  BY CalendarMoves
<1>5. QED
  BY <1>1, <1>2, <1>3, <1>4, Invariance, PTL DEF Spec, CalendarIsKept, Kept!Spec
=============================================================================
