---------------------------- MODULE WaitlistProofs ----------------------------
(***************************************************************************)
(* Proofs about Waitlist: an offer keeps its place, no recovery event is   *)
(* forgotten, and the rules of the calendar survive accepted offers.  For  *)
(* any number of bookings, entries, offers, clients and places.            *)
(***************************************************************************)
EXTENDS Waitlist, BookingLifecycleProofs

Workers == {"processRecovery", "suggestOffer"}

CancelOps == {"cancelEntry", "cancelEntryAdmin"}

AcceptOps == {"acceptOffer", "releaseOffer"}

WaitOps == Workers \cup CancelOps \cup AcceptOps

(* Tables of the waitlist hold rows of their types, and an offer that exists
   has an entry and a place. *)
RowsOK ==
    /\ entries \in [Entry -> EntryRow]
    /\ entryOf \in [Offer -> Entry \cup {None}]
    /\ bookingOf \in [Offer -> Booking \cup {None}]
    /\ \A o \in Offer : offers[o].status # "NONE" =>
          entryOf[o] \in Entry /\ offers[o].place \in Place

TaskRow ==
    [event : RecoveryEvent \cup {None}, entry : Entry \cup {None}, offer : Offer \cup {None},
     made : BOOLEAN, queue : SUBSET RecoveryEvent,
     found : SUBSET (Offer \cup (Entry \X Place \X Nat))]

(* A handler has before it what its operation is about, and nothing else. *)
TaskOK(c) ==
    /\ tx[c].op \notin WaitOps => task[c] = NoTask
    /\ tx[c].op \notin Workers => task[c].event = None /\ task[c].queue = {}
    /\ tx[c].op \in Workers => task[c].found \subseteq Entry \X Place \X Nat
    /\ tx[c].op \in CancelOps => task[c].entry \in Entry /\ task[c].found \subseteq Offer
    /\ tx[c].op \in AcceptOps =>
          /\ task[c].offer \in Offer
          /\ offers[task[c].offer].status # "NONE"
          /\ offers[task[c].offer].place = tx[c].target

TasksOK ==
    /\ task \in [Client -> TaskRow]
    /\ \A c \in Client : TaskOK(c)

(* What the check of an acceptance or of a new offer has found stays true
   until the commit. *)
OfferStillFits(c) ==
    /\ tx[c].op \notin CancelOps
    /\ Running(c, "acceptOffer") =>
          /\ ~TakenByBlock(tx[c].target)
          /\ ~TakenByRequest(tx[c].target)
          /\ ~TakenByOffer(tx[c].target, task[c].offer)
    /\ tx[c].op \in Workers =>
          /\ task[c].event # None
          /\ \A x \in task[c].found :
                /\ entries[x[1]].status # "FULFILLED"
                /\ \A b \in Booking \ reopened :
                      Exclusive(bookings[b]) => ~Overlap(Busy[bookings[b].place], Busy[x[2]])

LockProtectsOffer == \A c \in Client : lock = c => OfferStillFits(c)

WaitInv ==
    /\ IInv
    /\ RowsOK
    /\ TasksOK
    /\ OfferKept
    /\ LockProtectsOffer

(* The events a handler holds are being processed, by it alone, and may be
   tried once more. *)
WorkOK ==
    /\ DOMAIN work \subseteq recovery
    /\ \A e \in DOMAIN work :
          /\ work[e].status \in {"PROCESSING", "PROCESSED", "FAILED"}
          /\ work[e].attempts \in 0..MaxAttempts
          /\ work[e].status = "FAILED" => work[e].attempts < MaxAttempts

HeldOK ==
    /\ \A c \in Client : \A e \in Held(c) :
          /\ e \in DOMAIN work
          /\ work[e].status = "PROCESSING" /\ work[e].attempts < MaxAttempts
    /\ \A c, d \in Client : c # d => Held(c) \cap Held(d) = {}
    /\ \A c \in Client : task[c].event \notin task[c].queue

EventInv == WorkOK /\ HeldOK /\ NoEventForgotten

-----------------------------------------------------------------------------
(* What keeps the parts of the invariant *)

(* An offer that exists stays what it is, or is closed. *)
OffersClose ==
    /\ offers' \in [Offer -> OfferRow]
    /\ \A o \in Offer :
          \/ offers'[o] = offers[o]
          \/ /\ offers[o].status # "NONE"
             /\ offers'[o].status \notin {"NONE", "PENDING"}
             /\ offers'[o].place = offers[o].place

LEMMA OpsDiffer ==
    /\ BookingOps \cap WaitOps = {}
    /\ Idle.op \notin WaitOps
    /\ WaitOps \cap (ExistingOps \cup BlockOps) = {}
    /\ WaitOps \cap CreateOps = {"acceptOffer"}
    /\ Workers \cap AcceptOps = {} /\ Workers \cap CancelOps = {} /\ CancelOps \cap AcceptOps = {}
    /\ WaitOps \subseteq Operation
BY DEF BookingOps, ExistingOps, BlockOps, CreateOps, WaitOps, Workers, CancelOps, AcceptOps, Idle,
       Operation

LEMMA ClosingReleases ==
    ASSUME OffersClose, UNCHANGED <<now, requests>>
    PROVE  Releases
BY DEF OffersClose, Releases, LiveRequest, LiveOffer

LEMMA OffersStayKept ==
    ASSUME OfferKept, Releases, NobodyComes
    PROVE  OfferKept'
BY DEF OfferKept, Releases, NobodyComes

LEMMA OfferCheckStays ==
    ASSUME LockProtectsOffer, Releases, NobodyComes, blocks' = blocks,
           \A n \in Entry : entries'[n].status = "FULFILLED" => entries[n].status = "FULFILLED",
           TasksOK,
           \A d \in Client :
              lock' = d => /\ tx'[d] = tx[d] /\ task'[d] = task[d]
                           /\ lock = d \/ tx[d].op \notin WaitOps
    PROVE  LockProtectsOffer'
<1> SUFFICES ASSUME NEW d \in Client, lock' = d
             PROVE  OfferStillFits(d)'
  BY DEF LockProtectsOffer
<1>1. CASE tx[d].op \notin {"acceptOffer"} \cup Workers
  <2>1. tx[d].op \notin CancelOps /\ tx'[d] = tx[d]
    BY DEF LockProtectsOffer, OfferStillFits, WaitOps
  <2>2. QED
    BY <1>1, <2>1 DEF OfferStillFits, Running
<1>2. CASE Running(d, "acceptOffer")
  <2>1. OfferStillFits(d) /\ tx'[d] = tx[d] /\ task'[d] = task[d] /\ tx[d].op \notin Workers
    BY <1>2 DEF LockProtectsOffer, Running, Workers, WaitOps, AcceptOps
  <2>2. QED
    BY <1>2, <2>1, ReservationsFade DEF OfferStillFits, Running, TakenByBlock
<1>3. CASE tx[d].op \in Workers
  <2>1. OfferStillFits(d) /\ tx'[d] = tx[d] /\ task'[d] = task[d] /\ ~Running(d, "acceptOffer")
    BY <1>3 DEF LockProtectsOffer, Running, Workers, WaitOps
  <2>2. ASSUME NEW x \in task[d].found
        PROVE  /\ entries'[x[1]].status # "FULFILLED"
               /\ \A b \in Booking \ reopened' :
                     Exclusive(bookings'[b]) => ~Overlap(Busy[bookings'[b].place], Busy[x[2]])
    <3>1. x[1] \in Entry
      BY <1>3 DEF TasksOK, TaskOK
    <3>2. QED
      BY <1>3, <2>1, <3>1 DEF OfferStillFits, NobodyComes
  <2>3. QED
    BY <1>3, <2>1, <2>2 DEF OfferStillFits, Running
<1>4. QED
  BY <1>1, <1>2, <1>3 DEF Running

(* A booking that is written by the rules comes to no offered place. *)
LEMMA WriteKeepsOffers ==
    ASSUME Base, OfferKept, NEW c \in Client, NEW b, NEW row, BookingWrite(c, b, row)
    PROVE  OfferKept'
<1>1. b \in Booking /\ Commits(c, b, row) /\ reopened \subseteq reopened' /\ Releases
  BY DEF BookingWrite, Commits
<1>2. bookings'[b] = row /\ \A a \in Booking \ {b} : bookings'[a] = bookings[a]
  BY <1>1, CommitEffect
<1>3. CASE Keeps(b, row) \/ b \in reopened'
  <2>1. NobodyComes
    BY <1>1, <1>2, <1>3 DEF NobodyComes, Keeps, Exclusive, Active
  <2>2. QED
    BY <1>1, <2>1, OffersStayKept
<1>4. CASE Fits(b, row)
  <2> SUFFICES ASSUME NEW o \in Offer, NEW a \in Booking \ reopened',
                      LiveOffer(o)', Exclusive(bookings[a])'
               PROVE  ~Overlap(Busy[bookings'[a].place], Busy[offers'[o].place])
    BY DEF OfferKept
  <2>1. CASE a = b
    BY <1>2, <1>4, <2>1 DEF Fits, Unreserved, Overlap, Exclusive
  <2>2. CASE a # b
    BY <1>1, <1>2, <2>2 DEF OfferKept, Releases
  <2>3. QED
    BY <2>1, <2>2
<1>5. QED
  BY <1>3, <1>4 DEF BookingWrite

-----------------------------------------------------------------------------
(* The handlers of bookings, which know nothing of the waitlist *)

LEMMA BookingStepIs ==
    ASSUME WaitInv, BookingStep
    PROVE  CalendarStep /\ IInv' /\ waitOnly' = waitOnly
<1>1. BookingNext
  BY DEF BookingStep, BookingEnds, BookingNext
<1>2. QED
  BY <1>1, NextCalendar, NextIInv DEF WaitInv, BookingStep

LEMMA WritersOp ==
    ASSUME NEW c \in Client, Write(c)
    PROVE  tx[c].op \in BookingOps /\ Ends(c)
BY DEF Write, WriteHold, WriteConfirm, WriteConfirmBlocked, WriteApprove, WriteReject,
       WriteCancel, WriteCreate, WriteReschedule, WriteUpdateDetails, WriteMarkNoShow,
       WriteRevertNoShow, WriteCreateBlock, WriteUpdateBlock, WriteCancelBlock, Puts,
       PutsBlock, Running, BookingOps, ExistingOps, BlockOps

LEMMA BookingTasks ==
    ASSUME WaitInv, BookingStep, NEW d \in Client, tx'[d] # tx[d]
    PROVE  task[d] = NoTask /\ tx'[d].op \notin WaitOps
<1>1. tx \in [Client -> Transaction] /\ TaskOK(d)
  BY DEF WaitInv, IInv, TypeOK, ScheduleTypeOK, TasksOK
<1>2. tx'[d].op \notin WaitOps
  <2>1. tx'[d] = Idle \/ tx'[d].op \in BookingOps
    BY BookingStepIs DEF CalendarStep, OwnHandlers
  <2>2. QED
    BY <2>1, OpsDiffer
<1>3. CASE tx[d].op \notin WaitOps
  BY <1>1, <1>2, <1>3 DEF TaskOK
<1>4. ASSUME tx[d].op \in WaitOps
      PROVE  task[d] = NoTask
  <2>1. ASSUME NEW c \in Client, Begin(c)
        PROVE  d # c \/ tx[d] = Idle
    BY <1>1, <2>1 DEF Begin, BeginHold, BeginConfirm, BeginApprove, BeginReject, BeginCancel,
           BeginCreate, BeginReschedule, BeginUpdateDetails, BeginMarkNoShow, BeginRevertNoShow,
           BeginCreateBlock, BeginUpdateBlock, BeginCancelBlock, Starts
  <2>2. tx[d] # Idle /\ tx'[d] = Idle
    BY <1>4, BookingStepIs, OpsDiffer DEF CalendarStep, OwnHandlers
  <2>3. ASSUME NEW c \in Client, Write(c)
        PROVE  FALSE
    <3>1. d # c
      BY <1>4, <2>3, WritersOp, OpsDiffer
    <3>2. QED
      BY <1>1, <2>3, <3>1, WritersOp DEF Ends
  <2>4. ASSUME NEW c \in Client, task[c] = NoTask, GiveUp(c)
        PROVE  task[d] = NoTask
    BY <1>1, <2>4 DEF GiveUp, Fails, Ends
  <2>5. ASSUME NEW c \in Client, Begin(c)
        PROVE  FALSE
    <3>1. \E op \in BookingOps : \E subject, target, revision, override :
             Starts(c, op, subject, target, revision, override)
      BY <2>5 DEF Begin, BeginHold, BeginConfirm, BeginApprove, BeginReject, BeginCancel, BeginCreate,
         BeginReschedule, BeginUpdateDetails, BeginMarkNoShow, BeginRevertNoShow,
         BeginCreateBlock, BeginUpdateBlock, BeginCancelBlock, BookingOps, ExistingOps, BlockOps
    <3>2. QED
      BY <1>1, <2>2, <3>1 DEF Starts
  <2>6. ASSUME NEW c \in Client, Admission(c)
        PROVE  tx' = tx
    BY <2>6 DEF Admission, EnterHold, EnterReschedule, EnterUpdateDetails, EnterCreateBlock,
                EnterUpdateBlock, Enter, Locks
  <2>7. CASE Timer \/ getAdminBookingBoard \/ Tick
    BY <2>7 DEF Timer, expireStaleHolds, getAdminBookingBoard, ExpiresHolds, expirePastPending, Tick
  <2>8. QED
    BY <2>3, <2>4, <2>5, <2>6, <2>7 DEF BookingStep, BookingEnds
<1>5. QED
  BY <1>2, <1>3, <1>4

LEMMA BookingStepInv ==
    ASSUME WaitInv, BookingStep
    PROVE  WaitInv'
<1>1. /\ CalendarStep /\ IInv' /\ Base
      /\ UNCHANGED <<entries, entryOf, bookingOf, task>>
      /\ requests' = requests /\ offers' = offers /\ Releases /\ OwnHandlers
  BY BookingStepIs DEF waitOnly, CalendarStep, WaitInv, IInv, Base
<1>2. RowsOK'
  BY <1>1 DEF WaitInv, RowsOK
<1>3. TasksOK'
  <2> SUFFICES ASSUME NEW d \in Client
               PROVE  TaskOK(d)'
    BY <1>1 DEF TasksOK, WaitInv
  <2>1. TaskOK(d)
    BY DEF WaitInv, TasksOK
  <2>2. CASE tx'[d] = tx[d]
    <3>1. tx'[d] = tx[d] /\ task' = task /\ offers' = offers
      BY <1>1, <2>2
    <3>2. QED
      BY <2>1, <3>1, Zenon DEF TaskOK
  <2>3. CASE tx'[d] # tx[d]
    <3>1. task'[d] = NoTask /\ tx'[d].op \notin WaitOps
      BY <1>1, <2>3, BookingTasks
    <3>2. tx'[d].op \notin Workers /\ tx'[d].op \notin CancelOps /\ tx'[d].op \notin AcceptOps
      BY <3>1 DEF WaitOps
    <3>3. NoTask.event = None /\ NoTask.queue = {}
      BY DEF NoTask
    <3>4. QED
      BY <3>1, <3>2, <3>3 DEF TaskOK
  <2>4. QED
    BY <2>2, <2>3
<1>4. \A d \in Client :
         lock' = d => /\ tx'[d] = tx[d] /\ task'[d] = task[d]
                      /\ lock = d \/ tx[d].op \notin WaitOps
  BY <1>1, OpsDiffer DEF OwnHandlers, WaitOps, AcceptOps
<1>5. CASE OneBooking
  <2>1. PICK c \in Client, b \in Booking, row \in BookingRow : BookingWrite(c, b, row)
    BY <1>5 DEF OneBooking
  <2>2. OfferKept'
    BY <1>1, <2>1, WriteKeepsOffers DEF WaitInv
  <2>3. blocks' = blocks /\ \A d \in Client : lock' = d => lock = d /\ d # c
    BY <1>1, <2>1, CommitEffect DEF BookingWrite
  <2>4. LockProtectsOffer'
    <3>1. CASE lock \in {c, None}
      BY <2>3, <3>1, NoneAssumption DEF LockProtectsOffer
    <3>2. CASE lock \notin {c, None}
      BY <1>1, <1>4, <2>1, <2>3, <3>2, UnlockedWrite, OfferCheckStays DEF WaitInv
    <3>3. QED
      BY <3>1, <3>2
  <2>5. QED
    BY <1>1, <1>2, <1>3, <2>2, <2>4 DEF WaitInv
<1>6. CASE NoBookingMoves
  <2>1. NobodyComes
    BY <1>6, NobodyMovesNobodyComes
  <2>2. LockProtectsOffer'
    <3>1. CASE lock' = None
      BY <3>1, NoneAssumption DEF LockProtectsOffer
    <3>2. CASE blocks' = blocks
      BY <1>1, <1>4, <2>1, <3>2, OfferCheckStays DEF WaitInv
    <3>3. QED
      BY <1>6, <3>1, <3>2 DEF NoBookingMoves
  <2>3. QED
    BY <1>1, <1>2, <1>3, <2>1, <2>2, OffersStayKept DEF WaitInv
<1>7. QED
  BY <1>1, <1>5, <1>6 DEF CalendarStep

-----------------------------------------------------------------------------
(* The handlers of the waitlist that write no booking and make no offer *)

(* No entry is fulfilled by the step. *)
EntriesStay ==
    /\ entries' \in [Entry -> EntryRow]
    /\ \A n \in Entry : entries'[n].status = "FULFILLED" => entries[n].status = "FULFILLED"

Quiet ==
    /\ UNCHANGED <<now, bookings, blocks, requests, reopened, entryOf, bookingOf>>
    /\ recovery' \subseteq RecoveryEvent
    /\ OffersClose
    /\ EntriesStay

(* Handler c, if it is one, does the step. *)
Alone(c) ==
    /\ tx' \in [Client -> Transaction] /\ task' \in [Client -> TaskRow]
    /\ \A d \in Client \ {c} : tx'[d] = tx[d] /\ task'[d] = task[d]

LEMMA NoTaskRow == NoTask \in TaskRow
BY DEF NoTask, TaskRow

LEMMA WaitTypes ==
    ASSUME WaitInv
    PROVE  /\ Base
           /\ tx \in [Client -> Transaction] /\ task \in [Client -> TaskRow]
           /\ offers \in [Offer -> OfferRow] /\ entries \in [Entry -> EntryRow]
           /\ recovery \subseteq RecoveryEvent
           /\ None \notin Client
BY NoneAssumption DEF WaitInv, IInv, Base, TypeOK, ScheduleTypeOK, TasksOK, RowsOK

LEMMA QuietBase ==
    ASSUME Base, Quiet, NEW c, Alone(c),
           tx' = tx \/ (lock' # c /\ tx'[c].op \notin CreateOps \cup ExistingOps \cup BlockOps),
           lock' \in {lock, None}
    PROVE  Base'
<1>1. TypeOK'
  BY DEF Base, TypeOK, ScheduleTypeOK, Quiet, OffersClose, Alone
<1>2. HandlerOK'
  <2> SUFFICES ASSUME NEW d \in Client
               PROVE  /\ tx'[d].op \in CreateOps =>
                            /\ tx'[d].subject \in Booking
                            /\ tx'[d].target \in Place
                            /\ bookings'[tx'[d].subject].status = "NONE"
                            /\ \A x \in Client \ {d} :
                                  tx'[x].op \in CreateOps => tx'[x].subject # tx'[d].subject
                      /\ tx'[d].op \in ExistingOps =>
                            tx'[d].subject \in Booking /\ bookings'[tx'[d].subject].status # "NONE"
                      /\ tx'[d].op = "reschedule" => tx'[d].target \in Place
                      /\ tx'[d].op \in BlockOps => tx'[d].subject \in Block /\ tx'[d].target \in Place
    BY DEF HandlerOK
  <2>1. bookings' = bookings
    BY DEF Quiet
  <2>2. \A x \in Client :
           \/ tx'[x] = tx[x]
           \/ tx'[x].op \notin CreateOps \cup ExistingOps \cup BlockOps
    BY DEF Alone
  <2>3. "reschedule" \in ExistingOps
    BY DEF ExistingOps
  <2>4. QED
    BY <2>1, <2>2, <2>3 DEF Base, HandlerOK
<1>3. LockOK'
  BY NoneAssumption DEF Base, LockOK, Alone
<1>4. QED
  BY <1>1, <1>2, <1>3 DEF Base

LEMMA QuietInv ==
    ASSUME WaitInv, Base', Quiet, NEW c, Alone(c), c \in Client => TaskOK(c)',
           \A d \in Client : lock' = d => lock = d /\ tx'[d] = tx[d] /\ task'[d] = task[d]
    PROVE  WaitInv'
<1>1. Releases /\ NobodyComes
  BY ClosingReleases DEF Quiet, NobodyComes
<1>2. IInv'
  BY <1>1, CalmIInv DEF WaitInv, Quiet
<1>3. RowsOK'
  BY DEF WaitInv, RowsOK, Quiet, OffersClose, EntriesStay
<1>4. TasksOK'
  <2> SUFFICES ASSUME NEW d \in Client \ {c}
               PROVE  TaskOK(d)'
    BY DEF TasksOK, Alone
  <2>1. TaskOK(d) /\ tx'[d] = tx[d] /\ task'[d] = task[d]
    BY DEF WaitInv, TasksOK, Alone
  <2>2. \A o \in Offer : offers[o].status # "NONE" =>
           offers'[o].status # "NONE" /\ offers'[o].place = offers[o].place
    BY DEF Quiet, OffersClose
  <2>3. QED
    BY <2>1, <2>2 DEF TaskOK
<1>5. LockProtectsOffer'
  BY <1>1, OfferCheckStays DEF WaitInv, Quiet, EntriesStay
<1>6. QED
  BY <1>1, <1>2, <1>3, <1>4, <1>5, OffersStayKept DEF WaitInv

(* A handler of the waitlist ends. *)
LEMMA EndsTaskInv ==
    ASSUME WaitInv, NEW c \in Client, EndsTask(c), Quiet
    PROVE  WaitInv'
<1>1. /\ Base /\ tx \in [Client -> Transaction] /\ task \in [Client -> TaskRow]
      /\ None \notin Client
  BY WaitTypes
<1>2. tx' = [tx EXCEPT ![c] = Idle] /\ task' = [task EXCEPT ![c] = NoTask] /\ Unlocks(c)
  BY DEF EndsTask, Ends
<1>3. Alone(c) /\ tx'[c] = Idle /\ task'[c] = NoTask
  BY <1>1, <1>2, IdleIsTransaction, NoTaskRow DEF Alone
<1>4. \A d \in Client : lock' = d => lock = d /\ tx'[d] = tx[d] /\ task'[d] = task[d]
  BY <1>1, <1>2, <1>3 DEF Unlocks, Alone
<1>5. lock' \in {lock, None} /\ lock' # c
  BY <1>1, <1>2 DEF Unlocks
<1>6. Base'
  BY <1>1, <1>3, <1>5, IdleHandles, QuietBase
<1>7. TaskOK(c)'
  BY <1>3, OpsDiffer DEF TaskOK, NoTask, WaitOps
<1>8. QED
  BY <1>3, <1>4, <1>6, <1>7, QuietInv

LEMMA ClosedOffers ==
    ASSUME offers \in [Offer -> OfferRow], NEW os,
           \A o \in os \cap Offer : offers[o].status # "NONE",
           NEW status \in {"EXPIRED", "REVOKED", "FAILED"},
           offers' = [o \in Offer |-> IF o \in os THEN [offers[o] EXCEPT !.status = status]
                                                  ELSE offers[o]]
    PROVE  OffersClose
<1>1. \A o \in Offer : [offers[o] EXCEPT !.status = status] \in OfferRow
  BY Zenon DEF OfferRow
<1>2. \A o \in Offer : /\ [offers[o] EXCEPT !.status = status].status = status
                       /\ [offers[o] EXCEPT !.status = status].place = offers[o].place
  BY DEF OfferRow
<1>3. QED
  BY <1>1, <1>2 DEF OffersClose

LEMMA RevokedOffers ==
    ASSUME offers \in [Offer -> OfferRow], NEW os, offers' = Revoked(os)
    PROVE  OffersClose
<1> DEFINE ps == {o \in Offer : o \in os /\ offers[o].status = "PENDING"}
<1>1. offers' = [o \in Offer |-> IF o \in ps THEN [offers[o] EXCEPT !.status = "REVOKED"]
                                             ELSE offers[o]]
  BY DEF Revoked
<1>2. \A o \in ps \cap Offer : offers[o].status # "NONE"
  OBVIOUS
<1> HIDE DEF ps
<1>3. QED
  BY <1>1, <1>2, ClosedOffers

LEMMA BackToListStays ==
    ASSUME entries \in [Entry -> EntryRow], NEW n, entries' = BackToList(n)
    PROVE  EntriesStay
<1> DEFINE row == [status |-> "ACTIVE", failures |-> entries[n].failures + 1]
<1>1. CASE entries' = entries
  BY <1>1 DEF EntriesStay
<1>2. CASE entries' = [entries EXCEPT ![n] = row] /\ n \in Entry
  <2>1. row \in EntryRow /\ row.status = "ACTIVE"
    BY <1>2 DEF EntryRow
  <2> HIDE DEF row
  <2>2. QED
    BY <1>2, <2>1 DEF EntriesStay
<1>3. CASE n \notin Entry
  <2>1. entries' = entries
    BY <1>3 DEF BackToList
  <2>2. QED
    BY <1>1, <2>1
<1>4. QED
  BY <1>1, <1>2, <1>3 DEF BackToList

LEMMA CancelledEntryIs ==
    ASSUME entries \in [Entry -> EntryRow], NEW n,
           entries' = [entries EXCEPT ![n].status = "CANCELLED"]
    PROVE  EntriesStay
BY DEF EntriesStay, EntryRow

LEMMA WithdrawnType ==
    ASSUME offers \in [Offer -> OfferRow], NEW o \in Offer,
           NEW type \in {"WAITLIST_CANCELLED", "WAITLIST_OFFER_FAILED", "WAITLIST_OFFER_EXPIRED"}
    PROVE  Freed(type, o, 0, offers[o].place) \in RecoveryEvent
BY DEF Freed, RecoveryEvent, RecoverySource, OfferRow

LEMMA WriteCancelEntryInv ==
    ASSUME WaitInv, NEW c \in Client, WriteCancelEntry(c)
    PROVE  WaitInv'
<1>1. /\ offers \in [Offer -> OfferRow] /\ entries \in [Entry -> EntryRow]
      /\ recovery \subseteq RecoveryEvent
  BY WaitTypes
<1>2. OffersClose
  BY <1>1, RevokedOffers DEF WriteCancelEntry
<1>3. EntriesStay
  BY <1>1, CancelledEntryIs DEF WriteCancelEntry
<1>4. task[c].found \subseteq Offer
  BY DEF WriteCancelEntry, Waiting, Running, WaitInv, TasksOK, TaskOK, CancelOps
<1>5. recovery' \subseteq RecoveryEvent
  BY <1>1, <1>4, WithdrawnType DEF WriteCancelEntry, WithdrawnEvent
<1>6. Quiet /\ EndsTask(c)
  BY <1>2, <1>3, <1>5 DEF Quiet, WriteCancelEntry, Waiting
<1>7. QED
  BY <1>6, EndsTaskInv

LEMMA WriteCancelEntryAdminInv ==
    ASSUME WaitInv, NEW c \in Client, WriteCancelEntryAdmin(c)
    PROVE  WaitInv'
<1>1. OffersClose /\ EntriesStay
  BY WaitTypes, RevokedOffers, CancelledEntryIs DEF WriteCancelEntryAdmin
<1>2. Quiet /\ EndsTask(c)
  BY <1>1, WaitTypes DEF Quiet, WriteCancelEntryAdmin, Waiting
<1>3. QED
  BY <1>2, EndsTaskInv

LEMMA ReleaseOfferInv ==
    ASSUME WaitInv, NEW c \in Client, releaseUnavailableOffer(c)
    PROVE  WaitInv'
<1> DEFINE o == task[c].offer
<1>1. /\ offers \in [Offer -> OfferRow] /\ entries \in [Entry -> EntryRow]
      /\ recovery \subseteq RecoveryEvent /\ o \in Offer
  BY WaitTypes DEF releaseUnavailableOffer, Waiting, Running, WaitInv, TasksOK, TaskOK, AcceptOps
<1>2. CASE offers[o].status = "PENDING"
  <2>1. offers' = [offers EXCEPT ![o].status = "FAILED"] /\ entries' = BackToList(entryOf[o])
        /\ Announces(Freed("WAITLIST_OFFER_FAILED", o, 0, offers[o].place))
    BY <1>2 DEF releaseUnavailableOffer
  <2>2. offers' = [x \in Offer |-> IF x \in {o} THEN [offers[x] EXCEPT !.status = "FAILED"]
                                                ELSE offers[x]]
    BY <1>1, <2>1
  <2>3. OffersClose
    BY <1>1, <1>2, <2>2, ClosedOffers
  <2>4. EntriesStay
    BY <1>1, <2>1, BackToListStays
  <2>5. recovery' \subseteq RecoveryEvent
    BY <1>1, <2>1, WithdrawnType DEF Announces
  <2>6. QED
    BY <2>3, <2>4, <2>5, EndsTaskInv DEF releaseUnavailableOffer, Waiting, Quiet
<1>3. CASE offers[o].status # "PENDING"
  <2>1. UNCHANGED <<offers, entries, recovery>>
    BY <1>3 DEF releaseUnavailableOffer
  <2>2. QED
    BY <1>1, <2>1, EndsTaskInv
       DEF releaseUnavailableOffer, Waiting, Quiet, OffersClose, EntriesStay
<1>4. QED
  BY <1>2, <1>3

LEMMA DiesInv ==
    ASSUME WaitInv, NEW c \in Client, Dies(c)
    PROVE  WaitInv'
BY WaitTypes, EndsTaskInv DEF Dies, Fails, EndsTask, Quiet, OffersClose, EntriesStay

LEMMA StartsTaskInv ==
    ASSUME WaitInv, NEW c \in Client, NEW op \in WaitOps, NEW subject \in Subject,
           NEW target \in Place \cup {None}, NEW t \in TaskRow,
           StartsTask(c, op, subject, target, t),
           UNCHANGED <<entries, entryOf, bookingOf>>,
           op = "acceptOffer" => subject \in Booking /\ target \in Place /\ FreshBooking(subject),
           op \notin Workers => t.event = None /\ t.queue = {},
           op \in Workers => t.found \subseteq Entry \X Place \X Nat,
           op \in CancelOps => t.entry \in Entry /\ t.found \subseteq Offer,
           op \in AcceptOps => /\ t.offer \in Offer /\ offers[t.offer].status # "NONE"
                              /\ offers[t.offer].place = target
    PROVE  WaitInv'
<1>1. /\ Base /\ tx \in [Client -> Transaction] /\ task \in [Client -> TaskRow]
      /\ Starts(c, op, subject, target, 0, FALSE)
  BY WaitTypes DEF StartsTask
<1>2. op \in Operation /\ op \notin ExistingOps \cup BlockOps /\ op # "reschedule"
      /\ (op \in CreateOps => op = "acceptOffer")
  BY OpsDiffer DEF ExistingOps
<1>3. Base'
  BY <1>1, <1>2, StartsBase
<1>4. /\ tx[c] = Idle /\ tx'[c].op = op /\ tx'[c].target = target /\ task'[c] = t
      /\ \A d \in Client \ {c} : tx'[d] = tx[d] /\ task'[d] = task[d]
      /\ UNCHANGED <<now, bookings, blocks, requests, offers, recovery, lock, reopened>>
  BY <1>1 DEF Starts, StartsTask
<1>5. Alone(c)
  <2>1. tx' \in [Client -> Transaction]
    BY <1>3 DEF Base, TypeOK, ScheduleTypeOK
  <2>2. task' \in [Client -> TaskRow]
    BY <1>1 DEF StartsTask
  <2>3. QED
    BY <1>4, <2>1, <2>2 DEF Alone
<1>6. Quiet
  BY <1>4, WaitTypes DEF Quiet, OffersClose, EntriesStay
<1>7. TaskOK(c)'
  BY <1>4 DEF TaskOK
<1>8. lock # c
  BY <1>4 DEF WaitInv, IInv, LockOK
<1>9. QED
  BY <1>3, <1>4, <1>5, <1>6, <1>7, <1>8, QuietInv

LEMMA TaskRows ==
    ASSUME NEW n \in Entry, NEW o \in Offer, NEW os \in SUBSET Offer,
           NEW es \in SUBSET RecoveryEvent
    PROVE  /\ [NoTask EXCEPT !.entry = n] \in TaskRow
           /\ [NoTask EXCEPT !.entry = n, !.found = os] \in TaskRow
           /\ [NoTask EXCEPT !.offer = o] \in TaskRow
           /\ [NoTask EXCEPT !.queue = es] \in TaskRow
           /\ [NoTask EXCEPT !.queue = es, !.entry = n] \in TaskRow
BY DEF NoTask, TaskRow

LEMMA BeginCancelsInv ==
    ASSUME WaitInv, NEW c \in Client, NEW n \in Entry,
           BeginCancelEntry(c, n) \/ BeginCancelEntryAdmin(c, n)
    PROVE  WaitInv'
<1> DEFINE t == IF BeginCancelEntry(c, n) THEN [NoTask EXCEPT !.entry = n]
                ELSE [NoTask EXCEPT !.entry = n, !.found = PendingOfferOf(n)]
<1>1. PendingOfferOf(n) \in SUBSET Offer /\ {} \in SUBSET Offer
  BY DEF PendingOfferOf
<1>2. /\ t \in TaskRow /\ t.event = None /\ t.queue = {}
      /\ t.entry = n /\ t.found \subseteq Offer
  <2>1. [NoTask EXCEPT !.entry = n] \in TaskRow
    BY DEF NoTask, TaskRow
  <2>2. [NoTask EXCEPT !.entry = n, !.found = PendingOfferOf(n)] \in TaskRow
    BY <1>1 DEF NoTask, TaskRow
  <2>3. QED
    BY <1>1, <2>1, <2>2 DEF NoTask
<1>3. \E op \in CancelOps : StartsTask(c, op, None, None, t)
  BY DEF BeginCancelEntry, BeginCancelEntryAdmin, CancelOps
<1>4. UNCHANGED <<entries, entryOf, bookingOf>> /\ None \in Subject
  BY DEF BeginCancelEntry, BeginCancelEntryAdmin, Subject
<1> HIDE DEF t
<1>5. PICK op \in CancelOps : StartsTask(c, op, None, None, t)
  BY <1>3
<1>6. op \in WaitOps /\ op \notin Workers /\ op \notin AcceptOps /\ op # "acceptOffer"
  BY <1>5 DEF WaitOps, CancelOps, Workers, AcceptOps
<1>7. QED
  BY <1>2, <1>4, <1>5, <1>6, StartsTaskInv

LEMMA BeginAcceptInv ==
    ASSUME WaitInv, NEW c \in Client, NEW o \in Offer, NEW b \in Booking, BeginAccept(c, o, b)
    PROVE  WaitInv'
<1> DEFINE t == [NoTask EXCEPT !.offer = o]
<1>1. t \in TaskRow /\ t.event = None /\ t.queue = {} /\ t.offer = o
  BY DEF NoTask, TaskRow
<1>2. /\ StartsTask(c, "acceptOffer", b, offers[o].place, t) /\ FreshBooking(b)
      /\ offers[o].status # "NONE" /\ offers[o].place \in Place
      /\ UNCHANGED <<entries, entryOf, bookingOf>> /\ b \in Subject
  BY DEF BeginAccept, LiveOffer, WaitInv, RowsOK, Subject
<1> HIDE DEF t
<1>3. "acceptOffer" \in WaitOps /\ "acceptOffer" \notin Workers /\ "acceptOffer" \notin CancelOps
  BY DEF WaitOps, Workers, CancelOps, AcceptOps
<1>4. QED
  BY <1>1, <1>2, <1>3, StartsTaskInv

LEMMA ClaimsInv ==
    ASSUME WaitInv, NEW c \in Client,
           claimRecoveryEvents(c) \/ \E e \in recovery, n \in Entry : claimSuggestion(c, e, n)
    PROVE  WaitInv'
<1>1. \E op \in Workers, t \in TaskRow :
         /\ StartsTask(c, op, None, None, t) /\ t.found = {}
         /\ UNCHANGED <<entries, entryOf, bookingOf>>
  <2>1. CASE claimRecoveryEvents(c)
    <3> DEFINE due == {e \in recovery : Claimable(e)}
    <3>1. due \in SUBSET RecoveryEvent
      BY WaitTypes
    <3>2. /\ StartsTask(c, "processRecovery", None, None, [NoTask EXCEPT !.queue = due])
          /\ UNCHANGED <<entries, entryOf, bookingOf>>
      BY <2>1 DEF claimRecoveryEvents
    <3> HIDE DEF due
    <3>3. [NoTask EXCEPT !.queue = due] \in TaskRow /\ [NoTask EXCEPT !.queue = due].found = {}
      BY <3>1 DEF NoTask, TaskRow
    <3>4. QED
      BY <3>2, <3>3 DEF Workers
  <2>2. ASSUME NEW e \in recovery, NEW n \in Entry, claimSuggestion(c, e, n)
        PROVE  \E op \in Workers, t \in TaskRow :
                  /\ StartsTask(c, op, None, None, t) /\ t.found = {}
                  /\ UNCHANGED <<entries, entryOf, bookingOf>>
    <3> DEFINE t == [NoTask EXCEPT !.queue = {e}, !.entry = n]
    <3>1. e \in RecoveryEvent
      BY WaitTypes
    <3>2. t \in TaskRow /\ t.found = {}
      BY <3>1 DEF NoTask, TaskRow
    <3>3. /\ StartsTask(c, "suggestOffer", None, None, t)
          /\ UNCHANGED <<entries, entryOf, bookingOf>>
      BY <2>2 DEF claimSuggestion
    <3> HIDE DEF t
    <3>4. QED
      BY <3>2, <3>3 DEF Workers
  <2>3. QED
    BY <2>1, <2>2
<1>2. PICK op \in Workers, t \in TaskRow :
         /\ StartsTask(c, op, None, None, t) /\ t.found = {}
         /\ UNCHANGED <<entries, entryOf, bookingOf>>
  BY <1>1
<1>3. op \in WaitOps /\ op \notin CancelOps /\ op \notin AcceptOps /\ op # "acceptOffer"
      /\ None \in Subject
  BY <1>2 DEF WaitOps, CancelOps, Workers, AcceptOps, Subject
<1>4. QED
  BY <1>2, <1>3, StartsTaskInv

-----------------------------------------------------------------------------
(* Steps of one handler that touch no table *)

LEMMA TaskStepInv ==
    ASSUME WaitInv, NEW c \in Client, NEW t \in TaskRow, task' = [task EXCEPT ![c] = t],
           UNCHANGED <<now, bookings, blocks, requests, offers, recovery, tx, reopened,
                       entries, entryOf, bookingOf>>,
           lock' \in {lock, None}, lock' # c, TaskOK(c)'
    PROVE  WaitInv'
<1>1. Alone(c)
  BY WaitTypes DEF Alone
<1>2. Quiet
  BY WaitTypes DEF Quiet, OffersClose, EntriesStay
<1>3. Base'
  BY <1>1, <1>2, WaitTypes, QuietBase
<1>4. \A d \in Client : lock' = d => lock = d /\ tx'[d] = tx[d] /\ task'[d] = task[d]
  BY <1>1, WaitTypes DEF Alone
<1>5. QED
  BY <1>1, <1>2, <1>3, <1>4, QuietInv

LEMMA UnlocksIs ==
    ASSUME WaitInv, NEW c \in Client, Unlocks(c)
    PROVE  lock' \in {lock, None} /\ lock' # c
BY WaitTypes DEF Unlocks

LEMMA LookCancelEntryInv ==
    ASSUME WaitInv, NEW c \in Client, LookCancelEntry(c)
    PROVE  WaitInv'
<1> DEFINE t == [task[c] EXCEPT !.made = TRUE, !.found = PendingOfferOf(task[c].entry)]
<1>1. /\ task[c] \in TaskRow /\ TaskOK(c) /\ tx[c].op \in CancelOps
      /\ PendingOfferOf(task[c].entry) \subseteq Offer
  BY DEF LookCancelEntry, Running, CancelOps, WaitInv, TasksOK, PendingOfferOf
<1>2. /\ t \in TaskRow /\ t.event = task[c].event /\ t.queue = task[c].queue
      /\ t.entry = task[c].entry /\ t.found \subseteq Offer
  BY <1>1 DEF TaskRow
<1>3. task' = [task EXCEPT ![c] = t] /\ vars' = vars
      /\ UNCHANGED <<entries, entryOf, bookingOf>>
  BY <1>1, WaitTypes DEF LookCancelEntry
<1> HIDE DEF t
<1>4. TaskOK(c)'
  BY <1>1, <1>2, <1>3, WaitTypes, OpsDiffer DEF TaskOK, vars, WaitOps
<1>5. QED
  <2>1. CASE lock # c
    BY <1>2, <1>3, <1>4, <2>1, TaskStepInv DEF vars
  <2>2. CASE lock = c
    BY <1>1, <2>2 DEF WaitInv, LockProtectsOffer, OfferStillFits
  <2>3. QED
    BY <2>1, <2>2

LEMMA TakesEventInv ==
    ASSUME WaitInv, NEW c \in Client, NEW e, TakesEvent(c, e)
    PROVE  WaitInv'
<1> DEFINE picked == {x \in Candidates(e) : task[c].entry \in {None, x[1]}}
           t == [task[c] EXCEPT !.event = e, !.queue = @ \ {e}, !.found = picked, !.made = FALSE]
<1>1. /\ task[c] \in TaskRow /\ TaskOK(c) /\ tx[c].op \in Workers
      /\ e \in task[c].queue /\ task[c].event = None
  BY DEF TakesEvent, Workers, WaitInv, TasksOK
<1>2. picked \subseteq Entry \X Place \X Nat
  <2>1. ASSUME NEW x \in Matching(e) \X AppointmentPlace
        PROVE  <<x[1], x[2], entries[x[1]].failures>> \in Entry \X Place \X Nat
    <3>1. x[1] \in Entry /\ x[2] \in Place
      BY DEF Matching, AppointmentPlace
    <3>2. entries[x[1]].failures \in Nat
      BY <3>1, WaitTypes DEF EntryRow
    <3>3. QED
      BY <3>1, <3>2
  <2>2. QED
    BY <2>1 DEF Candidates
<1> HIDE DEF picked
<1>3. /\ t \in TaskRow /\ t.found \subseteq Entry \X Place \X Nat
  <2>1. e \in RecoveryEvent
    BY <1>1 DEF TaskRow
  <2>2. QED
    BY <1>1, <1>2, <2>1 DEF TaskRow
<1>4. task' = [task EXCEPT ![c] = t] /\ vars' = vars /\ UNCHANGED <<entries, entryOf, bookingOf>>
  BY WaitTypes DEF TakesEvent, picked
<1> HIDE DEF t
<1>5. TaskOK(c)'
  BY <1>1, <1>3, <1>4, WaitTypes, OpsDiffer DEF TaskOK, vars, WaitOps
<1>6. lock # c
  BY <1>1 DEF WaitInv, LockProtectsOffer, OfferStillFits
<1>7. QED
  BY <1>3, <1>4, <1>5, <1>6, TaskStepInv DEF vars

LEMMA OfferConflictsInv ==
    ASSUME WaitInv, NEW c \in Client, NEW x, OfferConflicts(c, x)
    PROVE  WaitInv'
<1> DEFINE t == [task[c] EXCEPT !.found = @ \ {x}]
<1>1. task[c] \in TaskRow /\ TaskOK(c) /\ tx[c].op \in Workers
  BY DEF OfferConflicts, Offering, Workers, WaitInv, TasksOK
<1>2. t \in TaskRow /\ t.found \subseteq Entry \X Place \X Nat
  BY <1>1 DEF TaskRow, TaskOK
<1>3. task' = [task EXCEPT ![c] = t] /\ tx' = tx /\ Unlocks(c)
  BY WaitTypes DEF OfferConflicts
<1> HIDE DEF t
<1>4. TaskOK(c)'
  BY <1>1, <1>2, <1>3, WaitTypes, OpsDiffer DEF TaskOK, WaitOps
<1>5. QED
  BY <1>2, <1>3, <1>4, UnlocksIs, TaskStepInv DEF OfferConflicts

LEMMA LetsGoInv ==
    ASSUME WaitInv, NEW c \in Client, tx[c].op \in Workers, LetsGo(c)
    PROVE  WaitInv'
<1>1. CASE task[c].queue = {}
  BY <1>1, WaitTypes, EndsTaskInv
     DEF LetsGo, NextOfBatch, EndsTask, Quiet, OffersClose, EntriesStay
<1>2. CASE task[c].queue # {}
  <2> DEFINE t == [NoTask EXCEPT !.queue = task[c].queue]
  <2>1. task[c] \in TaskRow
    BY WaitTypes
  <2>2. t \in TaskRow /\ t.found = {}
    BY <2>1 DEF TaskRow, NoTask
  <2>3. task' = [task EXCEPT ![c] = t] /\ tx' = tx /\ Unlocks(c)
    BY <1>2 DEF LetsGo, NextOfBatch
  <2> HIDE DEF t
  <2>4. TaskOK(c)'
    BY <2>2, <2>3, WaitTypes, OpsDiffer DEF TaskOK, WaitOps
  <2>5. QED
    BY <2>2, <2>3, <2>4, UnlocksIs, TaskStepInv DEF LetsGo
<1>3. QED
  BY <1>1, <1>2

LEMMA SettlesInv ==
    ASSUME WaitInv, NEW c \in Client, FinishEvent(c) \/ FailEvent(c) \/ FailSuggestion(c)
    PROVE  WaitInv'
BY LetsGoInv DEF FinishEvent, FailEvent, FailSuggestion, Running, Workers

LEMMA AcceptConflictsInv ==
    ASSUME WaitInv, NEW c \in Client, AcceptConflicts(c)
    PROVE  WaitInv'
<1> DEFINE t == [tx[c] EXCEPT !.op = "releaseOffer", !.subject = None]
<1>1. tx[c] \in Transaction /\ TaskOK(c) /\ tx[c].op = "acceptOffer"
  BY WaitTypes DEF AcceptConflicts, Waiting, Running, WaitInv, TasksOK
<1>2. t \in Transaction /\ t.op = "releaseOffer" /\ t.target = tx[c].target
  <2>1. "releaseOffer" \in Operation /\ None \in Subject
    BY DEF Operation, Subject
  <2>2. QED
    BY <1>1, <2>1 DEF Transaction
<1>3. tx' = [tx EXCEPT ![c] = t] /\ Unlocks(c) /\ UNCHANGED <<bookings, offers, recovery, waitOnly>>
      /\ UNCHANGED <<now, blocks, requests, reopened>>
  BY WaitTypes DEF AcceptConflicts, Waiting
<1> HIDE DEF t
<1>4. Alone(c) /\ tx'[c] = t /\ task'[c] = task[c]
  BY <1>2, <1>3, WaitTypes DEF Alone, waitOnly
<1>5. Quiet
  BY <1>3, WaitTypes DEF Quiet, OffersClose, EntriesStay, waitOnly
<1>6. "releaseOffer" \notin CreateOps \cup ExistingOps \cup BlockOps
  BY DEF CreateOps, ExistingOps, BlockOps
<1>7. Base'
  BY <1>2, <1>3, <1>4, <1>5, <1>6, WaitTypes, UnlocksIs, QuietBase
<1>8. TaskOK(c)'
  <2>1. {"acceptOffer", "releaseOffer"} = AcceptOps
    BY DEF AcceptOps
  <2>2. QED
    BY <1>1, <1>2, <1>3, <1>4, <2>1, OpsDiffer DEF TaskOK, WaitOps
<1>9. \A d \in Client : lock' = d => lock = d /\ tx'[d] = tx[d] /\ task'[d] = task[d]
  BY <1>3, <1>4, WaitTypes DEF Alone, Unlocks
<1>10. QED
  BY <1>4, <1>5, <1>7, <1>8, <1>9, QuietInv

LEMMA VerifyCodeInv ==
    ASSUME WaitInv, NEW n \in Entry, verifyCode(n)
    PROVE  WaitInv'
<1>1. Alone(None) /\ None \notin Client
  BY WaitTypes DEF Alone, verifyCode, vars
<1>2. EntriesStay
  BY WaitTypes DEF EntriesStay, EntryRow, verifyCode
<1>3. Quiet
  BY <1>2, WaitTypes DEF Quiet, OffersClose, verifyCode, vars
<1>4. Base'
  BY <1>1, <1>3, WaitTypes, QuietBase DEF verifyCode, vars
<1>5. QED
  BY <1>1, <1>3, <1>4, QuietInv DEF verifyCode, vars

LEMMA ExpireOfferInv ==
    ASSUME WaitInv, NEW o \in Offer, expireOffer(o)
    PROVE  WaitInv'
<1>1. Alone(None) /\ None \notin Client
  BY WaitTypes DEF Alone, expireOffer
<1>2. offers' = [x \in Offer |-> IF x \in {o} THEN [offers[x] EXCEPT !.status = "EXPIRED"]
                                             ELSE offers[x]]
  BY WaitTypes DEF expireOffer
<1>3. OffersClose
  BY <1>2, WaitTypes, ClosedOffers DEF expireOffer
<1>4. EntriesStay
  BY WaitTypes, BackToListStays DEF expireOffer, ExpiredEntry
<1>5. recovery' \subseteq RecoveryEvent
  BY WaitTypes, WithdrawnType DEF expireOffer, Announces
<1>6. Quiet
  BY <1>3, <1>4, <1>5 DEF Quiet, expireOffer
<1>7. Base'
  BY <1>1, <1>6, WaitTypes, QuietBase DEF expireOffer
<1>8. QED
  BY <1>1, <1>6, <1>7, QuietInv DEF expireOffer

-----------------------------------------------------------------------------
(* The checks under the lock, and the two commits *)

LEMMA EnterIInv ==
    ASSUME WaitInv, NEW c \in Client, tx[c].op \in WaitOps, Locks(c)
    PROVE  IInv'
<1>1. Base'
  BY WaitTypes, OpsDiffer, LocksBase
<1>2. OnlineDisjoint' /\ NoOverlap' /\ BlockClear'
  BY CalmStep DEF WaitInv, IInv, Locks
<1>3. LockProtectsCheck'
  BY DEF Locks, LockProtectsCheck, CheckStillHolds, Running, WaitOps, Workers, CancelOps, AcceptOps
<1>4. QED
  BY <1>1, <1>2, <1>3 DEF IInv, Base

LEMMA EnterAcceptInv ==
    ASSUME WaitInv, NEW c \in Client, EnterAccept(c)
    PROVE  WaitInv'
<1>1. /\ tx[c].op = "acceptOffer" /\ lock' = c
      /\ UNCHANGED <<now, bookings, blocks, requests, offers, tx, reopened, waitOnly>>
      /\ Locks(c) /\ AcceptAdmitted(c)
  BY DEF EnterAccept, Enter, Running, Locks
<1>2. "acceptOffer" \in AcceptOps /\ "acceptOffer" \in WaitOps
      /\ "acceptOffer" \notin CancelOps /\ "acceptOffer" \notin Workers
  BY DEF AcceptOps, WaitOps, CancelOps, Workers
<1>3. IInv'
  BY <1>1, <1>2, EnterIInv
<1>4. RowsOK' /\ TasksOK' /\ OfferKept'
  BY <1>1 DEF WaitInv, RowsOK, TasksOK, TaskOK, OfferKept, LiveOffer, waitOnly
<1>5. Available(tx[c].target, None, task[c].offer)
  BY <1>1, <1>2 DEF AcceptAdmitted, WaitInv, TasksOK, TaskOK
<1>6. OfferStillFits(c)'
  BY <1>1, <1>2, <1>5 DEF OfferStillFits, Available, Running, TakenByBlock, TakenByRequest,
                          TakenByOffer, LiveRequest, LiveOffer, waitOnly
<1>7. LockProtectsOffer'
  BY <1>1, <1>6 DEF LockProtectsOffer
<1>8. QED
  BY <1>3, <1>4, <1>7 DEF WaitInv

LEMMA EnterOfferInv ==
    ASSUME WaitInv, NEW c \in Client, NEW x \in task[c].found, EnterOffer(c, x)
    PROVE  WaitInv'
<1> DEFINE t == [task[c] EXCEPT !.found = {x}, !.offer = None]
<1>1. /\ tx[c].op \in Workers /\ task[c].event # None /\ Locks(c)
      /\ task[c] \in TaskRow /\ TaskOK(c)
      /\ task' = [task EXCEPT ![c] = t] /\ OfferAdmitted(x)
      /\ UNCHANGED <<now, bookings, blocks, requests, offers, recovery, tx, reopened,
                      entries, entryOf, bookingOf>>
      /\ lock' = c
  BY WaitTypes DEF EnterOffer, Offering, Workers, Locks, WaitInv, TasksOK
<1>2. /\ t \in TaskRow /\ t.found = {x} /\ t.event = task[c].event
      /\ t.found \subseteq Entry \X Place \X Nat /\ x[1] \in Entry
  BY <1>1 DEF TaskRow, TaskOK
<1> HIDE DEF t
<1>3. tx[c].op \in WaitOps /\ tx[c].op \notin CancelOps /\ tx[c].op \notin AcceptOps
      /\ tx[c].op # "acceptOffer"
  BY <1>1, OpsDiffer DEF WaitOps, AcceptOps
<1>4. IInv'
  BY <1>1, <1>3, EnterIInv
<1>5. task'[c] = t /\ \A d \in Client \ {c} : task'[d] = task[d]
  BY <1>1, WaitTypes
<1>6. TaskOK(c)'
  BY <1>1, <1>2, <1>3, <1>5 DEF TaskOK
<1>7. TasksOK'
  <2>1. task' \in [Client -> TaskRow]
    BY <1>1, <1>2, WaitTypes
  <2>2. \A d \in Client \ {c} : TaskOK(d)'
    BY <1>1, <1>5 DEF WaitInv, TasksOK, TaskOK
  <2>3. QED
    BY <1>6, <2>1, <2>2 DEF TasksOK
<1>8. RowsOK' /\ OfferKept'
  BY <1>1 DEF WaitInv, RowsOK, OfferKept, LiveOffer
<1>9. OfferStillFits(c)'
  <2>1. entries[x[1]].status # "FULFILLED"
    BY <1>1 DEF OfferAdmitted
  <2>2. \A b \in Booking : Exclusive(bookings[b]) => ~Overlap(Busy[bookings[b].place], Busy[x[2]])
    BY <1>1, NoneAssumption DEF OfferAdmitted, Available, TakenByBooking, Exclusive, Active
  <2>3. QED
    BY <1>1, <1>2, <1>3, <1>5, <2>1, <2>2 DEF OfferStillFits, Running
<1>10. LockProtectsOffer'
  BY <1>1, <1>9 DEF LockProtectsOffer
<1>11. QED
  BY <1>4, <1>7, <1>8, <1>10 DEF WaitInv

(* The offer that is stored is about a place no online booking has. *)
LEMMA WriteOfferInv ==
    ASSUME WaitInv, NEW c \in Client, NEW x \in task[c].found, WriteOffer(c, x)
    PROVE  WaitInv'
<1> DEFINE t == [task[c] EXCEPT !.made = TRUE, !.found = {}]
           row == [status |-> "PENDING", place |-> x[2], until |-> now + OfferTtl]
<1>1. /\ tx[c].op \in Workers /\ lock = c /\ task[c] \in TaskRow /\ TaskOK(c)
      /\ task' = [task EXCEPT ![c] = t]
      /\ UNCHANGED <<now, bookings, blocks, requests, recovery, tx, reopened, bookingOf>>
      /\ lock' = None
      /\ entries' = [entries EXCEPT ![x[1]].status = "OFFERED"]
  BY WaitTypes DEF WriteOffer, Offering, Workers, Unlocks, WaitInv, TasksOK
<1>2. PICK o \in FreshOffers : /\ offers' = [offers EXCEPT ![o] = row]
                               /\ entryOf' = [entryOf EXCEPT ![o] = x[1]]
  BY DEF WriteOffer
<1>3. x[1] \in Entry /\ x[2] \in Place
  BY <1>1 DEF TaskOK
<1>4. row \in OfferRow /\ row.status = "PENDING" /\ row.place = x[2]
  <2>1. now + OfferTtl \in Nat
    BY WaitlistAssumption DEF WaitInv, IInv, TypeOK, ScheduleTypeOK
  <2>2. QED
    BY <1>3, <2>1 DEF OfferRow
<1> HIDE DEF row
<1>5. o \in Offer /\ offers[o].status = "NONE"
  BY <1>2 DEF FreshOffers
<1>6. offers' \in [Offer -> OfferRow] /\ offers'[o] = row
      /\ \A y \in Offer \ {o} : offers'[y] = offers[y]
  BY <1>2, <1>4, <1>5, WaitTypes
<1>7. t \in TaskRow /\ t.found = {} /\ t.event = task[c].event
  BY <1>1 DEF TaskRow
<1> HIDE DEF t
<1>8. Base'
  <2>1. TypeOK' /\ HandlerOK'
    BY <1>1, <1>6, WaitTypes DEF Base, TypeOK, ScheduleTypeOK, HandlerOK
  <2>2. LockOK'
    BY <1>1, NoneAssumption DEF LockOK
  <2>3. QED
    BY <2>1, <2>2 DEF Base
<1>9. IInv'
  BY <1>1, <1>8, CalmIInv DEF WaitInv
<1>10. RowsOK'
  <2>1. entries' \in [Entry -> EntryRow]
    BY <1>1, WaitTypes DEF EntryRow
  <2>2. /\ entryOf' \in [Offer -> Entry \cup {None}]
        /\ entryOf'[o] = x[1] /\ \A y \in Offer \ {o} : entryOf'[y] = entryOf[y]
    BY <1>2, <1>3, <1>5 DEF WaitInv, RowsOK
  <2>3. QED
    BY <1>1, <1>3, <1>4, <1>6, <2>1, <2>2 DEF WaitInv, RowsOK
<1>11. TasksOK'
  <2>1. task' \in [Client -> TaskRow] /\ task'[c] = t /\ \A d \in Client \ {c} : task'[d] = task[d]
    BY <1>1, <1>7, WaitTypes
  <2>2. TaskOK(c)'
    BY <1>1, <1>7, <2>1, OpsDiffer DEF TaskOK, WaitOps
  <2>3. ASSUME NEW d \in Client \ {c}
        PROVE  TaskOK(d)'
    <3>1. TaskOK(d) /\ tx'[d] = tx[d] /\ task'[d] = task[d]
      BY <1>1, <2>1 DEF WaitInv, TasksOK
    <3>2. \A y \in Offer : offers[y].status # "NONE" => offers'[y] = offers[y]
      BY <1>5, <1>6
    <3>3. QED
      BY <3>1, <3>2 DEF TaskOK
  <2>4. QED
    BY <2>1, <2>2, <2>3 DEF TasksOK
<1>12. OfferKept'
  <2> SUFFICES ASSUME NEW y \in Offer, NEW b \in Booking \ reopened,
                      LiveOffer(y)', Exclusive(bookings[b])
               PROVE  ~Overlap(Busy[bookings[b].place], Busy[offers'[y].place])
    BY <1>1 DEF OfferKept
  <2>1. CASE y = o
    BY <1>1, <1>4, <1>6, <2>1 DEF WaitInv, LockProtectsOffer, OfferStillFits
  <2>2. CASE y # o
    BY <1>1, <1>6, <2>2 DEF WaitInv, OfferKept, LiveOffer
  <2>3. QED
    BY <2>1, <2>2
<1>13. LockProtectsOffer'
  BY <1>1, NoneAssumption DEF LockProtectsOffer
<1>14. QED
  BY <1>9, <1>10, <1>11, <1>12, <1>13 DEF WaitInv

(* The booking of an accepted offer comes to the place that was checked. *)
LEMMA WriteAcceptIs ==
    ASSUME WaitInv, NEW c \in Client, WriteAccept(c)
    PROVE  BookingWrite(c, Id(c), AcceptedRow(c)) /\ OffersClose
<1> DEFINE o == task[c].offer
<1>1. /\ tx[c].op = "acceptOffer" /\ lock = c /\ TaskOK(c)
      /\ offers' = [offers EXCEPT ![o].status = "ACCEPTED"]
      /\ bookings' = [bookings EXCEPT ![Id(c)] = AcceptedRow(c)]
      /\ UNCHANGED <<now, blocks, requests, reopened, recovery>>
      /\ Ends(c) /\ Unlocks(c) /\ Storable(c)
  BY DEF WriteAccept, Waiting, Running, EndsTask, WaitInv, TasksOK
<1>2. "acceptOffer" \in CreateOps /\ "acceptOffer" \in AcceptOps
  BY DEF CreateOps, AcceptOps
<1>3. /\ Id(c) \in Booking /\ tx[c].target \in Place /\ bookings[Id(c)].status = "NONE"
      /\ \A d \in Client \ {c} : tx[d].op \in CreateOps => tx[d].subject # Id(c)
  BY <1>1, <1>2 DEF WaitInv, IInv, HandlerOK, Id
<1>4. o \in Offer /\ offers[o].status # "NONE" /\ offers[o].place = tx[c].target
  BY <1>1, <1>2 DEF TaskOK
<1>5. OffersClose /\ offers'[o].status = "ACCEPTED" /\ \A y \in Offer \ {o} : offers'[y] = offers[y]
  <2>1. [offers[o] EXCEPT !.status = "ACCEPTED"] \in OfferRow
    BY <1>4, WaitTypes, Zenon DEF OfferRow
  <2>2. /\ [offers[o] EXCEPT !.status = "ACCEPTED"].status = "ACCEPTED"
        /\ [offers[o] EXCEPT !.status = "ACCEPTED"].place = offers[o].place
    BY <1>4, WaitTypes DEF OfferRow
  <2>3. QED
    BY <1>1, <1>4, <2>1, <2>2, WaitTypes DEF OffersClose
<1>6. /\ AcceptedRow(c) \in BookingRow
      /\ AcceptedRow(c).status = "CONFIRMED" /\ AcceptedRow(c).place = tx[c].target
  <2>1. AcceptedRow(c) \in BookingRow
    BY <1>3, NoBookingType, Zenon DEF AcceptedRow, BookingRow, Status
  <2>2. QED
    BY <2>1, NoBookingType DEF AcceptedRow, NoBooking
<1>7. Commits(c, Id(c), AcceptedRow(c))
  <2>1. Releases
    BY <1>1, <1>5, ClosingReleases
  <2>2. QED
    BY <1>1, <1>5, <2>1 DEF Commits, OffersClose, WaitInv, IInv, TypeOK, ScheduleTypeOK
<1>8. ~TakenByBlock(tx[c].target) /\ Unreserved(tx[c].target)
  <2>1. /\ ~TakenByBlock(tx[c].target) /\ ~TakenByRequest(tx[c].target)
        /\ ~TakenByOffer(tx[c].target, o)
    BY <1>1 DEF WaitInv, LockProtectsOffer, OfferStillFits, Running
  <2>2. \A r \in Request : LiveRequest(r)' => LiveRequest(r) /\ requests'[r] = requests[r]
    BY <1>1 DEF LiveRequest
  <2>3. \A y \in Offer : LiveOffer(y)' => y # o /\ LiveOffer(y) /\ offers'[y] = offers[y]
    BY <1>1, <1>5 DEF LiveOffer
  <2>4. QED
    BY <2>1, <2>2, <2>3 DEF Unreserved, TakenByRequest, TakenByOffer
<1>9. Fits(Id(c), AcceptedRow(c))
  BY <1>1, <1>6, <1>8 DEF Fits, Storable
<1>10. QED
  BY <1>1, <1>3, <1>5, <1>6, <1>7, <1>9, WaitTypes
     DEF BookingWrite, Terminal, WaitInv, IInv, TypeOK, ScheduleTypeOK

LEMMA WriteAcceptInv ==
    ASSUME WaitInv, NEW c \in Client, WriteAccept(c)
    PROVE  WaitInv'
<1> DEFINE o == task[c].offer
<1>1. BookingWrite(c, Id(c), AcceptedRow(c)) /\ OffersClose
  BY WriteAcceptIs
<1>2. IInv' /\ OfferKept'
  BY <1>1, WriteIInv, WriteKeepsOffers, WaitTypes DEF WaitInv
<1>3. /\ lock' = None /\ tx' = [tx EXCEPT ![c] = Idle] /\ task' = [task EXCEPT ![c] = NoTask]
      /\ bookingOf' = [bookingOf EXCEPT ![o] = Id(c)] /\ entryOf' = entryOf
      /\ entries' = [entries EXCEPT ![entryOf[o]].status = "FULFILLED"]
  BY DEF WriteAccept, EndsTask, Ends, Unlocks
<1>4. RowsOK'
  <2>1. entries' \in [Entry -> EntryRow]
    BY <1>3, WaitTypes DEF EntryRow
  <2>2. bookingOf' \in [Offer -> Booking \cup {None}]
    <3>1. Id(c) \in Booking
      BY <1>1 DEF BookingWrite
    <3>2. QED
      BY <1>3, <3>1 DEF WaitInv, RowsOK
  <2>3. QED
    BY <1>1, <1>3, <2>1, <2>2 DEF WaitInv, RowsOK, OffersClose
<1>5. TasksOK'
  <2>1. /\ task' \in [Client -> TaskRow] /\ task'[c] = NoTask /\ tx'[c] = Idle
        /\ \A d \in Client \ {c} : task'[d] = task[d] /\ tx'[d] = tx[d]
    BY <1>3, WaitTypes, NoTaskRow
  <2>2. TaskOK(c)'
    BY <2>1, OpsDiffer DEF TaskOK, NoTask, WaitOps
  <2>3. ASSUME NEW d \in Client \ {c}
        PROVE  TaskOK(d)'
    <3>1. TaskOK(d) /\ tx'[d] = tx[d] /\ task'[d] = task[d]
      BY <2>1 DEF WaitInv, TasksOK
    <3>2. \A y \in Offer : offers[y].status # "NONE" =>
             offers'[y].status # "NONE" /\ offers'[y].place = offers[y].place
      BY <1>1 DEF OffersClose
    <3>3. QED
      BY <3>1, <3>2 DEF TaskOK
  <2>4. QED
    BY <2>1, <2>2, <2>3 DEF TasksOK
<1>6. LockProtectsOffer'
  BY <1>3, NoneAssumption DEF LockProtectsOffer
<1>7. QED
  BY <1>2, <1>4, <1>5, <1>6 DEF WaitInv

-----------------------------------------------------------------------------
(* The theorems about the calendar *)

LEMMA WaitNextInv ==
    ASSUME WaitInv, [WaitNext]_waitVars
    PROVE  WaitInv'
<1>1. ASSUME NEW c \in Client, Offers(c)
      PROVE  WaitInv'
  BY <1>1, ClaimsInv, TakesEventInv, EnterOfferInv, OfferConflictsInv, WriteOfferInv, SettlesInv
     DEF Offers
<1>2. ASSUME NEW c \in Client, Customers(c)
      PROVE  WaitInv'
  BY <1>2, BeginCancelsInv, LookCancelEntryInv, WriteCancelEntryInv, WriteCancelEntryAdminInv,
     BeginAcceptInv, EnterAcceptInv, WriteAcceptInv, AcceptConflictsInv, ReleaseOfferInv
     DEF Customers
<1>3. CASE UNCHANGED waitVars
  <2>1. Base' /\ Alone(None) /\ Quiet
    BY <1>3, WaitTypes
       DEF waitVars, Base, TypeOK, ScheduleTypeOK, HandlerOK, LockOK, Alone, Quiet, OffersClose,
           EntriesStay
  <2>2. QED
    BY <1>3, <2>1, WaitTypes, QuietInv DEF waitVars
<1>4. QED
  BY <1>1, <1>2, <1>3, BookingStepInv, VerifyCodeInv, DiesInv, ExpireOfferInv DEF WaitNext

LEMMA InitWaitInv ==
    ASSUME WaitInit
    PROVE  WaitInv
<1>1. IInv
  BY InitIInv DEF WaitInit, Init
<1>2. RowsOK
  BY DEF WaitInit, ScheduleInit, WaitlistInit, NoOffer, EntryRow, RowsOK
<1>3. TasksOK
  BY OpsDiffer, NoTaskRow
     DEF WaitInit, ScheduleInit, WaitlistInit, TasksOK, TaskOK, NoTask, WaitOps
<1>4. OfferKept /\ LockProtectsOffer
  BY NoneAssumption DEF WaitInit, ScheduleInit, OfferKept, LiveOffer, NoOffer, LockProtectsOffer
<1>5. QED
  BY <1>1, <1>2, <1>3, <1>4 DEF WaitInv

LEMMA WaitInvariance == WaitSpec => []WaitInv
BY InitWaitInv, WaitNextInv, PTL DEF WaitSpec

(* A live offer keeps its place: neither a hold nor a move nor the
   acceptance of another offer puts an online booking there. *)
THEOREM OffersAreKept == WaitSpec => []OfferKept
<1>1. WaitInv => OfferKept
  BY DEF WaitInv
<1>2. QED
  BY <1>1, WaitInvariance, PTL

(* The rules of the calendar survive the waitlist: the booking an accepted
   offer becomes is on no other online booking and under no schedule block. *)
THEOREM AcceptancesKeepTheCalendar == WaitSpec => [](OnlineDisjoint /\ NoOverlap /\ BlockClear)
<1>1. WaitInv => OnlineDisjoint /\ NoOverlap /\ BlockClear
  BY DEF WaitInv, IInv
<1>2. QED
  BY <1>1, WaitInvariance, PTL

-----------------------------------------------------------------------------
(* A fulfilled entry *)

FulfilledStays ==
    \A n \in Entry :
        entries[n].status = "FULFILLED" => entries'[n].status \in {"FULFILLED", "CANCELLED"}

LEMMA BackToListFulfils ==
    ASSUME WaitInv, NEW n, entries' = BackToList(n)
    PROVE  FulfilledStays
BY WaitTypes DEF BackToList, FulfilledStays

LEMMA WaitStepFulfils ==
    ASSUME WaitInv, [WaitNext]_waitVars
    PROVE  FulfilledStays
<1>1. ASSUME entries' = entries
      PROVE  FulfilledStays
  BY <1>1 DEF FulfilledStays
<1>2. CASE BookingStep \/ UNCHANGED waitVars
  BY <1>1, <1>2 DEF BookingStep, waitOnly, waitVars
<1>3. ASSUME NEW n \in Entry, verifyCode(n)
      PROVE  FulfilledStays
  BY <1>3, WaitTypes DEF verifyCode, FulfilledStays
<1>4. ASSUME NEW c \in Client, NEW x \in task[c].found, WriteOffer(c, x)
      PROVE  FulfilledStays
  <2>1. tx[c].op \in Workers /\ lock = c /\ entries' = [entries EXCEPT ![x[1]].status = "OFFERED"]
    BY <1>4 DEF WriteOffer, Offering, Workers
  <2>2. entries[x[1]].status # "FULFILLED"
    BY <2>1 DEF WaitInv, LockProtectsOffer, OfferStillFits
  <2>3. QED
    BY <2>1, <2>2, WaitTypes DEF FulfilledStays
<1>5. ASSUME NEW c \in Client, WriteAccept(c)
      PROVE  FulfilledStays
  BY <1>5, WaitTypes DEF WriteAccept, FulfilledStays, EntryRow
<1>6. ASSUME NEW c \in Client, releaseUnavailableOffer(c)
      PROVE  FulfilledStays
  BY <1>1, <1>6, BackToListFulfils DEF releaseUnavailableOffer
<1>7. ASSUME NEW o \in Offer, expireOffer(o)
      PROVE  FulfilledStays
  BY <1>7, BackToListFulfils DEF expireOffer, ExpiredEntry
<1>8. ASSUME NEW c \in Client, WriteCancelEntry(c) \/ WriteCancelEntryAdmin(c)
      PROVE  FulfilledStays
  BY <1>8, WaitTypes DEF WriteCancelEntry, WriteCancelEntryAdmin, FulfilledStays, EntryRow
<1>9. ASSUME NEW c \in Client, Offers(c), \A x \in task[c].found : ~WriteOffer(c, x)
      PROVE  entries' = entries
  BY <1>9 DEF Offers, claimRecoveryEvents, claimSuggestion, TakesEvent, EnterOffer, OfferConflicts,
              FinishEvent, FailEvent, FailSuggestion, LetsGo
<1>10. ASSUME NEW c \in Client, Customers(c),
              ~WriteAccept(c), ~releaseUnavailableOffer(c), ~WriteCancelEntry(c),
              ~WriteCancelEntryAdmin(c)
       PROVE  entries' = entries
  BY <1>10 DEF Customers, BeginCancelEntry, BeginCancelEntryAdmin, LookCancelEntry, BeginAccept,
               EnterAccept, AcceptConflicts, waitOnly
<1>11. ASSUME NEW c \in Client, Dies(c)
       PROVE  entries' = entries
  BY <1>11 DEF Dies
<1>12. QED
  BY <1>1, <1>2, <1>3, <1>4, <1>5, <1>6, <1>7, <1>8, <1>9, <1>10, <1>11 DEF WaitNext

(* A customer who has accepted is offered no other place: the event's
   candidates were read before, and the entry is read again under the lock. *)
THEOREM FulfilmentIsFinal == WaitSpec => FulfilledIsFinal
<1>1. WaitInv /\ [WaitNext]_waitVars => [FulfilledStays]_waitVars
  BY WaitStepFulfils
<1>2. QED
  BY <1>1, WaitInvariance, PTL DEF WaitSpec, FulfilledIsFinal, FulfilledStays

-----------------------------------------------------------------------------
(* Recovery events: who holds which, and what settles them *)

(* Nothing happens to the claimed events and to who holds them. *)
EventsKept ==
    /\ UNCHANGED <<work, abandoned>>
    /\ recovery \subseteq recovery'
    /\ \A d \in Client : task'[d].event = task[d].event /\ task'[d].queue = task[d].queue

LEMMA KeptEvents ==
    ASSUME EventInv, EventsKept
    PROVE  EventInv'
<1>1. \A d \in Client : Held(d)' = Held(d)
  BY DEF EventsKept, Held
<1>2. WorkOK'
  BY DEF EventInv, WorkOK, EventsKept
<1>3. HeldOK'
  BY <1>1 DEF EventInv, HeldOK, EventsKept
<1>4. NoEventForgotten'
  BY <1>1 DEF EventInv, NoEventForgotten, EventsKept
<1>5. QED
  BY <1>2, <1>3, <1>4 DEF EventInv

(* Only the handler of one event takes it before itself. *)
LEMMA TakenEvents ==
    ASSUME WaitInv, EventInv, NEW c \in Client, NEW e \in task[c].queue, TakesEvent(c, e)
    PROVE  EventInv'
<1>1. /\ task[c] \in TaskRow /\ task[c].event = None
      /\ UNCHANGED <<work, abandoned, recovery>>
  BY WaitTypes DEF TakesEvent, vars
<1>2. e # None
  BY <1>1, WaitlistAssumption DEF TaskRow
<1>3. /\ task'[c].event = e /\ task'[c].queue = task[c].queue \ {e}
      /\ \A d \in Client \ {c} : task'[d] = task[d]
  BY <1>1, WaitTypes DEF TakesEvent, TaskRow
<1>4. \A d \in Client : Held(d)' = Held(d)
  BY <1>1, <1>2, <1>3 DEF Held
<1>5. \A d \in Client : task'[d].event \notin task'[d].queue
  BY <1>3 DEF EventInv, HeldOK
<1>6. QED
  BY <1>1, <1>4, <1>5 DEF EventInv, WorkOK, HeldOK, NoEventForgotten

(* A claim takes events nobody holds. *)
LEMMA ClaimedEvents ==
    ASSUME EventInv, NEW c \in Client, NEW es \in SUBSET recovery,
           task[c] = NoTask, \A e \in es : Claimable(e), SetsWork(es, "PROCESSING"),
           None \notin es, UNCHANGED <<recovery, abandoned>>,
           task'[c].queue = es, task'[c].event = None,
           \A d \in Client \ {c} : task'[d] = task[d]
    PROVE  EventInv'
<1>1. Held(c) = {} /\ Held(c)' = es /\ \A d \in Client \ {c} : Held(d)' = Held(d)
  BY DEF Held, NoTask
<1>2. \A d \in Client : Held(d) \cap es = {}
  BY DEF EventInv, HeldOK, Claimable, EventStatus
<1>3. \A e \in es : Attempts(e) \in 0..MaxAttempts /\ Attempts(e) < MaxAttempts
  <2>1. MaxAttempts \in Nat /\ MaxAttempts > 0
    BY WaitlistAssumption
  <2>2. QED
    BY <2>1 DEF EventInv, WorkOK, Claimable, EventStatus, Attempts
<1>4. /\ DOMAIN work' = DOMAIN work \cup es
      /\ \A e \in es : work'[e].status = "PROCESSING" /\ work'[e].attempts = Attempts(e)
      /\ \A e \in DOMAIN work \ es : work'[e] = work[e]
  BY DEF SetsWork
<1>5. WorkOK'
  BY <1>3, <1>4 DEF EventInv, WorkOK
<1>6. HeldOK'
  <2>1. \A d \in Client : \A e \in Held(d)' :
           /\ e \in DOMAIN work'
           /\ work'[e].status = "PROCESSING" /\ work'[e].attempts < MaxAttempts
    BY <1>1, <1>2, <1>3, <1>4 DEF EventInv, HeldOK
  <2>2. \A x, d \in Client : x # d => Held(x)' \cap Held(d)' = {}
    BY <1>1, <1>2 DEF EventInv, HeldOK
  <2>3. \A d \in Client : task'[d].event \notin task'[d].queue
    BY DEF EventInv, HeldOK
  <2>4. QED
    BY <2>1, <2>2, <2>3 DEF HeldOK
<1>7. NoEventForgotten'
  BY <1>1, <1>4 DEF EventInv, NoEventForgotten
<1>8. QED
  BY <1>5, <1>6, <1>7 DEF EventInv

(* A settled event is let go, and the rest of the batch is kept. *)
LEMMA SettledEvents ==
    ASSUME WaitInv, EventInv, NEW c \in Client, NEW e, e = task[c].event, e # None, LetsGo(c),
           DOMAIN work' = DOMAIN work, \A x \in DOMAIN work \ {e} : work'[x] = work[x],
           work'[e].status \in {"PROCESSED", "FAILED"},
           work'[e].attempts \in 0..MaxAttempts,
           work'[e].status = "FAILED" => work'[e].attempts < MaxAttempts
    PROVE  EventInv'
<1>1. UNCHANGED <<recovery, abandoned>>
  BY DEF LetsGo
<1>2. task'[c].event = None /\ task'[c].queue = task[c].queue
  <2> DEFINE t == [NoTask EXCEPT !.queue = task[c].queue]
  <2>1. t.event = None /\ t.queue = task[c].queue /\ NoTask.event = None /\ NoTask.queue = {}
    BY DEF NoTask
  <2>2. \/ task' = [task EXCEPT ![c] = NoTask] /\ task[c].queue = {}
        \/ task' = [task EXCEPT ![c] = t]
    BY DEF LetsGo, NextOfBatch
  <2> HIDE DEF t
  <2>3. QED
    BY <2>1, <2>2, WaitTypes
<1>3. \A d \in Client \ {c} : task'[d] = task[d]
  BY WaitTypes DEF LetsGo, NextOfBatch
<1>4. e \in Held(c) /\ e \notin task[c].queue /\ None \notin task[c].queue
  BY WaitTypes, WaitlistAssumption DEF Held, EventInv, HeldOK, TaskRow
<1>5. Held(c)' = Held(c) \ {e} /\ \A d \in Client \ {c} : Held(d)' = Held(d) /\ e \notin Held(d)
  <2>1. Held(c)' = Held(c) \ {e}
    BY <1>2, <1>4 DEF Held
  <2>2. \A d \in Client \ {c} : Held(d)' = Held(d)
    BY <1>3 DEF Held
  <2>3. \A d \in Client \ {c} : e \notin Held(d)
    BY <1>4 DEF EventInv, HeldOK
  <2>4. QED
    BY <2>1, <2>2, <2>3
<1>6. WorkOK'
  BY <1>1 DEF EventInv, WorkOK
<1>7. HeldOK'
  <2>1. \A d \in Client : \A x \in Held(d)' :
           /\ x \in DOMAIN work'
           /\ work'[x].status = "PROCESSING" /\ work'[x].attempts < MaxAttempts
    BY <1>5 DEF EventInv, HeldOK
  <2>2. \A x, d \in Client : x # d => Held(x)' \cap Held(d)' = {}
    BY <1>5 DEF EventInv, HeldOK
  <2>3. \A d \in Client : task'[d].event \notin task'[d].queue
    BY <1>2, <1>3, <1>4 DEF EventInv, HeldOK
  <2>4. QED
    BY <2>1, <2>2, <2>3 DEF HeldOK
<1>8. NoEventForgotten'
  BY <1>1, <1>5 DEF EventInv, NoEventForgotten
<1>9. QED
  BY <1>6, <1>7, <1>8 DEF EventInv

LEMMA SettlesEvents ==
    ASSUME WaitInv, EventInv, NEW c \in Client,
           FinishEvent(c) \/ FailEvent(c) \/ FailSuggestion(c)
    PROVE  EventInv'
<1> DEFINE e == task[c].event
<1>1. e # None /\ LetsGo(c)
  BY DEF FinishEvent, FailEvent, FailSuggestion
<1>2. e \in Held(c)
  BY <1>1 DEF Held
<1>3. /\ e \in DOMAIN work /\ work[e].attempts \in 0..MaxAttempts
      /\ work[e].attempts < MaxAttempts /\ Attempts(e) = work[e].attempts
  BY <1>2 DEF EventInv, WorkOK, HeldOK, Attempts
<1>4. MaxAttempts \in Nat
  BY WaitlistAssumption
<1>5. /\ DOMAIN work' = DOMAIN work /\ \A x \in DOMAIN work \ {e} : work'[x] = work[x]
      /\ work'[e].status \in {"PROCESSED", "FAILED"}
      /\ work'[e].attempts \in 0..MaxAttempts
      /\ work'[e].status = "FAILED" => work'[e].attempts < MaxAttempts
  <2>1. CASE FinishEvent(c) \/ FailSuggestion(c)
    <3>1. \E status \in {"PROCESSED", "FAILED"} : SetsWork({e}, status)
      BY <2>1 DEF FinishEvent, FailSuggestion
    <3>2. QED
      BY <1>3, <3>1 DEF SetsWork
  <2>2. CASE FailEvent(c)
    <3> DEFINE n == Attempts(e) + 1
               row == [status |-> IF n >= MaxAttempts THEN "PROCESSED" ELSE "FAILED", attempts |-> n]
    <3>1. work' = [work EXCEPT ![e] = row]
      BY <2>2 DEF FailEvent
    <3>2. n \in 0..MaxAttempts
      BY <1>3, <1>4
    <3>3. /\ row.status \in {"PROCESSED", "FAILED"} /\ row.attempts = n
          /\ row.status = "FAILED" => n < MaxAttempts
      BY <1>4, <3>2
    <3> HIDE DEF row, n
    <3>4. QED
      BY <1>3, <3>1, <3>2, <3>3
  <2>3. QED
    BY <2>1, <2>2
<1> HIDE DEF e
<1>6. QED
  BY <1>1, <1>5, SettledEvents DEF e

(* Who dies leaves behind what it had claimed. *)
LEMMA AbandonedEvents ==
    ASSUME WaitInv, EventInv, NEW c \in Client, Dies(c)
    PROVE  EventInv'
<1>1. /\ UNCHANGED <<work, recovery>> /\ abandoned' = abandoned \cup Held(c)
      /\ task'[c] = NoTask /\ \A d \in Client \ {c} : task'[d] = task[d]
  BY WaitTypes DEF Dies, Fails
<1>2. Held(c)' = {} /\ \A d \in Client \ {c} : Held(d)' = Held(d)
  BY <1>1 DEF Held, NoTask
<1>3. WorkOK'
  BY <1>1 DEF EventInv, WorkOK
<1>4. HeldOK'
  <2>1. \A d \in Client : task'[d].event \notin task'[d].queue
    BY <1>1 DEF EventInv, HeldOK, NoTask
  <2>2. QED
    BY <1>1, <1>2, <2>1 DEF EventInv, HeldOK
<1>5. NoEventForgotten'
  BY <1>1, <1>2 DEF EventInv, NoEventForgotten
<1>6. QED
  BY <1>3, <1>4, <1>5 DEF EventInv

LEMMA ClaimsEvents ==
    ASSUME WaitInv, EventInv, NEW c \in Client,
           claimRecoveryEvents(c) \/ \E e \in recovery, n \in Entry : claimSuggestion(c, e, n)
    PROVE  EventInv'
<1>1. None \notin recovery
  BY WaitTypes, WaitlistAssumption
<1>2. ASSUME NEW op, NEW t, StartsTask(c, op, None, None, t)
      PROVE  /\ task[c] = NoTask /\ task'[c] = t /\ UNCHANGED recovery
             /\ \A d \in Client \ {c} : task'[d] = task[d]
  <2>1. tx[c] = Idle /\ task' = [task EXCEPT ![c] = t] /\ UNCHANGED recovery
    BY <1>2 DEF StartsTask, Starts
  <2>2. TaskOK(c)
    BY DEF WaitInv, TasksOK
  <2>3. QED
    BY <2>1, <2>2, WaitTypes, OpsDiffer DEF TaskOK
<1>3. CASE claimRecoveryEvents(c)
  <2> DEFINE due == {e \in recovery : Claimable(e)}
             t == [NoTask EXCEPT !.queue = due]
  <2>1. /\ StartsTask(c, "processRecovery", None, None, t) /\ SetsWork(due, "PROCESSING")
        /\ UNCHANGED abandoned
    BY <1>3 DEF claimRecoveryEvents
  <2>2. t.queue = due /\ t.event = None
    BY DEF NoTask
  <2>3. due \in SUBSET recovery /\ \A e \in due : Claimable(e)
    OBVIOUS
  <2> HIDE DEF t, due
  <2>4. /\ task[c] = NoTask /\ task'[c] = t /\ UNCHANGED recovery
        /\ \A d \in Client \ {c} : task'[d] = task[d]
    BY <1>2, <2>1
  <2>5. QED
    BY <1>1, <2>1, <2>2, <2>3, <2>4, ClaimedEvents
<1>4. ASSUME NEW e \in recovery, NEW n \in Entry, claimSuggestion(c, e, n)
      PROVE  EventInv'
  <2> DEFINE t == [NoTask EXCEPT !.queue = {e}, !.entry = n]
  <2>1. /\ StartsTask(c, "suggestOffer", None, None, t) /\ SetsWork({e}, "PROCESSING")
        /\ UNCHANGED abandoned /\ Claimable(e)
    BY <1>4 DEF claimSuggestion
  <2>2. t.queue = {e} /\ t.event = None
    BY DEF NoTask
  <2> HIDE DEF t
  <2>3. /\ task[c] = NoTask /\ task'[c] = t /\ UNCHANGED recovery
        /\ \A d \in Client \ {c} : task'[d] = task[d]
    BY <1>2, <2>1
  <2>4. {e} \in SUBSET recovery /\ \A x \in {e} : Claimable(x)
    BY <2>1
  <2>5. QED
    BY <1>1, <2>1, <2>2, <2>3, <2>4, ClaimedEvents
<1>5. QED
  BY <1>3, <1>4

(* The handlers of bookings only add events. *)
LEMMA BookingsAnnounce ==
    ASSUME BookingStep
    PROVE  recovery \subseteq recovery'
<1>1. ASSUME NEW c \in Client, Begin(c)
      PROVE  recovery' = recovery
  BY <1>1 DEF Begin, BeginHold, BeginConfirm, BeginApprove, BeginReject, BeginCancel,
         BeginCreate, BeginReschedule, BeginUpdateDetails, BeginMarkNoShow, BeginRevertNoShow,
         BeginCreateBlock, BeginUpdateBlock, BeginCancelBlock, Starts
<1>2. ASSUME NEW c \in Client, Admission(c)
      PROVE  recovery' = recovery
  BY <1>2 DEF Admission, EnterHold, EnterReschedule, EnterUpdateDetails, EnterCreateBlock,
              EnterUpdateBlock, Enter, Locks
<1>3. ASSUME NEW c \in Client, Write(c)
      PROVE  recovery \subseteq recovery'
  BY <1>3 DEF Write, WriteHold, WriteConfirm, WriteConfirmBlocked, WriteApprove, WriteReject,
         WriteCancel, WriteCreate, WriteReschedule, WriteUpdateDetails, WriteMarkNoShow,
         WriteRevertNoShow, WriteCreateBlock, WriteUpdateBlock, WriteCancelBlock, Announces,
         AnnouncesNothing
<1>4. ASSUME NEW c \in Client, GiveUp(c)
      PROVE  recovery' = recovery
  BY <1>4 DEF GiveUp, Fails
<1>5. CASE Timer \/ getAdminBookingBoard \/ Tick
  BY <1>5 DEF Timer, expireStaleHolds, getAdminBookingBoard, ExpiresHolds, expirePastPending, Tick
<1>6. QED
  BY <1>1, <1>2, <1>3, <1>4, <1>5 DEF BookingStep, BookingEnds

(* Everything else keeps the events where they are. *)
LEMMA OtherStepsKeepEvents ==
    ASSUME WaitInv, EventInv,
           \/ BookingStep
           \/ \E n \in Entry : verifyCode(n)
           \/ \E c \in Client : Customers(c)
           \/ \E c \in Client : \E x \in task[c].found :
                 EnterOffer(c, x) \/ OfferConflicts(c, x) \/ WriteOffer(c, x)
           \/ \E o \in Offer : expireOffer(o)
           \/ UNCHANGED waitVars
    PROVE  EventsKept
<1>1. ASSUME task' = task, UNCHANGED <<work, abandoned>>, recovery \subseteq recovery'
      PROVE  EventsKept
  BY <1>1 DEF EventsKept
<1>2. CASE BookingStep
  BY <1>1, <1>2, BookingsAnnounce DEF BookingStep, waitOnly
<1>3. CASE UNCHANGED waitVars
  BY <1>1, <1>3 DEF waitVars
<1>4. ASSUME NEW n \in Entry, verifyCode(n)
      PROVE  EventsKept
  BY <1>1, <1>4 DEF verifyCode, vars
<1>5. ASSUME NEW o \in Offer, expireOffer(o)
      PROVE  EventsKept
  BY <1>1, <1>5 DEF expireOffer, Announces
<1>6. ASSUME NEW c \in Client, NEW x \in task[c].found,
             EnterOffer(c, x) \/ OfferConflicts(c, x) \/ WriteOffer(c, x)
      PROVE  EventsKept
  <2>1. UNCHANGED <<work, abandoned, recovery>>
    BY <1>6 DEF EnterOffer, OfferConflicts, WriteOffer
  <2>2. /\ task'[c].event = task[c].event /\ task'[c].queue = task[c].queue
        /\ \A d \in Client \ {c} : task'[d] = task[d]
    BY <1>6, WaitTypes DEF EnterOffer, OfferConflicts, WriteOffer, TaskRow
  <2>3. QED
    BY <2>1, <2>2 DEF EventsKept
<1>7. ASSUME NEW c \in Client, Customers(c)
      PROVE  EventsKept
  <2>1. CASE EnterAccept(c) \/ AcceptConflicts(c)
    BY <1>1, <2>1 DEF EnterAccept, Enter, Locks, AcceptConflicts, waitOnly
  <2>2. CASE LookCancelEntry(c)
    <3>1. UNCHANGED <<work, abandoned, recovery>>
      BY <2>2 DEF LookCancelEntry, vars
    <3>2. /\ task'[c].event = task[c].event /\ task'[c].queue = task[c].queue
          /\ \A d \in Client \ {c} : task'[d] = task[d]
      BY <2>2, WaitTypes DEF LookCancelEntry, TaskRow
    <3>3. QED
      BY <3>1, <3>2 DEF EventsKept
  <2>3. ASSUME tx[c].op \notin Workers, NEW t, t.event = None, t.queue = {},
               task' = [task EXCEPT ![c] = t], UNCHANGED <<work, abandoned>>,
               recovery \subseteq recovery'
        PROVE  EventsKept
    <3>1. task[c].event = None /\ task[c].queue = {}
      BY <2>3 DEF WaitInv, TasksOK, TaskOK
    <3>2. QED
      BY <2>3, <3>1, WaitTypes DEF EventsKept
  <2>4. CASE WriteCancelEntry(c) \/ WriteCancelEntryAdmin(c) \/ WriteAccept(c)
             \/ releaseUnavailableOffer(c)
    <3>1. /\ tx[c].op \in CancelOps \cup AcceptOps /\ task' = [task EXCEPT ![c] = NoTask]
          /\ UNCHANGED <<work, abandoned>>
      BY <2>4 DEF WriteCancelEntry, WriteCancelEntryAdmin, WriteAccept, releaseUnavailableOffer,
                  Waiting, Running, EndsTask, CancelOps, AcceptOps
    <3>2. recovery \subseteq recovery'
      BY <2>4 DEF WriteCancelEntry, WriteCancelEntryAdmin, WriteAccept, releaseUnavailableOffer,
                  Announces
    <3>3. NoTask.event = None /\ NoTask.queue = {}
      BY DEF NoTask
    <3>4. QED
      BY <2>3, <3>1, <3>2, <3>3, OpsDiffer
  <2>5. CASE \/ \E n \in Entry : BeginCancelEntry(c, n) \/ BeginCancelEntryAdmin(c, n)
             \/ \E o \in Offer, b \in Booking : BeginAccept(c, o, b)
    <3>1. tx[c] = Idle /\ recovery' = recovery /\ UNCHANGED <<work, abandoned>>
      BY <2>5 DEF BeginCancelEntry, BeginCancelEntryAdmin, BeginAccept, StartsTask, Starts
    <3>2. tx[c].op \notin Workers
      BY <3>1, OpsDiffer DEF WaitOps
    <3>3. ASSUME NEW n, NEW o, NEW os
          PROVE  /\ [NoTask EXCEPT !.entry = n].event = None
                 /\ [NoTask EXCEPT !.entry = n].queue = {}
                 /\ [NoTask EXCEPT !.entry = n, !.found = os].event = None
                 /\ [NoTask EXCEPT !.entry = n, !.found = os].queue = {}
                 /\ [NoTask EXCEPT !.offer = o].event = None
                 /\ [NoTask EXCEPT !.offer = o].queue = {}
      BY DEF NoTask
    <3>4. CASE \E n \in Entry : BeginCancelEntry(c, n)
      BY <2>3, <3>1, <3>2, <3>3, <3>4 DEF BeginCancelEntry, StartsTask
    <3>5. CASE \E n \in Entry : BeginCancelEntryAdmin(c, n)
      BY <2>3, <3>1, <3>2, <3>3, <3>5 DEF BeginCancelEntryAdmin, StartsTask
    <3>6. CASE \E o \in Offer, b \in Booking : BeginAccept(c, o, b)
      BY <2>3, <3>1, <3>2, <3>3, <3>6 DEF BeginAccept, StartsTask
    <3>7. QED
      BY <2>5, <3>4, <3>5, <3>6
  <2>6. QED
    BY <1>7, <2>1, <2>2, <2>4, <2>5 DEF Customers
<1>8. QED
  BY <1>2, <1>3, <1>4, <1>5, <1>6, <1>7

LEMMA WaitNextEvents ==
    ASSUME WaitInv, EventInv, [WaitNext]_waitVars
    PROVE  EventInv'
<1>1. ASSUME NEW c \in Client, Offers(c)
      PROVE  EventInv'
  BY <1>1, ClaimsEvents, TakenEvents, SettlesEvents, OtherStepsKeepEvents, KeptEvents DEF Offers
<1>2. QED
  BY <1>1, AbandonedEvents, OtherStepsKeepEvents, KeptEvents DEF WaitNext

LEMMA InitEvents ==
    ASSUME WaitInit
    PROVE  EventInv
BY DEF WaitInit, ScheduleInit, WaitlistInit, EventInv, WorkOK, HeldOK, NoEventForgotten, Held, NoTask

LEMMA EventInvariance == WaitSpec => []EventInv
BY InitEvents, WaitNextEvents, WaitInvariance, PTL DEF WaitSpec

(* No claimed recovery event is forgotten: while it is being processed, some
   handler still has it before it, unless its handler died. *)
THEOREM EventsAreRemembered == WaitSpec => []NoEventForgotten
<1>1. EventInv => NoEventForgotten
  BY DEF EventInv
<1>2. QED
  BY <1>1, EventInvariance, PTL

(* Two handlers never process the same event, and none is tried more often
   than the worker counts. *)
THEOREM EventsHaveOneHandler == WaitSpec => [](WorkOK /\ HeldOK)
<1>1. EventInv => WorkOK /\ HeldOK
  BY DEF EventInv
<1>2. QED
  BY <1>1, EventInvariance, PTL

(* Every row of the waitlist is of its type. *)
THEOREM WaitTypeCorrect == WaitSpec => []WaitTypeOK
<1>1. WaitInv /\ EventInv => WaitTypeOK
  BY WaitlistAssumption DEF WaitInv, IInv, TypeOK, EventInv, RowsOK, WorkOK, WaitTypeOK
<1>2. QED
  BY <1>1, WaitInvariance, EventInvariance, PTL
=============================================================================
