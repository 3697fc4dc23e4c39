--------------------------- MODULE BookingLifecycle ---------------------------
(***************************************************************************)
(* The life of a booking: BookingsService, BookingOperationsService and    *)
(* PendingBookingExpiryService, together with ScheduleBlocksService, which *)
(* competes with them for the calendar.                                    *)
(*                                                                         *)
(* A handler is split where another one can come in between.  Begin is     *)
(* what it reads before its transaction; Enter takes the branch lock and   *)
(* decides on what the transaction reads; Write is the update and the      *)
(* commit.  Handlers that take no lock go from Begin to Write, and         *)
(* Write then repeats only the conditions of their updateMany.             *)
(***************************************************************************)
EXTENDS SalonSchedule

CONSTANT Workload   \* the operations the clients of a run ask for

-----------------------------------------------------------------------------
(* How a handler takes the lock, and how it writes *)

(* lockBranchSchedule and the checks under it; GiveUp is the other case. *)
Enter(c, op, admitted) ==
    /\ Running(c, op)
    /\ CanLock(c)
    /\ admitted
    /\ Locks(c)

(* The row a handler is about. *)
Id(c) == tx[c].subject

Mine(c) == bookings[Id(c)]

(* The update of booking b, and the end of the transaction. *)
Puts(c, b, row) ==
    /\ bookings' = [bookings EXCEPT ![b] = row]
    /\ Ends(c)
    /\ Unlocks(c)
    /\ UNCHANGED <<now, blocks, offers>>

(* The revision the handler was given is still the one of the booking.
   Mutant: it is not compared. *)
RevisionIgnored(c) == TRUE

RevisionIsCurrent(c) == Mine(c).revision = tx[c].revision

(* slotRecoveryEvent.create, refused by the unique key if the event exists.
   Mutant: the event is forgotten. *)
AnnouncesNothing(e) == UNCHANGED recovery

Announces(e) == ~Announced(e) /\ recovery' = recovery \cup {e}

-----------------------------------------------------------------------------
(* createHold *)

BeginHold(c, b, p) ==
    /\ "createHold" \in Workload
    /\ FreshBooking(b)
    /\ p \in AppointmentPlace
    /\ Shown(p)
    /\ Starts(c, "createHold", b, p, 0, FALSE)

HoldAdmitted(c) == Available(tx[c].target, Id(c), None)

EnterHold(c) == Enter(c, "createHold", HoldAdmitted(c))

HeldRow(c) ==
    [NoBooking EXCEPT !.status = "HOLD", !.place = tx[c].target,
                      !.holdUntil = tx[c].at + HoldTtl]

WriteHold(c) ==
    /\ Running(c, "createHold")
    /\ lock = c
    /\ ExclusionHolds(Id(c), HeldRow(c))
    /\ SegmentGuardHolds(Id(c), HeldRow(c))
    /\ Puts(c, Id(c), HeldRow(c))
    /\ UNCHANGED <<requests, recovery, reopened>>

-----------------------------------------------------------------------------
(* confirmHold: the status is read once and never looked at again *)

BeginConfirm(c, b) ==
    /\ "confirmHold" \in Workload
    /\ bookings[b].status = "HOLD"
    /\ bookings[b].holdUntil > now
    /\ Starts(c, "confirmHold", b, None, 0, FALSE)

ConfirmedRow(c) == [Mine(c) EXCEPT !.status = "PENDING_APPROVAL", !.holdUntil = 0]

(* The customer may not book online: the hold is released. *)
ReleasedRow(c) == [Mine(c) EXCEPT !.status = "EXPIRED", !.holdUntil = 0]

Decided(b) == bookings[b].status \in Terminal \cup {"CONFIRMED"}

NotesReopening(c) ==
    reopened' = reopened \cup {b \in {Id(c)} : Decided(b)}

WriteConfirm(c) ==
    /\ Running(c, "confirmHold")
    /\ ExclusionHolds(Id(c), ConfirmedRow(c))
    /\ Puts(c, Id(c), ConfirmedRow(c))
    /\ NotesReopening(c)
    /\ UNCHANGED <<requests, recovery>>

WriteConfirmBlocked(c) ==
    /\ Running(c, "confirmHold")
    /\ Puts(c, Id(c), ReleasedRow(c))
    /\ NotesReopening(c)
    /\ UNCHANGED <<requests, recovery>>

-----------------------------------------------------------------------------
(* decide *)

(* What the updateMany of a decision asks for.  Mutant: it updates by id. *)
DecidesById(c) == TRUE

Undecided(c) == Mine(c).status = "PENDING_APPROVAL"

BeginApprove(c, b) ==
    /\ "approve" \in Workload
    /\ bookings[b].status = "PENDING_APPROVAL"
    /\ StartAt[bookings[b].place] > now
    /\ Starts(c, "approve", b, None, 0, FALSE)

WriteApprove(c) ==
    /\ Running(c, "approve")
    /\ Undecided(c)
    /\ StartAt[Mine(c).place] > tx[c].at
    /\ Puts(c, Id(c), [Mine(c) EXCEPT !.status = "CONFIRMED", !.visit = "SCHEDULED",
                                      !.revision = @ + 1])
    /\ UNCHANGED <<requests, recovery, reopened>>

BeginReject(c, b) ==
    /\ "reject" \in Workload
    /\ bookings[b].status = "PENDING_APPROVAL"
    /\ Starts(c, "reject", b, bookings[b].place, 0, FALSE)

WriteReject(c) ==
    /\ Running(c, "reject")
    /\ Undecided(c)
    /\ Puts(c, Id(c), [Mine(c) EXCEPT !.status = "REJECTED", !.revision = @ + 1])
    /\ Announces(Freed("BOOKING_REJECTION", Id(c), 0, tx[c].target))
    /\ UNCHANGED <<requests, reopened>>

-----------------------------------------------------------------------------
(* cancel, by the salon: what it announces is what it read at the start *)

BeginCancel(c, b) ==
    /\ "cancel" \in Workload
    /\ bookings[b].status = "CONFIRMED"
    /\ StartAt[bookings[b].place] > now
    /\ Starts(c, "cancel", b, bookings[b].place, 0, FALSE)

WriteCancel(c) ==
    /\ Running(c, "cancel")
    /\ Mine(c).status = "CONFIRMED"
    /\ StartAt[Mine(c).place] > tx[c].at
    /\ Puts(c, Id(c), [Mine(c) EXCEPT !.status = "CANCELLED", !.revision = @ + 1])
    /\ Announces(Freed("BOOKING_CANCELLATION", Id(c), 0, tx[c].target))
    /\ UNCHANGED <<requests, reopened>>

-----------------------------------------------------------------------------
(* create, by the salon: no availability check, and a source the
   constraints of the database do not look at *)

BeginCreate(c, b, p) ==
    /\ "create" \in Workload
    /\ FreshBooking(b)
    /\ p \in AppointmentPlace
    /\ StartAt[p] > now
    /\ Starts(c, "create", b, p, 0, FALSE)

WriteCreate(c) ==
    /\ Running(c, "create")
    /\ CanLock(c)
    /\ Puts(c, Id(c), [NoBooking EXCEPT !.status = "CONFIRMED", !.source = "MANUAL",
                                        !.place = tx[c].target])
    /\ UNCHANGED <<requests, recovery, reopened>>

-----------------------------------------------------------------------------
(* reschedule *)

BeginReschedule(c, b, p, override) ==
    /\ "reschedule" \in Workload
    /\ bookings[b].status = "CONFIRMED"
    /\ StartAt[bookings[b].place] > now
    /\ p \in AppointmentPlace
    /\ StartAt[p] > now
    /\ bookings[b].revision < MaxRevision
    /\ Starts(c, "reschedule", b, p, bookings[b].revision, override)

RescheduleAdmitted(c) ==
    /\ RevisionIsCurrent(c)
    /\ Mine(c).status = "CONFIRMED"
    /\ tx[c].override \/ Available(tx[c].target, Id(c), None)

EnterReschedule(c) == Enter(c, "reschedule", RescheduleAdmitted(c))

(* update where id: the revision read under the lock plus one, and nothing
   about the status the booking has by now. *)
MovedRow(c) ==
    [Mine(c) EXCEPT !.place = tx[c].target, !.override = tx[c].override,
                    !.revision = tx[c].revision + 1]

WriteReschedule(c) ==
    /\ Running(c, "reschedule")
    /\ lock = c
    /\ ExclusionHolds(Id(c), MovedRow(c))
    /\ SegmentGuardHolds(Id(c), MovedRow(c))
    /\ Puts(c, Id(c), MovedRow(c))
    /\ Announces(Freed("BOOKING_RESCHEDULE", Id(c), tx[c].revision, Mine(c).place))
    /\ UNCHANGED <<requests, reopened>>

-----------------------------------------------------------------------------
(* updateDetails: contact data only, but it takes a revision *)

BeginUpdateDetails(c, b) ==
    /\ "updateDetails" \in Workload
    /\ bookings[b].status # "NONE"
    /\ bookings[b].revision < MaxRevision
    /\ Starts(c, "updateDetails", b, None, bookings[b].revision, FALSE)

EnterUpdateDetails(c) == Enter(c, "updateDetails", RevisionIsCurrent(c))

WriteUpdateDetails(c) ==
    /\ Running(c, "updateDetails")
    /\ lock = c
    /\ Puts(c, Id(c), [Mine(c) EXCEPT !.revision = @ + 1])
    /\ UNCHANGED <<requests, recovery, reopened>>

-----------------------------------------------------------------------------
(* markNoShow and revertNoShow: a read, then an update by id, no lock *)

BeginMarkNoShow(c, b) ==
    /\ "markNoShow" \in Workload
    /\ bookings[b].status = "CONFIRMED"
    /\ bookings[b].visit = "SCHEDULED"
    /\ StartAt[bookings[b].place] <= now
    /\ bookings[b].revision < MaxRevision
    /\ Starts(c, "markNoShow", b, None, 0, FALSE)

WriteMarkNoShow(c) ==
    /\ Running(c, "markNoShow")
    /\ Puts(c, Id(c), [Mine(c) EXCEPT !.visit = "NO_SHOW", !.revision = @ + 1])
    /\ UNCHANGED <<requests, recovery, reopened>>

BeginRevertNoShow(c, b) ==
    /\ "revertNoShow" \in Workload
    /\ bookings[b].status = "CONFIRMED"
    /\ bookings[b].visit = "NO_SHOW"
    /\ bookings[b].revision < MaxRevision
    /\ Starts(c, "revertNoShow", b, None, 0, FALSE)

WriteRevertNoShow(c) ==
    /\ Running(c, "revertNoShow")
    /\ Puts(c, Id(c), [Mine(c) EXCEPT !.visit = "SCHEDULED", !.revision = @ + 1])
    /\ UNCHANGED <<requests, recovery, reopened>>

-----------------------------------------------------------------------------
(* The timer, and the admin board that does part of its work *)

StaleHold(b) == bookings[b].status = "HOLD" /\ bookings[b].holdUntil <= now

ExpiresHolds ==
    /\ \E b \in Booking : StaleHold(b)
    /\ bookings' = [b \in Booking |->
                       IF StaleHold(b) THEN [bookings[b] EXCEPT !.status = "EXPIRED"]
                                       ELSE bookings[b]]
    /\ UNCHANGED <<now, blocks, requests, offers, recovery, lock, tx, reopened>>

(* Mutant: the sweep waits for holds whose appointment has begun. *)
expireFutureHolds ==
    (\A b \in Booking : StaleHold(b) => StartAt[bookings[b].place] > now) /\ ExpiresHolds

expireStaleHolds == ExpiresHolds

getAdminBookingBoard == "board" \in Workload /\ ExpiresHolds

(* Mutant: the sweep looks at the end of the hold, which a confirmed hold
   no longer has. *)
PastHoldPending(b) ==
    bookings[b].status = "PENDING_APPROVAL" /\ bookings[b].holdUntil \in 1..now

PastPending(b) ==
    bookings[b].status = "PENDING_APPROVAL" /\ StartAt[bookings[b].place] <= now

expirePastPending(b) ==
    /\ PastPending(b)
    /\ bookings' = [bookings EXCEPT ![b].status = "EXPIRED", ![b].revision = @ + 1]
    /\ UNCHANGED <<now, blocks, requests, offers, recovery, lock, tx, reopened>>

-----------------------------------------------------------------------------
(* Schedule blocks *)

(* assertNoConflicts compares whole bookings, not their segments. *)
BlockFits(p, k) ==
    /\ \A b \in Booking : Active(b) => ~Overlap(Span[bookings[b].place], Span[p])
    /\ \A j \in Block \ {k} :
          blocks[j].status = "ACTIVE" => ~Overlap(Span[blocks[j].place], Span[p])

PutsBlock(c, row) ==
    /\ blocks' = [blocks EXCEPT ![Id(c)] = row]
    /\ Ends(c)
    /\ Unlocks(c)
    /\ UNCHANGED <<now, bookings, requests, offers, reopened>>

BeginCreateBlock(c, k, p) ==
    /\ "createBlock" \in Workload
    /\ FreshBlock(k)
    /\ p \in BlockPlace
    /\ Starts(c, "createBlock", k, p, 0, FALSE)

CreateBlockAdmitted(c) == BlockFits(tx[c].target, Id(c))

EnterCreateBlock(c) == Enter(c, "createBlock", CreateBlockAdmitted(c))

WriteCreateBlock(c) ==
    /\ Running(c, "createBlock")
    /\ lock = c
    /\ PutsBlock(c, [status |-> "ACTIVE", place |-> tx[c].target, version |-> 1])
    /\ UNCHANGED recovery

BeginUpdateBlock(c, k, p) ==
    /\ "updateBlock" \in Workload
    /\ blocks[k].status = "ACTIVE"
    /\ blocks[k].version < MaxRevision
    /\ p \in BlockPlace
    /\ Starts(c, "updateBlock", k, p, blocks[k].version, FALSE)

UpdateBlockAdmitted(c) ==
    /\ blocks[Id(c)].status = "ACTIVE"
    /\ blocks[Id(c)].version = tx[c].revision
    /\ BlockFits(tx[c].target, Id(c))

EnterUpdateBlock(c) == Enter(c, "updateBlock", UpdateBlockAdmitted(c))

WriteUpdateBlock(c) ==
    /\ Running(c, "updateBlock")
    /\ lock = c
    /\ PutsBlock(c, [blocks[Id(c)] EXCEPT !.place = tx[c].target, !.version = @ + 1])
    /\ UNCHANGED recovery

BeginCancelBlock(c, k) ==
    /\ "cancelBlock" \in Workload
    /\ blocks[k].status = "ACTIVE"
    /\ Starts(c, "cancelBlock", k, blocks[k].place, 0, FALSE)

WriteCancelBlock(c) ==
    /\ Running(c, "cancelBlock")
    /\ CanLock(c)
    /\ blocks[Id(c)].status = "ACTIVE"
    /\ PutsBlock(c, [blocks[Id(c)] EXCEPT !.status = "CANCELLED", !.version = @ + 1])
    /\ Announces(Freed("SCHEDULE_BLOCK_CANCELLATION", Id(c), 0, tx[c].target))

-----------------------------------------------------------------------------
(* A handler that is given up: its condition no longer holds, a constraint
   of the database refuses it, its transaction times out, its process dies.
   Whatever it was doing is rolled back. *)
GiveUp(c) == tx[c] # Idle /\ Fails(c)

-----------------------------------------------------------------------------
Begin(c) ==
    \/ \E b \in Booking :
          \/ BeginConfirm(c, b)
          \/ BeginApprove(c, b)
          \/ BeginReject(c, b)
          \/ BeginCancel(c, b)
          \/ BeginUpdateDetails(c, b)
          \/ BeginMarkNoShow(c, b)
          \/ BeginRevertNoShow(c, b)
    \/ \E b \in Booking, p \in Place :
          \/ BeginHold(c, b, p)
          \/ BeginCreate(c, b, p)
          \/ \E override \in BOOLEAN : BeginReschedule(c, b, p, override)
    \/ \E k \in Block, p \in Place :
          \/ BeginCreateBlock(c, k, p)
          \/ BeginUpdateBlock(c, k, p)
    \/ \E k \in Block : BeginCancelBlock(c, k)

Admission(c) ==
    \/ EnterHold(c) \/ EnterReschedule(c) \/ EnterUpdateDetails(c)
    \/ EnterCreateBlock(c) \/ EnterUpdateBlock(c)

Write(c) ==
    \/ WriteHold(c)
    \/ WriteConfirm(c) \/ WriteConfirmBlocked(c)
    \/ WriteApprove(c) \/ WriteReject(c) \/ WriteCancel(c)
    \/ WriteCreate(c) \/ WriteReschedule(c) \/ WriteUpdateDetails(c)
    \/ WriteMarkNoShow(c) \/ WriteRevertNoShow(c)
    \/ WriteCreateBlock(c) \/ WriteUpdateBlock(c) \/ WriteCancelBlock(c)

Timer == expireStaleHolds \/ \E b \in Booking : expirePastPending(b)

BookingNext ==
    \/ \E c \in Client : Begin(c) \/ Admission(c) \/ Write(c) \/ GiveUp(c)
    \/ Timer
    \/ getAdminBookingBoard
    \/ Tick

Init == ScheduleInit

Spec == Init /\ [][BookingNext]_vars

(* PendingBookingExpiryService runs its sweep every minute. *)
FairSpec ==
    /\ Spec
    /\ WF_vars(expireStaleHolds)
    /\ \A b \in Booking : WF_vars(expirePastPending(b))

-----------------------------------------------------------------------------
(* Properties *)

TypeOK == ScheduleTypeOK

(* Two online bookings that are both active never need a professional in
   the same five minutes: the check under the lock and the segment trigger
   of the database hold whatever order confirmations, decisions, moves and
   sweeps commit in.  Only a late confirmation, which rewrites a closed
   booking without any check, escapes. *)
OnlineDisjoint ==
    \A a, b \in Booking \ reopened :
        a # b /\ Active(a) /\ Active(b) /\ Online(a) /\ Online(b)
            => ~Overlap(Busy[bookings[a].place], Busy[bookings[b].place])

(* Online bookings without an override never share any part of their whole
   intervals, late confirmations included: booking_no_overlap is evaluated
   on every update, also on those that look at nothing. *)
NoOverlap ==
    \A a, b \in Booking :
        a # b /\ Exclusive(bookings[a]) /\ Exclusive(bookings[b])
            => ~Overlap(Span[bookings[a].place], Span[bookings[b].place])

(* A schedule block and an active online booking put under the rules are
   never at work in the same cell.  Nothing in the database says so: it is
   the branch lock, taken by both services around their check and their
   write, that keeps the two checks from passing each other. *)
BlockClear ==
    \A b \in Booking \ reopened, k \in Block :
        Exclusive(bookings[b]) /\ blocks[k].status = "ACTIVE"
            => ~Overlap(Busy[bookings[b].place] \cap Span[bookings[b].place],
                        Span[blocks[k].place])

(* What a transaction has checked under the branch lock stays true until it
   commits: no handler that runs without the lock can put a block, a pending
   request or an offer under the booking that is being written, or a booking
   under the block.  Only the lock makes the two checks of BlockClear exclude
   each other. *)
CheckStillHolds(c) ==
    /\ Running(c, "createHold") \/ (Running(c, "reschedule") /\ ~tx[c].override) =>
          /\ ~TakenByBlock(tx[c].target)
          /\ ~TakenByRequest(tx[c].target)
          /\ ~TakenByOffer(tx[c].target, None)
    /\ Running(c, "createBlock") \/ Running(c, "updateBlock") =>
          \A b \in Booking \ reopened :
             Exclusive(bookings[b]) => ~Overlap(Span[bookings[b].place], Span[tx[c].target])

LockProtectsCheck == \A c \in Client : lock = c => CheckStillHolds(c)

(* Rejected, cancelled and expired are final: of all the handlers that may
   have read the booking earlier, only a late confirmation can still write
   its status. *)
TerminalFinal ==
    [][\A b \in Booking :
          bookings[b].status \in Terminal /\ bookings'[b].status # bookings[b].status
              => b \in reopened']_vars

(* A booking that leaves its place because it was moved or rejected leaves
   a slot recovery event for exactly that place behind, in the same
   transaction, and never two of them. *)
FreedIsAnnounced ==
    [][\A b \in Booking :
          LET p == bookings[b].place
              moved == p # None /\ bookings'[b].place # p
              rejected == bookings[b].status # "REJECTED" /\ bookings'[b].status = "REJECTED"
          IN  b \notin reopened /\ (moved \/ rejected) =>
                  Cardinality({e \in recovery' \ recovery : e.source = b /\ e.place = p}) = 1]_vars

(* Bookings and blocks as entries of one calendar.  Outside are bookings that
   are not put under its rules: those the salon writes down itself, those
   moved as an exception, and those a late confirmation has written again. *)
CalendarEntry == {<<"booking", b>> : b \in Booking} \cup {<<"block", k>> : k \in Block}

UnderRules(b) == b \notin reopened /\ (Active(b) => Exclusive(bookings[b]))

BookingStanding(b) == IF UnderRules(b) THEN bookings[b].status ELSE "OUTSIDE"

BlockStanding(k) == IF blocks[k].status = "ACTIVE" THEN "CONFIRMED" ELSE blocks[k].status

(* The work on the client, without the buffers around it *)
BookingRoom(b) ==
    IF UnderRules(b) /\ Active(b)
      THEN Busy[bookings[b].place] \cap Span[bookings[b].place] ELSE {}

BlockRoom(k) == IF blocks[k].status = "ACTIVE" THEN Span[blocks[k].place] ELSE {}

CalendarStanding ==
    [e \in CalendarEntry |-> IF e[1] = "booking" THEN BookingStanding(e[2])
                                                ELSE BlockStanding(e[2])]

CalendarRoom ==
    [e \in CalendarEntry |-> IF e[1] = "booking" THEN BookingRoom(e[2]) ELSE BlockRoom(e[2])]

Kept ==
    INSTANCE Calendar
        WITH Entry <- CalendarEntry, standing <- CalendarStanding, room <- CalendarRoom

(* Reads, checks, locks and writes of handlers that run at the same time add
   up to what one writer at a time would do on one calendar: nothing is put
   where a booking or a block is, no decision is taken twice, only what is
   confirmed moves, and closed entries stay closed. *)
CalendarIsKept == Kept!Spec

(* The five minutes of a hold end: the sweep takes every hold off the
   calendar that was not confirmed in time. *)
HoldFreed ==
    \A b \in Booking : StaleHold(b) ~> bookings[b].status # "HOLD"

(* A request nobody decided on does not stay open after its start. *)
PastPendingExpires ==
    \A b \in Booking :
        bookings[b].status = "PENDING_APPROVAL" /\ StartAt[bookings[b].place] <= now
            ~> bookings[b].status # "PENDING_APPROVAL"

-----------------------------------------------------------------------------
(* The inductive invariant behind the safety properties *)

CreateOps == {"createHold", "create", "acceptOffer"}

ExistingOps ==
    {"confirmHold", "approve", "reject", "cancel", "reschedule",
     "updateDetails", "markNoShow", "revertNoShow"}

BlockOps == {"createBlock", "updateBlock", "cancelBlock"}

(* A handler works on an identifier of the right table: one nobody else
   uses when it creates, one that exists otherwise. *)
HandlerOK ==
    \A c \in Client :
        /\ tx[c].op \in CreateOps =>
              /\ tx[c].subject \in Booking
              /\ tx[c].target \in Place
              /\ bookings[tx[c].subject].status = "NONE"
              /\ \A d \in Client \ {c} :
                    tx[d].op \in CreateOps => tx[d].subject # tx[c].subject
        /\ tx[c].op \in ExistingOps =>
              tx[c].subject \in Booking /\ bookings[tx[c].subject].status # "NONE"
        /\ tx[c].op = "reschedule" => tx[c].target \in Place
        /\ tx[c].op \in BlockOps => tx[c].subject \in Block /\ tx[c].target \in Place

(* Whoever holds the lock is at work. *)
LockOK == \A c \in Client : lock = c => tx[c] # Idle

IInv ==
    /\ TypeOK
    /\ HandlerOK
    /\ LockOK
    /\ OnlineDisjoint
    /\ NoOverlap
    /\ BlockClear
    /\ LockProtectsCheck

-----------------------------------------------------------------------------
(* What the repository says of itself, and the code does not do *)

(* availability.service.ts:58, "expired HOLD rows must not block the slot":
   a place the calendar shows passes the check under the lock. *)
ExpiredHoldsDoNotBlock ==
    \A p \in AppointmentPlace : Shown(p) => Available(p, None, None)

(* 20260728101539_sprint12_core_completion:33, a move the administrator
   marks as an exception is outside the rule of the database. *)
OverridesAreExempt ==
    \A c \in Client :
        Running(c, "reschedule") /\ lock = c /\ tx[c].override
            => SegmentGuardHolds(Id(c), MovedRow(c))

(* 20260727170000_segment_compatible_online_overlap_guard:1, the guarantee
   does not treat a processing phase as occupancy: a hold that passed the
   check under the lock is not refused by the other constraint. *)
ProcessingPhaseIsFree ==
    \A c \in Client :
        Running(c, "createHold") /\ lock = c /\ Available(tx[c].target, Id(c), None)
            => ExclusionHolds(Id(c), HeldRow(c))

(* bookings.service.ts:229, "this hold can no longer be used" once the
   booking is no hold any more: no confirmation makes an approved booking
   undecided again. *)
DecidedOnce ==
    [][\A b \in Booking :
          bookings[b].status = "CONFIRMED" => bookings'[b].status # "PENDING_APPROVAL"]_vars

(* booking-operations.service.ts:258, "only confirmed bookings can be
   moved". *)
OnlyConfirmedMove ==
    [][\A b \in Booking :
          bookings[b].place # None /\ bookings'[b].place # bookings[b].place
              => bookings[b].status = "CONFIRMED"]_vars

(* booking-operations.service.ts:735, "the booking was updated by another
   operation": a reader of the old place is told so, for every move takes a
   revision of its own. *)
MoveTakesRevision ==
    [][\A b \in Booking :
          bookings[b].place # None /\ bookings'[b].place # bookings[b].place
              => bookings'[b].revision > bookings[b].revision]_vars

(* booking-operations.service.ts:489, "only a confirmed booking can be
   marked as a no-show". *)
OnlyConfirmedNoShow ==
    [][\A b \in Booking :
          bookings[b].visit = "SCHEDULED" /\ bookings'[b].visit = "NO_SHOW"
              => bookings[b].status = "CONFIRMED"]_vars
=============================================================================
