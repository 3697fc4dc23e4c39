---------------------------- MODULE ChangeRequests ----------------------------
(***************************************************************************)
(* BookingChangeRequestsService: the customer asks for another time or     *)
(* cancels, the salon decides.  A pending request keeps its place off the  *)
(* calendar until it expires; nothing but the list of the admin and a late *)
(* approval ever marks it expired.  Its handlers run beside those of       *)
(* BookingLifecycle and write the same bookings.                           *)
(***************************************************************************)
EXTENDS BookingLifecycle

CONSTANTS
    RequestTtl,        \* policy.changeRequestTtlMinutes
    RescheduleLead,    \* policy.rescheduleLeadMinutes
    CancellationLead,  \* policy.cancellationLeadMinutes
    LateCancellation,  \* policy.allowLateCancellation
    MaxActiveRequests  \* policy.maxActiveChangeRequests

ASSUME PolicyAssumption ==
    /\ RequestTtl \in Nat
    /\ RescheduleLead \in Nat
    /\ CancellationLead \in Nat
    /\ LateCancellation \in BOOLEAN
    /\ MaxActiveRequests \in Nat

-----------------------------------------------------------------------------
(* isCustomerManageableStatus *)
Manageable(row) == row.status \in {"PENDING_APPROVAL", "CONFIRMED"}

Pending(r) == requests[r].status = "PENDING"

(* Mutant: requests that are due are not looked for. *)
LivePendingOf(b) == {r \in Request : LiveRequest(r) /\ requests[r].booking = b}

PendingOf(b) == {r \in Request : Pending(r) /\ requests[r].booking = b}

(* A transaction of this service that leaves the bookings alone. *)
PutsRequests(c, rows) ==
    /\ requests' = rows
    /\ Ends(c)
    /\ Unlocks(c)
    /\ UNCHANGED <<now, bookings, blocks, offers, recovery, reopened>>

Marked(rs, status) ==
    [r \in Request |-> IF r \in rs THEN [requests[r] EXCEPT !.status = status]
                                   ELSE requests[r]]

-----------------------------------------------------------------------------
(* createForCustomer *)

BeginRequestChange(c, b, p) ==
    /\ "requestChange" \in Workload
    /\ Manageable(bookings[b])
    /\ StartAt[bookings[b].place] > now
    /\ StartAt[bookings[b].place] - now >= RescheduleLead
    /\ p \in AppointmentPlace
    /\ StartAt[p] > now
    /\ Starts(c, "requestChange", b, p, bookings[b].revision, FALSE)

(* Requests of the booking that were due when the handler started are
   expired first, in the same transaction. *)
Overdue(c) == {r \in PendingOf(Id(c)) : requests[r].until <= tx[c].at}

RequestChangeAdmitted(c) ==
    /\ RevisionIsCurrent(c)
    /\ Manageable(Mine(c))
    /\ Cardinality(PendingOf(Id(c)) \ Overdue(c)) < MaxActiveRequests
    /\ Available(tx[c].target, Id(c), None)

EnterRequestChange(c) == Enter(c, "requestChange", RequestChangeAdmitted(c))

(* one_pending_per_booking and no_pending_overlap, which know nothing of
   the time a request expires. *)
RequestConstraintsHold(c) ==
    \A r \in Request \ Overdue(c) :
        Pending(r) => /\ requests[r].booking # Id(c)
                      /\ ~Overlap(Span[requests[r].place], Span[tx[c].target])

RequestedRow(c) ==
    [status |-> "PENDING", booking |-> Id(c), place |-> tx[c].target,
     revision |-> Mine(c).revision, until |-> tx[c].at + RequestTtl]

WriteRequestChange(c) ==
    /\ Running(c, "requestChange")
    /\ lock = c
    /\ RequestConstraintsHold(c)
    /\ \E r \in Request :
          /\ requests[r].status = "NONE"
          /\ PutsRequests(c, [Marked(Overdue(c), "EXPIRED") EXCEPT ![r] = RequestedRow(c)])

-----------------------------------------------------------------------------
(* cancelForCustomer: under the lock, and only the revision it has read *)

BeginCustomerCancel(c, b) ==
    /\ "customerCancel" \in Workload
    /\ Manageable(bookings[b])
    /\ StartAt[bookings[b].place] > now
    /\ LateCancellation \/ StartAt[bookings[b].place] - now >= CancellationLead
    /\ Starts(c, "customerCancel", b, bookings[b].place, bookings[b].revision, FALSE)

WriteCustomerCancel(c) ==
    /\ Running(c, "customerCancel")
    /\ CanLock(c)
    /\ Manageable(Mine(c))
    /\ StartAt[Mine(c).place] > tx[c].at
    /\ RevisionIsCurrent(c)
    /\ Puts(c, Id(c), [Mine(c) EXCEPT !.status = "CANCELLED", !.revision = @ + 1])
    /\ requests' = Marked(PendingOf(Id(c)), "CANCELLED")
    /\ Announces(Freed("BOOKING_CANCELLATION", Id(c), 0, tx[c].target))
    /\ UNCHANGED reopened

-----------------------------------------------------------------------------
(* decide *)

BeginApproveChange(c, r) ==
    /\ "approveChange" \in Workload
    /\ Pending(r)
    /\ requests[r].until > now
    /\ Starts(c, "approveChange", r, None, 0, FALSE)

(* The check under the lock does not except the request itself. *)
ChangeAdmitted(r, at) ==
    /\ Pending(r)
    /\ requests[r].until > at
    /\ bookings[requests[r].booking].revision = requests[r].revision
    /\ Manageable(bookings[requests[r].booking])
    /\ Available(requests[r].place, requests[r].booking, None)

EnterApproveChange(c) ==
    Running(c, "approveChange") /\ Enter(c, "approveChange", ChangeAdmitted(Id(c), tx[c].at))

ChangedRow(r) ==
    [bookings[requests[r].booking] EXCEPT !.place = requests[r].place,
                                          !.revision = requests[r].revision + 1]

(* Both updates are by id. *)
WriteApproveChange(c) ==
    /\ Running(c, "approveChange")
    /\ lock = c
    /\ LET r == Id(c)
           b == requests[r].booking
       IN  /\ ExclusionHolds(b, ChangedRow(r))
           /\ SegmentGuardHolds(b, ChangedRow(r))
           /\ Puts(c, b, ChangedRow(r))
           /\ requests' = Marked({r}, "APPROVED")
           /\ Announces(Freed("BOOKING_CHANGE", r, 0, bookings[b].place))
    /\ UNCHANGED reopened

BeginRejectChange(c, r) ==
    /\ "rejectChange" \in Workload
    /\ Pending(r)
    /\ Starts(c, "rejectChange", r, None, 0, FALSE)

WriteRejectChange(c) ==
    /\ Running(c, "rejectChange")
    /\ Pending(Id(c))
    /\ PutsRequests(c, Marked({Id(c)}, "REJECTED"))

-----------------------------------------------------------------------------
(* expireDue: it lists what is due, then marks what it has listed.  A
   handler stands for one request of the list. *)

BeginExpireDue(c, r) ==
    /\ "expireDue" \in Workload
    /\ Pending(r)
    /\ requests[r].until <= now
    /\ Starts(c, "expireDue", r, None, 0, FALSE)

WriteExpireDue(c) ==
    /\ Running(c, "expireDue")
    /\ PutsRequests(c, Marked({Id(c)}, "EXPIRED"))

-----------------------------------------------------------------------------
BeginChange(c) ==
    \/ \E b \in Booking, p \in Place : BeginRequestChange(c, b, p)
    \/ \E b \in Booking : BeginCustomerCancel(c, b)
    \/ \E r \in Request :
          BeginApproveChange(c, r) \/ BeginRejectChange(c, r) \/ BeginExpireDue(c, r)

WriteChange(c) ==
    \/ WriteRequestChange(c) \/ WriteCustomerCancel(c)
    \/ WriteApproveChange(c) \/ WriteRejectChange(c) \/ WriteExpireDue(c)

ChangeStep(c) ==
    \/ BeginChange(c)
    \/ EnterRequestChange(c) \/ EnterApproveChange(c)
    \/ WriteChange(c)

ChangeNext == BookingNext \/ \E c \in Client : ChangeStep(c)

ChangeSpec == Init /\ [][ChangeNext]_vars

-----------------------------------------------------------------------------
(* Properties *)

(* A request that exists names the booking and the place it is about. *)
ChangeTypeOK ==
    /\ TypeOK
    /\ \A r \in Request : requests[r].status # "NONE" =>
          requests[r].booking \in Booking /\ requests[r].place \in Place

(* A live request keeps its place: no online booking other than the one it
   wants to move is put there by a hold, a move or the approval of another
   request.  The database knows no such rule; every writer must look under
   the branch lock, and the request must be written under it. *)
ProposalReserved ==
    \A r \in Request, a \in Booking \ reopened :
        LiveRequest(r) /\ a # requests[r].booking /\ Exclusive(bookings[a])
            => ~Overlap(Busy[bookings[a].place], Busy[requests[r].place])

(* Where the salon does not cancel by itself, a cancelled booking has no
   pending request left, whether the request was made before the customer
   cancelled or was on its way. *)
CancelledHasNoRequest ==
    \A r \in Request :
        Pending(r) => bookings[requests[r].booking].status # "CANCELLED"

(* The slot a customer's cancellation announces is the one the booking
   takes up at that moment, also when it was being moved meanwhile: the
   revision guard of the update stands for the place that was read.  (That
   a change approval may write a revision a second time, and so defeat the
   guard, is described in the README.) *)
CancellationAnnounced ==
    [][\A b \in Booking \ reopened :
          bookings[b].status # "CANCELLED" /\ bookings'[b].status = "CANCELLED"
              => \E e \in recovery' \ recovery :
                    e.source = b /\ e.place = bookings[b].place]_vars

-----------------------------------------------------------------------------
(* What the repository says of itself, and the code does not do *)

(* 20260723120000_sprint06_live_operations:247, live proposals reserve
   their target interval: only live ones.  A request the check under the
   lock admits is not refused because of one that has expired. *)
OnlyLiveProposalsReserve ==
    \A c \in Client :
        Running(c, "requestChange") /\ lock = c /\ RequestChangeAdmitted(c)
            => RequestConstraintsHold(c)

(* The test "allows only one admin decision and one cancellation
   transition": a decided request is not decided again. *)
RequestDecidedOnce ==
    [][\A r \in Request :
          requests[r].status \in {"APPROVED", "REJECTED"}
              => requests'[r].status = requests[r].status]_vars

(* schedule-validation.service.ts:217, "this time has just been filled by
   another booking or block": a live request whose booking has not changed
   can be approved unless something else has taken the place. *)
LiveRequestIsApprovable ==
    \A r \in Request :
        LET b == requests[r].booking
            p == requests[r].place
        IN  (/\ LiveRequest(r)
             /\ Manageable(bookings[b])
             /\ bookings[b].revision = requests[r].revision
             /\ p \in Open
             /\ ~TakenByBooking(p, b)
             /\ ~TakenByBlock(p)
             /\ \A x \in Request \ {r} : ~Pending(x))
            => ChangeAdmitted(r, now)
=============================================================================
