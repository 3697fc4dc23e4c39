------------------------- MODULE ChangeRequestsProofs -------------------------
(***************************************************************************)
(* Proofs about ChangeRequests: the invariants of the calendar survive its *)
(* handlers, and a pending request keeps its place.  For any number of     *)
(* bookings, requests, clients and places.  And about the page that asks,  *)
(* the other part of MCChanges.                                            *)
(***************************************************************************)
EXTENDS MCChanges, BookingLifecycleProofs

(* Rows that exist are about a booking that exists. *)
RequestsOK ==
    \A r \in Request : requests[r].status # "NONE" =>
        /\ requests[r].booking \in Booking
        /\ requests[r].place \in Place
        /\ bookings[requests[r].booking].status # "NONE"

AskOps == {"requestChange", "customerCancel"}

DecideOps == {"approveChange", "rejectChange", "expireDue"}

AskersOK ==
    \A c \in Client :
        /\ tx[c].op \in AskOps =>
              /\ tx[c].subject \in Booking /\ tx[c].target \in Place
              /\ bookings[tx[c].subject].status # "NONE"
        /\ tx[c].op \in DecideOps =>
              tx[c].subject \in Request /\ requests[tx[c].subject].status # "NONE"

(* What the check of a request or of its approval has found stays true until
   the commit. *)
RequestStillFits(c) ==
    /\ Running(c, "approveChange") =>
          LET p == requests[tx[c].subject].place
          IN  ~TakenByBlock(p) /\ ~TakenByRequest(p) /\ ~TakenByOffer(p, None)
    /\ Running(c, "requestChange") =>
          \A a \in Booking \ reopened :
             a # tx[c].subject /\ Exclusive(bookings[a])
                 => ~Overlap(Busy[bookings[a].place], Busy[tx[c].target])

LockProtectsRequest == \A c \in Client : lock = c => RequestStillFits(c)

ChangeInv ==
    /\ IInv
    /\ RequestsOK
    /\ AskersOK
    /\ ProposalReserved
    /\ LockProtectsRequest

-----------------------------------------------------------------------------
(* What keeps the parts of the invariant *)

(* Rows do not vanish, and a request stays about what it was about. *)
RowsStay ==
    /\ \A b \in Booking : bookings[b].status # "NONE" => bookings'[b].status # "NONE"
    /\ \A r \in Request : requests[r].status # "NONE" =>
          /\ requests'[r].status # "NONE"
          /\ requests'[r].booking = requests[r].booking
          /\ requests'[r].place = requests[r].place

LEMMA RequestsStay ==
    ASSUME RequestsOK, RowsStay,
           \A r \in Request : requests[r].status = "NONE" => requests'[r].status = "NONE"
    PROVE  RequestsOK'
BY DEF RequestsOK, RowsStay

LEMMA AskersStay ==
    ASSUME AskersOK, RowsStay,
           \A d \in Client : tx'[d] = tx[d] \/ tx'[d].op \notin AskOps \cup DecideOps
    PROVE  AskersOK'
BY DEF AskersOK, RowsStay

LEMMA ProposalStays ==
    ASSUME ProposalReserved, Releases, NobodyComes
    PROVE  ProposalReserved'
BY DEF ProposalReserved, Releases, NobodyComes

LEMMA CheckStays ==
    ASSUME LockProtectsRequest, AskersOK, RowsStay, Releases, NobodyComes, blocks' = blocks,
           \A d \in Client :
              lock' = d => /\ tx'[d] = tx[d]
                           /\ lock = d \/ tx[d].op \notin {"approveChange", "requestChange"}
    PROVE  LockProtectsRequest'
<1> SUFFICES ASSUME NEW d \in Client, lock' = d
             PROVE  RequestStillFits(d)'
  BY DEF LockProtectsRequest
<1>1. CASE tx[d].op \notin {"approveChange", "requestChange"}
  BY <1>1 DEF RequestStillFits, Running
<1>2. CASE Running(d, "approveChange")
  <2>1. lock = d /\ RequestStillFits(d)
    BY <1>2 DEF LockProtectsRequest, Running
  <2>2. requests'[tx[d].subject].place = requests[tx[d].subject].place
    BY <1>2 DEF AskersOK, RowsStay, Running, DecideOps
  <2>3. QED
    BY <1>2, <2>1, <2>2, ReservationsFade DEF RequestStillFits, Running, TakenByBlock
<1>3. CASE Running(d, "requestChange")
  BY <1>3 DEF LockProtectsRequest, RequestStillFits, Running, NobodyComes
<1>4. QED
  BY <1>1, <1>2, <1>3 DEF Running

(* A booking that is written by the rules comes to no reserved place. *)
LEMMA WriteKeepsProposals ==
    ASSUME Base, ProposalReserved, NEW c \in Client, NEW b, NEW row, BookingWrite(c, b, row)
    PROVE  ProposalReserved'
<1>1. b \in Booking /\ Commits(c, b, row) /\ reopened \subseteq reopened' /\ Releases
  BY DEF BookingWrite, Commits
<1>2. bookings'[b] = row /\ \A a \in Booking \ {b} : bookings'[a] = bookings[a]
  BY <1>1, CommitEffect
<1>3. CASE Keeps(b, row) \/ b \in reopened'
  <2>1. NobodyComes
    BY <1>1, <1>2, <1>3 DEF NobodyComes, Keeps, Exclusive, Active
  <2>2. QED
    BY <1>1, <2>1, ProposalStays
<1>4. CASE Fits(b, row)
  <2> SUFFICES ASSUME NEW r \in Request, NEW a \in Booking \ reopened',
                      LiveRequest(r)', a # requests'[r].booking, Exclusive(bookings[a])'
               PROVE  ~Overlap(Busy[bookings'[a].place], Busy[requests'[r].place])
    BY DEF ProposalReserved
  <2>1. CASE a = b
    BY <1>2, <1>4, <2>1 DEF Fits, Unreserved, Overlap, Exclusive
  <2>2. CASE a # b
    BY <1>1, <1>2, <2>2 DEF ProposalReserved, Releases
  <2>3. QED
    BY <2>1, <2>2
<1>5. QED
  BY <1>3, <1>4 DEF BookingWrite

-----------------------------------------------------------------------------
(* The handlers of BookingLifecycle and the timer *)

LEMMA OpsDiffer ==
    /\ BookingOps \cap (AskOps \cup DecideOps) = {}
    /\ Idle.op \notin AskOps \cup DecideOps
    /\ {"approveChange", "requestChange"} \subseteq AskOps \cup DecideOps
BY DEF BookingOps, ExistingOps, BlockOps, AskOps, DecideOps, Idle

LEMMA OneWriteInv ==
    ASSUME ChangeInv, NEW c \in Client, NEW b, NEW row, BookingWrite(c, b, row),
           \A r \in Request :
              /\ requests[r].status # "NONE" <=> requests'[r].status # "NONE"
              /\ requests'[r].booking = requests[r].booking
              /\ requests'[r].place = requests[r].place
    PROVE  ChangeInv'
<1>1. Commits(c, b, row) /\ b \in Booking /\ row.status # "NONE" /\ Releases
  BY DEF BookingWrite, Commits
<1>2. /\ bookings'[b] = row /\ \A a \in Booking \ {b} : bookings'[a] = bookings[a]
      /\ blocks' = blocks
      /\ tx'[c] = Idle /\ \A d \in Client \ {c} : tx'[d] = tx[d]
      /\ \A d \in Client : lock' = d => lock = d /\ d # c
  BY <1>1, CommitEffect DEF ChangeInv, IInv, Base
<1>3. RowsStay
  BY <1>1, <1>2 DEF RowsStay
<1>4. ProposalReserved'
  BY WriteKeepsProposals DEF ChangeInv, IInv, Base
<1>5. LockProtectsRequest'
  <2>1. CASE lock \in {c, None}
    BY <1>2, <2>1, NoneAssumption DEF LockProtectsRequest
  <2>2. CASE lock \notin {c, None}
    <3>1. NobodyComes
      BY <1>2, <2>2 DEF BookingWrite, NobodyComes, Keeps, Exclusive, Active
    <3>2. QED
      BY <1>1, <1>2, <1>3, <3>1, CheckStays DEF ChangeInv
  <2>3. QED
    BY <2>1, <2>2
<1>6. IInv'
  BY WriteIInv DEF ChangeInv
<1>7. AskersOK'
  BY <1>2, <1>3, OpsDiffer, AskersStay DEF ChangeInv
<1>8. QED
  BY <1>3, <1>4, <1>5, <1>6, <1>7, RequestsStay DEF ChangeInv

LEMMA CalendarStepInv ==
    ASSUME ChangeInv, IInv', CalendarStep
    PROVE  ChangeInv'
<1>1. /\ requests' = requests /\ Releases
      /\ \A d \in Client : tx'[d] = tx[d] \/ tx'[d].op \notin AskOps \cup DecideOps
      /\ \A d \in Client :
            lock' = d => /\ tx'[d] = tx[d]
                         /\ lock = d \/ tx[d].op \notin {"approveChange", "requestChange"}
  BY OpsDiffer DEF CalendarStep, OwnHandlers
<1>2. CASE OneBooking
  BY <1>1, <1>2, OneWriteInv DEF OneBooking
<1>3. CASE NoBookingMoves
  <2>1. RowsStay
    BY <1>1, <1>3 DEF RowsStay, NoBookingMoves, Expires
  <2>2. NobodyComes
    BY <1>3 DEF NobodyComes, NoBookingMoves, Expires, Exclusive, Blocking
  <2>3. LockProtectsRequest'
    <3>1. CASE lock' = None
      BY <3>1, NoneAssumption DEF LockProtectsRequest
    <3>2. CASE blocks' = blocks
      BY <1>1, <2>1, <2>2, <3>2, CheckStays DEF ChangeInv
    <3>3. QED
      BY <1>3, <3>1, <3>2 DEF NoBookingMoves
  <2>4. QED
    BY <1>1, <2>1, <2>2, <2>3, RequestsStay, AskersStay, ProposalStays DEF ChangeInv
<1>4. QED
  BY <1>2, <1>3 DEF CalendarStep

LEMMA BookingStepInv ==
    ASSUME ChangeInv, [BookingNext]_vars
    PROVE  ChangeInv'
BY CalendarStepInv, NextCalendar, NextIInv DEF ChangeInv

-----------------------------------------------------------------------------
(* The handlers of this module begin, and take the lock *)

LEMMA BeginChangeInv ==
    ASSUME ChangeInv, NEW c \in Client, BeginChange(c)
    PROVE  ChangeInv'
<1>1. \E op \in AskOps \cup DecideOps, subject \in Subject, target \in Place \cup {None},
         revision \in Nat :
         /\ Starts(c, op, subject, target, revision, FALSE)
         /\ op \in AskOps =>
               /\ subject \in Booking /\ target \in Place /\ bookings[subject].status # "NONE"
         /\ op \in DecideOps => subject \in Request /\ requests[subject].status # "NONE"
  <2>1. ASSUME NEW b \in Booking, NEW p \in Place, BeginRequestChange(c, b, p)
        PROVE  /\ Starts(c, "requestChange", b, p, bookings[b].revision, FALSE)
               /\ bookings[b].revision \in Nat /\ bookings[b].status # "NONE"
    BY <2>1 DEF BeginRequestChange, Manageable, ChangeInv, IInv, TypeOK, ScheduleTypeOK, BookingRow
  <2>2. ASSUME NEW b \in Booking, BeginCustomerCancel(c, b)
        PROVE  /\ Starts(c, "customerCancel", b, bookings[b].place, bookings[b].revision, FALSE)
               /\ bookings[b].revision \in Nat /\ bookings[b].status # "NONE"
               /\ bookings[b].place \in Place
    BY <2>2 DEF BeginCustomerCancel, Manageable, ChangeInv, IInv, TypeOK, ScheduleTypeOK, BookingRow
  <2>3. ASSUME NEW r \in Request,
               BeginApproveChange(c, r) \/ BeginRejectChange(c, r) \/ BeginExpireDue(c, r)
        PROVE  /\ \E op \in DecideOps : Starts(c, op, r, None, 0, FALSE)
               /\ requests[r].status # "NONE"
    BY <2>3 DEF BeginApproveChange, BeginRejectChange, BeginExpireDue, Pending, DecideOps
  <2>4. \A b \in Booking : b \in Subject
    BY DEF Subject
  <2>5. \A r \in Request : r \in Subject
    BY DEF Subject
  <2>6. AskOps \cap DecideOps = {} /\ "requestChange" \in AskOps /\ "customerCancel" \in AskOps
        /\ 0 \in Nat
    BY DEF AskOps, DecideOps
  <2>7. CASE \E b \in Booking, p \in Place : BeginRequestChange(c, b, p)
    BY <2>1, <2>4, <2>6, <2>7
  <2>8. CASE \E b \in Booking : BeginCustomerCancel(c, b)
    BY <2>2, <2>4, <2>6, <2>8
  <2>9. CASE \E r \in Request :
               BeginApproveChange(c, r) \/ BeginRejectChange(c, r) \/ BeginExpireDue(c, r)
    BY <2>3, <2>5, <2>6, <2>9
  <2>10. QED
    BY <2>7, <2>8, <2>9 DEF BeginChange
<1>2. PICK op \in AskOps \cup DecideOps, subject \in Subject, target \in Place \cup {None},
         revision \in Nat :
         /\ Starts(c, op, subject, target, revision, FALSE)
         /\ op \in AskOps =>
               /\ subject \in Booking /\ target \in Place /\ bookings[subject].status # "NONE"
         /\ op \in DecideOps => subject \in Request /\ requests[subject].status # "NONE"
  BY <1>1
<1>3. Base'
  <2>1. op \in Operation /\ op \notin CreateOps \cup ExistingOps \cup BlockOps /\ op # "reschedule"
    BY DEF AskOps, DecideOps, Operation, CreateOps, ExistingOps, BlockOps
  <2>2. Base /\ FALSE \in BOOLEAN
    BY DEF ChangeInv, IInv, Base
  <2>3. QED
    BY <1>2, <2>1, <2>2, StartsBase
<1>4. IInv'
  BY <1>2, <1>3, StartsIInv DEF ChangeInv
<1>5. /\ tx[c] = Idle /\ tx'[c].op = op /\ tx'[c].subject = subject /\ tx'[c].target = target
      /\ \A d \in Client \ {c} : tx'[d] = tx[d]
      /\ UNCHANGED <<now, bookings, blocks, requests, offers, lock, reopened>>
  BY <1>2 DEF Starts, ChangeInv, IInv, TypeOK, ScheduleTypeOK
<1>6. RowsStay /\ NobodyComes /\ Releases
  BY <1>5, SameReservations DEF RowsStay, NobodyComes
<1>7. AskersOK'
  BY <1>2, <1>5 DEF AskersOK, ChangeInv
<1>8. \A d \in Client : lock' = d => lock = d /\ tx'[d] = tx[d]
  BY <1>5 DEF ChangeInv, IInv, LockOK
<1>9. LockProtectsRequest'
  BY <1>5, <1>6, <1>8, CheckStays DEF ChangeInv
<1>10. QED
  BY <1>4, <1>5, <1>6, <1>7, <1>9, RequestsStay, ProposalStays DEF ChangeInv

(* The checks are made in the step that takes the lock. *)
LEMMA EnterChangeInv ==
    ASSUME ChangeInv, NEW c \in Client, EnterRequestChange(c) \/ EnterApproveChange(c)
    PROVE  ChangeInv'
<1>1. Locks(c) /\ tx[c].op \in {"requestChange", "approveChange"}
  BY DEF EnterRequestChange, EnterApproveChange, Enter, Running
<1>2. RequestStillFits(c)
  <2>1. CASE EnterRequestChange(c)
    BY <2>1 DEF EnterRequestChange, Enter, Running, RequestChangeAdmitted, Available,
                TakenByBooking, Exclusive, Active, Id, RequestStillFits
  <2>2. CASE EnterApproveChange(c)
    BY <2>2 DEF EnterApproveChange, Enter, Running, ChangeAdmitted, Available, Id, RequestStillFits
  <2>3. QED
    BY <2>1, <2>2
<1>3. Base'
  BY <1>1, LocksBase DEF ChangeInv, IInv, Base, Idle
<1>4. LockProtectsCheck'
  BY <1>1 DEF Locks, LockProtectsCheck, CheckStillHolds, Running
<1>5. IInv'
  BY <1>1, <1>3, <1>4, CalmStep DEF ChangeInv, IInv, Locks, Base
<1>6. UNCHANGED <<now, bookings, blocks, requests, offers, tx, reopened>> /\ lock' = c
  BY <1>1 DEF Locks
<1>7. RowsStay /\ NobodyComes /\ Releases
  BY <1>6, SameReservations DEF RowsStay, NobodyComes
<1>8. RequestStillFits(c)'
  BY <1>2, <1>6, <1>7, ReservationsFade
     DEF RequestStillFits, Running, TakenByBlock, Exclusive
<1>9. LockProtectsRequest'
  BY <1>6, <1>8 DEF LockProtectsRequest
<1>10. QED
  BY <1>5, <1>6, <1>7, <1>9, RequestsStay, AskersStay, ProposalStays DEF ChangeInv

-----------------------------------------------------------------------------
(* ... and write requests *)

LEMMA MarkedIs ==
    ASSUME ChangeInv, NEW rs, NEW status \in {"APPROVED", "REJECTED", "EXPIRED", "CANCELLED"}
    PROVE  /\ Marked(rs, status) \in [Request -> RequestRow]
           /\ \A r \in Request :
                 /\ r \in rs => Marked(rs, status)[r].status = status
                 /\ r \notin rs => Marked(rs, status)[r] = requests[r]
                 /\ Marked(rs, status)[r].booking = requests[r].booking
                 /\ Marked(rs, status)[r].place = requests[r].place
<1>1. requests \in [Request -> RequestRow]
  BY DEF ChangeInv, IInv, TypeOK, ScheduleTypeOK
<1>2. \A r \in Request : [requests[r] EXCEPT !.status = status] \in RequestRow
  BY <1>1, Zenon DEF RequestRow
<1>3. QED
  BY <1>1, <1>2 DEF Marked, RequestRow

(* Requests that exist are decided, expired or withdrawn. *)
LEMMA MarkedRows ==
    ASSUME ChangeInv, NEW rs, NEW status \in {"APPROVED", "REJECTED", "EXPIRED", "CANCELLED"},
           \A r \in rs \cap Request : requests[r].status # "NONE",
           requests' = Marked(rs, status), offers' = offers, now' = now
    PROVE  /\ requests' \in [Request -> RequestRow]
           /\ Releases
           /\ \A r \in Request :
                 /\ requests[r].status # "NONE" <=> requests'[r].status # "NONE"
                 /\ requests'[r].booking = requests[r].booking
                 /\ requests'[r].place = requests[r].place
<1>1. Releases
  BY MarkedIs DEF Releases, LiveRequest, LiveOffer
<1>2. QED
  BY <1>1, MarkedIs

LEMMA PutsRequestsBase ==
    ASSUME ChangeInv, NEW c \in Client, NEW rows \in [Request -> RequestRow], PutsRequests(c, rows)
    PROVE  /\ Base'
           /\ tx'[c] = Idle /\ \A d \in Client \ {c} : tx'[d] = tx[d]
           /\ \A d \in Client : lock' = d => lock = d /\ d # c
<1>1. Base
  BY DEF ChangeInv, IInv, Base
<1>2. Base'
  BY <1>1, EndsBase DEF PutsRequests, Base, TypeOK, ScheduleTypeOK
<1>3. \A d \in Client : lock' = d => lock = d /\ d # c
  BY NoneAssumption DEF PutsRequests, Unlocks
<1>4. QED
  BY <1>1, <1>2, <1>3, EndsHandlers DEF PutsRequests

LEMMA MarksInv ==
    ASSUME ChangeInv, NEW c \in Client, NEW rs,
           NEW status \in {"APPROVED", "REJECTED", "EXPIRED", "CANCELLED"},
           \A r \in rs \cap Request : requests[r].status # "NONE",
           PutsRequests(c, Marked(rs, status))
    PROVE  ChangeInv'
<1>1. /\ requests' = Marked(rs, status)
      /\ UNCHANGED <<now, bookings, blocks, offers, reopened>>
  BY DEF PutsRequests
<1>2. /\ requests' \in [Request -> RequestRow] /\ Releases
      /\ \A r \in Request :
            /\ requests[r].status # "NONE" <=> requests'[r].status # "NONE"
            /\ requests'[r].booking = requests[r].booking
            /\ requests'[r].place = requests[r].place
  BY <1>1, MarkedRows
<1>3. /\ Base'
      /\ tx'[c] = Idle /\ \A d \in Client \ {c} : tx'[d] = tx[d]
      /\ \A d \in Client : lock' = d => lock = d /\ d # c
  BY PutsRequestsBase, MarkedIs
<1>4. IInv'
  BY <1>1, <1>2, <1>3, CalmIInv DEF ChangeInv
<1>5. RowsStay /\ NobodyComes
  BY <1>1, <1>2 DEF RowsStay, NobodyComes
<1>6. LockProtectsRequest'
  BY <1>1, <1>2, <1>3, <1>5, CheckStays DEF ChangeInv
<1>7. QED
  BY <1>2, <1>3, <1>4, <1>5, <1>6, OpsDiffer, RequestsStay, AskersStay, ProposalStays DEF ChangeInv

LEMMA WriteRejectChangeInv ==
    ASSUME ChangeInv, NEW c \in Client, WriteRejectChange(c)
    PROVE  ChangeInv'
BY MarksInv DEF WriteRejectChange, Pending

LEMMA WriteExpireDueInv ==
    ASSUME ChangeInv, NEW c \in Client, WriteExpireDue(c)
    PROVE  ChangeInv'
<1>1. requests[Id(c)].status # "NONE"
  BY DEF WriteExpireDue, Running, ChangeInv, AskersOK, DecideOps, Id
<1>2. QED
  BY <1>1, MarksInv DEF WriteExpireDue

(* A new request comes to a place the check under the lock found free. *)
LEMMA WriteRequestChangeInv ==
    ASSUME ChangeInv, NEW c \in Client, WriteRequestChange(c)
    PROVE  ChangeInv'
<1> DEFINE marked == Marked(Overdue(c), "EXPIRED")
<1>1. PICK r \in Request : requests[r].status = "NONE"
                           /\ PutsRequests(c, [marked EXCEPT ![r] = RequestedRow(c)])
  BY DEF WriteRequestChange
<1>2. /\ Id(c) \in Booking /\ bookings[Id(c)].status # "NONE" /\ tx[c].target \in Place
      /\ tx[c] \in Transaction /\ bookings[Id(c)] \in BookingRow
  BY DEF WriteRequestChange, Running, ChangeInv, AskersOK, AskOps, Id, IInv, TypeOK, ScheduleTypeOK
<1>3. /\ RequestedRow(c) \in RequestRow
      /\ RequestedRow(c).status = "PENDING" /\ RequestedRow(c).booking = Id(c)
      /\ RequestedRow(c).place = tx[c].target
  <2>1. tx[c].at + RequestTtl \in Nat /\ Mine(c).revision \in Nat
    BY <1>2, PolicyAssumption DEF Transaction, Mine, BookingRow
  <2>2. QED
    BY <1>2, <2>1 DEF RequestedRow, RequestRow
<1>4. /\ marked \in [Request -> RequestRow]
      /\ \A x \in Request :
            /\ x \in Overdue(c) => marked[x].status = "EXPIRED"
            /\ x \notin Overdue(c) => marked[x] = requests[x]
            /\ marked[x].booking = requests[x].booking
            /\ marked[x].place = requests[x].place
  BY MarkedIs
<1>5. \A x \in Overdue(c) : requests[x].status = "PENDING"
  BY DEF Overdue, PendingOf, Pending
<1> HIDE DEF marked
<1>6. [marked EXCEPT ![r] = RequestedRow(c)] \in [Request -> RequestRow]
  BY <1>3, <1>4
<1>7. requests'[r] = RequestedRow(c) /\ \A x \in Request \ {r} : requests'[x] = marked[x]
  BY <1>1, <1>4 DEF PutsRequests
<1>8. /\ Base'
      /\ tx'[c] = Idle /\ \A d \in Client \ {c} : tx'[d] = tx[d]
  BY <1>1, <1>6, PutsRequestsBase
<1>9. lock' = None /\ UNCHANGED <<now, bookings, blocks, offers, reopened>>
  BY <1>1 DEF PutsRequests, WriteRequestChange, Unlocks
<1>10. IInv'
  BY <1>8, <1>9, CalmIInv DEF ChangeInv
<1>11. RowsStay
  BY <1>1, <1>4, <1>5, <1>7, <1>9 DEF RowsStay
<1>12. RequestsOK'
  BY <1>2, <1>3, <1>4, <1>5, <1>7, <1>9 DEF RequestsOK, ChangeInv
<1>13. AskersOK'
  BY <1>8, <1>11, OpsDiffer, AskersStay DEF ChangeInv
<1>14. ProposalReserved'
  <2> SUFFICES ASSUME NEW x \in Request, NEW a \in Booking \ reopened,
                      LiveRequest(x)', a # requests'[x].booking, Exclusive(bookings[a])
               PROVE  ~Overlap(Busy[bookings[a].place], Busy[requests'[x].place])
    BY <1>9 DEF ProposalReserved
  <2>1. CASE x = r
    BY <1>3, <1>7, <2>1 DEF ChangeInv, LockProtectsRequest, RequestStillFits, WriteRequestChange, Id
  <2>2. CASE x # r
    BY <1>4, <1>7, <1>9, <2>2 DEF ChangeInv, ProposalReserved, LiveRequest
  <2>3. QED
    BY <2>1, <2>2
<1>15. LockProtectsRequest'
  BY <1>9, NoneAssumption DEF LockProtectsRequest
<1>16. QED
  BY <1>10, <1>12, <1>13, <1>14, <1>15 DEF ChangeInv

-----------------------------------------------------------------------------
(* ... and bookings *)

(* A cancelled booking leaves the calendar, and its requests are withdrawn. *)
LEMMA WriteCustomerCancelIs ==
    ASSUME ChangeInv, NEW c \in Client, WriteCustomerCancel(c)
    PROVE  \E row \in BookingRow : BookingWrite(c, Id(c), row) /\ row.status = "CANCELLED"
<1> DEFINE row == [Mine(c) EXCEPT !.status = "CANCELLED", !.revision = @ + 1]
<1>1. /\ Id(c) \in Booking /\ tx[c] \in Transaction
      /\ Mine(c) \in BookingRow /\ Mine(c).status # "NONE" /\ Mine(c).place \in Place
  BY DEF WriteCustomerCancel, Running, ChangeInv, AskersOK, AskOps, Id, Mine, IInv, TypeOK,
         ScheduleTypeOK
<1>2. /\ row \in BookingRow
      /\ row.status = "CANCELLED" /\ row.place = Mine(c).place
  <2>1. Mine(c).revision + 1 \in Nat
    BY <1>1 DEF BookingRow
  <2>2. row \in BookingRow
    BY <1>1, <2>1, Zenon DEF BookingRow, Status
  <2>3. QED
    BY <1>1, <2>2 DEF BookingRow
<1>3. /\ Puts(c, Id(c), row) /\ requests' = Marked(PendingOf(Id(c)), "CANCELLED")
      /\ reopened' = reopened /\ Manageable(Mine(c))
      /\ Announces(Freed("BOOKING_CANCELLATION", Id(c), 0, tx[c].target))
  BY DEF WriteCustomerCancel
<1> HIDE DEF row
<1>4. requests' \in [Request -> RequestRow] /\ Releases
  BY <1>3, MarkedRows DEF Puts, PendingOf, Pending
<1>5. Commits(c, Id(c), row)
  BY <1>3, <1>4 DEF Puts, Commits, ChangeInv, IInv, TypeOK, ScheduleTypeOK
<1>6. recovery' \subseteq RecoveryEvent
  BY <1>1, <1>3, FreedType DEF RecoverySource, Transaction, ChangeInv, IInv, Base
<1>7. \A d \in Client \ {c} : tx[d].op \in CreateOps => tx[d].subject # Id(c)
  BY <1>1 DEF Mine, ChangeInv, IInv, HandlerOK
<1>8. reopened \subseteq reopened' /\ reopened' \subseteq Booking
  BY <1>3 DEF ChangeInv, IInv, TypeOK, ScheduleTypeOK
<1>9. Keeps(Id(c), row)
  BY <1>2 DEF Keeps, Blocking
<1>10. bookings[Id(c)].status \notin Terminal
  BY <1>3 DEF Manageable, Mine, Terminal
<1>11. BookingWrite(c, Id(c), row)
  BY <1>1, <1>2, <1>5, <1>6, <1>7, <1>8, <1>9, <1>10 DEF BookingWrite
<1>12. QED
  BY <1>2, <1>11

LEMMA WriteCustomerCancelInv ==
    ASSUME ChangeInv, NEW c \in Client, WriteCustomerCancel(c)
    PROVE  ChangeInv'
<1>1. PICK row \in BookingRow : BookingWrite(c, Id(c), row)
  BY WriteCustomerCancelIs
<1>2. \A r \in Request :
         /\ requests[r].status # "NONE" <=> requests'[r].status # "NONE"
         /\ requests'[r].booking = requests[r].booking
         /\ requests'[r].place = requests[r].place
  <2>1. /\ requests' = Marked(PendingOf(Id(c)), "CANCELLED") /\ offers' = offers /\ now' = now
        /\ \A r \in PendingOf(Id(c)) \cap Request : requests[r].status # "NONE"
    BY DEF WriteCustomerCancel, Puts, PendingOf, Pending
  <2>2. QED
    BY <2>1, MarkedRows
<1>3. QED
  BY <1>1, <1>2, OneWriteInv

(* An approval puts the booking on the place that was checked under the
   lock, whatever has become of the booking since. *)
LEMMA WriteApproveChangeIs ==
    ASSUME ChangeInv, NEW c \in Client, WriteApproveChange(c)
    PROVE  /\ BookingWrite(c, requests[Id(c)].booking, ChangedRow(Id(c)))
           /\ requests' = Marked({Id(c)}, "APPROVED") /\ offers' = offers /\ now' = now
           /\ requests[Id(c)].status # "NONE"
<1> DEFINE r == Id(c)
           b == requests[r].booking
           row == ChangedRow(r)
<1>1. /\ r \in Request /\ requests[r].status # "NONE"
      /\ requests[r] \in RequestRow
      /\ b \in Booking /\ bookings[b] \in BookingRow
      /\ bookings[b].status # "NONE" /\ bookings[b].place \in Place
      /\ requests[r].place \in Place
  BY DEF WriteApproveChange, Running, ChangeInv, AskersOK, DecideOps, RequestsOK, Id, IInv, TypeOK,
         ScheduleTypeOK
<1>2. /\ row \in BookingRow
      /\ row.status = bookings[b].status /\ row.place = requests[r].place
  <2>1. requests[r].revision + 1 \in Nat
    BY <1>1 DEF RequestRow
  <2>2. row \in BookingRow
    BY <1>1, <2>1, Zenon DEF ChangedRow, BookingRow
  <2>3. QED
    BY <1>1, <2>2 DEF ChangedRow, BookingRow
<1>3. /\ Puts(c, b, row) /\ requests' = Marked({r}, "APPROVED")
      /\ reopened' = reopened /\ lock = c /\ Running(c, "approveChange")
      /\ ExclusionHolds(b, row) /\ SegmentGuardHolds(b, row)
      /\ Announces(Freed("BOOKING_CHANGE", r, 0, bookings[b].place))
  BY DEF WriteApproveChange
<1>4. requests' \in [Request -> RequestRow] /\ Releases
  <2>1. offers' = offers /\ now' = now /\ \A x \in {r} \cap Request : requests[x].status # "NONE"
    BY <1>1, <1>3 DEF Puts
  <2>2. QED
    BY <1>3, <2>1, MarkedRows
<1>5. Commits(c, b, row)
  BY <1>3, <1>4 DEF Puts, Commits, ChangeInv, IInv, TypeOK, ScheduleTypeOK
<1>6. recovery' \subseteq RecoveryEvent
  BY <1>1, <1>3
     DEF Announces, Freed, RecoveryEvent, RecoverySource, ChangeInv, IInv, TypeOK, ScheduleTypeOK
<1>7. \A d \in Client \ {c} : tx[d].op \in CreateOps => tx[d].subject # b
  BY <1>1 DEF ChangeInv, IInv, HandlerOK
<1>8. reopened \subseteq reopened' /\ reopened' \subseteq Booking
  BY <1>3 DEF ChangeInv, IInv, TypeOK, ScheduleTypeOK
<1>9. ~TakenByBlock(row.place) /\ Unreserved(row.place)
  <2>1. /\ ~TakenByBlock(requests[r].place) /\ ~TakenByRequest(requests[r].place)
        /\ ~TakenByOffer(requests[r].place, None)
    BY <1>3 DEF ChangeInv, LockProtectsRequest, RequestStillFits, Id
  <2>2. QED
    BY <1>2, <1>4, <2>1, NoneAssumption DEF Unreserved, Releases, TakenByRequest, TakenByOffer
<1>10. Fits(b, row)
  BY <1>3, <1>9 DEF Fits
<1>11. BookingWrite(c, b, row)
  BY <1>1, <1>2, <1>3, <1>5, <1>6, <1>7, <1>8, <1>10 DEF BookingWrite
<1>12. QED
  BY <1>1, <1>3, <1>11 DEF Puts

LEMMA WriteApproveChangeInv ==
    ASSUME ChangeInv, NEW c \in Client, WriteApproveChange(c)
    PROVE  ChangeInv'
<1>1. /\ requests' = Marked({Id(c)}, "APPROVED") /\ offers' = offers /\ now' = now
      /\ requests[Id(c)].status # "NONE"
      /\ BookingWrite(c, requests[Id(c)].booking, ChangedRow(Id(c)))
  BY WriteApproveChangeIs
<1>2. \A r \in Request :
         /\ requests[r].status # "NONE" <=> requests'[r].status # "NONE"
         /\ requests'[r].booking = requests[r].booking
         /\ requests'[r].place = requests[r].place
  <2>1. \A x \in {Id(c)} \cap Request : requests[x].status # "NONE"
    BY <1>1
  <2>2. QED
    BY <1>1, <2>1, MarkedRows
<1>3. QED
  BY <1>1, <1>2, OneWriteInv

-----------------------------------------------------------------------------
(* The theorems *)

LEMMA ChangeNextInv ==
    ASSUME ChangeInv, [ChangeNext]_vars
    PROVE  ChangeInv'
<1>1. CASE BookingNext \/ UNCHANGED vars
  BY <1>1, BookingStepInv
<1>2. ASSUME NEW c \in Client, ChangeStep(c)
      PROVE  ChangeInv'
  BY <1>2, BeginChangeInv, EnterChangeInv, WriteRequestChangeInv, WriteCustomerCancelInv,
     WriteApproveChangeInv, WriteRejectChangeInv, WriteExpireDueInv
     DEF ChangeStep, WriteChange
<1>3. QED
  BY <1>1, <1>2 DEF ChangeNext

LEMMA InitChangeInv ==
    ASSUME Init
    PROVE  ChangeInv
<1>1. IInv
  BY InitIInv
<1>2. RequestsOK /\ ProposalReserved
  BY DEF Init, ScheduleInit, NoRequest, RequestsOK, ProposalReserved, LiveRequest
<1>3. AskersOK /\ LockProtectsRequest
  BY NoneAssumption, OpsDiffer DEF Init, ScheduleInit, AskersOK, LockProtectsRequest
<1>4. QED
  BY <1>1, <1>2, <1>3 DEF ChangeInv

LEMMA ChangeInvariance == ChangeSpec => []ChangeInv
BY InitChangeInv, ChangeNextInv, PTL DEF ChangeSpec

(* The tables hold rows of their types with the handlers of change requests
   at work beside those of bookings. *)
THEOREM ChangeTypeCorrect == ChangeSpec => []ChangeTypeOK
<1>1. ChangeInv => ChangeTypeOK
  BY DEF ChangeInv, IInv, RequestsOK, ChangeTypeOK
<1>2. QED
  BY <1>1, ChangeInvariance, PTL

(* A live request keeps its place: neither a hold nor a move nor another
   approval puts an online booking there. *)
THEOREM ProposalsAreReserved == ChangeSpec => []ProposalReserved
<1>1. ChangeInv => ProposalReserved
  BY DEF ChangeInv
<1>2. QED
  BY <1>1, ChangeInvariance, PTL

(* The rules of the calendar survive change requests: an approved request
   moves a booking onto no other online booking and under no schedule block,
   although the approval looks at the booking before and writes it by id. *)
THEOREM ChangesKeepTheCalendar == ChangeSpec => [](OnlineDisjoint /\ NoOverlap /\ BlockClear)
<1>1. ChangeInv => OnlineDisjoint /\ NoOverlap /\ BlockClear
  BY DEF ChangeInv, IInv
<1>2. QED
  BY <1>1, ChangeInvariance, PTL

-----------------------------------------------------------------------------
(* Cancelled bookings and their requests *)

(* While a request is checked and stored its booking is not cancelled. *)
AskedIsNotCancelled ==
    \A c \in Client :
        lock = c /\ Running(c, "requestChange") => bookings[tx[c].subject].status # "CANCELLED"

(* Nobody is at work on what is not asked for. *)
WorkloadOnly == \A c \in Client : tx[c].op \in Workload \cup {Idle.op}

SalonKeeps == \A c \in Client : tx[c].op # "cancel"

CancelledInv == AskedIsNotCancelled /\ CancelledHasNoRequest

(* What the handlers of the salon write in the status of a booking. *)
LEMMA StatusWritten ==
    ASSUME IInv, NEW c \in Client, Write(c), NEW b \in Booking
    PROVE  \/ bookings'[b].status = bookings[b].status
           \/ bookings'[b].status \in {"HOLD", "CONFIRMED", "REJECTED", "EXPIRED"}
           \/ tx[c].op = "confirmHold" /\ bookings'[b].status = "PENDING_APPROVAL"
           \/ tx[c].op = "cancel"
<1>1. bookings \in [Booking -> BookingRow] /\ NoBooking \in BookingRow
  BY NoBookingType DEF IInv, TypeOK, ScheduleTypeOK
<1>2. CASE WriteHold(c)
  BY <1>1, <1>2 DEF WriteHold, Puts, HeldRow, BookingRow
<1>3. CASE WriteCreate(c)
  BY <1>1, <1>3 DEF WriteCreate, Puts, BookingRow
<1>4. CASE WriteCreateBlock(c) \/ WriteUpdateBlock(c) \/ WriteCancelBlock(c)
  BY <1>4 DEF WriteCreateBlock, WriteUpdateBlock, WriteCancelBlock, PutsBlock
<1>5. CASE WriteCancel(c)
  BY <1>5 DEF WriteCancel, Running
<1>6. CASE WriteReschedule(c)
  BY <1>1, <1>6 DEF WriteReschedule, Puts, MovedRow, Mine, BookingRow
<1>7. CASE WriteConfirm(c)
  BY <1>1, <1>7 DEF WriteConfirm, Puts, ConfirmedRow, Mine, BookingRow, Running
<1>8. CASE WriteConfirmBlocked(c)
  BY <1>1, <1>8 DEF WriteConfirmBlocked, Puts, ReleasedRow, Mine, BookingRow
<1>9. CASE WriteApprove(c)
  BY <1>1, <1>9 DEF WriteApprove, Puts, Mine, BookingRow
<1>10. CASE WriteReject(c)
  BY <1>1, <1>10 DEF WriteReject, Puts, Mine, BookingRow
<1>11. CASE WriteUpdateDetails(c)
  BY <1>1, <1>11 DEF WriteUpdateDetails, Puts, Mine, BookingRow
<1>12. CASE WriteMarkNoShow(c)
  BY <1>1, <1>12 DEF WriteMarkNoShow, Puts, Mine, BookingRow
<1>13. CASE WriteRevertNoShow(c)
  BY <1>1, <1>13 DEF WriteRevertNoShow, Puts, Mine, BookingRow
<1>14. QED
  BY <1>2, <1>3, <1>4, <1>5, <1>6, <1>7, <1>8, <1>9, <1>10, <1>11, <1>12, <1>13 DEF Write

LEMMA NobodyElseCancels ==
    ASSUME IInv, SalonKeeps, [BookingNext]_vars, NEW b \in Booking,
           bookings'[b].status = "CANCELLED"
    PROVE  bookings[b].status = "CANCELLED"
<1>1. bookings \in [Booking -> BookingRow]
  BY DEF IInv, TypeOK, ScheduleTypeOK
<1>2. ASSUME NEW c \in Client, Write(c)
      PROVE  bookings[b].status = "CANCELLED"
  BY <1>2, StatusWritten DEF SalonKeeps
<1>3. ASSUME NEW c \in Client, Begin(c) \/ Admission(c) \/ GiveUp(c)
      PROVE  bookings' = bookings
  BY <1>3, StepsWithoutWrites
<1>4. CASE Timer \/ getAdminBookingBoard
  BY <1>1, <1>4
     DEF Timer, expireStaleHolds, getAdminBookingBoard, ExpiresHolds, expirePastPending, BookingRow
<1>5. QED
  BY <1>2, <1>3, <1>4 DEF BookingNext, Tick, vars

LEMMA WorkloadStays ==
    ASSUME ChangeInv, WorkloadOnly, [ChangeNext]_vars
    PROVE  WorkloadOnly'
<1>1. tx \in [Client -> Transaction]
  BY DEF ChangeInv, IInv, TypeOK, ScheduleTypeOK
<1>2. ASSUME NEW c \in Client, Begin(c) \/ BeginChange(c)
      PROVE  WorkloadOnly'
  <2>1. \E op \in Workload : \E subject, target, revision, override :
           Starts(c, op, subject, target, revision, override)
    BY <1>2 DEF Begin, BeginHold, BeginConfirm, BeginApprove, BeginReject, BeginCancel, BeginCreate,
                BeginReschedule, BeginUpdateDetails, BeginMarkNoShow, BeginRevertNoShow,
                BeginCreateBlock, BeginUpdateBlock, BeginCancelBlock, BeginChange,
                BeginRequestChange, BeginCustomerCancel, BeginApproveChange, BeginRejectChange,
                BeginExpireDue
  <2>2. QED
    BY <1>1, <2>1 DEF Starts, WorkloadOnly
<1>3. ASSUME NEW c \in Client, Ends(c)
      PROVE  WorkloadOnly'
  BY <1>1, <1>3 DEF Ends, WorkloadOnly
<1>4. CASE tx' = tx
  BY <1>4 DEF WorkloadOnly
<1>5. ASSUME NEW c \in Client, Write(c) \/ WriteChange(c) \/ GiveUp(c)
      PROVE  Ends(c)
  BY <1>5 DEF Write, WriteHold, WriteConfirm, WriteConfirmBlocked, WriteApprove, WriteReject,
              WriteCancel, WriteCreate, WriteReschedule, WriteUpdateDetails, WriteMarkNoShow,
              WriteRevertNoShow, WriteCreateBlock, WriteUpdateBlock, WriteCancelBlock, Puts,
              PutsBlock, WriteChange, WriteRequestChange, WriteCustomerCancel, WriteApproveChange,
              WriteRejectChange, WriteExpireDue, PutsRequests, GiveUp, Fails
<1>6. ASSUME NEW c \in Client, Admission(c) \/ EnterRequestChange(c) \/ EnterApproveChange(c)
      PROVE  tx' = tx
  BY <1>6 DEF Admission, EnterHold, EnterReschedule, EnterUpdateDetails, EnterCreateBlock,
              EnterUpdateBlock, EnterRequestChange, EnterApproveChange, Enter, Locks
<1>7. CASE Timer \/ getAdminBookingBoard \/ Tick \/ UNCHANGED vars
  BY <1>4, <1>7 DEF Timer, expireStaleHolds, getAdminBookingBoard, ExpiresHolds,
                    expirePastPending, Tick, vars
<1>8. QED
  BY <1>2, <1>3, <1>4, <1>5, <1>6, <1>7 DEF ChangeNext, BookingNext, ChangeStep

LEMMA CancelledInvStays ==
    ASSUME ChangeInv, SalonKeeps, CancelledInv, [ChangeNext]_vars
    PROVE  CancelledInv'
<1>1. bookings \in [Booking -> BookingRow] /\ tx \in [Client -> Transaction]
  BY DEF ChangeInv, IInv, TypeOK, ScheduleTypeOK
<1>2. CASE [BookingNext]_vars
  <2>1. CalendarStep
    BY <1>2, NextCalendar DEF ChangeInv
  <2>2. \A d \in Client : lock' = d /\ Running(d, "requestChange")' => lock = d /\ tx'[d] = tx[d]
    BY <2>1, OpsDiffer DEF CalendarStep, OwnHandlers, Running
  <2>3. AskedIsNotCancelled'
    <3> SUFFICES ASSUME NEW d \in Client, lock' = d, Running(d, "requestChange")'
                 PROVE  bookings'[tx'[d].subject].status # "CANCELLED"
      BY DEF AskedIsNotCancelled
    <3>1. lock = d /\ tx'[d] = tx[d] /\ Running(d, "requestChange")
      BY <2>2 DEF Running
    <3>2. tx[d].subject \in Booking /\ bookings[tx[d].subject].status # "CANCELLED"
      BY <3>1 DEF CancelledInv, AskedIsNotCancelled, ChangeInv, AskersOK, AskOps, Running
    <3>3. QED
      BY <1>2, <3>1, <3>2, NobodyElseCancels DEF ChangeInv
  <2>4. CancelledHasNoRequest'
    <3> SUFFICES ASSUME NEW r \in Request, Pending(r)
                 PROVE  bookings'[requests[r].booking].status # "CANCELLED"
      BY <2>1 DEF CalendarStep, CancelledHasNoRequest, Pending
    <3>1. requests[r].booking \in Booking
      BY DEF Pending, ChangeInv, RequestsOK
    <3>2. QED
      BY <1>2, <3>1, NobodyElseCancels DEF ChangeInv, CancelledInv, CancelledHasNoRequest
  <2>5. QED
    BY <2>3, <2>4 DEF CancelledInv
<1>3. ASSUME NEW c \in Client, BeginChange(c)
      PROVE  CancelledInv'
  <2>1. /\ tx[c] = Idle /\ \A d \in Client \ {c} : tx'[d] = tx[d]
        /\ UNCHANGED <<bookings, requests, lock>>
    BY <1>1, <1>3 DEF BeginChange, BeginRequestChange, BeginCustomerCancel, BeginApproveChange,
                      BeginRejectChange, BeginExpireDue, Starts
  <2>2. lock # c
    BY <2>1 DEF ChangeInv, IInv, LockOK
  <2>3. QED
    BY <2>1, <2>2 DEF CancelledInv, AskedIsNotCancelled, CancelledHasNoRequest, Pending, Running
<1>4. ASSUME NEW c \in Client, EnterRequestChange(c) \/ EnterApproveChange(c)
      PROVE  CancelledInv'
  BY <1>4 DEF EnterRequestChange, EnterApproveChange, Enter, Locks, RequestChangeAdmitted,
              Manageable, Mine, Id, CancelledInv, AskedIsNotCancelled, CancelledHasNoRequest,
              Pending, Running
<1>5. ASSUME NEW c \in Client, NEW rs, NEW status \in {"APPROVED", "REJECTED", "EXPIRED", "CANCELLED"},
             requests' = Marked(rs, status),
             \A b \in Booking : bookings'[b].status = bookings[b].status
      PROVE  CancelledHasNoRequest'
  <2>1. \A r \in Request :
           Pending(r)' => Pending(r) /\ requests'[r].booking = requests[r].booking
    BY <1>5, MarkedIs DEF Pending
  <2>2. QED
    BY <1>5, <2>1 DEF CancelledInv, CancelledHasNoRequest, Pending, ChangeInv, RequestsOK
<1>6. ASSUME NEW c \in Client, WriteRejectChange(c) \/ WriteExpireDue(c)
      PROVE  CancelledInv'
  <2>1. /\ bookings' = bookings /\ tx'[c] = Idle /\ \A d \in Client \ {c} : tx'[d] = tx[d]
        /\ \A d \in Client : lock' = d => lock = d /\ d # c
    BY <1>1, <1>6, NoneAssumption DEF WriteRejectChange, WriteExpireDue, PutsRequests, Ends, Unlocks
  <2>2. CancelledHasNoRequest'
    BY <1>5, <1>6, <2>1 DEF WriteRejectChange, WriteExpireDue, PutsRequests
  <2>3. QED
    BY <2>1, <2>2 DEF CancelledInv, AskedIsNotCancelled, Running
<1>7. ASSUME NEW c \in Client, WriteRequestChange(c)
      PROVE  CancelledInv'
  <2> DEFINE marked == Marked(Overdue(c), "EXPIRED")
  <2>1. PICK x \in Request : requests' = [marked EXCEPT ![x] = RequestedRow(c)]
    BY <1>7 DEF WriteRequestChange, PutsRequests
  <2>2. /\ marked \in [Request -> RequestRow]
        /\ \A r \in Request :
              /\ r \in Overdue(c) => marked[r].status = "EXPIRED"
              /\ r \notin Overdue(c) => marked[r] = requests[r]
    BY MarkedIs
  <2> HIDE DEF marked
  <2>3. bookings' = bookings /\ lock' = None
    BY <1>7 DEF WriteRequestChange, PutsRequests, Unlocks
  <2>4. bookings[Id(c)].status # "CANCELLED" /\ RequestedRow(c).booking = Id(c)
    BY <1>7 DEF WriteRequestChange, CancelledInv, AskedIsNotCancelled, Id, RequestedRow
  <2>5. CancelledHasNoRequest'
    BY <2>1, <2>2, <2>3, <2>4 DEF CancelledInv, CancelledHasNoRequest, Pending
  <2>6. QED
    BY <2>3, <2>5, NoneAssumption DEF CancelledInv, AskedIsNotCancelled
<1>8. ASSUME NEW c \in Client, WriteCustomerCancel(c)
      PROVE  CancelledInv'
  <2>1. lock' = None /\ requests' = Marked(PendingOf(Id(c)), "CANCELLED")
    BY <1>8 DEF WriteCustomerCancel, Puts, Unlocks, CanLock
  <2>2. \A r \in Request :
           Pending(r)' => /\ Pending(r) /\ r \notin PendingOf(Id(c))
                          /\ requests'[r].booking = requests[r].booking
    BY <2>1, MarkedIs DEF Pending
  <2>3. \A b \in Booking \ {Id(c)} : bookings'[b] = bookings[b]
    BY <1>1, <1>8 DEF WriteCustomerCancel, Puts
  <2>4. CancelledHasNoRequest'
    <3> SUFFICES ASSUME NEW r \in Request, Pending(r)'
                 PROVE  bookings'[requests'[r].booking].status # "CANCELLED"
      BY DEF CancelledHasNoRequest
    <3>1. Pending(r) /\ requests'[r].booking = requests[r].booking /\ requests[r].booking # Id(c)
      BY <2>2 DEF PendingOf
    <3>2. requests[r].booking \in Booking
      BY <3>1 DEF Pending, ChangeInv, RequestsOK
    <3>3. QED
      BY <2>3, <3>1, <3>2 DEF CancelledInv, CancelledHasNoRequest
  <2>5. QED
    BY <2>1, <2>4, NoneAssumption DEF CancelledInv, AskedIsNotCancelled
<1>9. ASSUME NEW c \in Client, WriteApproveChange(c)
      PROVE  CancelledInv'
  <2>1. lock' = None /\ requests' = Marked({Id(c)}, "APPROVED")
    BY <1>9 DEF WriteApproveChange, Puts, Unlocks
  <2>2. \A b \in Booking : bookings'[b].status = bookings[b].status
    BY <1>1, <1>9 DEF WriteApproveChange, Puts, ChangedRow, BookingRow
  <2>3. CancelledHasNoRequest'
    BY <1>5, <2>1, <2>2
  <2>4. QED
    BY <2>1, <2>3, NoneAssumption DEF CancelledInv, AskedIsNotCancelled
<1>10. QED
  BY <1>2, <1>3, <1>4, <1>6, <1>7, <1>8, <1>9 DEF ChangeNext, ChangeStep, WriteChange

LEMMA WorkloadInvariance == ChangeSpec => []WorkloadOnly
<1>1. Init => WorkloadOnly
  BY DEF Init, ScheduleInit, WorkloadOnly
<1>2. QED
  BY <1>1, ChangeInvariance, WorkloadStays, PTL DEF ChangeSpec

(* Where the salon does not cancel bookings by itself, a cancelled booking
   has no pending request left: a request that is on its way looks at the
   booking under the lock that the customer's cancellation takes too. *)
THEOREM CancellationsWithdrawRequests ==
    ASSUME "cancel" \notin Workload
    PROVE  ChangeSpec => []CancelledHasNoRequest
<1>1. WorkloadOnly => SalonKeeps
  BY DEF WorkloadOnly, SalonKeeps, Idle
<1>2. Init => CancelledInv
  BY NoneAssumption
     DEF Init, ScheduleInit, NoRequest, CancelledInv, AskedIsNotCancelled, CancelledHasNoRequest,
         Pending
<1>3. CancelledInv => CancelledHasNoRequest
  BY DEF CancelledInv
<1>4. QED
  BY <1>1, <1>2, <1>3, ChangeInvariance, WorkloadInvariance, CancelledInvStays, PTL DEF ChangeSpec

-----------------------------------------------------------------------------
(* Revisions, and what a cancellation announces *)

(* A revision never goes back, and a booking that moves takes a new one;
   what a confirmation that came too late has written over is excepted. *)
RevisionsGrow ==
    \A b \in Booking \ reopened' :
        bookings[b].status # "NONE" =>
            /\ bookings'[b].revision >= bookings[b].revision
            /\ bookings'[b].place # bookings[b].place
                  => bookings'[b].revision > bookings[b].revision

(* A customer who cancels knows the place, or the revision tells. *)
CancelKnowsRevision ==
    \A c \in Client :
        Running(c, "customerCancel") /\ tx[c].subject \notin reopened =>
            LET row == bookings[tx[c].subject]
            IN  /\ tx[c].revision <= row.revision
                /\ tx[c].revision = row.revision => row.place = tx[c].target

(* A handler is at work on what it began with until it ends. *)
LEMMA AskersAreTheirs ==
    ASSUME ChangeInv, [ChangeNext]_vars, NEW c \in Client, Running(c, "customerCancel")'
    PROVE  \/ tx'[c] = tx[c]
           \/ \E b \in Booking : BeginCustomerCancel(c, b)
<1>1. tx \in [Client -> Transaction]
  BY DEF ChangeInv, IInv, TypeOK, ScheduleTypeOK
<1>2. CASE [BookingNext]_vars
  <2>1. OwnHandlers
    BY <1>2, NextCalendar DEF ChangeInv, CalendarStep
  <2>2. QED
    BY <2>1, OpsDiffer DEF OwnHandlers, Running, AskOps
<1>3. ASSUME NEW d \in Client, BeginChange(d)
      PROVE  tx'[c] = tx[c] \/ \E b \in Booking : BeginCustomerCancel(c, b)
  <2>1. CASE \E b \in Booking : BeginCustomerCancel(d, b)
    BY <1>1, <2>1 DEF BeginCustomerCancel, Starts
  <2>2. CASE ~\E b \in Booking : BeginCustomerCancel(d, b)
    BY <1>1, <1>3, <2>2 DEF BeginChange, BeginRequestChange, BeginApproveChange,
                            BeginRejectChange, BeginExpireDue, Starts, Running
  <2>3. QED
    BY <2>1, <2>2
<1>4. ASSUME NEW d \in Client, EnterRequestChange(d) \/ EnterApproveChange(d)
      PROVE  tx' = tx
  BY <1>4 DEF EnterRequestChange, EnterApproveChange, Enter, Locks
<1>5. ASSUME NEW d \in Client, WriteChange(d)
      PROVE  tx'[c] = tx[c]
  BY <1>1, <1>5 DEF WriteChange, WriteRequestChange, WriteCustomerCancel, WriteApproveChange,
                    WriteRejectChange, WriteExpireDue, PutsRequests, Puts, Ends, Running, Idle
<1>6. QED
  BY <1>2, <1>3, <1>4, <1>5 DEF ChangeNext, ChangeStep

(* What has been reopened stays so. *)
LEMMA ReopenedGrows ==
    ASSUME [ChangeNext]_vars
    PROVE  reopened \subseteq reopened'
<1>1. ASSUME NEW c \in Client, Write(c)
      PROVE  reopened \subseteq reopened'
  BY <1>1 DEF Write, WriteHold, WriteConfirm, WriteConfirmBlocked, WriteApprove, WriteReject,
              WriteCancel, WriteCreate, WriteReschedule, WriteUpdateDetails, WriteMarkNoShow,
              WriteRevertNoShow, WriteCreateBlock, WriteUpdateBlock, WriteCancelBlock, PutsBlock,
              NotesReopening
<1>2. ASSUME NEW c \in Client, WriteChange(c)
      PROVE  reopened' = reopened
  BY <1>2 DEF WriteChange, WriteRequestChange, WriteCustomerCancel, WriteApproveChange,
              WriteRejectChange, WriteExpireDue, PutsRequests
<1>3. ASSUME NEW c \in Client, BeginChange(c) \/ EnterRequestChange(c) \/ EnterApproveChange(c)
      PROVE  reopened' = reopened
  BY <1>3 DEF BeginChange, BeginRequestChange, BeginCustomerCancel, BeginApproveChange,
              BeginRejectChange, BeginExpireDue, Starts, EnterRequestChange, EnterApproveChange,
              Enter, Locks
<1>4. ASSUME NEW c \in Client, Begin(c) \/ Admission(c) \/ GiveUp(c)
      PROVE  reopened' = reopened
  BY <1>4 DEF Begin, BeginHold, BeginConfirm, BeginApprove, BeginReject, BeginCancel, BeginCreate,
              BeginReschedule, BeginUpdateDetails, BeginMarkNoShow, BeginRevertNoShow,
              BeginCreateBlock, BeginUpdateBlock, BeginCancelBlock, Starts, Admission, EnterHold,
              EnterReschedule, EnterUpdateDetails, EnterCreateBlock, EnterUpdateBlock, Enter,
              Locks, GiveUp, Fails
<1>5. CASE Timer \/ getAdminBookingBoard \/ Tick \/ UNCHANGED vars
  BY <1>5 DEF Timer, expireStaleHolds, getAdminBookingBoard, ExpiresHolds, expirePastPending,
              Tick, vars
<1>6. QED
  BY <1>1, <1>2, <1>3, <1>4, <1>5 DEF ChangeNext, BookingNext, ChangeStep

LEMMA CancelKnowledgeStays ==
    ASSUME ChangeInv, CancelKnowsRevision, [ChangeNext]_vars, [RevisionsGrow]_vars
    PROVE  CancelKnowsRevision'
<1> SUFFICES ASSUME NEW c \in Client, Running(c, "customerCancel")',
                    tx'[c].subject \notin reopened'
             PROVE  LET row == bookings'[tx'[c].subject]
                    IN  /\ tx'[c].revision <= row.revision
                        /\ tx'[c].revision = row.revision => row.place = tx'[c].target
  BY DEF CancelKnowsRevision
<1>1. /\ bookings \in [Booking -> BookingRow] /\ bookings' \in [Booking -> BookingRow]
      /\ tx \in [Client -> Transaction]
  BY ChangeNextInv DEF ChangeInv, IInv, TypeOK, ScheduleTypeOK
<1>2. ASSUME NEW b \in Booking, BeginCustomerCancel(c, b)
      PROVE  /\ tx'[c].subject = b /\ tx'[c].target = bookings'[b].place
             /\ tx'[c].revision = bookings'[b].revision
  BY <1>1, <1>2 DEF BeginCustomerCancel, Starts
<1>3. CASE \E b \in Booking : BeginCustomerCancel(c, b)
  BY <1>1, <1>2, <1>3 DEF BookingRow
<1>4. CASE tx'[c] = tx[c]
  <2> DEFINE b == tx[c].subject
  <2>1. /\ b \in Booking \ reopened' /\ bookings[b].status # "NONE"
        /\ tx[c].revision <= bookings[b].revision
        /\ tx[c].revision = bookings[b].revision => bookings[b].place = tx[c].target
    BY <1>4, ReopenedGrows DEF Running, ChangeInv, AskersOK, AskOps, CancelKnowsRevision
  <2>2. /\ bookings'[b].revision >= bookings[b].revision
        /\ bookings'[b].place # bookings[b].place => bookings'[b].revision > bookings[b].revision
    BY <1>1, <2>1 DEF RevisionsGrow, vars, BookingRow
  <2>3. /\ tx[c].revision \in Nat /\ bookings[b].revision \in Nat /\ bookings'[b].revision \in Nat
    BY <1>1, <2>1 DEF Transaction, BookingRow
  <2>4. QED
    BY <1>4, <2>1, <2>2, <2>3
<1>5. QED
  BY <1>3, <1>4, AskersAreTheirs

LEMMA CancellationStep ==
    ASSUME ChangeInv, SalonKeeps, CancelKnowsRevision, [ChangeNext]_vars,
           NEW b \in Booking \ reopened,
           bookings[b].status # "CANCELLED", bookings'[b].status = "CANCELLED"
    PROVE  \E e \in recovery' \ recovery : e.source = b /\ e.place = bookings[b].place
<1>1. bookings \in [Booking -> BookingRow]
  BY DEF ChangeInv, IInv, TypeOK, ScheduleTypeOK
<1>2. ~[BookingNext]_vars
  BY NobodyElseCancels DEF ChangeInv
<1>3. ASSUME NEW c \in Client,
             \/ BeginChange(c) \/ EnterRequestChange(c) \/ EnterApproveChange(c)
             \/ WriteRequestChange(c) \/ WriteRejectChange(c) \/ WriteExpireDue(c)
      PROVE  FALSE
  BY <1>3 DEF BeginChange, BeginRequestChange, BeginCustomerCancel, BeginApproveChange,
              BeginRejectChange, BeginExpireDue, Starts, EnterRequestChange, EnterApproveChange,
              Enter, Locks, WriteRequestChange, WriteRejectChange, WriteExpireDue, PutsRequests
<1>4. ASSUME NEW c \in Client, WriteApproveChange(c)
      PROVE  FALSE
  BY <1>1, <1>4 DEF WriteApproveChange, Puts, ChangedRow, BookingRow
<1>5. ASSUME NEW c \in Client, WriteCustomerCancel(c)
      PROVE  \E e \in recovery' \ recovery : e.source = b /\ e.place = bookings[b].place
  <2>1. b = Id(c)
    BY <1>1, <1>5 DEF WriteCustomerCancel, Puts
  <2>2. bookings[b].place = tx[c].target
    BY <1>5, <2>1 DEF WriteCustomerCancel, RevisionIsCurrent, Mine, Id, CancelKnowsRevision
  <2> DEFINE e == Freed("BOOKING_CANCELLATION", Id(c), 0, tx[c].target)
  <2>3. e.source = b /\ e.place = bookings[b].place
    BY <2>1, <2>2 DEF Freed
  <2>4. e \in recovery' /\ e \notin recovery
    BY <1>5 DEF WriteCustomerCancel, Announces, Announced
  <2>5. QED
    BY <2>3, <2>4
<1>6. QED
  BY <1>2, <1>3, <1>4, <1>5 DEF ChangeNext, ChangeStep, WriteChange

(* As long as every booking that moves takes a new revision, and revisions
   do not go back, a customer's cancellation announces exactly the slot the
   booking takes up at that moment, however often it was moved since the
   handler has read it. *)
THEOREM CancellationsAreAnnounced ==
    ASSUME "cancel" \notin Workload
    PROVE  ChangeSpec /\ [][RevisionsGrow]_vars => CancellationAnnounced
<1>1. WorkloadOnly => SalonKeeps
  BY DEF WorkloadOnly, SalonKeeps, Idle
<1>2. Init => CancelKnowsRevision
  BY DEF Init, ScheduleInit, CancelKnowsRevision, Running, Idle
<1>3. ChangeInv /\ SalonKeeps /\ CancelKnowsRevision /\ [ChangeNext]_vars =>
        [\A b \in Booking \ reopened :
            bookings[b].status # "CANCELLED" /\ bookings'[b].status = "CANCELLED"
                => \E e \in recovery' \ recovery :
                      e.source = b /\ e.place = bookings[b].place]_vars
  BY CancellationStep
<1>4. QED
  BY <1>1, <1>2, <1>3, ChangeInvariance, WorkloadInvariance, CancelKnowledgeStays, PTL
     DEF ChangeSpec, CancellationAnnounced

-----------------------------------------------------------------------------
(* Why revisions grow *)

(* Whoever else may write a booking on the way to the commit of a move: the
   salon's cancellation and its marks, by id and without the lock; and the
   approval of a change, which takes bookings too that are still waiting for
   the salon and may be decided meanwhile. *)
Unnumbered == {"cancel", "markNoShow", "revertNoShow", "approveChange"}

(* A booking that moves is confirmed, and the revision the mover has read
   under the lock is still there. *)
MoverKnowsRevision(c) ==
    Running(c, "reschedule") /\ tx[c].subject \notin reopened =>
        /\ bookings[tx[c].subject].status = "CONFIRMED"
        /\ bookings[tx[c].subject].revision = tx[c].revision

NumberInv == \A c \in Client : lock = c => MoverKnowsRevision(c)

(* No booking moves, and what is confirmed stays so, with its revision. *)
NumbersKept ==
    \A b \in Booking \ reopened' : bookings[b].status # "NONE" =>
        /\ bookings'[b].place = bookings[b].place
        /\ bookings'[b].revision >= bookings[b].revision
        /\ bookings[b].status = "CONFIRMED" =>
              bookings'[b].status = "CONFIRMED" /\ bookings'[b].revision = bookings[b].revision

(* A step that takes a confirmed booking's next revision ends a transaction
   that held the lock. *)
NumberStep == NumbersKept \/ (RevisionsGrow /\ lock' = None)

(* The handlers without the lock write what is not confirmed. *)
LEMMA UnlockedNumbers ==
    ASSUME bookings \in [Booking -> BookingRow], NEW b \in Booking, NEW row \in BookingRow,
           bookings' = [bookings EXCEPT ![b] = row],
           b \in reopened' \/ bookings[b].status # "CONFIRMED",
           row.place = bookings[b].place, row.revision >= bookings[b].revision
    PROVE  NumberStep
<1>1. \A a \in Booking : bookings[a].revision \in Nat
  BY DEF BookingRow
<1>2. QED
  BY <1>1 DEF NumberStep, NumbersKept

LEMMA NextRevision ==
    ASSUME bookings \in [Booking -> BookingRow], NEW b \in Booking, NEW row \in BookingRow,
           bookings' = [bookings EXCEPT ![b] = row],
           b \in reopened' \/ row.revision = bookings[b].revision + 1
    PROVE  RevisionsGrow
<1>1. \A a \in Booking : bookings[a].revision \in Nat /\ row.revision \in Nat
  BY DEF BookingRow
<1>2. QED
  BY <1>1 DEF RevisionsGrow

LEMMA WriteNumbers ==
    ASSUME ChangeInv, NumberInv, NEW c \in Client, tx[c].op \notin Unnumbered, Write(c)
    PROVE  NumberStep
<1>1. /\ bookings \in [Booking -> BookingRow] /\ NoBooking \in BookingRow
      /\ bookings' \in [Booking -> BookingRow] /\ tx[c] \in Transaction /\ Base
  <2>1. ChangeInv'
    BY ChangeNextInv DEF ChangeNext, BookingNext
  <2>2. QED
    BY <2>1, NoBookingType DEF ChangeInv, IInv, TypeOK, ScheduleTypeOK, Base
<1>2. CASE WriteHold(c) \/ WriteCreate(c)
  <2>1. Id(c) \in Booking /\ bookings[Id(c)].status = "NONE"
    BY <1>1, <1>2 DEF WriteHold, WriteCreate, Running, Base, HandlerOK, CreateOps, Id
  <2>2. \A a \in Booking \ {Id(c)} : bookings'[a] = bookings[a]
    BY <1>1, <1>2 DEF WriteHold, WriteCreate, Puts
  <2>3. QED
    BY <1>1, <2>1, <2>2 DEF NumberStep, NumbersKept, BookingRow
<1>3. CASE \/ WriteCreateBlock(c) \/ WriteUpdateBlock(c) \/ WriteCancelBlock(c)
  BY <1>1, <1>3 DEF WriteCreateBlock, WriteUpdateBlock, WriteCancelBlock, PutsBlock, NumberStep,
                    NumbersKept, BookingRow
<1>4. CASE WriteCancel(c) \/ WriteMarkNoShow(c) \/ WriteRevertNoShow(c)
  BY <1>4 DEF WriteCancel, WriteMarkNoShow, WriteRevertNoShow, Running, Unnumbered
<1>5. CASE WriteApprove(c) \/ WriteReject(c)
  <2> DEFINE approved == [Mine(c) EXCEPT !.status = "CONFIRMED", !.visit = "SCHEDULED",
                                         !.revision = @ + 1]
             rejected == [Mine(c) EXCEPT !.status = "REJECTED", !.revision = @ + 1]
  <2>1. Id(c) \in Booking
    BY <1>1, <1>5, Existing DEF WriteApprove, WriteReject, Running, ExistingOps
  <2>2. /\ approved \in BookingRow /\ rejected \in BookingRow
        /\ \A row \in {approved, rejected} :
              row.place = Mine(c).place /\ row.revision >= Mine(c).revision
    <3>1. Mine(c) \in BookingRow /\ Mine(c).revision \in Nat
      BY <1>1, <2>1 DEF Mine, BookingRow
    <3>2. PICK r : r = Mine(c)
      OBVIOUS
    <3>3. /\ approved = [r EXCEPT !.status = "CONFIRMED", !.visit = "SCHEDULED",
                                     !.revision = @ + 1]
          /\ rejected = [r EXCEPT !.status = "REJECTED", !.revision = @ + 1]
      BY <3>2
    <3>4. r \in BookingRow /\ r.revision + 1 \in Nat
      BY <3>1, <3>2
    <3>5. /\ {"place", "status", "visit", "revision"} \subseteq DOMAIN r
          /\ "CONFIRMED" \in Status /\ "REJECTED" \in Status
      BY <3>4 DEF BookingRow, Status
    <3>6. /\ approved \in BookingRow /\ rejected \in BookingRow
          /\ approved.place = r.place /\ approved.revision = r.revision + 1
          /\ rejected.place = r.place /\ rejected.revision = r.revision + 1
      <4> HIDE DEF approved, rejected
      <4>1. approved \in BookingRow
        BY <3>3, <3>4, <3>5 DEF BookingRow
      <4>2. rejected \in BookingRow
        BY <3>3, <3>4, <3>5 DEF BookingRow
      <4>3. QED
        BY <3>3, <3>5, <4>1, <4>2
    <3> HIDE DEF approved, rejected
    <3>7. r.revision \in Nat /\ r.place = Mine(c).place /\ r.revision = Mine(c).revision
      BY <3>1, <3>2
    <3>8. /\ approved.place = Mine(c).place /\ approved.revision >= Mine(c).revision
          /\ rejected.place = Mine(c).place /\ rejected.revision >= Mine(c).revision
      BY <3>6, <3>7
    <3>9. QED
      BY <3>6, <3>8
  <2>3. /\ bookings[Id(c)].status # "CONFIRMED"
        /\ \E row \in {approved, rejected} : bookings' = [bookings EXCEPT ![Id(c)] = row]
    BY <1>5 DEF WriteApprove, WriteReject, Undecided, Mine, Puts
  <2> HIDE DEF approved, rejected
  <2>4. QED
    BY <1>1, <2>1, <2>2, <2>3, UnlockedNumbers DEF Mine
<1>6. CASE WriteReschedule(c)
  <2>1. /\ Id(c) \in Booking /\ lock' = None /\ reopened' = reopened
        /\ bookings' = [bookings EXCEPT ![Id(c)] = MovedRow(c)]
    BY <1>1, <1>6, Existing DEF WriteReschedule, Running, ExistingOps, Puts, Unlocks
  <2>2. Id(c) \in reopened \/ tx[c].revision = Mine(c).revision
    BY <1>6 DEF WriteReschedule, NumberInv, MoverKnowsRevision, Mine, Id
  <2>3. MovedRow(c) \in BookingRow
    BY <1>1, <2>1
  <2>4. Id(c) \in reopened' \/ MovedRow(c).revision = bookings[Id(c)].revision + 1
    BY <1>1, <2>1, <2>2 DEF MovedRow, Mine, BookingRow
  <2>5. QED
    BY <1>1, <2>1, <2>3, <2>4, NextRevision DEF NumberStep
<1>7. CASE WriteUpdateDetails(c)
  <2> DEFINE row == [Mine(c) EXCEPT !.revision = @ + 1]
  <2>1. /\ Id(c) \in Booking /\ lock' = None
        /\ bookings' = [bookings EXCEPT ![Id(c)] = row]
    BY <1>1, <1>7, Existing DEF WriteUpdateDetails, Running, ExistingOps, Puts, Unlocks
  <2>2. row.revision = bookings[Id(c)].revision + 1
    BY <1>1, <2>1 DEF Mine, BookingRow
  <2> HIDE DEF row
  <2>3. row \in BookingRow
    BY <1>1, <2>1
  <2>4. QED
    BY <1>1, <2>1, <2>2, <2>3, NextRevision DEF NumberStep
<1>8. CASE WriteConfirm(c) \/ WriteConfirmBlocked(c)
  <2>1. Id(c) \in Booking /\ Mine(c) \in BookingRow
    BY <1>1, <1>8, Existing DEF WriteConfirm, WriteConfirmBlocked, Running, ExistingOps, Mine
  <2>2. Id(c) \in reopened' \/ Mine(c).status # "CONFIRMED"
    BY <1>1, <1>8, <2>1, ReopeningType DEF WriteConfirm, WriteConfirmBlocked, Decided, Mine
  <2>3. /\ ConfirmedRow(c) \in BookingRow /\ ReleasedRow(c) \in BookingRow
        /\ \A row \in {ConfirmedRow(c), ReleasedRow(c)} :
              row.place = Mine(c).place /\ row.revision >= Mine(c).revision
    <3>1. Mine(c).revision \in Nat
      BY <2>1 DEF BookingRow
    <3>2. ConfirmedRow(c) \in BookingRow /\ ReleasedRow(c) \in BookingRow
      BY <2>1 DEF ConfirmedRow, ReleasedRow, BookingRow, Status
    <3>3. /\ ConfirmedRow(c).place = Mine(c).place /\ ConfirmedRow(c).revision = Mine(c).revision
          /\ ReleasedRow(c).place = Mine(c).place /\ ReleasedRow(c).revision = Mine(c).revision
      BY <2>1 DEF ConfirmedRow, ReleasedRow, BookingRow
    <3>4. QED
      BY <3>1, <3>2, <3>3
  <2>4. \E row \in {ConfirmedRow(c), ReleasedRow(c)} : bookings' = [bookings EXCEPT ![Id(c)] = row]
    BY <1>8 DEF WriteConfirm, WriteConfirmBlocked, Puts
  <2>5. QED
    BY <1>1, <2>1, <2>2, <2>3, <2>4, UnlockedNumbers DEF Mine
<1>9. QED
  BY <1>2, <1>3, <1>4, <1>5, <1>6, <1>7, <1>8 DEF Write

LEMMA CustomerCancelNumbers ==
    ASSUME ChangeInv, NEW c \in Client, WriteCustomerCancel(c)
    PROVE  NumberStep
<1> DEFINE row == [Mine(c) EXCEPT !.status = "CANCELLED", !.revision = @ + 1]
<1>1. /\ bookings \in [Booking -> BookingRow] /\ bookings' \in [Booking -> BookingRow]
      /\ Id(c) \in Booking
  <2>1. ChangeInv'
    BY ChangeNextInv DEF ChangeNext, ChangeStep, WriteChange
  <2>2. QED
    BY <2>1 DEF ChangeInv, IInv, TypeOK, ScheduleTypeOK, WriteCustomerCancel, Running, AskersOK,
                AskOps, Id
<1>2. lock' = None /\ bookings' = [bookings EXCEPT ![Id(c)] = row]
  BY DEF WriteCustomerCancel, Puts, Unlocks, CanLock
<1>3. row.revision = bookings[Id(c)].revision + 1
  BY <1>1 DEF Mine, BookingRow
<1> HIDE DEF row
<1>4. row \in BookingRow
  BY <1>1, <1>2
<1>5. QED
  BY <1>1, <1>2, <1>3, <1>4, NextRevision DEF NumberStep

LEMMA NumbersStep ==
    ASSUME ChangeInv, NumberInv, \A c \in Client : tx[c].op \notin Unnumbered, [ChangeNext]_vars
    PROVE  NumberStep
<1>1. bookings \in [Booking -> BookingRow]
  BY DEF ChangeInv, IInv, TypeOK, ScheduleTypeOK
<1>2. CASE bookings' = bookings
  BY <1>1, <1>2 DEF NumberStep, NumbersKept, BookingRow
<1>3. CASE ExpiresHolds
  BY <1>1, <1>3 DEF ExpiresHolds, StaleHold, BookingRow, NumberStep, NumbersKept
<1>4. ASSUME NEW b \in Booking, expirePastPending(b)
      PROVE  NumberStep
  BY <1>1, <1>4 DEF expirePastPending, PastPending, BookingRow, NumberStep, NumbersKept
<1>5. ASSUME NEW c \in Client,
             \/ BeginChange(c) \/ EnterRequestChange(c) \/ EnterApproveChange(c)
             \/ WriteRequestChange(c) \/ WriteRejectChange(c) \/ WriteExpireDue(c)
      PROVE  bookings' = bookings
  BY <1>5 DEF BeginChange, BeginRequestChange, BeginCustomerCancel, BeginApproveChange,
              BeginRejectChange, BeginExpireDue, Starts, EnterRequestChange, EnterApproveChange,
              Enter, Locks, WriteRequestChange, WriteRejectChange, WriteExpireDue, PutsRequests
<1>6. ASSUME NEW c \in Client, WriteApproveChange(c)
      PROVE  FALSE
  BY <1>6 DEF WriteApproveChange, Running, Unnumbered
<1>7. QED
  BY <1>2, <1>3, <1>4, <1>5, <1>6, StepsWithoutWrites, WriteNumbers, CustomerCancelNumbers
     DEF ChangeNext, BookingNext, ChangeStep, WriteChange, Timer, expireStaleHolds,
         getAdminBookingBoard, Tick, vars

(* Whoever has the lock after a step had it before, or has just been
   admitted. *)
LEMMA LockTaken ==
    ASSUME ChangeInv, [ChangeNext]_vars, NEW c \in Client, lock' = c
    PROVE  /\ tx'[c] = tx[c]
           /\ \/ lock = c
              \/ EnterReschedule(c)
              \/ tx[c].op # "reschedule"
<1>1. tx \in [Client -> Transaction] /\ c # None
  BY NoneAssumption DEF ChangeInv, IInv, TypeOK, ScheduleTypeOK
<1>2. ASSUME NEW d \in Client, Admission(d) \/ EnterRequestChange(d) \/ EnterApproveChange(d)
      PROVE  /\ tx' = tx /\ d = c
             /\ EnterReschedule(d) \/ tx[d].op # "reschedule"
  BY <1>2 DEF Admission, EnterHold, EnterReschedule, EnterUpdateDetails, EnterCreateBlock,
              EnterUpdateBlock, EnterRequestChange, EnterApproveChange, Enter, Locks, Running
<1>3. ASSUME NEW d \in Client, Begin(d) \/ BeginChange(d)
      PROVE  lock' = lock /\ tx[d] = Idle /\ \A x \in Client \ {d} : tx'[x] = tx[x]
  <2>1. \E op, subject, target, revision, override :
           Starts(d, op, subject, target, revision, override)
    BY <1>3 DEF Begin, BeginHold, BeginConfirm, BeginApprove, BeginReject, BeginCancel, BeginCreate,
                BeginReschedule, BeginUpdateDetails, BeginMarkNoShow, BeginRevertNoShow,
                BeginCreateBlock, BeginUpdateBlock, BeginCancelBlock, BeginChange,
                BeginRequestChange, BeginCustomerCancel, BeginApproveChange, BeginRejectChange,
                BeginExpireDue
  <2>2. QED
    BY <1>1, <2>1 DEF Starts
<1>4. ASSUME NEW d \in Client, Write(d) \/ WriteChange(d) \/ GiveUp(d)
      PROVE  Ends(d) /\ Unlocks(d)
  BY <1>4 DEF Write, WriteHold, WriteConfirm, WriteConfirmBlocked, WriteApprove, WriteReject,
              WriteCancel, WriteCreate, WriteReschedule, WriteUpdateDetails, WriteMarkNoShow,
              WriteRevertNoShow, WriteCreateBlock, WriteUpdateBlock, WriteCancelBlock, Puts,
              PutsBlock, WriteChange, WriteRequestChange, WriteCustomerCancel, WriteApproveChange,
              WriteRejectChange, WriteExpireDue, PutsRequests, GiveUp, Fails
<1>5. CASE \E d \in Client : Begin(d) \/ BeginChange(d)
  BY <1>3, <1>5 DEF ChangeInv, IInv, LockOK
<1>6. CASE \E d \in Client : Write(d) \/ WriteChange(d) \/ GiveUp(d)
  BY <1>1, <1>4, <1>6 DEF Ends, Unlocks
<1>7. CASE Timer \/ getAdminBookingBoard \/ Tick \/ UNCHANGED vars
  BY <1>7 DEF Timer, expireStaleHolds, getAdminBookingBoard, ExpiresHolds, expirePastPending,
              Tick, vars
<1>8. QED
  BY <1>2, <1>5, <1>6, <1>7 DEF ChangeNext, BookingNext, ChangeStep

LEMMA NumbersStay ==
    ASSUME ChangeInv, NumberInv, \A c \in Client : tx[c].op \notin Unnumbered, [ChangeNext]_vars
    PROVE  NumberInv' /\ RevisionsGrow
<1>1. NumberStep
  BY NumbersStep
<1>2. RevisionsGrow
  BY <1>1 DEF NumberStep, NumbersKept, RevisionsGrow, ChangeInv, IInv, TypeOK, ScheduleTypeOK,
              BookingRow
<1>3. ASSUME NEW c \in Client, lock' = c
      PROVE  MoverKnowsRevision(c)'
  <2>1. NumbersKept
    BY <1>1, <1>3, NoneAssumption DEF NumberStep
  <2>2. tx'[c] = tx[c]
    BY <1>3, LockTaken
  <2>3. CASE tx[c].op # "reschedule" \/ tx[c].subject \in reopened'
    BY <2>2, <2>3 DEF MoverKnowsRevision, Running
  <2>4. CASE Running(c, "reschedule") /\ tx[c].subject \notin reopened'
    <3>1. tx[c].subject \in Booking \ reopened' /\ tx[c].subject \notin reopened
      BY <2>4, ReopenedGrows DEF Running, ChangeInv, IInv, HandlerOK, ExistingOps
    <3>2. MoverKnowsRevision(c)
      <4>1. CASE lock = c
        BY <4>1 DEF NumberInv
      <4>2. CASE EnterReschedule(c)
        BY <4>2 DEF EnterReschedule, Enter, RescheduleAdmitted, RevisionIsCurrent, Mine, Id,
                    Running, MoverKnowsRevision
      <4>3. QED
        BY <1>3, <2>4, <4>1, <4>2, LockTaken DEF Running
    <3>3. QED
      BY <2>1, <2>2, <2>4, <3>1, <3>2 DEF NumbersKept, MoverKnowsRevision, Running
  <2>5. QED
    BY <2>3, <2>4 DEF Running
<1>4. QED
  BY <1>2, <1>3 DEF NumberInv

(* Holds and their confirmation, the salon's approvals and rejections, its
   own bookings, moves and edits, requests for another time, the customer's
   cancellation and the sweeps keep revisions growing, in every
   interleaving: whoever works without the lock writes only what is not
   confirmed, and a move only what is.  With the handlers of Unnumbered at
   work too they do not: a mark of the salon between the check of a move
   and its commit takes the revision the move then writes again. *)
THEOREM RevisionsKeepGrowing ==
    ASSUME Workload \cap Unnumbered = {}
    PROVE  ChangeSpec => [][RevisionsGrow]_vars
<1>1. WorkloadOnly => \A c \in Client : tx[c].op \notin Unnumbered
  BY DEF WorkloadOnly, Unnumbered, Idle
<1>2. Init => NumberInv
  BY NoneAssumption DEF Init, ScheduleInit, NumberInv
<1>3. ChangeInv /\ WorkloadOnly /\ NumberInv /\ [ChangeNext]_vars => NumberInv' /\ [RevisionsGrow]_vars
  BY <1>1, NumbersStay
<1>4. QED
  BY <1>2, <1>3, ChangeInvariance, WorkloadInvariance, PTL DEF ChangeSpec

(* Under that workload the customer's cancellation therefore announces the
   slot the booking takes up when it is cancelled, with bookings confirmed,
   approved, rejected, moved and edited all around it. *)
THEOREM CancellationsKnowThePlace ==
    ASSUME Workload \cap Unnumbered = {}
    PROVE  ChangeSpec => CancellationAnnounced
<1>1. "cancel" \notin Workload
  BY DEF Unnumbered
<1>2. QED
  BY <1>1, RevisionsKeepGrowing, CancellationsAreAnnounced, PTL

-----------------------------------------------------------------------------
(* The page of an appointment: AccountVisit *)

(* A row that is known stays known while revisions only grow. *)
LEMMA VisitCallStays ==
    ASSUME Visit!VisitInv, Visit!VisitsMoveOn, NEW c, Visit!CallKnows(c)
    PROVE  Visit!CallKnows(c)'
<1>1. \A v \in Visit!Visit, r \in Nat : \A p : Visit!Knows(v, r, p) => Visit!Knows(v, r, p)'
  BY DEF Visit!Knows, Visit!VisitsMoveOn, Visit!VisitInv, Visit!VisitRow
<1>2. QED
  BY <1>1 DEF Visit!CallKnows, Visit!KnowsRow

LEMMA VisitShownStays ==
    ASSUME Visit!VisitInv, Visit!VisitsMoveOn, NEW s, Visit!KnowsRow(s)
    PROVE  Visit!KnowsRow(s)'
<1>1. \A v \in Visit!Visit, r \in Nat : \A p : Visit!Knows(v, r, p) => Visit!Knows(v, r, p)'
  BY DEF Visit!Knows, Visit!VisitsMoveOn, Visit!VisitInv, Visit!VisitRow
<1>2. QED
  BY <1>1 DEF Visit!KnowsRow

(* Nothing that happens to a call but its answer touches what it knows. *)
LEMMA VisitCallMarked ==
    ASSUME NEW c, Visit!CallKnows(c)
    PROVE  Visit!CallKnows([c EXCEPT !.orphan = TRUE])
  BY DEF Visit!CallKnows

LEMMA VisitCallAnswered ==
    ASSUME NEW c, Visit!CallKnows(c), NEW result,
           c.kind = "load" => Visit!KnowsRow(result)
    PROVE  Visit!CallKnows([c EXCEPT !.done = TRUE, !.result = result])
  BY DEF Visit!CallKnows

LEMMA VisitCallMade ==
    ASSUME NEW kind, NEW v \in Visit!Visit, NEW input, Visit!VisitInv,
           kind = "change" =>
              /\ {"revision", "seen"} \subseteq DOMAIN input /\ input.revision \in Nat
              /\ Visit!Knows(v, input.revision, input.seen)
    PROVE  /\ Visit!CallKnows(Visit!Call(kind, v, input))
           /\ Visit!CallKnows([Visit!Call(kind, v, input) EXCEPT !.orphan = TRUE])
  BY DEF Visit!CallKnows, Visit!Call, Visit!VisitInv

LEMMA VisitOrphansKnow ==
    ASSUME Visit!VisitInv
    PROVE  \A c \in Visit!Orphans : Visit!CallKnows(c)
<1>1. \A c \in calls : Visit!CallKnows(c)
  BY DEF Visit!VisitInv
<1>2. QED
  BY <1>1, VisitCallMarked DEF Visit!Orphans

(* A step keeps the invariant if every call it adds, and what it shows, is
   known. *)
LEMMA VisitKeeps ==
    ASSUME Visit!VisitInv, Visit!VisitsMoveOn, address' \in Visit!Visit,
           shown' = shown \/ Visit!KnowsRow(shown'),
           \A c \in calls' : c \in calls \/ Visit!CallKnows(c)
    PROVE  Visit!VisitInv'
<1>1. \A c \in calls' : Visit!CallKnows(c)
  BY DEF Visit!VisitInv
<1>2. \A c \in calls' : Visit!CallKnows(c)'
  BY <1>1, VisitCallStays
<1>3. (shown # None => Visit!KnowsRow(shown))'
  <2>1. ASSUME shown' # None PROVE Visit!KnowsRow(shown')
    BY <2>1 DEF Visit!VisitInv
  <2>2. \A v \in Visit!Visit, r \in Nat : \A p : Visit!Knows(v, r, p) => Visit!Knows(v, r, p)'
    BY DEF Visit!Knows, Visit!VisitsMoveOn, Visit!VisitInv, Visit!VisitRow
  <2>3. QED
    BY <2>1, <2>2 DEF Visit!KnowsRow, Visit!Knows
<1>4. (\A c \in calls : Visit!CallKnows(c))'
  BY <1>2
<1>5. (visits = [v \in Visit!Visit |-> visits[v]] /\ \A v \in Visit!Visit : Visit!VisitRow(visits[v]))'
  BY DEF Visit!VisitsMoveOn, Visit!VisitRow
<1>6. QED
  BY <1>3, <1>4, <1>5 DEF Visit!VisitInv

LEMMA VisitsStay ==
    ASSUME Visit!VisitInv, UNCHANGED visits
    PROVE  Visit!VisitsMoveOn
  BY DEF Visit!VisitInv, Visit!VisitsMoveOn, Visit!VisitRow

(* The server answers a call: only a load brings a row. *)
LEMMA VisitAnswered ==
    ASSUME Visit!VisitInv, Visit!VisitsMoveOn, NEW c \in calls, NEW result,
           c.kind = "load" => Visit!KnowsRow(result),
           Visit!Replies(c, result), Visit!ServerOnly
    PROVE  Visit!VisitInv'
<1>1. Visit!CallKnows([c EXCEPT !.done = TRUE, !.result = result])
  BY VisitCallAnswered DEF Visit!VisitInv
<1>2. \A d \in calls' : d \in calls \/ Visit!CallKnows(d)
  BY <1>1 DEF Visit!Replies
<1>3. address' = address /\ shown' = shown
  BY DEF Visit!ServerOnly, Visit!Page
<1>4. address' \in Visit!Visit
  BY <1>3 DEF Visit!VisitInv
<1>5. QED
  BY <1>2, <1>3, <1>4, VisitKeeps

(* Whoever changes a row takes the next revision. *)
LEMMA VisitRowMovesOn ==
    ASSUME NEW row, Visit!VisitRow(row), NEW status, NEW place
    PROVE  LET new == [row EXCEPT !.status = status, !.place = place, !.revision = @ + 1]
               closed == [row EXCEPT !.status = status, !.revision = @ + 1]
           IN  /\ Visit!VisitRow(new) /\ new.revision > row.revision
               /\ Visit!VisitRow(closed) /\ closed.revision > row.revision
  BY DEF Visit!VisitRow

LEMMA VisitOneMovesOn ==
    ASSUME Visit!VisitInv, NEW v \in Visit!Visit, NEW row, Visit!VisitRow(row),
           row.revision > visits[v].revision, visits' = [visits EXCEPT ![v] = row]
    PROVE  Visit!VisitsMoveOn
  BY DEF Visit!VisitInv, Visit!VisitsMoveOn

LEMMA VisitAnswers ==
    ASSUME Visit!VisitInv, NEW c \in calls, Visit!Answers(c)
    PROVE  Visit!VisitInv'
<1>0. Visit!ServerOnly /\ Visit!CallKnows(c)
  BY DEF Visit!Answers, Visit!VisitInv
<1>1. CASE Visit!booking(c)
  <2>1. Visit!VisitsMoveOn
    BY <1>1, VisitsStay DEF Visit!booking
  <2>2. Visit!KnowsRow([id |-> c.visit, row |-> visits[c.visit]])
    BY <1>0 DEF Visit!KnowsRow, Visit!Knows, Visit!VisitInv, Visit!VisitRow, Visit!CallKnows
  <2>3. QED
    BY <1>0, <1>1, <2>1, <2>2, VisitAnswered DEF Visit!booking
<1>2. CASE Visit!availability(c) \/ Visit!createChangeRequest(c) \/ Visit!previewSeriesOf(c)
              \/ Visit!createSeries(c)
  <2>1. Visit!VisitsMoveOn
    BY <1>2, VisitsStay DEF Visit!availability, Visit!createChangeRequest, Visit!previewSeriesOf,
                            Visit!createSeries
  <2>2. c.kind # "load" /\ (Visit!Replies(c, c.input) \/ Visit!Replies(c, None))
    BY <1>2 DEF Visit!availability, Visit!createChangeRequest, Visit!previewSeriesOf,
                Visit!createSeries
  <2>3. QED
    BY <1>0, <2>1, <2>2, VisitAnswered
<1>3. CASE Visit!cancel(c)
  <2> DEFINE row == [visits[c.visit] EXCEPT !.status = "CANCELLED", !.revision = @ + 1]
  <2>1. c.visit \in Visit!Visit /\ Visit!VisitRow(visits[c.visit])
    BY <1>0 DEF Visit!VisitInv, Visit!CallKnows
  <2>2. visits' = [visits EXCEPT ![c.visit] = row]
    BY <1>3 DEF Visit!cancel
  <2>3. Visit!VisitRow(row) /\ row.revision > visits[c.visit].revision
    BY <2>1, VisitRowMovesOn
  <2>4. c.kind # "load" /\ Visit!Replies(c, None)
    BY <1>3 DEF Visit!cancel
  <2> HIDE DEF row
  <2>5. QED
    BY <1>0, <2>1, <2>2, <2>3, <2>4, VisitOneMovesOn, VisitAnswered
<1>4. CASE Visit!cancelFrom(c)
  <2> DEFINE closed(v) == [visits[v] EXCEPT !.status = "CANCELLED", !.revision = @ + 1]
  <2>1. \A v \in Visit!Visit : Visit!VisitRow(closed(v)) /\ closed(v).revision > visits[v].revision
    BY VisitRowMovesOn DEF Visit!VisitInv
  <2>2. visits' = [v \in Visit!Visit |->
                     IF v >= c.visit /\ visits[v].status \in Visit!Live THEN closed(v) ELSE visits[v]]
    BY <1>4 DEF Visit!cancelFrom
  <2> HIDE DEF closed
  <2>3. Visit!VisitsMoveOn
    BY <2>1, <2>2 DEF Visit!VisitInv, Visit!VisitsMoveOn
  <2>4. c.kind # "load" /\ Visit!Replies(c, None)
    BY <1>4 DEF Visit!cancelFrom
  <2>5. QED
    BY <1>0, <2>3, <2>4, VisitAnswered
<1>5. QED
  BY <1>1, <1>2, <1>3, <1>4 DEF Visit!Answers

LEMMA VisitMoved ==
    ASSUME Visit!VisitInv, NEW v \in Visit!Visit, Visit!SalonChanges(v)
    PROVE  Visit!VisitInv'
<1>1. Visit!VisitsMoveOn
  <2>1. PICK status, place :
          visits' = [visits EXCEPT ![v] = [visits[v] EXCEPT !.status = status, !.place = place,
                                                            !.revision = @ + 1]]
    <3>1. PICK row :
            visits' = [visits EXCEPT ![v].status = row.status, ![v].place = row.place,
                                     ![v].revision = @ + 1]
      BY DEF Visit!SalonChanges
    <3>2. visits = [w \in Visit!Visit |-> visits[w]] /\ DOMAIN visits = Visit!Visit
      BY DEF Visit!VisitInv
    <3>3. visits' = [visits EXCEPT ![v] = [visits[v] EXCEPT !.status = row.status, !.place = row.place,
                                                            !.revision = @ + 1]]
      BY <3>1, <3>2
    <3>4. QED
      BY <3>3
  <2>2. Visit!VisitRow(visits[v])
    BY DEF Visit!VisitInv
  <2>3. QED
    BY <2>1, <2>2, VisitRowMovesOn, VisitOneMovesOn
<1>2. address' = address /\ shown' = shown /\ calls' = calls
  BY DEF Visit!SalonChanges, Visit!ServerOnly, Visit!Page
<1>3. address' \in Visit!Visit
  BY <1>2 DEF Visit!VisitInv
<1>4. QED
  BY <1>1, <1>2, <1>3, VisitKeeps

(* The page asks: in the name of the appointment it shows. *)
LEMMA VisitSends ==
    ASSUME Visit!VisitInv, shown # None, NEW kind, NEW input, Visit!Sends(kind, input),
           kind = "change" =>
              /\ {"revision", "seen"} \subseteq DOMAIN input /\ input.revision \in Nat
              /\ Visit!Knows(shown.id, input.revision, input.seen)
    PROVE  Visit!VisitInv'
<1>1. Visit!VisitsMoveOn
  BY VisitsStay DEF Visit!Sends
<1>2. address' = address /\ shown' = shown
  BY DEF Visit!Sends, Visit!Page
<1>3. shown.id \in Visit!Visit /\ address' \in Visit!Visit
  BY <1>2 DEF Visit!VisitInv, Visit!KnowsRow
<1>4. Visit!CallKnows(Visit!Call(kind, shown.id, input))
  BY <1>3, VisitCallMade
<1>5. \A d \in calls' : d \in calls \/ Visit!CallKnows(d)
  BY <1>4 DEF Visit!Sends
<1>6. QED
  BY <1>1, <1>2, <1>3, <1>5, VisitKeeps

(* The page loads: what it has sent goes on without it. *)
LEMMA VisitLoads ==
    ASSUME Visit!VisitInv, NEW v \in Visit!Visit, UNCHANGED visits, address' \in Visit!Visit,
           shown' = shown,
           calls' \subseteq Visit!Orphans \cup {[Visit!Call("load", v, None) EXCEPT !.orphan = TRUE]}
    PROVE  Visit!VisitInv'
<1>1. Visit!CallKnows([Visit!Call("load", v, None) EXCEPT !.orphan = TRUE])
  BY VisitCallMade
<1>2. \A d \in calls' : d \in calls \/ Visit!CallKnows(d)
  BY <1>1, VisitOrphansKnow
<1>3. QED
  BY <1>2, VisitsStay, VisitKeeps

(* Steps of the page that send nothing. *)
LEMMA VisitGoesOn ==
    ASSUME Visit!VisitInv, UNCHANGED <<visits, address>>, calls' \subseteq calls,
           shown' = shown \/ Visit!KnowsRow(shown')
    PROVE  Visit!VisitInv'
<1>1. address' \in Visit!Visit
  BY DEF Visit!VisitInv
<1>2. QED
  BY <1>1, VisitsStay, VisitKeeps

LEMMA VisitStep ==
    ASSUME Visit!VisitInv, Visit!VisitNext
    PROVE  Visit!VisitInv'
<1> USE DEF Visit!Page
<1>1. CASE \E c \in calls : Visit!Answers(c)
  BY <1>1, VisitAnswers
<1>2. CASE \E c \in calls : Visit!Loaded(c)
  <2>1. PICK c \in calls : Visit!Loaded(c)
    BY <1>2
  <2>2. Visit!KnowsRow(c.result)
    BY <2>1 DEF Visit!Loaded, Visit!VisitInv, Visit!CallKnows
  <2>3. QED
    BY <2>1, <2>2, VisitGoesOn DEF Visit!Loaded
<1>3. CASE \E c \in calls : Visit!LoadFails(c) \/ Visit!SlotsArrive(c) \/ Visit!PreviewArrives(c)
                              \/ Visit!CallFails(c)
  BY <1>3, VisitGoesOn DEF Visit!LoadFails, Visit!SlotsArrive, Visit!PreviewArrives, Visit!CallFails
<1>4. CASE \E c \in calls : Visit!Completes(c)
  <2>1. PICK c \in calls : Visit!Completes(c)
    BY <1>4
  <2>2. c.page \in Visit!Visit /\ address' \in Visit!Visit
    BY <2>1 DEF Visit!Completes, Visit!VisitInv, Visit!CallKnows
  <2>3. QED
    BY <2>1, <2>2, VisitLoads DEF Visit!Completes
<1>5. CASE \E v \in Visit!Visit : Visit!Visits(v)
  BY <1>5, VisitLoads DEF Visit!Visits, Visit!Loads
<1>6. CASE \E v \in Visit!Visit : Visit!SalonChanges(v)
  BY <1>6, VisitMoved
<1>7. CASE \/ \E name \in {"cancel", "repeat", "overview"} : Visit!Opens(name)
           \/ Visit!Closes
           \/ \E t \in Hour : Visit!setStartTime(t)
           \/ \E f \in Date : Visit!setFrequency(f)
  BY <1>7, VisitGoesOn DEF Visit!Opens, Visit!Closes, Visit!setStartTime, Visit!setFrequency
<1>8. CASE Visit!createCustomerChangeRequest
  <2> DEFINE asked == [to |-> <<draft.day, draft.time>>, revision |-> shown.row.revision,
                       seen |-> shown.row.place]
  <2>1. shown # None /\ Visit!Sends("change", asked)
    BY <1>8 DEF Visit!createCustomerChangeRequest, Visit!Has, Visit!Ready
  <2>2. /\ {"revision", "seen"} \subseteq DOMAIN asked /\ asked.revision \in Nat
        /\ Visit!Knows(shown.id, asked.revision, asked.seen)
    BY <2>1 DEF Visit!VisitInv, Visit!KnowsRow
  <2> HIDE DEF asked
  <2>3. QED
    BY <2>1, <2>2, VisitSends
<1>9. CASE \/ \E day \in Date : Visit!loadAvailability(day)
           \/ Visit!cancelCustomerBooking \/ Visit!previewSeries
           \/ Visit!createCustomerBookingSeries \/ Visit!cancelSeries
  <2>1. \E kind \in {"slots", "cancel", "preview", "series", "endSeries"} : \E input :
          Visit!Sends(kind, input)
    BY <1>9 DEF Visit!loadAvailability, Visit!cancelCustomerBooking, Visit!previewSeries,
                Visit!createCustomerBookingSeries, Visit!cancelSeries
  <2>2. shown # None
    BY <1>9 DEF Visit!loadAvailability, Visit!cancelCustomerBooking, Visit!previewSeries,
                Visit!createCustomerBookingSeries, Visit!cancelSeries, Visit!Has, Visit!Ready
  <2>3. QED
    BY <2>1, <2>2, VisitSends
<1>10. QED
  BY <1>1, <1>2, <1>3, <1>4, <1>5, <1>6, <1>7, <1>8, <1>9 DEF Visit!VisitNext

(* The revision of a request is compared when it is stored. *)
LEMMA VisitInvKnowsPlace ==
    ASSUME Visit!VisitInv
    PROVE  Visit!KnowsPlace
<1>1. SUFFICES ASSUME NEW c \in calls, Visit!createChangeRequest(c)
               PROVE  c.input.seen = visits[c.visit].place
  BY DEF Visit!KnowsPlace
<1>2. c.kind = "change" /\ c.input.revision = visits[c.visit].revision /\ Visit!CallKnows(c)
  BY <1>1 DEF Visit!createChangeRequest, Visit!RevisionExpected, Visit!VisitInv
<1>3. QED
  BY <1>2 DEF Visit!CallKnows, Visit!Knows

LEMMA VisitBegins ==
    ASSUME Visit!VisitInit
    PROVE  Visit!VisitInv
<1>1. 1 \in Visit!Visit
  BY PageAssumption DEF Visit!VisitAssumption, Visit!Visit
<1>2. /\ visits = [v \in Visit!Visit |-> visits[v]]
      /\ \A v \in Visit!Visit : Visit!VisitRow(visits[v])
  BY DEF Visit!VisitInit, Visit!VisitRow
<1>3. \A c \in calls : Visit!CallKnows(c)
  BY <1>1 DEF Visit!VisitInit, Visit!Call, Visit!CallKnows
<1>4. QED
  BY <1>1, <1>2, <1>3 DEF Visit!VisitInit, Visit!VisitInv

(* AccountVisit: when a request for another time is stored, the customer has
   seen where the appointment is.  For any number of appointments, changes,
   dates, times and calls. *)
THEOREM RequestsKnowTheirPlace == MCSpec => RequestKnowsPlace
<1> DEFINE Inv == part = "page" => Visit!VisitInv
<1>1. MCInit => Inv
  BY VisitBegins DEF MCInit
<1>2. Inv /\ [MCNext]_<<vars, pageVars, part>> => Inv'
  <2>1. SUFFICES ASSUME part' = "page", Visit!VisitInv, [MCNext]_<<vars, pageVars, part>>, part' = part
                 PROVE  Visit!VisitInv'
    BY DEF MCNext
  <2>2. CASE Visit!VisitNext
    BY <2>1, <2>2, VisitStep
  <2>3. CASE UNCHANGED pageVars
    BY <2>1, <2>3 DEF pageVars, Visit!VisitInv, Visit!VisitRow, Visit!KnowsRow, Visit!Knows, Visit!CallKnows
  <2>4. QED
    BY <2>1, <2>2, <2>3 DEF MCNext
<1>3. Inv => [part = "page" => Visit!KnowsPlace]_<<pageVars, part>>
  BY VisitInvKnowsPlace
<1>4. QED
  BY <1>1, <1>2, <1>3, PTL DEF MCSpec, RequestKnowsPlace
=============================================================================
