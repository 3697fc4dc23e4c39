---------------------- MODULE NotificationDeliveryProofs ----------------------
(***************************************************************************)
(* What a claim is worth, for any number of bookings, workers and          *)
(* administrators: as long as nobody takes it for stale and nobody retries *)
(* by hand, a message belongs to one worker, what was withdrawn stays      *)
(* withdrawn, and the provider is called no more often than the row says.  *)
(* The outbox implements MessageQueue.                                     *)
(***************************************************************************)
EXTENDS NotificationDelivery, TLAPS

(* What a worker holds fits what it is doing. *)
WorkerOK(w) ==
    /\ workers[w].phase = "idle" => workers[w].batch = {} /\ workers[w].current = None
    /\ workers[w].phase = "working" => workers[w].current = None
    /\ workers[w].phase \in {"sending", "recording"} => workers[w].current \in Notification
    /\ workers[w].current \notin workers[w].batch

WorkersOK == \A w \in Worker : WorkerOK(w)

(* A message the provider has accepted is not in the queue. *)
AcceptedIsOut ==
    \A n \in Notification \ released :
        outbox[n].message => outbox[n].status \in {"SENT", "DELIVERED", "FAILED"}

(* The count of attempts follows the calls of the provider. *)
CountOK(n) ==
    /\ outbox[n].attempts <= MaxAttempts
    /\ outbox[n].status \in {"NONE", "PROCESSING"} \cup Waiting =>
          outbox[n].attempts < MaxAttempts
    /\ outbox[n].status \in {"NONE"} \cup Waiting => calls[n] <= outbox[n].attempts
    /\ calls[n] <= MaxAttempts
    /\ outbox[n].status = "PROCESSING" => calls[n] <= outbox[n].attempts + 1

ClaimCounts(w, n) ==
    /\ n \in workers[w].batch => calls[n] <= outbox[n].attempts
    /\ workers[w].current = n =>
          /\ workers[w].attempt = outbox[n].attempts + 1
          /\ workers[w].phase = "sending" => calls[n] <= outbox[n].attempts

CountsFollow ==
    \A n \in Notification \ released :
        /\ CountOK(n)
        /\ \A w \in Worker : ClaimCounts(w, n)

(* Unless a claim is taken for stale or somebody retries by hand, the
   provider is called for a message at most MaxAttempts times. *)
CalledAtMost == \A n \in Notification \ released : calls[n] <= MaxAttempts

DeliveryInv == TypeOK /\ WorkersOK /\ AcceptedIsOut /\ ClaimIsExclusive /\ CountsFollow

-----------------------------------------------------------------------------
(* The rows of the outbox, and the rows they become. *)

LEMMA RestRows ==
    /\ Absent \in Row
    /\ AtRest \in WorkerState
    /\ AtRest.phase = "idle" /\ AtRest.batch = {} /\ AtRest.current = None
<1>1. Absent \in Row
  BY DEF Absent, Row, Waiting, Settled
<1>2. AtRest \in WorkerState
  BY DEF AtRest, WorkerState, Phase
<1> QED
  BY <1>1, <1>2 DEF AtRest

LEMMA EnqueuedRows ==
    ASSUME NEW rows \in [Notification -> Row], NEW n
    PROVE  /\ Enqueued(rows, n) \in [Notification -> Row]
           /\ \A m \in Notification :
                 LET new == Enqueued(rows, n)[m] IN
                 \/ new = rows[m]
                 \/ /\ rows[m].status = "NONE" /\ new.status = "PENDING"
                    /\ new.attempts = rows[m].attempts /\ new.message = rows[m].message
BY DEF Enqueued, Row, Waiting

LEMMA WithdrawnRows ==
    ASSUME NEW rows \in [Notification -> Row], NEW b, NEW events
    PROVE  /\ Withdrawn(rows, b, events) \in [Notification -> Row]
           /\ \A m \in Notification :
                 LET new == Withdrawn(rows, b, events)[m] IN
                 \/ new = rows[m]
                 \/ /\ rows[m].status \in Waiting /\ new.status = "SKIPPED"
                    /\ new.attempts = rows[m].attempts /\ new.message = rows[m].message
BY DEF Withdrawn, Row, Settled

(* What everybody but a worker may do to the row of a message: nothing,
   its clock, put it into the queue for the first time, take it out, or
   note a report. *)
Keeps(n) ==
    outbox'[n].attempts = outbox[n].attempts /\ outbox'[n].message = outbox[n].message

Mild(n) ==
    \/ outbox'[n] = outbox[n]
    \/ /\ Keeps(n)
       /\ \/ /\ outbox[n].status \in Waiting \cup {"PROCESSING"}
             /\ outbox'[n].status = outbox[n].status
          \/ outbox[n].status = "NONE" /\ outbox'[n].status = "PENDING"
          \/ outbox[n].status \in Waiting /\ outbox'[n].status = "SKIPPED"
          \/ outbox[n].message /\ outbox'[n].status \in {"DELIVERED", "FAILED"}

MildStep ==
    /\ TypeOK'
    /\ UNCHANGED <<workers, calls>>
    /\ released \subseteq released'
    /\ \A n \in Notification \ released' : Mild(n)

LEMMA MildKeeps == ASSUME DeliveryInv, MildStep PROVE DeliveryInv'
<1> USE DeliveryAssumption
<1>1. \A n \in Notification \ released' : n \in Notification \ released
  BY DEF MildStep
<1>2. WorkersOK'
  BY DEF DeliveryInv, MildStep, WorkersOK, WorkerOK
<1>3. ASSUME NEW n \in Notification \ released'
      PROVE  /\ Mild(n)
             /\ outbox[n].message => outbox[n].status \in {"SENT", "DELIVERED", "FAILED"}
             /\ \A w \in Worker : Holds(w, n) =>
                   /\ outbox[n].status = "PROCESSING"
                   /\ \A v \in Worker \ {w} : ~Holds(v, n)
             /\ CountOK(n) /\ \A w \in Worker : ClaimCounts(w, n)
  BY <1>1 DEF MildStep, DeliveryInv, AcceptedIsOut, ClaimIsExclusive, CountsFollow
<1>4. AcceptedIsOut'
  BY <1>3 DEF AcceptedIsOut, Mild, Keeps, Waiting
<1>5. ClaimIsExclusive'
  <2> SUFFICES ASSUME NEW n \in Notification \ released', NEW w \in Worker, Holds(w, n)'
               PROVE  outbox'[n].status = "PROCESSING"
                      /\ \A v \in Worker \ {w} : ~Holds(v, n)'
    BY DEF ClaimIsExclusive
  <2>1. \A v \in Worker : Holds(v, n)' <=> Holds(v, n)
    BY DEF Holds, MildStep
  <2>2. outbox[n].status = "PROCESSING" /\ \A v \in Worker \ {w} : ~Holds(v, n)
    BY <1>3, <2>1
  <2> QED
    BY <1>3, <2>1, <2>2 DEF Mild, Waiting
<1>6. CountsFollow'
  <2> SUFFICES ASSUME NEW n \in Notification \ released'
               PROVE  CountOK(n)' /\ \A w \in Worker : ClaimCounts(w, n)'
    BY DEF CountsFollow
  <2>1. outbox[n].attempts \in Nat /\ calls[n] \in Nat
    BY DEF DeliveryInv, TypeOK, Row
  <2>2. outbox'[n].attempts = outbox[n].attempts /\ calls'[n] = calls[n]
    BY <1>3 DEF Mild, Keeps, MildStep
  <2>3. CountOK(n)'
    BY <1>3, <2>1, <2>2 DEF CountOK, Mild, Waiting
  <2>4. \A w \in Worker : ClaimCounts(w, n)'
    BY <1>3, <2>2 DEF ClaimCounts, MildStep
  <2> QED
    BY <2>3, <2>4
<1> QED
  BY <1>2, <1>4, <1>5, <1>6 DEF DeliveryInv, MildStep

(* A change of a booking, with what it does to the outbox in the same
   transaction, and the clock. *)
LEMMA BookingIsMild ==
    ASSUME DeliveryInv, NEW b \in Booking, BookingStep(b) PROVE MildStep
<1> USE DeliveryAssumption
<1>1. /\ TypeOK
      /\ bookings[b] \in BookingRow
      /\ outbox \in [Notification -> Row]
  BY DEF DeliveryInv, TypeOK
<1>2. ASSUME NEW row \in BookingRow, NEW rows \in [Notification -> Row],
             Changes(b, row, rows),
             \A n \in Notification :
                 \/ rows[n] = outbox[n]
                 \/ /\ rows[n].attempts = outbox[n].attempts
                    /\ rows[n].message = outbox[n].message
                    /\ \/ outbox[n].status = "NONE" /\ rows[n].status = "PENDING"
                       \/ outbox[n].status \in Waiting /\ rows[n].status = "SKIPPED"
      PROVE  MildStep
  <2>1. TypeOK'
    BY <1>1, <1>2 DEF Changes, TypeOK
  <2>2. \A n \in Notification : Mild(n)
    BY <1>2 DEF Changes, Mild, Keeps
  <2> QED
    BY <1>2, <2>1, <2>2 DEF Changes, MildStep
<1>3. CASE approve(b)
  <2> DEFINE row == [bookings[b] EXCEPT !.status = "CONFIRMED", !.revision = @ + 1]
  <2> DEFINE rows == Enqueued(outbox, News("BOOKING_APPROVED", b, 0))
  <2>1. row \in BookingRow
    <3>1. bookings[b].revision + 1 \in 1..MaxRevision
      BY <1>1, <1>3 DEF approve, BookingRow
    <3> QED
      BY <1>1, <3>1 DEF BookingRow
  <2>2. Changes(b, row, rows)
    BY <1>3 DEF approve
  <2>3. /\ rows \in [Notification -> Row]
        /\ \A n \in Notification :
              \/ rows[n] = outbox[n]
              \/ /\ outbox[n].status = "NONE" /\ rows[n].status = "PENDING"
                 /\ rows[n].attempts = outbox[n].attempts /\ rows[n].message = outbox[n].message
    BY <1>1, EnqueuedRows
  <2> HIDE DEF row, rows
  <2> QED
    BY <1>2, <2>1, <2>2, <2>3
<1>4. CASE cancel(b)
  <2> DEFINE row == [bookings[b] EXCEPT !.status = "CANCELLED", !.revision = @ + 1]
  <2> DEFINE mid == Withdrawn(outbox, b, {n.event : n \in Notification})
  <2> DEFINE rows == Enqueued(mid, News("BOOKING_CANCELLED", b, 0))
  <2>1. row \in BookingRow
    <3>1. bookings[b].revision + 1 \in 1..MaxRevision
      BY <1>1, <1>4 DEF cancel, BookingRow
    <3> QED
      BY <1>1, <3>1 DEF BookingRow
  <2>2. Changes(b, row, rows)
    BY <1>4 DEF cancel
  <2>3. /\ mid \in [Notification -> Row]
        /\ \A n \in Notification :
              \/ mid[n] = outbox[n]
              \/ /\ outbox[n].status \in Waiting /\ mid[n].status = "SKIPPED"
                 /\ mid[n].attempts = outbox[n].attempts /\ mid[n].message = outbox[n].message
    BY <1>1, WithdrawnRows
  <2> HIDE DEF mid
  <2>4. /\ rows \in [Notification -> Row]
        /\ \A n \in Notification :
              \/ rows[n] = mid[n]
              \/ /\ mid[n].status = "NONE" /\ rows[n].status = "PENDING"
                 /\ rows[n].attempts = mid[n].attempts /\ rows[n].message = mid[n].message
    BY <2>3, EnqueuedRows
  <2> HIDE DEF row, rows
  <2> QED
    BY <1>2, <2>1, <2>2, <2>3, <2>4
<1>5. ASSUME NEW s \in Start, NEW reminder \in {"early", "due"}, reschedule(b, s, reminder)
      PROVE  MildStep
  <2> DEFINE row == [bookings[b] EXCEPT !.start = s, !.reminder = reminder, !.revision = @ + 1]
  <2> DEFINE mid == Withdrawn(outbox, b, {"BOOKING_REMINDER"})
  <2> DEFINE news == News("BOOKING_RESCHEDULED", b, bookings[b].revision + 1)
  <2> DEFINE rows == IF bookings[b].enabled THEN Enqueued(mid, news) ELSE mid
  <2>1. row \in BookingRow
    <3>1. bookings[b].revision + 1 \in 1..MaxRevision
      BY <1>1, <1>5 DEF reschedule, BookingRow
    <3> QED
      BY <1>1, <3>1 DEF BookingRow
  <2>2. Changes(b, row, rows)
    BY <1>5 DEF reschedule
  <2>3. /\ mid \in [Notification -> Row]
        /\ \A n \in Notification :
              \/ mid[n] = outbox[n]
              \/ /\ outbox[n].status \in Waiting /\ mid[n].status = "SKIPPED"
                 /\ mid[n].attempts = outbox[n].attempts /\ mid[n].message = outbox[n].message
    BY <1>1, WithdrawnRows
  <2> HIDE DEF mid, news
  <2>4. /\ rows \in [Notification -> Row]
        /\ \A n \in Notification :
              \/ rows[n] = mid[n]
              \/ /\ mid[n].status = "NONE" /\ rows[n].status = "PENDING"
                 /\ rows[n].attempts = mid[n].attempts /\ rows[n].message = mid[n].message
    BY <2>3, EnqueuedRows
  <2> HIDE DEF row, rows
  <2> QED
    BY <1>2, <2>1, <2>2, <2>3, <2>4
<1>6. ASSUME NEW enabled \in BOOLEAN, updateDetails(b, enabled) PROVE MildStep
  <2>1. [bookings[b] EXCEPT !.enabled = enabled, !.revision = @ + 1] \in BookingRow
    <3>1. bookings[b].revision + 1 \in 1..MaxRevision
      BY <1>1, <1>6 DEF updateDetails, BookingRow
    <3> QED
      BY <1>1, <3>1 DEF BookingRow
  <2> QED
    BY <1>1, <1>2, <1>6, <2>1 DEF updateDetails
<1>7. CASE TimePasses(b)
  <2>1. [bookings[b] EXCEPT !.reminder = IF @ = "early" THEN "due" ELSE "past"] \in BookingRow
    BY <1>1 DEF BookingRow
  <2> QED
    BY <1>1, <1>2, <1>7, <2>1 DEF TimePasses
<1> QED
  BY <1>3, <1>4, <1>5, <1>6, <1>7 DEF BookingStep

(* The scheduler, the clock, the reports and the administrators. *)
LEMMA OthersAreMild ==
    ASSUME DeliveryInv,
           \/ Scheduler
           \/ \E n \in Notification : BecomesDue(n) \/ LostClaimAges(n) \/ HeldClaimAges(n)
           \/ \E n \in Notification, status \in {"DELIVERED", "FAILED"} : receive(n, status)
           \/ \E a \in Admin, n \in Notification : BeginRetry(a, n)
           \/ \E a \in Admin : WriteRetry(a)
    PROVE  MildStep
<1> USE DeliveryAssumption
<1>1. TypeOK
  BY DEF DeliveryInv
<1>2. CASE ReadReminders
  <2>1. RemindersDue \subseteq Notification
    <3>1. \A b \in Booking : Reminder(b) \in Notification
      BY <1>1 DEF Reminder, Notification, TypeOK, BookingRow
    <3> QED
      BY <3>1 DEF RemindersDue
  <2> QED
    BY <1>1, <1>2, <2>1 DEF ReadReminders, TypeOK, MildStep, Mild
<1>3. CASE CreateReminders
  <2>1. \A n \in Notification :
           /\ outbox'[n] \in Row
           /\ \/ outbox'[n] = outbox[n]
              \/ /\ outbox[n].status = "NONE" /\ outbox'[n].status = "PENDING"
                 /\ outbox'[n].attempts = outbox[n].attempts
                 /\ outbox'[n].message = outbox[n].message
    <3> SUFFICES ASSUME NEW n \in Notification
                 PROVE  /\ outbox'[n] \in Row
                        /\ \/ outbox'[n] = outbox[n]
                           \/ /\ outbox[n].status = "NONE" /\ outbox'[n].status = "PENDING"
                              /\ outbox'[n].attempts = outbox[n].attempts
                              /\ outbox'[n].message = outbox[n].message
      OBVIOUS
    <3>1. outbox'[n] = IF n \in found THEN Enqueued(outbox, n)[n] ELSE outbox[n]
      BY <1>3 DEF CreateReminders
    <3>2. outbox \in [Notification -> Row]
      BY <1>1 DEF TypeOK
    <3>3. /\ Enqueued(outbox, n) \in [Notification -> Row]
          /\ \/ Enqueued(outbox, n)[n] = outbox[n]
             \/ /\ outbox[n].status = "NONE" /\ Enqueued(outbox, n)[n].status = "PENDING"
                /\ Enqueued(outbox, n)[n].attempts = outbox[n].attempts
                /\ Enqueued(outbox, n)[n].message = outbox[n].message
      BY <3>2, EnqueuedRows
    <3> QED
      BY <3>1, <3>2, <3>3
  <2>2. TypeOK'
    <3>1. outbox' \in [Notification -> Row]
      BY <1>3, <2>1 DEF CreateReminders
    <3> QED
      BY <1>1, <1>3, <3>1 DEF CreateReminders, TypeOK
  <2> QED
    BY <1>3, <2>1, <2>2 DEF CreateReminders, MildStep, Mild, Keeps
<1>4. ASSUME NEW n \in Notification, BecomesDue(n) PROVE MildStep
  <2>1. TypeOK'
    BY <1>1, <1>4 DEF BecomesDue, TypeOK, Row
  <2>2. \A m \in Notification : Mild(m)
    BY <1>1, <1>4 DEF BecomesDue, TypeOK, Row, Mild, Keeps
  <2> QED
    BY <1>4, <2>1, <2>2 DEF BecomesDue, MildStep
<1>5. ASSUME NEW n \in Notification, LostClaimAges(n) \/ HeldClaimAges(n) PROVE MildStep
  <2>1. /\ ClaimAges(n)
        /\ faults' \in 0..MaxFaults
    BY <1>1, <1>5 DEF LostClaimAges, HeldClaimAges, Faults, TypeOK
  <2>2. TypeOK'
    BY <1>1, <2>1 DEF ClaimAges, TypeOK, Row
  <2>3. \A m \in Notification : Mild(m)
    BY <1>1, <2>1 DEF ClaimAges, TypeOK, Row, Mild, Keeps
  <2> QED
    BY <2>1, <2>2, <2>3 DEF ClaimAges, MildStep
<1>6. ASSUME NEW n \in Notification, NEW status \in {"DELIVERED", "FAILED"}, receive(n, status)
      PROVE  MildStep
  <2>1. PICK transient \in BOOLEAN :
           outbox' = [outbox EXCEPT ![n].status = status,
                         ![n].transient = IF status = "FAILED" THEN transient ELSE @]
    BY <1>6 DEF receive
  <2>2. TypeOK'
    <3>1. outbox' \in [Notification -> Row]
      <4>1. outbox[n] \in Row
        BY <1>1 DEF TypeOK
      <4>2. ASSUME NEW flag \in BOOLEAN
            PROVE  [outbox[n] EXCEPT !.status = status, !.transient = flag] \in Row
        BY <4>1 DEF Row, Settled
      <4>3. PICK flag \in BOOLEAN :
               outbox' = [outbox EXCEPT ![n] = [outbox[n] EXCEPT !.status = status,
                                                                 !.transient = flag]]
        BY <2>1, <4>1 DEF Row
      <4> QED
        BY <1>1, <4>2, <4>3 DEF TypeOK
    <3> QED
      BY <1>1, <1>6, <3>1 DEF receive, TypeOK
  <2>3. \A m \in Notification : Mild(m)
    BY <1>1, <1>6, <2>1 DEF receive, TypeOK, Row, Mild, Keeps
  <2> QED
    BY <1>6, <2>2, <2>3 DEF receive, MildStep
<1>7. ASSUME NEW a \in Admin, NEW n \in Notification, BeginRetry(a, n) PROVE MildStep
  BY <1>1, <1>7 DEF BeginRetry, TypeOK, MildStep, Mild
<1>8. ASSUME NEW a \in Admin, WriteRetry(a) PROVE MildStep
  <2>1. retrying[a] \in Notification
    BY <1>1, <1>8 DEF WriteRetry, TypeOK
  <2>2. TypeOK'
    <3> DEFINE n == retrying[a]
    <3>1. [outbox[n] EXCEPT !.status = "PENDING", !.due = TRUE, !.transient = FALSE] \in Row
      <4>1. outbox[n] \in Row
        BY <1>1, <2>1 DEF TypeOK
      <4> HIDE DEF n
      <4> QED
        BY <4>1 DEF Row, Waiting
    <3>2. outbox' \in [Notification -> Row]
      BY <1>1, <1>8, <2>1, <3>1 DEF WriteRetry, TypeOK
    <3> QED
      BY <1>1, <1>8, <2>1, <3>2 DEF WriteRetry, TypeOK
  <2>3. \A m \in Notification \ released' : Mild(m)
    BY <1>1, <1>8, <2>1 DEF WriteRetry, TypeOK, Mild
  <2> QED
    BY <1>8, <2>2, <2>3 DEF WriteRetry, MildStep
<1> QED
  BY <1>2, <1>3, <1>4, <1>5, <1>6, <1>7, <1>8 DEF Scheduler

-----------------------------------------------------------------------------
(* What a worker may do: a message it does not have, or that it only holds
   on to, stays as it is; and a row it writes is in the
   queue and of no other worker. *)
Same(w, n) ==
    /\ outbox'[n] = outbox[n] /\ calls'[n] = calls[n]
    /\ Holds(w, n)' => Holds(w, n)

Turns(w, n) ==
    /\ outbox[n].status \in Waiting \cup {"PROCESSING"}
    /\ \A v \in Worker \ {w} : ~Holds(v, n)
    /\ Holds(w, n)' => outbox'[n].status = "PROCESSING"
    /\ outbox'[n].message => outbox'[n].status \in {"SENT", "DELIVERED", "FAILED"}
    /\ CountOK(n)'

Moves(w) ==
    /\ TypeOK'
    /\ \A v \in Worker \ {w} : workers'[v] = workers[v]
    /\ released \subseteq released'
    /\ WorkerOK(w)'
    /\ \A n \in Notification \ released' :
          /\ Same(w, n) \/ Turns(w, n)
          /\ ClaimCounts(w, n)'

LEMMA MovesKeep == ASSUME DeliveryInv, NEW w \in Worker, Moves(w) PROVE DeliveryInv'
<1> USE DeliveryAssumption
<1>1. ASSUME NEW n \in Notification \ released'
      PROVE  /\ Same(w, n) \/ Turns(w, n)
             /\ ClaimCounts(w, n)'
             /\ outbox[n].message => outbox[n].status \in {"SENT", "DELIVERED", "FAILED"}
             /\ \A v \in Worker : Holds(v, n) =>
                   /\ outbox[n].status = "PROCESSING"
                   /\ \A u \in Worker \ {v} : ~Holds(u, n)
             /\ CountOK(n) /\ \A v \in Worker : ClaimCounts(v, n)
             /\ \A v \in Worker \ {w} : Holds(v, n)' <=> Holds(v, n)
  BY DEF Moves, DeliveryInv, AcceptedIsOut, ClaimIsExclusive, CountsFollow, Holds
<1>2. WorkersOK'
  <2>1. ASSUME NEW v \in Worker \ {w} PROVE WorkerOK(v)'
    BY DEF Moves, DeliveryInv, WorkersOK, WorkerOK
  <2> QED
    BY <2>1 DEF Moves, WorkersOK
<1>3. AcceptedIsOut'
  BY <1>1 DEF AcceptedIsOut, Same, Turns
<1>4. ClaimIsExclusive'
  <2> SUFFICES ASSUME NEW n \in Notification \ released', NEW v \in Worker, Holds(v, n)'
               PROVE  outbox'[n].status = "PROCESSING"
                      /\ \A u \in Worker \ {v} : ~Holds(u, n)'
    BY DEF ClaimIsExclusive
  <2>1. CASE Same(w, n)
    <3>1. \A u \in Worker : Holds(u, n)' => Holds(u, n)
      BY <1>1, <2>1 DEF Same
    <3> QED
      BY <1>1, <2>1, <3>1 DEF Same
  <2>2. CASE Turns(w, n)
    <3>1. v = w /\ \A u \in Worker \ {w} : ~Holds(u, n)'
      BY <1>1, <2>2 DEF Turns
    <3> QED
      BY <2>2, <3>1 DEF Turns
  <2> QED
    BY <1>1, <2>1, <2>2
<1>5. CountsFollow'
  <2> SUFFICES ASSUME NEW n \in Notification \ released'
               PROVE  CountOK(n)' /\ \A v \in Worker : ClaimCounts(v, n)'
    BY DEF CountsFollow
  <2>1. CASE Same(w, n)
    <3>1. CountOK(n)'
      BY <1>1, <2>1 DEF Same, CountOK
    <3>2. ASSUME NEW v \in Worker \ {w} PROVE ClaimCounts(v, n)'
      BY <1>1, <2>1 DEF Same, ClaimCounts, Moves
    <3> QED
      BY <1>1, <3>1, <3>2
  <2>2. CASE Turns(w, n)
    <3>1. CountOK(n)'
      BY <2>2 DEF Turns
    <3>2. ASSUME NEW v \in Worker \ {w} PROVE ClaimCounts(v, n)'
      BY <1>1, <2>2 DEF Turns, ClaimCounts, Holds
    <3> QED
      BY <1>1, <3>1, <3>2
  <2> QED
    BY <1>1, <2>1, <2>2
<1> QED
  BY <1>2, <1>3, <1>4, <1>5 DEF DeliveryInv, Moves

(* What a message that nobody has put back says of those who hold it. *)
LEMMA ClaimSays ==
    ASSUME DeliveryInv, NEW n \in Notification \ released
    PROVE  /\ outbox[n] \in Row /\ calls[n] \in Nat
           /\ outbox[n].message => outbox[n].status \in {"SENT", "DELIVERED", "FAILED"}
           /\ \A v \in Worker : Holds(v, n) =>
                 /\ outbox[n].status = "PROCESSING"
                 /\ \A u \in Worker \ {v} : ~Holds(u, n)
           /\ CountOK(n) /\ \A v \in Worker : ClaimCounts(v, n)
BY DEF DeliveryInv, TypeOK, AcceptedIsOut, ClaimIsExclusive, CountsFollow

(* The rest of a batch. *)
LEMMA Goes ==
    ASSUME TypeOK, NEW w \in Worker, NEW batch \in SUBSET Notification, Continues(w, batch)
    PROVE  /\ workers' \in [Worker -> WorkerState]
           /\ \A v \in Worker \ {w} : workers'[v] = workers[v]
           /\ workers'[w].batch = batch /\ workers'[w].current = None
           /\ WorkerOK(w)'
<1> DEFINE busy == [AtRest EXCEPT !.phase = "working", !.batch = batch]
<1>1. busy \in WorkerState
  BY RestRows DEF WorkerState, Phase
<1>2. busy.batch = batch /\ busy.current = None /\ busy.phase = "working"
  BY DEF AtRest
<1>3. workers' = [workers EXCEPT ![w] = IF batch = {} THEN AtRest ELSE busy]
  BY DEF Continues, Works
<1> HIDE DEF busy
<1>4. /\ workers' \in [Worker -> WorkerState]
      /\ workers'[w] = IF batch = {} THEN AtRest ELSE busy
      /\ \A v \in Worker \ {w} : workers'[v] = workers[v]
  BY <1>1, <1>3, RestRows DEF TypeOK
<1>5. workers'[w].batch = batch /\ workers'[w].current = None
      /\ workers'[w].phase \in {"idle", "working"}
      /\ (workers'[w].phase = "idle" => batch = {})
  BY <1>2, <1>4, RestRows
<1> QED
  BY <1>4, <1>5, NoneAssumption DEF WorkerOK

(* A round: what goes into the batch was waiting, so nobody had it. *)
LEMMA ClaimMoves == ASSUME DeliveryInv, NEW w \in Worker, processDue(w) PROVE Moves(w)
<1> USE DeliveryAssumption
<1> DEFINE rows == recoverStaleClaims
<1> DEFINE claimable == {n \in Notification : Claimable(rows[n])}
<1>1. TypeOK
  BY DEF DeliveryInv
<1>2. PICK batch \in SUBSET claimable :
         outbox' = claimBatch(rows, batch) /\ Continues(w, batch)
  BY DEF processDue
<1>3. \A n \in Notification \ StaleClaims : rows[n] = outbox[n]
  BY DEF recoverStaleClaims
<1>4. rows \in [Notification -> Row]
  <2>1. \A n \in Notification : outbox[n] \in Row
    BY <1>1 DEF TypeOK
  <2>2. \A n \in Notification :
           [outbox[n] EXCEPT !.status = "RETRY_SCHEDULED", !.due = TRUE,
                             !.old = FALSE, !.transient = TRUE] \in Row
    BY <2>1 DEF Row, Waiting
  <2> QED
    BY <2>1, <2>2 DEF recoverStaleClaims
<1> HIDE DEF rows
<1>5. /\ outbox' \in [Notification -> Row]
      /\ \A n \in Notification \ batch : outbox'[n] = rows[n]
      /\ \A n \in batch : /\ outbox'[n].status = "PROCESSING"
                          /\ outbox'[n].attempts = rows[n].attempts
                          /\ outbox'[n].message = rows[n].message
  <2>1. \A n \in Notification :
           outbox'[n] = IF n \in batch THEN [rows[n] EXCEPT !.status = "PROCESSING", !.old = FALSE]
                        ELSE rows[n]
    BY <1>2 DEF claimBatch
  <2>2. \A n \in Notification :
           LET row == [rows[n] EXCEPT !.status = "PROCESSING", !.old = FALSE] IN
           /\ row \in Row
           /\ row.status = "PROCESSING"
           /\ row.attempts = rows[n].attempts /\ row.message = rows[n].message
    BY <1>4 DEF Row
  <2>3. outbox' \in [Notification -> Row]
    BY <1>2, <1>4, <2>2 DEF claimBatch
  <2>4. batch \subseteq Notification
    BY <1>2
  <2> QED
    BY <2>1, <2>2, <2>3, <2>4
<1>6. /\ workers' \in [Worker -> WorkerState]
      /\ \A v \in Worker \ {w} : workers'[v] = workers[v]
      /\ workers'[w].batch = batch /\ workers'[w].current = None
      /\ WorkerOK(w)'
  BY <1>1, <1>2, Goes
<1>7. released' = released \cup StaleClaims /\ UNCHANGED <<bookings, found, retrying, faults, calls>>
  BY DEF processDue
<1>8. TypeOK'
  BY <1>1, <1>5, <1>6, <1>7 DEF TypeOK, StaleClaims
<1>9. ASSUME NEW n \in Notification \ released'
      PROVE  (Same(w, n) \/ Turns(w, n)) /\ ClaimCounts(w, n)'
  <2>1. rows[n] = outbox[n] /\ n \in Notification \ released
    BY <1>3, <1>7
  <2>2. /\ outbox[n] \in Row /\ calls[n] \in Nat
        /\ outbox[n].message => outbox[n].status \in {"SENT", "DELIVERED", "FAILED"}
        /\ \A v \in Worker : Holds(v, n) => outbox[n].status = "PROCESSING"
        /\ CountOK(n)
    BY <2>1, ClaimSays
  <2>3. CASE n \in batch
    <3>1. outbox[n].status \in Waiting
      BY <1>2, <2>1, <2>3 DEF Claimable
    <3>2. \A v \in Worker : ~Holds(v, n)
      BY <2>2, <3>1 DEF Waiting
    <3>3. /\ outbox'[n].status = "PROCESSING" /\ outbox'[n].attempts = outbox[n].attempts
          /\ ~outbox'[n].message
      BY <1>5, <2>1, <2>2, <2>3, <3>1 DEF Waiting
    <3>4. /\ outbox[n].attempts \in Nat /\ outbox[n].attempts < MaxAttempts
          /\ calls[n] <= outbox[n].attempts /\ calls'[n] = calls[n]
      BY <1>7, <2>2, <3>1 DEF CountOK, Row
    <3>5. CountOK(n)'
      BY <2>2, <3>3, <3>4 DEF CountOK, Waiting
    <3>6. ClaimCounts(w, n)'
      BY <1>6, <3>3, <3>4, NoneAssumption DEF ClaimCounts
    <3> QED
      BY <3>1, <3>2, <3>3, <3>5, <3>6 DEF Turns
  <2>4. CASE n \notin batch
    BY <1>5, <1>6, <1>7, <2>1, <2>4, NoneAssumption DEF Same, Holds, ClaimCounts
  <2> QED
    BY <2>3, <2>4
<1> QED
  BY <1>6, <1>7, <1>8, <1>9 DEF Moves

(* The next message of the batch. *)
LEMMA ProcessMoves == ASSUME DeliveryInv, NEW w \in Worker, processOne(w) PROVE Moves(w)
<1> USE DeliveryAssumption
<1>1. TypeOK /\ WorkerOK(w)
  BY DEF DeliveryInv, WorkersOK
<1>2. PICK n \in workers[w].batch :
         LET rest == workers[w].batch \ {n} IN
         \/ /\ outbox[n].status # "PROCESSING"
            /\ Continues(w, rest)
            /\ UNCHANGED outbox
         \/ /\ outbox[n].status = "PROCESSING"
            /\ Outdated(n)
            /\ outbox' = [outbox EXCEPT ![n].status = "SKIPPED", ![n].old = FALSE]
            /\ Continues(w, rest)
         \/ /\ outbox[n].status = "PROCESSING"
            /\ ~Outdated(n)
            /\ Works(w, [AtRest EXCEPT !.phase = "sending", !.batch = rest, !.current = n,
                                       !.attempt = outbox[n].attempts + 1])
            /\ UNCHANGED outbox
  BY DEF processOne
<1> DEFINE rest == workers[w].batch \ {n}
<1>3. /\ UNCHANGED <<bookings, found, retrying, faults, calls, released>>
      /\ n \in Notification /\ rest \in SUBSET Notification /\ rest \subseteq workers[w].batch
      /\ outbox[n] \in Row
      /\ workers[w].current = None
  BY <1>1, <1>2 DEF processOne, TypeOK, WorkerState, WorkerOK
<1>4. CASE Continues(w, rest) /\ UNCHANGED outbox
  <2>1. /\ workers' \in [Worker -> WorkerState]
        /\ \A v \in Worker \ {w} : workers'[v] = workers[v]
        /\ workers'[w].batch = rest /\ workers'[w].current = None
        /\ WorkerOK(w)'
    BY <1>1, <1>3, <1>4, Goes
  <2>2. TypeOK'
    BY <1>1, <1>3, <1>4, <2>1 DEF TypeOK
  <2>3. ASSUME NEW m \in Notification \ released'
        PROVE  Same(w, m) /\ ClaimCounts(w, m)'
    <3>1. ClaimCounts(w, m)
      BY <1>3, ClaimSays
    <3> QED
      BY <1>3, <1>4, <2>1, <3>1, NoneAssumption DEF Same, Holds, ClaimCounts
  <2> QED
    BY <1>3, <2>1, <2>2, <2>3 DEF Moves
<1>5. CASE /\ outbox' = [outbox EXCEPT ![n].status = "SKIPPED", ![n].old = FALSE]
           /\ Continues(w, rest)
           /\ outbox[n].status = "PROCESSING"
  <2>1. /\ workers' \in [Worker -> WorkerState]
        /\ \A v \in Worker \ {w} : workers'[v] = workers[v]
        /\ workers'[w].batch = rest /\ workers'[w].current = None
        /\ WorkerOK(w)'
    BY <1>1, <1>3, <1>5, Goes
  <2>2. /\ outbox' \in [Notification -> Row]
        /\ outbox'[n].status = "SKIPPED" /\ outbox'[n].attempts = outbox[n].attempts
        /\ outbox'[n].message = outbox[n].message
        /\ \A m \in Notification \ {n} : outbox'[m] = outbox[m]
    BY <1>1, <1>3, <1>5 DEF TypeOK, Row, Settled
  <2>3. TypeOK'
    BY <1>1, <1>3, <2>1, <2>2 DEF TypeOK
  <2>4. ASSUME NEW m \in Notification \ released'
        PROVE  (Same(w, m) \/ Turns(w, m)) /\ ClaimCounts(w, m)'
    <3>1. /\ outbox[m] \in Row /\ calls[m] \in Nat
          /\ outbox[m].message => outbox[m].status \in {"SENT", "DELIVERED", "FAILED"}
          /\ \A v \in Worker : Holds(v, m) => \A u \in Worker \ {v} : ~Holds(u, m)
          /\ CountOK(m) /\ ClaimCounts(w, m)
      BY <1>3, ClaimSays
    <3>2. CASE m = n
      <4>1. Holds(w, n) /\ ~Holds(w, n)'
        BY <1>2, <1>3, <2>1, NoneAssumption DEF Holds
      <4>2. CountOK(n)'
        BY <1>3, <1>5, <2>2, <3>1, <3>2 DEF CountOK, Waiting, Row
      <4>3. ClaimCounts(w, n)'
        BY <1>3, <2>1, NoneAssumption DEF ClaimCounts
      <4> QED
        BY <1>5, <2>2, <3>1, <3>2, <4>1, <4>2, <4>3 DEF Turns
    <3>3. CASE m # n
      BY <1>3, <2>1, <2>2, <3>1, <3>3, NoneAssumption DEF Same, Holds, ClaimCounts
    <3> QED
      BY <3>2, <3>3
  <2> QED
    BY <1>3, <2>1, <2>3, <2>4 DEF Moves
<1>6. CASE /\ Works(w, [AtRest EXCEPT !.phase = "sending", !.batch = rest, !.current = n,
                                      !.attempt = outbox[n].attempts + 1])
           /\ UNCHANGED outbox
  <2> DEFINE attempt == outbox[n].attempts + 1
  <2> DEFINE busy == [AtRest EXCEPT !.phase = "sending", !.batch = rest, !.current = n,
                                    !.attempt = attempt]
  <2>1. attempt \in Nat
    BY <1>3 DEF Row
  <2>2. /\ busy.phase = "sending" /\ busy.batch = rest /\ busy.current = n
        /\ busy.attempt = attempt
    BY DEF AtRest
  <2> HIDE DEF attempt, rest
  <2>3. busy \in WorkerState
    BY <1>3, <2>1, RestRows DEF WorkerState, Phase
  <2> HIDE DEF busy
  <2>4. /\ workers' \in [Worker -> WorkerState]
        /\ \A v \in Worker \ {w} : workers'[v] = workers[v]
        /\ workers'[w] = busy
    BY <1>1, <1>6, <2>3 DEF Works, TypeOK, busy, attempt
  <2>5. WorkerOK(w)'
    BY <1>3, <2>2, <2>4 DEF WorkerOK, rest
  <2>6. TypeOK'
    BY <1>1, <1>3, <1>6, <2>4 DEF TypeOK
  <2>7. ASSUME NEW m \in Notification \ released'
        PROVE  Same(w, m) /\ ClaimCounts(w, m)'
    <3>1. ClaimCounts(w, m)
      BY <1>3, ClaimSays
    <3>2. Same(w, m)
      BY <1>2, <1>3, <1>6, <2>2, <2>4 DEF Same, Holds, rest
    <3>3. ClaimCounts(w, m)'
      BY <1>2, <1>3, <1>6, <2>2, <2>4, <3>1 DEF ClaimCounts, rest, attempt
    <3> QED
      BY <3>2, <3>3
  <2> QED
    BY <1>3, <2>4, <2>5, <2>6, <2>7 DEF Moves
<1> QED
  BY <1>2, <1>4, <1>5, <1>6

(* The call of the provider counts; the claim is as it was. *)
LEMMA SendMoves == ASSUME DeliveryInv, NEW w \in Worker, send(w) PROVE Moves(w)
<1> USE DeliveryAssumption
<1>1. TypeOK /\ WorkerOK(w) /\ workers[w] \in WorkerState
  BY DEF DeliveryInv, WorkersOK, TypeOK
<1>2. PICK outcome \in {"accepted", "retryable", "final"} :
         Works(w, [workers[w] EXCEPT !.phase = "recording", !.outcome = outcome])
  BY DEF send
<1>3. PICK n \in Notification : n = workers[w].current /\ n \notin workers[w].batch
  BY <1>1 DEF send, WorkerOK
<1>4. /\ workers[w].phase = "sending"
      /\ calls' = [calls EXCEPT ![n] = IF @ > MaxAttempts THEN @ ELSE @ + 1]
      /\ UNCHANGED <<bookings, outbox, found, retrying, faults, released>>
  BY <1>3 DEF send
<1>5. /\ workers' \in [Worker -> WorkerState]
      /\ \A v \in Worker \ {w} : workers'[v] = workers[v]
      /\ workers'[w].batch = workers[w].batch /\ workers'[w].current = n
      /\ workers'[w].attempt = workers[w].attempt /\ workers'[w].phase = "recording"
  <2>1. [workers[w] EXCEPT !.phase = "recording", !.outcome = outcome] \in WorkerState
    BY <1>1 DEF WorkerState, Phase
  <2> QED
    BY <1>3, <1>1, <1>2, <2>1 DEF Works, TypeOK, WorkerState
<1>6. /\ calls' \in [Notification -> 0..MaxAttempts + 1]
      /\ \A m \in Notification \ {n} : calls'[m] = calls[m]
      /\ calls'[n] \in {calls[n], calls[n] + 1}
  <2>1. calls[n] \in 0..MaxAttempts + 1
    BY <1>1 DEF TypeOK
  <2>2. (IF calls[n] > MaxAttempts THEN calls[n] ELSE calls[n] + 1) \in 0..MaxAttempts + 1
    BY <2>1
  <2> QED
    BY <1>1, <1>4, <2>1, <2>2 DEF TypeOK
<1>7. WorkerOK(w)'
  BY <1>3, <1>5 DEF WorkerOK
<1>8. TypeOK'
  BY <1>1, <1>4, <1>5, <1>6 DEF TypeOK
<1>9. ASSUME NEW m \in Notification \ released'
      PROVE  (Same(w, m) \/ Turns(w, m)) /\ ClaimCounts(w, m)'
  <2>1. /\ outbox[m] \in Row /\ calls[m] \in Nat
        /\ outbox[m].message => outbox[m].status \in {"SENT", "DELIVERED", "FAILED"}
        /\ \A v \in Worker : Holds(v, m) =>
              outbox[m].status = "PROCESSING" /\ \A u \in Worker \ {v} : ~Holds(u, m)
        /\ CountOK(m) /\ ClaimCounts(w, m)
    BY <1>4, ClaimSays
  <2>2. CASE m = n
    <3>1. Holds(w, n) /\ outbox[n].status = "PROCESSING" /\ \A u \in Worker \ {w} : ~Holds(u, n)
      BY <1>3, <2>1, <2>2 DEF Holds
    <3>2. /\ outbox[n].attempts \in Nat /\ outbox[n].attempts < MaxAttempts
          /\ calls[n] <= outbox[n].attempts
          /\ workers[w].attempt = outbox[n].attempts + 1
      BY <1>3, <1>4, <2>1, <2>2, <3>1 DEF CountOK, ClaimCounts, Row
    <3>3. CountOK(n)'
      BY <1>4, <1>6, <2>1, <2>2, <3>1, <3>2 DEF CountOK, Waiting
    <3>4. ClaimCounts(w, n)'
      BY <1>3, <1>4, <1>5, <3>2 DEF ClaimCounts
    <3> QED
      BY <1>3, <1>4, <2>1, <2>2, <3>1, <3>3, <3>4 DEF Turns
  <2>3. CASE m # n
    BY <1>3, <1>4, <1>5, <1>6, <2>1, <2>3 DEF Same, Holds, ClaimCounts
  <2> QED
    BY <2>2, <2>3
<1> QED
  BY <1>4, <1>5, <1>7, <1>8, <1>9 DEF Moves

(* What became of the message is recorded; nobody else has its row. *)
LEMMA RecordMoves ==
    ASSUME DeliveryInv, NEW w \in Worker, recordSent(w) \/ failOrRetry(w) PROVE Moves(w)
<1> USE DeliveryAssumption
<1>1. TypeOK /\ WorkerOK(w) /\ workers[w] \in WorkerState
  BY DEF DeliveryInv, WorkersOK, TypeOK
<1>2. PICK n \in Notification : n = workers[w].current /\ n \notin workers[w].batch
  BY <1>1 DEF recordSent, failOrRetry, WorkerOK
<1>3. /\ workers[w].batch \in SUBSET Notification /\ workers[w].attempt \in Nat
      /\ outbox[n] \in Row
  BY <1>1 DEF WorkerState, TypeOK
<1>4. PICK row \in Row :
         /\ Records(w, row)
         /\ row.attempts = workers[w].attempt
         /\ \/ row.status = "SENT"
            \/ row.status = "FAILED" /\ row.message = outbox[n].message
            \/ /\ row.status = "RETRY_SCHEDULED" /\ row.message = outbox[n].message
               /\ workers[w].attempt < MaxAttempts
  <2>1. CASE recordSent(w)
    <3> DEFINE row == [outbox[n] EXCEPT !.status = "SENT", !.attempts = workers[w].attempt,
                                        !.message = TRUE, !.old = FALSE, !.transient = FALSE]
    <3>1. Records(w, row)
      BY <1>2, <2>1 DEF recordSent, Current
    <3>2. row \in Row /\ row.attempts = workers[w].attempt /\ row.status = "SENT"
      BY <1>3 DEF Row, Settled
    <3> QED
      BY <3>1, <3>2
  <2>2. CASE failOrRetry(w)
    <3> DEFINE retry == workers[w].outcome = "retryable" /\ workers[w].attempt < MaxAttempts
    <3> DEFINE kind == IF retry THEN "RETRY_SCHEDULED" ELSE "FAILED"
    <3> DEFINE later == ~retry
    <3> DEFINE again == (workers[w].outcome = "retryable")
    <3> DEFINE row == [outbox[n] EXCEPT !.status = kind,
                           !.attempts = workers[w].attempt, !.due = later, !.old = FALSE,
                           !.transient = again]
    <3>1. FailedRow(w) = row
      BY <1>2 DEF FailedRow, Current
    <3>2. later \in BOOLEAN /\ again \in BOOLEAN
      OBVIOUS
    <3>3. \/ kind = "RETRY_SCHEDULED" /\ workers[w].attempt < MaxAttempts
          \/ kind = "FAILED"
      OBVIOUS
    <3>4. Records(w, row)
      BY <2>2, <3>1 DEF failOrRetry
    <3> HIDE DEF kind, later, again
    <3>5. /\ row \in Row /\ row.attempts = workers[w].attempt /\ row.status = kind
          /\ row.message = outbox[n].message
      BY <1>3, <3>2, <3>3 DEF Row, Settled, Waiting
    <3> QED
      BY <3>3, <3>4, <3>5
  <2> QED
    BY <2>1, <2>2
<1>5. /\ outbox' = [outbox EXCEPT ![n] = row]
      /\ UNCHANGED <<bookings, found, retrying, faults, calls, released>>
  BY <1>4, <1>2 DEF Records
<1>6. /\ workers' \in [Worker -> WorkerState]
      /\ \A v \in Worker \ {w} : workers'[v] = workers[v]
      /\ workers'[w].batch = workers[w].batch /\ workers'[w].current = None
      /\ WorkerOK(w)'
  <2> DEFINE batch == workers[w].batch
  <2>1. batch \in SUBSET Notification /\ Continues(w, batch)
    BY <1>3, <1>4 DEF Records
  <2>2. PICK b \in SUBSET Notification : b = batch
    BY <2>1
  <2>3. Continues(w, b)
    BY <2>1, <2>2
  <2> QED
    BY <1>1, <2>2, <2>3, Goes
<1>7. /\ outbox' \in [Notification -> Row] /\ outbox'[n] = row
      /\ \A m \in Notification \ {n} : outbox'[m] = outbox[m]
  BY <1>1, <1>3, <1>4, <1>5 DEF TypeOK
<1>8. TypeOK'
  BY <1>1, <1>5, <1>6, <1>7 DEF TypeOK
<1>9. ASSUME NEW m \in Notification \ released'
      PROVE  (Same(w, m) \/ Turns(w, m)) /\ ClaimCounts(w, m)'
  <2>1. /\ outbox[m] \in Row /\ calls[m] \in Nat
        /\ outbox[m].message => outbox[m].status \in {"SENT", "DELIVERED", "FAILED"}
        /\ \A v \in Worker : Holds(v, m) =>
              outbox[m].status = "PROCESSING" /\ \A u \in Worker \ {v} : ~Holds(u, m)
        /\ CountOK(m) /\ ClaimCounts(w, m)
    BY <1>5, ClaimSays
  <2>2. CASE m = n
    <3>1. /\ Holds(w, n) /\ outbox[n].status = "PROCESSING"
          /\ \A u \in Worker \ {w} : ~Holds(u, n)
          /\ ~outbox[n].message
      BY <1>2, <2>1, <2>2 DEF Holds
    <3>2. ~Holds(w, n)'
      BY <1>6, <1>2, NoneAssumption DEF Holds
    <3>3. /\ outbox[n].attempts \in Nat /\ outbox[n].attempts < MaxAttempts
          /\ calls[n] <= outbox[n].attempts + 1
          /\ workers[w].attempt = outbox[n].attempts + 1
      BY <1>2, <2>1, <2>2, <3>1 DEF CountOK, ClaimCounts, Row
    <3>4. CountOK(n)'
      BY <1>4, <1>5, <1>7, <2>1, <2>2, <3>3 DEF CountOK, Waiting
    <3>5. ClaimCounts(w, n)'
      BY <1>6, <1>2, NoneAssumption DEF ClaimCounts
    <3> QED
      BY <1>4, <1>7, <2>2, <3>1, <3>2, <3>4, <3>5 DEF Turns
  <2>3. CASE m # n
    BY <1>5, <1>6, <1>7, <2>1, <2>3, NoneAssumption DEF Same, Holds, ClaimCounts
  <2> QED
    BY <2>2, <2>3
<1> QED
  BY <1>5, <1>6, <1>8, <1>9 DEF Moves

(* A worker that dies forgets its batch; one whose update fails has still
   to record. *)
LEMMA FaultMoves ==
    ASSUME DeliveryInv, NEW w \in Worker, Crash(w) \/ SentUpdateFails(w) PROVE Moves(w)
<1> USE DeliveryAssumption
<1>1. TypeOK /\ WorkerOK(w) /\ workers[w] \in WorkerState
  BY DEF DeliveryInv, WorkersOK, TypeOK
<1>2. /\ UNCHANGED <<bookings, outbox, found, retrying, calls, released>>
      /\ faults' \in 0..MaxFaults
  BY <1>1 DEF Crash, SentUpdateFails, Faults, TypeOK
<1>3. /\ workers' \in [Worker -> WorkerState]
      /\ \A v \in Worker \ {w} : workers'[v] = workers[v]
      /\ \/ workers'[w] = AtRest
         \/ /\ workers[w].phase = "recording" /\ workers'[w].phase = "recording"
            /\ workers'[w].batch = workers[w].batch /\ workers'[w].current = workers[w].current
            /\ workers'[w].attempt = workers[w].attempt
  <2>1. CASE Crash(w)
    BY <1>1, <2>1, RestRows DEF Crash, Works, TypeOK
  <2>2. CASE SentUpdateFails(w)
    <3>1. [workers[w] EXCEPT !.outcome = "retryable"] \in WorkerState
      BY <1>1 DEF WorkerState
    <3> QED
      BY <1>1, <2>2, <3>1 DEF SentUpdateFails, Works, TypeOK, WorkerState
  <2> QED
    BY <2>1, <2>2
<1>4. WorkerOK(w)'
  BY <1>1, <1>3, RestRows, NoneAssumption DEF WorkerOK
<1>5. TypeOK'
  BY <1>1, <1>2, <1>3 DEF TypeOK
<1>6. ASSUME NEW m \in Notification \ released'
      PROVE  Same(w, m) /\ ClaimCounts(w, m)'
  <2>1. ClaimCounts(w, m)
    BY <1>2, ClaimSays
  <2> QED
    BY <1>2, <1>3, <2>1, RestRows, NoneAssumption DEF Same, Holds, ClaimCounts
<1> QED
  BY <1>2, <1>3, <1>4, <1>5, <1>6 DEF Moves

LEMMA WorkerMoves ==
    ASSUME DeliveryInv, NEW w \in Worker, WorkerStep(w) \/ Crash(w) \/ SentUpdateFails(w)
    PROVE  Moves(w)
BY ClaimMoves, ProcessMoves, SendMoves, RecordMoves, FaultMoves DEF WorkerStep

-----------------------------------------------------------------------------
LEMMA InitDelivery == Init => DeliveryInv
<1> USE DeliveryAssumption
<1> SUFFICES ASSUME Init PROVE DeliveryInv
  OBVIOUS
<1>1. bookings \in [Booking -> BookingRow]
  <2>1. PICK s \in [Booking -> Start] :
           bookings = [b \in Booking |-> [status |-> "PENDING_APPROVAL", revision |-> 1,
                                          start |-> s[b], reminder |-> "early", enabled |-> TRUE]]
    BY DEF Init
  <2> QED
    BY <2>1 DEF BookingRow
<1>2. TypeOK
  BY <1>1, RestRows DEF Init, TypeOK
<1>3. \A n \in Notification : /\ outbox[n].status = "NONE" /\ outbox[n].attempts = 0
                              /\ ~outbox[n].message /\ calls[n] = 0
  BY DEF Init, Absent
<1>4. \A w \in Worker, n \in Notification : ~Holds(w, n)
  BY RestRows, NoneAssumption DEF Init, Holds
<1>5. WorkersOK
  BY RestRows DEF Init, WorkersOK, WorkerOK
<1>6. AcceptedIsOut /\ ClaimIsExclusive
  BY <1>3, <1>4 DEF AcceptedIsOut, ClaimIsExclusive
<1>7. CountsFollow
  BY <1>3, <1>4 DEF CountsFollow, CountOK, ClaimCounts, Waiting, Holds
<1> QED
  BY <1>2, <1>5, <1>6, <1>7 DEF DeliveryInv

LEMMA StepIs ==
    ASSUME DeliveryInv, Next
    PROVE  MildStep \/ \E w \in Worker : Moves(w)
BY BookingIsMild, OthersAreMild, WorkerMoves DEF Next

LEMMA DeliveryStep == DeliveryInv /\ [Next]_vars => DeliveryInv'
<1> SUFFICES ASSUME DeliveryInv, [Next]_vars PROVE DeliveryInv'
  OBVIOUS
<1>1. CASE Next
  BY <1>1, StepIs, MildKeeps, MovesKeep
<1>2. CASE UNCHANGED vars
  BY <1>2 DEF vars, DeliveryInv, TypeOK, WorkersOK, WorkerOK, AcceptedIsOut, ClaimIsExclusive,
              CountsFollow, CountOK, ClaimCounts, Holds
<1> QED
  BY <1>1, <1>2

LEMMA DeliveryInvariant == Spec => []DeliveryInv
BY InitDelivery, DeliveryStep, PTL DEF Spec

(* The outbox, the scheduler, the workers and the administrators: every row
   and every worker has its type, at any time. *)
THEOREM DeliveryTypeCorrect == Spec => []TypeOK
<1>1. DeliveryInv => TypeOK
  BY DEF DeliveryInv
<1> QED
  BY <1>1, DeliveryInvariant, PTL

(* NotificationWorkerService.claimBatch: for any number of workers, of
   crashes and of changes of the bookings, a claimed message belongs to the
   worker that claimed it until that worker has recorded what became of it,
   unless the claim was taken for stale or an administrator retried. *)
THEOREM ClaimsAreExclusive == Spec => []ClaimIsExclusive
<1>1. DeliveryInv => ClaimIsExclusive
  BY DEF DeliveryInv
<1> QED
  BY <1>1, DeliveryInvariant, PTL

(* NotificationWorkerService.failOrRetry: with the same exception, the
   provider is never called more often for a message than the "max_attempts"
   of its row, whatever crashes and lost updates come between. *)
THEOREM CallsAreBounded == Spec => []CalledAtMost
<1>1. DeliveryInv => CalledAtMost
  BY DEF DeliveryInv, CountsFollow, CountOK, CalledAtMost
<1> QED
  BY <1>1, DeliveryInvariant, PTL

(* What a change of the booking withdrew, or the worker skipped, is never
   sent and its row never written again, unless somebody has put it back:
   nobody holds a message that is skipped. *)
THEOREM WithdrawnMessagesStay == Spec => WithdrawnStays
<1> DEFINE Stays == \A n \in Notification \ released' :
                       outbox[n].status = "SKIPPED" => outbox'[n] = outbox[n] /\ calls'[n] = calls[n]
<1>1. ASSUME DeliveryInv, [Next]_vars PROVE Stays \/ UNCHANGED vars
  <2>1. CASE MildStep
    <3> SUFFICES ASSUME NEW n \in Notification \ released', outbox[n].status = "SKIPPED"
                 PROVE  outbox'[n] = outbox[n] /\ calls'[n] = calls[n]
      OBVIOUS
    <3>1. n \in Notification \ released
      BY <2>1 DEF MildStep
    <3>2. ~outbox[n].message
      BY <1>1, <3>1, ClaimSays
    <3> QED
      BY <2>1, <3>2 DEF MildStep, Mild, Waiting
  <2>2. ASSUME NEW w \in Worker, Moves(w) PROVE Stays
    <3> SUFFICES ASSUME NEW n \in Notification \ released', outbox[n].status = "SKIPPED"
                 PROVE  outbox'[n] = outbox[n] /\ calls'[n] = calls[n]
      OBVIOUS
    <3>1. Same(w, n) \/ Turns(w, n)
      BY <2>2 DEF Moves
    <3> QED
      BY <3>1 DEF Same, Turns, Waiting
  <2> QED
    BY <1>1, <2>1, <2>2, StepIs
<1>2. DeliveryInv /\ [Next]_vars => [Stays]_vars
  BY <1>1
<1> QED
  BY <1>2, DeliveryInvariant, PTL DEF Spec, WithdrawnStays

-----------------------------------------------------------------------------
(* The outbox as a queue.  What each message shows of itself there follows
   from who holds it and from its status. *)

Done == {"SENT", "DELIVERED", "FAILED"}

Shows(n) ==
    /\ n \in released =>
          QueueStage[n] = "released" /\ QueueHands[n] = {} /\ QueueSaid[n] = 0
    /\ n \notin released =>
          /\ QueueSaid[n] = calls[n]
          /\ \A w \in Worker : Holds(w, n) =>
                /\ QueueHands[n] = {w}
                /\ QueueStage[n] = IF workers[w].phase = "recording" /\ workers[w].current = n
                                   THEN "said" ELSE "taken"
          /\ (\A w \in Worker : ~Holds(w, n)) =>
                /\ QueueHands[n] = {}
                /\ outbox[n].status = "NONE" => QueueStage[n] = "none"
                /\ outbox[n].status \in Waiting => QueueStage[n] = "waiting"
                /\ outbox[n].status = "SKIPPED" => QueueStage[n] = "void"
                /\ outbox[n].status \in Done => QueueStage[n] = "done"
                /\ outbox[n].status = "PROCESSING" => QueueStage[n] = "lost"

QueueShows == Queue!Rows /\ \A n \in Notification : Shows(n)

(* As every claim is exclusive, a message is in the hands of one worker. *)
LEMMA QueueIsShown == DeliveryInv => QueueShows
<1> SUFFICES ASSUME DeliveryInv PROVE QueueShows
  OBVIOUS
<1>1. TypeOK /\ ClaimIsExclusive
  BY DEF DeliveryInv
<1>2. ASSUME NEW n \in Notification
      PROVE  /\ QueueStage[n] = Stage(n)
             /\ QueueHands[n] = IF n \in released THEN {} ELSE Hands(n)
             /\ QueueSaid[n] = IF n \in released THEN 0 ELSE calls[n]
             /\ Hands(n) \in SUBSET Worker /\ calls[n] \in Nat
             /\ outbox[n].status \in {"NONE", "PROCESSING"} \cup Waiting \cup Settled
  BY <1>1, DeliveryAssumption DEF QueueStage, QueueHands, QueueSaid, Hands, TypeOK, Row
<1>3. ASSUME NEW n \in Notification PROVE Stage(n) \in Queue!Stages
  BY <1>2 DEF Stage, Queue!Stages, Waiting, Settled
<1>4. Queue!Rows
  <2>1. /\ QueueStage \in [Notification -> Queue!Stages]
        /\ QueueHands \in [Notification -> SUBSET Worker]
        /\ QueueSaid \in [Notification -> Nat]
    BY <1>2, <1>3 DEF QueueStage, QueueHands, QueueSaid
  <2> QED
    BY <2>1 DEF Queue!Rows
<1>5. ASSUME NEW n \in Notification PROVE Shows(n)
  <2>1. CASE n \in released
    BY <1>2, <2>1 DEF Shows, Stage
  <2>2. ASSUME n \notin released, NEW w \in Worker, Holds(w, n)
        PROVE  /\ QueueHands[n] = {w}
               /\ QueueStage[n] = IF workers[w].phase = "recording" /\ workers[w].current = n
                                  THEN "said" ELSE "taken"
    <3>1. outbox[n].status = "PROCESSING" /\ \A v \in Worker \ {w} : ~Holds(v, n)
      BY <1>1, <2>2 DEF ClaimIsExclusive
    <3>2. Hands(n) = {w}
      BY <2>2, <3>1 DEF Hands
    <3>3. Said(n) <=> workers[w].phase = "recording" /\ workers[w].current = n
      BY <3>1 DEF Said, Holds
    <3>4. Stage(n) = IF Said(n) THEN "said" ELSE IF Hands(n) # {} THEN "taken" ELSE "lost"
      BY <2>2, <3>1 DEF Stage, Said, Waiting, Settled
    <3> QED
      BY <1>2, <2>2, <3>2, <3>3, <3>4
  <2>3. ASSUME n \notin released, \A w \in Worker : ~Holds(w, n)
        PROVE  /\ QueueHands[n] = {}
               /\ outbox[n].status = "NONE" => QueueStage[n] = "none"
               /\ outbox[n].status \in Waiting => QueueStage[n] = "waiting"
               /\ outbox[n].status = "SKIPPED" => QueueStage[n] = "void"
               /\ outbox[n].status \in Done => QueueStage[n] = "done"
               /\ outbox[n].status = "PROCESSING" => QueueStage[n] = "lost"
    <3>1. Hands(n) = {} /\ ~Said(n)
      BY <2>3 DEF Hands, Said, Holds
    <3> QED
      BY <1>2, <2>3, <3>1 DEF Stage, Said, Done, Waiting, Settled
  <2> QED
    BY <1>2, <2>1, <2>2, <2>3 DEF Shows
<1> QED
  BY <1>4, <1>5 DEF QueueShows

LEMMA QueueIsShownNext == DeliveryInv' => QueueShows'
BY QueueIsShown, PTL

(* An administrator has looked at a message that was done, and done it is
   until somebody puts it back. *)
RetryKnows ==
    \A a \in Admin :
        retrying[a] \in Notification \ released => outbox[retrying[a]].status \in Done

(* A message that shows nothing new. *)
Still(n) ==
    /\ n \in released' <=> n \in released
    /\ n \notin released =>
          /\ \/ outbox'[n].status = outbox[n].status
             \/ outbox'[n].status \in Done /\ outbox[n].status \in Done
          /\ calls'[n] = calls[n]
          /\ \A w \in Worker : Holds(w, n)' <=> Holds(w, n)
          /\ \A w \in Worker :
                (workers[w].phase = "recording" /\ workers[w].current = n)' <=>
                    (workers[w].phase = "recording" /\ workers[w].current = n)

(* Such a message stays what it is in the queue. *)
LEMMA StillStays ==
    ASSUME DeliveryInv, DeliveryInv', NEW n \in Notification, Still(n)
    PROVE  Queue!Stays(n)
<1>1. Shows(n) /\ Shows(n)'
  BY QueueIsShown, QueueIsShownNext DEF QueueShows
<1>2. CASE n \in released
  BY <1>1, <1>2 DEF Shows, Still, Queue!Stays, Queue!Turns
<1>3. ASSUME n \notin released, NEW w \in Worker, Holds(w, n) PROVE Queue!Stays(n)
  <2>1. Holds(w, n)' /\ n \notin released'
    BY <1>3 DEF Still
  <2>2. QueueStage'[n] = QueueStage[n] /\ QueueHands'[n] = QueueHands[n]
    BY <1>1, <1>3, <2>1 DEF Shows, Still
  <2>3. QueueSaid'[n] = QueueSaid[n]
    BY <1>1, <1>3, <2>1 DEF Shows, Still
  <2> QED
    BY <2>2, <2>3 DEF Queue!Stays, Queue!Turns
<1>4. ASSUME n \notin released, \A w \in Worker : ~Holds(w, n) PROVE Queue!Stays(n)
  <2>1. n \notin released' /\ \A w \in Worker : ~Holds(w, n)'
    BY <1>4 DEF Still
  <2>2. outbox[n].status \in {"NONE", "PROCESSING"} \cup Waiting \cup Settled
    BY DEF DeliveryInv, TypeOK, Row
  <2>3. QueueStage'[n] = QueueStage[n] /\ QueueHands'[n] = QueueHands[n]
    BY <1>1, <1>4, <2>1, <2>2 DEF Shows, Still, Done, Settled
  <2>4. QueueSaid'[n] = QueueSaid[n]
    BY <1>1, <1>4, <2>1 DEF Shows, Still
  <2> QED
    BY <2>3, <2>4 DEF Queue!Stays, Queue!Turns
<1> QED
  BY <1>2, <1>3, <1>4

(* What everybody but a worker does to a message, unless it is put back. *)
LEMMA MildChanges ==
    ASSUME DeliveryInv, DeliveryInv', MildStep,
           NEW n \in Notification, n \in released' => n \in released
    PROVE  Queue!Stays(n) \/ Queue!Write(n) \/ Queue!Withdraw(n)
<1>1. Shows(n) /\ Shows(n)'
  BY QueueIsShown, QueueIsShownNext DEF QueueShows
<1>2. /\ UNCHANGED <<workers, calls>> /\ released \subseteq released'
      /\ n \notin released => Mild(n)
  BY DEF MildStep
<1>3. \A w \in Worker : Holds(w, n)' <=> Holds(w, n)
  BY <1>2 DEF Holds
<1>4. CASE n \in released
  BY <1>2, <1>4, StillStays DEF Still
<1>5. CASE n \notin released
  <2>1. /\ outbox[n].message => outbox[n].status \in Done
        /\ \A w \in Worker : Holds(w, n) => outbox[n].status = "PROCESSING"
    BY <1>5, ClaimSays DEF Done
  <2>2. CASE outbox'[n].status = outbox[n].status \/ (outbox[n].message /\ outbox'[n].status \in Done)
    <3>1. Still(n)
      BY <1>2, <1>3, <1>5, <2>1, <2>2 DEF Still
    <3> QED
      BY <3>1, StillStays
  <2>3. CASE outbox[n].status = "NONE" /\ outbox'[n].status = "PENDING"
    <3>1. \A w \in Worker : ~Holds(w, n) /\ ~Holds(w, n)'
      BY <1>3, <2>1, <2>3
    <3> QED
      BY <1>1, <1>2, <1>5, <2>3, <3>1 DEF Shows, Waiting, Queue!Write, Queue!Turns
  <2>4. CASE outbox[n].status \in Waiting /\ outbox'[n].status = "SKIPPED"
    <3>1. \A w \in Worker : ~Holds(w, n) /\ ~Holds(w, n)'
      BY <1>3, <2>1, <2>4 DEF Waiting
    <3> QED
      BY <1>1, <1>2, <1>5, <2>4, <3>1 DEF Shows, Queue!Withdraw, Queue!Turns
  <2> QED
    BY <1>2, <1>5, <2>2, <2>3, <2>4 DEF Mild, Done
<1> QED
  BY <1>4, <1>5

(* A round: the batch was waiting, and old claims are nobody's any more. *)
LEMMA ClaimIsRound ==
    ASSUME DeliveryInv, DeliveryInv', NEW w \in Worker, processDue(w)
    PROVE  Queue!Round(w)
<1> DEFINE rows == recoverStaleClaims
<1>1. TypeOK /\ WorkerOK(w)
  BY DEF DeliveryInv, WorkersOK
<1>2. PICK batch \in SUBSET {n \in Notification : Claimable(rows[n])} :
         outbox' = claimBatch(rows, batch) /\ Continues(w, batch)
  BY DEF processDue
<1>3. /\ workers[w].phase = "idle" /\ released' = released \cup StaleClaims
      /\ calls' = calls
  BY DEF processDue
<1>4. /\ workers' \in [Worker -> WorkerState]
      /\ \A v \in Worker \ {w} : workers'[v] = workers[v]
      /\ workers'[w].batch = batch /\ workers'[w].current = None
      /\ WorkerOK(w)'
  BY <1>1, <1>2, Goes
<1>5. \A n \in Notification : ~Holds(w, n) /\ (Holds(w, n)' <=> n \in batch)
  BY <1>1, <1>3, <1>4, NoneAssumption DEF WorkerOK, Holds
<1>6. \A n \in Notification : \A v \in Worker \ {w} : Holds(v, n)' <=> Holds(v, n)
  BY <1>4 DEF Holds
<1>7. \A n \in Notification : Shows(n) /\ Shows(n)'
  BY QueueIsShown, QueueIsShownNext DEF QueueShows
<1>8. ASSUME NEW n \in Notification PROVE w \notin QueueHands[n]
  BY <1>5 DEF QueueHands, Hands
<1>9. ASSUME NEW n \in Notification
      PROVE  Queue!Stays(n) \/ Queue!Take(w, n) \/ Queue!Expire(n)
  <2>1. CASE n \in released
    <3>1. n \in released'
      BY <1>3, <2>1
    <3> QED
      BY <2>1, <3>1, StillStays DEF Still
  <2>2. CASE n \notin released /\ n \in StaleClaims
    <3>1. outbox[n].status = "PROCESSING" /\ n \in released'
      BY <1>3, <2>2 DEF StaleClaims
    <3>2. QueueStage[n] \in {"taken", "said", "lost"}
      BY <1>7, <2>2, <3>1 DEF Shows
    <3> QED
      BY <1>7, <3>1, <3>2 DEF Shows, Queue!Expire, Queue!Released, Queue!Turns
  <2>3. CASE n \notin released /\ n \notin StaleClaims
    <3>1. n \notin released' /\ rows[n] = outbox[n]
      BY <1>3, <2>3 DEF recoverStaleClaims
    <3>2. CASE n \in batch
      <4>1. outbox[n].status \in Waiting
        BY <1>2, <3>1, <3>2 DEF Claimable
      <4>2. \A v \in Worker : ~Holds(v, n)
        BY <2>3, <4>1, ClaimSays DEF Waiting
      <4>3. /\ Holds(w, n)'
            /\ ~(workers[w].phase = "recording" /\ workers[w].current = n)'
        BY <1>4, <1>5, <3>2, NoneAssumption
      <4> QED
        BY <1>3, <1>7, <2>3, <3>1, <4>1, <4>2, <4>3 DEF Shows, Queue!Take, Queue!Turns
    <3>3. CASE n \notin batch
      <4>1. outbox'[n] = outbox[n]
        BY <1>2, <3>1, <3>3 DEF claimBatch
      <4>2. \A v \in Worker : (workers[v].phase = "recording" /\ workers[v].current = n)'
                <=> (workers[v].phase = "recording" /\ workers[v].current = n)
        BY <1>3, <1>4, NoneAssumption
      <4>3. \A v \in Worker : Holds(v, n)' <=> Holds(v, n)
        BY <1>5, <1>6, <3>3
      <4>4. Still(n)
        BY <1>3, <2>3, <3>1, <4>1, <4>2, <4>3 DEF Still
      <4> QED
        BY <4>4, StillStays
    <3> QED
      BY <3>2, <3>3
  <2> QED
    BY <2>1, <2>2, <2>3
<1> QED
  BY <1>8, <1>9 DEF Queue!Round

(* The next message of a batch is dropped, or its worker sets out to send
   it, which the queue does not see. *)
LEMMA ProcessIsSingle ==
    ASSUME DeliveryInv, DeliveryInv', NEW w \in Worker, processOne(w)
    PROVE  Queue!Change \/ \E n \in Notification : Queue!Single(n)
<1>1. TypeOK /\ WorkerOK(w) /\ workers[w].phase = "working"
  BY DEF DeliveryInv, WorkersOK, processOne
<1>2. /\ workers[w] \in WorkerState /\ workers[w].current = None
      /\ UNCHANGED <<calls, released>>
  BY <1>1 DEF TypeOK, WorkerOK, processOne
<1>3. PICK n \in workers[w].batch :
         LET rest == workers[w].batch \ {n} IN
         \/ /\ outbox[n].status # "PROCESSING"
            /\ Continues(w, rest)
            /\ UNCHANGED outbox
         \/ /\ outbox[n].status = "PROCESSING"
            /\ outbox' = [outbox EXCEPT ![n].status = "SKIPPED", ![n].old = FALSE]
            /\ Continues(w, rest)
         \/ /\ Works(w, [AtRest EXCEPT !.phase = "sending", !.batch = rest, !.current = n,
                                       !.attempt = outbox[n].attempts + 1])
            /\ UNCHANGED outbox
  BY DEF processOne
<1>4. n \in Notification /\ outbox[n] \in Row /\ Holds(w, n)
  BY <1>1, <1>2, <1>3 DEF WorkerState, TypeOK, Holds
<1>5. PICK rest \in SUBSET Notification : rest = workers[w].batch \ {n}
  BY <1>2 DEF WorkerState
<1>6. /\ \A v \in Worker \ {w} : workers'[v] = workers[v]
      /\ workers'[w].batch = rest /\ workers'[w].phase # "recording"
      /\ \/ workers'[w].current = n /\ outbox' = outbox
         \/ workers'[w].current = None /\ outbox[n].status # "PROCESSING" /\ outbox' = outbox
         \/ /\ workers'[w].current = None
            /\ outbox' = [outbox EXCEPT ![n].status = "SKIPPED", ![n].old = FALSE]
  <2>1. CASE Continues(w, rest)
    <3>1. /\ \A v \in Worker \ {w} : workers'[v] = workers[v]
          /\ workers'[w].batch = rest /\ workers'[w].current = None
          /\ WorkerOK(w)'
      BY <1>1, <2>1, Goes
    <3>2. workers'[w].phase # "recording"
      BY <3>1, NoneAssumption DEF WorkerOK
    <3>3. \/ outbox[n].status # "PROCESSING" /\ outbox' = outbox
          \/ outbox' = [outbox EXCEPT ![n].status = "SKIPPED", ![n].old = FALSE]
          \/ workers'[w].current = n
      BY <1>1, <1>3 DEF Works, AtRest, TypeOK
    <3> QED
      BY <1>4, <3>1, <3>2, <3>3, NoneAssumption
  <2>2. CASE /\ Works(w, [AtRest EXCEPT !.phase = "sending", !.batch = rest, !.current = n,
                                        !.attempt = outbox[n].attempts + 1])
             /\ UNCHANGED outbox
    BY <1>1, <2>2 DEF Works, AtRest, TypeOK
  <2> QED
    BY <1>3, <1>5, <2>1, <2>2
<1>7. ASSUME NEW m \in Notification \ {n} PROVE Queue!Stays(m)
  <2>1. outbox'[m] = outbox[m]
    BY <1>1, <1>3 DEF TypeOK
  <2>2. \A v \in Worker : Holds(v, m)' <=> Holds(v, m)
    BY <1>2, <1>5, <1>6, NoneAssumption DEF Holds
  <2>3. \A v \in Worker : (workers[v].phase = "recording" /\ workers[v].current = m)'
            <=> (workers[v].phase = "recording" /\ workers[v].current = m)
    BY <1>1, <1>6
  <2>4. Still(m)
    BY <1>2, <2>1, <2>2, <2>3 DEF Still
  <2> QED
    BY <2>4, StillStays
<1>8. CASE n \in released \/ workers'[w].current = n
  <2>1. ASSUME n \in released PROVE Still(n)
    BY <1>2, <2>1 DEF Still
  <2>2. ASSUME n \notin released, workers'[w].current = n PROVE Still(n)
    <3>1. outbox' = outbox
      BY <1>4, <1>6, <2>2, NoneAssumption
    <3>2. \A v \in Worker : Holds(v, n)' <=> Holds(v, n)
      BY <1>4, <1>6, <2>2 DEF Holds
    <3>3. \A v \in Worker : (workers[v].phase = "recording" /\ workers[v].current = n)'
              <=> (workers[v].phase = "recording" /\ workers[v].current = n)
      BY <1>1, <1>6
    <3> QED
      BY <1>2, <3>1, <3>2, <3>3 DEF Still
  <2>3. Still(n)
    BY <1>8, <2>1, <2>2
  <2>4. Queue!Stays(n)
    BY <1>4, <2>3, StillStays
  <2> QED
    BY <1>7, <2>4 DEF Queue!Change
<1>9. CASE n \notin released /\ workers'[w].current # n
  <2>1. /\ outbox[n].status = "PROCESSING"
        /\ \A v \in Worker \ {w} : ~Holds(v, n)
    BY <1>4, <1>9, ClaimSays
  <2>2. \A v \in Worker : ~Holds(v, n)'
    BY <1>5, <1>6, <1>9, <2>1 DEF Holds
  <2>3. outbox'[n].status = "SKIPPED"
    BY <1>1, <1>4, <1>6, <1>9, <2>1 DEF TypeOK, Row
  <2>4. QueueHands[n] = {w} /\ QueueStage[n] = "taken" /\ QueueSaid[n] = calls[n]
    BY <1>1, <1>4, <1>9, QueueIsShown DEF QueueShows, Shows
  <2>5. QueueHands'[n] = {} /\ QueueStage'[n] = "void" /\ QueueSaid'[n] = calls[n]
    BY <1>2, <1>4, <1>9, <2>2, <2>3, QueueIsShownNext DEF QueueShows, Shows
  <2>6. Queue!Drop(w, n)
    BY <2>4, <2>5 DEF Queue!Drop, Queue!Turns
  <2> QED
    BY <1>4, <1>7, <2>6 DEF Queue!Single
<1> QED
  BY <1>8, <1>9

(* The call of the provider: once for the claim. *)
LEMMA SendIsSingle ==
    ASSUME DeliveryInv, DeliveryInv', NEW w \in Worker, send(w)
    PROVE  Queue!Change \/ \E n \in Notification : Queue!Single(n)
<1> USE DeliveryAssumption
<1>1. TypeOK /\ WorkerOK(w) /\ workers[w].phase = "sending"
  BY DEF DeliveryInv, WorkersOK, send
<1>2. PICK n \in Notification : n = workers[w].current /\ n \notin workers[w].batch
  BY <1>1 DEF WorkerOK
<1>3. /\ UNCHANGED <<outbox, released>>
      /\ calls' = [calls EXCEPT ![n] = IF @ > MaxAttempts THEN @ ELSE @ + 1]
      /\ calls \in [Notification -> 0..MaxAttempts + 1]
  BY <1>1, <1>2 DEF send, TypeOK
<1>4. /\ \A v \in Worker \ {w} : workers'[v] = workers[v]
      /\ workers'[w].batch = workers[w].batch /\ workers'[w].current = n
      /\ workers'[w].phase = "recording"
  <2>1. PICK outcome \in {"accepted", "retryable", "final"} :
           Works(w, [workers[w] EXCEPT !.phase = "recording", !.outcome = outcome])
    BY DEF send
  <2> QED
    BY <1>1, <1>2, <2>1 DEF Works, TypeOK, WorkerState
<1>5. \A v \in Worker, m \in Notification : Holds(v, m)' <=> Holds(v, m)
  BY <1>2, <1>4 DEF Holds
<1>6. ASSUME NEW m \in Notification, m # n \/ n \in released PROVE Queue!Stays(m)
  <2>1. CASE m \in released
    BY <1>3, <2>1, StillStays DEF Still
  <2>2. CASE m \notin released
    <3>1. calls'[m] = calls[m] /\ m # n
      BY <1>3, <1>6, <2>2
    <3>2. \A v \in Worker : (workers[v].phase = "recording" /\ workers[v].current = m)'
              <=> (workers[v].phase = "recording" /\ workers[v].current = m)
      BY <1>1, <1>2, <1>4, <3>1
    <3>3. Still(m)
      BY <1>3, <1>5, <3>1, <3>2 DEF Still
    <3> QED
      BY <3>3, StillStays
  <2> QED
    BY <2>1, <2>2
<1>7. CASE n \in released
  BY <1>6, <1>7 DEF Queue!Change
<1>8. CASE n \notin released
  <2>1. Holds(w, n)
    BY <1>2 DEF Holds
  <2>2. calls[n] < MaxAttempts /\ calls[n] \in Nat
    <3>1. /\ outbox[n] \in Row /\ calls[n] \in Nat /\ outbox[n].status = "PROCESSING"
          /\ CountOK(n) /\ ClaimCounts(w, n)
      BY <1>8, <2>1, ClaimSays
    <3> QED
      BY <1>1, <1>2, <3>1 DEF CountOK, ClaimCounts, Row
  <2>3. calls'[n] = calls[n] + 1
    BY <1>3, <2>2
  <2>4. QueueHands[n] = {w} /\ QueueStage[n] = "taken" /\ QueueSaid[n] = calls[n]
    BY <1>1, <1>8, <2>1, QueueIsShown DEF QueueShows, Shows
  <2>5. QueueHands'[n] = {w} /\ QueueStage'[n] = "said" /\ QueueSaid'[n] = calls'[n]
    BY <1>3, <1>4, <1>5, <1>8, <2>1, QueueIsShownNext DEF QueueShows, Shows
  <2>6. Queue!Say(w, n)
    BY <2>2, <2>3, <2>4, <2>5 DEF Queue!Say, Queue!Turns
  <2> QED
    BY <1>6, <2>6 DEF Queue!Single
<1> QED
  BY <1>7, <1>8

(* What became of the message is noted. *)
LEMMA RecordIsSingle ==
    ASSUME DeliveryInv, DeliveryInv', NEW w \in Worker, recordSent(w) \/ failOrRetry(w)
    PROVE  Queue!Change \/ \E n \in Notification : Queue!Single(n)
<1> USE DeliveryAssumption
<1>1. TypeOK /\ WorkerOK(w) /\ workers[w].phase = "recording" /\ workers[w] \in WorkerState
  BY DEF DeliveryInv, WorkersOK, TypeOK, recordSent, failOrRetry
<1>2. PICK n \in Notification : n = workers[w].current /\ n \notin workers[w].batch
  BY <1>1 DEF WorkerOK
<1>3. outbox[n] \in Row /\ outbox \in [Notification -> Row]
  BY <1>1 DEF TypeOK
<1>4. /\ UNCHANGED <<calls, released>>
      /\ \A m \in Notification \ {n} : outbox'[m] = outbox[m]
      /\ \/ outbox'[n].status \in Done
         \/ outbox'[n].status \in Waiting /\ workers[w].attempt < MaxAttempts
      /\ Continues(w, workers[w].batch)
  <2>1. CASE recordSent(w)
    BY <1>2, <1>3, <2>1 DEF recordSent, Records, Row, Done
  <2>2. CASE failOrRetry(w)
    <3>1. \/ FailedRow(w).status = "FAILED"
          \/ FailedRow(w).status = "RETRY_SCHEDULED" /\ workers[w].attempt < MaxAttempts
      BY <1>2, <1>3 DEF FailedRow, Current, Row
    <3> QED
      BY <1>2, <1>3, <2>2, <3>1 DEF failOrRetry, Records, Done, Waiting
  <2> QED
    BY <2>1, <2>2
<1>5. /\ \A v \in Worker \ {w} : workers'[v] = workers[v]
      /\ workers'[w].batch = workers[w].batch /\ workers'[w].current = None
  <2>1. PICK batch \in SUBSET Notification : batch = workers[w].batch
    BY <1>1 DEF WorkerState
  <2>2. Continues(w, batch)
    BY <1>4, <2>1
  <2> QED
    BY <1>1, <2>1, <2>2, Goes
<1>6. ASSUME NEW m \in Notification, m # n \/ n \in released PROVE Queue!Stays(m)
  <2>1. CASE m \in released
    BY <1>4, <2>1, StillStays DEF Still
  <2>2. CASE m \notin released
    <3>1. outbox'[m] = outbox[m] /\ m # n
      BY <1>4, <1>6, <2>2
    <3>2. \A v \in Worker : Holds(v, m)' <=> Holds(v, m)
      BY <1>2, <1>5, <3>1, NoneAssumption DEF Holds
    <3>3. \A v \in Worker : (workers[v].phase = "recording" /\ workers[v].current = m)'
              <=> (workers[v].phase = "recording" /\ workers[v].current = m)
      BY <1>2, <1>5, <3>1, NoneAssumption
    <3>4. Still(m)
      BY <1>4, <3>1, <3>2, <3>3 DEF Still
    <3> QED
      BY <3>4, StillStays
  <2> QED
    BY <2>1, <2>2
<1>7. CASE n \in released
  BY <1>6, <1>7 DEF Queue!Change
<1>8. CASE n \notin released
  <2>1. Holds(w, n)
    BY <1>2 DEF Holds
  <2>2. /\ outbox[n].attempts \in Nat /\ calls[n] \in Nat
        /\ calls[n] <= outbox[n].attempts + 1 /\ workers[w].attempt = outbox[n].attempts + 1
        /\ \A v \in Worker \ {w} : ~Holds(v, n)
    BY <1>2, <1>8, <2>1, ClaimSays DEF CountOK, ClaimCounts, Row
  <2>3. \A v \in Worker : ~Holds(v, n)'
    BY <1>2, <1>5, <2>2, NoneAssumption DEF Holds
  <2>4. QueueHands[n] = {w} /\ QueueStage[n] = "said" /\ QueueSaid[n] = calls[n]
    BY <1>1, <1>2, <1>8, <2>1, QueueIsShown DEF QueueShows, Shows
  <2>5. /\ QueueHands'[n] = {} /\ QueueSaid'[n] = calls[n]
        /\ \/ QueueStage'[n] = "done"
           \/ QueueStage'[n] = "waiting" /\ workers[w].attempt < MaxAttempts
    BY <1>4, <1>8, <2>3, QueueIsShownNext DEF QueueShows, Shows
  <2>6. Queue!Note(w, n)
    BY <2>2, <2>4, <2>5 DEF Queue!Note, Queue!Turns
  <2> QED
    BY <1>6, <2>6 DEF Queue!Single
<1> QED
  BY <1>7, <1>8

(* A worker that dies loses what it held; a lost update is not seen. *)
LEMMA FaultIsSeen ==
    ASSUME DeliveryInv, DeliveryInv', NEW w \in Worker, Crash(w) \/ SentUpdateFails(w)
    PROVE  Queue!Change \/ Queue!Die(w)
<1>1. TypeOK /\ workers[w] \in WorkerState
  BY DEF DeliveryInv, TypeOK
<1>2. UNCHANGED <<outbox, calls, released>>
  BY DEF Crash, SentUpdateFails
<1>3. CASE SentUpdateFails(w)
  <2>1. /\ \A v \in Worker \ {w} : workers'[v] = workers[v]
        /\ workers'[w].batch = workers[w].batch /\ workers'[w].current = workers[w].current
        /\ workers'[w].phase = workers[w].phase
    BY <1>1, <1>3 DEF SentUpdateFails, Works, TypeOK, WorkerState
  <2>2. \A n \in Notification : Still(n)
    BY <1>2, <2>1 DEF Still, Holds
  <2> QED
    BY <2>2, StillStays DEF Queue!Change
<1>4. CASE Crash(w)
  <2>1. /\ \A v \in Worker \ {w} : workers'[v] = workers[v]
        /\ workers'[w] = AtRest
    BY <1>1, <1>4 DEF Crash, Works, TypeOK
  <2>2. \A n \in Notification : ~Holds(w, n)' /\ (Holds(w, n) \/ n \notin workers[w].batch)
    BY <2>1, RestRows, NoneAssumption DEF Holds
  <2>3. ASSUME NEW n \in Notification
        PROVE  IF w \in QueueHands[n] THEN Queue!Lose(w, n) ELSE Queue!Stays(n)
    <3>1. Shows(n) /\ Shows(n)'
      BY QueueIsShown, QueueIsShownNext DEF QueueShows
    <3>2. CASE n \notin released /\ Holds(w, n)
      <4>1. /\ outbox[n].status = "PROCESSING"
            /\ \A v \in Worker \ {w} : ~Holds(v, n)
        BY <3>2, ClaimSays
      <4>2. \A v \in Worker : ~Holds(v, n)'
        BY <2>1, <2>2, <4>1 DEF Holds
      <4>3. QueueHands[n] = {w} /\ QueueSaid[n] = calls[n]
        BY <3>1, <3>2 DEF Shows
      <4>4. QueueHands'[n] = {} /\ QueueStage'[n] = "lost" /\ QueueSaid'[n] = calls[n]
        BY <1>2, <3>1, <3>2, <4>1, <4>2 DEF Shows
      <4> QED
        BY <4>3, <4>4 DEF Queue!Lose, Queue!Turns
    <3>3. CASE n \in released \/ ~Holds(w, n)
      <4>1. w \notin QueueHands[n]
        BY <3>3 DEF QueueHands, Hands
      <4>2. ASSUME n \in released PROVE Still(n)
        BY <1>2, <4>2 DEF Still
      <4>3. ASSUME n \notin released, ~Holds(w, n) PROVE Still(n)
        <5>1. \A v \in Worker : Holds(v, n)' <=> Holds(v, n)
          BY <2>1, <2>2, <4>3 DEF Holds
        <5>2. \A v \in Worker : (workers[v].phase = "recording" /\ workers[v].current = n)'
                  <=> (workers[v].phase = "recording" /\ workers[v].current = n)
          BY <2>1, <4>3, RestRows DEF Holds
        <5> QED
          BY <1>2, <5>1, <5>2 DEF Still
      <4> QED
        BY <3>3, <4>1, <4>2, <4>3, StillStays
    <3> QED
      BY <3>2, <3>3
  <2> QED
    BY <2>3 DEF Queue!Die
<1> QED
  BY <1>3, <1>4

(* Of all others only a retry by hand puts a message back. *)
LEMMA OthersRelease ==
    ASSUME DeliveryInv,
           \/ \E b \in Booking : BookingStep(b)
           \/ Scheduler
           \/ \E n \in Notification : BecomesDue(n) \/ LostClaimAges(n) \/ HeldClaimAges(n)
           \/ \E n \in Notification, status \in {"DELIVERED", "FAILED"} : receive(n, status)
           \/ \E a \in Admin, n \in Notification : BeginRetry(a, n)
    PROVE  released' = released /\ MildStep
<1>1. CASE \E b \in Booking : BookingStep(b)
  BY <1>1, BookingIsMild
     DEF BookingStep, approve, cancel, reschedule, updateDetails, TimePasses, Changes
<1>2. CASE \/ Scheduler
           \/ \E n \in Notification : BecomesDue(n) \/ LostClaimAges(n) \/ HeldClaimAges(n)
           \/ \E n \in Notification, status \in {"DELIVERED", "FAILED"} : receive(n, status)
           \/ \E a \in Admin, n \in Notification : BeginRetry(a, n)
  <2>1. MildStep
    BY <1>2, OthersAreMild
  <2> QED
    BY <1>2, <2>1 DEF Scheduler, ReadReminders, CreateReminders, BecomesDue, LostClaimAges,
                      HeldClaimAges, ClaimAges, receive, BeginRetry
<1> QED
  BY <1>1, <1>2

(* What the administrator has looked at and nobody has put back is done. *)
LEMMA RetryStep ==
    ASSUME DeliveryInv, RetryKnows, Next
    PROVE  RetryKnows'
<1>1. TypeOK
  BY DEF DeliveryInv
<1> SUFFICES ASSUME NEW a \in Admin, NEW n \in Notification \ released', n = retrying'[a]
             PROVE  outbox'[n].status \in Done
  BY DEF RetryKnows
<1>2. CASE n = retrying[a]
  <2>1. n \in Notification \ released /\ outbox[n].status \in Done
    <3>1. released \subseteq released'
      BY StepIs DEF MildStep, Moves
    <3> QED
      BY <1>2, <3>1 DEF RetryKnows
  <2>2. CASE MildStep
    <3>1. Mild(n)
      BY <2>2 DEF MildStep
    <3> QED
      BY <2>1, <3>1 DEF Mild, Done, Waiting
  <2>3. ASSUME NEW w \in Worker, Moves(w) PROVE outbox'[n].status \in Done
    <3>1. Same(w, n) \/ Turns(w, n)
      BY <2>3 DEF Moves
    <3> QED
      BY <2>1, <3>1 DEF Same, Turns, Done, Waiting
  <2> QED
    BY <2>2, <2>3, StepIs
<1>3. CASE n # retrying[a]
  <2>1. \/ \E b \in Admin, m \in Notification : BeginRetry(b, m)
        \/ \E b \in Admin : WriteRetry(b)
    BY <1>3 DEF Next, BookingStep, approve, cancel, reschedule, updateDetails, TimePasses,
                Changes, Scheduler, ReadReminders, CreateReminders, WorkerStep, processDue,
                processOne, send, recordSent, failOrRetry, Records, Crash, SentUpdateFails,
                BecomesDue, LostClaimAges, HeldClaimAges, ClaimAges, receive
  <2>2. ASSUME NEW b \in Admin, NEW m \in Notification, BeginRetry(b, m)
        PROVE  outbox'[n].status \in Done
    BY <1>1, <1>3, <2>2 DEF BeginRetry, TypeOK, Done
  <2>3. ASSUME NEW b \in Admin, WriteRetry(b) PROVE FALSE
    BY <1>1, <1>3, <2>3, NoneAssumption DEF WriteRetry, TypeOK
  <2> QED
    BY <2>1, <2>2, <2>3
<1> QED
  BY <1>2, <1>3

(* The retry repeats what was done, unless it was put back before. *)
LEMMA RetryIsSingle ==
    ASSUME DeliveryInv, DeliveryInv', RetryKnows, NEW a \in Admin, WriteRetry(a)
    PROVE  Queue!Change \/ \E n \in Notification : Queue!Single(n)
<1>1. TypeOK
  BY DEF DeliveryInv
<1>2. PICK n \in Notification : n = retrying[a]
  BY <1>1 DEF WriteRetry, TypeOK
<1>3. /\ released' = released \cup {n} /\ UNCHANGED <<workers, calls>>
      /\ \A m \in Notification \ {n} : outbox'[m] = outbox[m]
  BY <1>1, <1>2 DEF WriteRetry, TypeOK
<1>4. ASSUME NEW m \in Notification, m # n \/ n \in released PROVE Queue!Stays(m)
  <2>1. m \in released' <=> m \in released
    BY <1>3, <1>4
  <2>2. m \notin released => outbox'[m] = outbox[m]
    BY <1>3, <1>4
  <2>3. Still(m)
    BY <1>3, <2>1, <2>2 DEF Still, Holds
  <2> QED
    BY <2>3, StillStays
<1>5. CASE n \in released
  BY <1>4, <1>5 DEF Queue!Change
<1>6. CASE n \notin released
  <2>1. outbox[n].status \in Done
    BY <1>2, <1>6 DEF RetryKnows
  <2>2. \A w \in Worker : ~Holds(w, n)
    BY <1>6, <2>1, ClaimSays DEF Done
  <2>3. QueueStage[n] = "done"
    BY <1>6, <2>1, <2>2, QueueIsShown DEF QueueShows, Shows
  <2>4. QueueStage'[n] = "released" /\ QueueHands'[n] = {} /\ QueueSaid'[n] = 0
    BY <1>3, QueueIsShownNext DEF QueueShows, Shows
  <2>5. Queue!Repeat(n)
    BY <2>3, <2>4 DEF Queue!Repeat, Queue!Released, Queue!Turns
  <2> QED
    BY <1>4, <2>5 DEF Queue!Single
<1> QED
  BY <1>5, <1>6

(* Every step of the outbox is a step of the queue. *)
LEMMA QueueStep ==
    ASSUME DeliveryInv, DeliveryInv', RetryKnows, Next
    PROVE  Queue!Next
<1>1. Queue!Rows'
  BY QueueIsShownNext DEF QueueShows
<1>2. CASE \/ \E b \in Booking : BookingStep(b)
           \/ Scheduler
           \/ \E n \in Notification : BecomesDue(n) \/ LostClaimAges(n) \/ HeldClaimAges(n)
           \/ \E n \in Notification, status \in {"DELIVERED", "FAILED"} : receive(n, status)
           \/ \E a \in Admin, n \in Notification : BeginRetry(a, n)
  <2>1. released' = released /\ MildStep
    BY <1>2, OthersRelease
  <2>2. Queue!Change
    BY <2>1, MildChanges DEF Queue!Change
  <2> QED
    BY <1>1, <2>2 DEF Queue!Next
<1>3. CASE \E a \in Admin : WriteRetry(a)
  BY <1>1, <1>3, RetryIsSingle DEF Queue!Next
<1>4. ASSUME NEW w \in Worker, WorkerStep(w) \/ Crash(w) \/ SentUpdateFails(w)
      PROVE  Queue!Next
  <2>1. CASE processDue(w)
    BY <1>1, <2>1, ClaimIsRound DEF Queue!Next
  <2>2. CASE Crash(w) \/ SentUpdateFails(w)
    BY <1>1, <2>2, FaultIsSeen DEF Queue!Next
  <2>3. CASE processOne(w) \/ send(w) \/ recordSent(w) \/ failOrRetry(w)
    BY <1>1, <2>3, ProcessIsSingle, SendIsSingle, RecordIsSingle DEF Queue!Next
  <2> QED
    BY <1>4, <2>1, <2>2, <2>3 DEF WorkerStep
<1> QED
  BY <1>2, <1>3, <1>4 DEF Next

LEMMA InitQueue == Init => Queue!Init /\ RetryKnows
<1> SUFFICES ASSUME Init PROVE Queue!Init /\ RetryKnows
  OBVIOUS
<1>1. RetryKnows
  BY NoneAssumption DEF Init, RetryKnows
<1>2. ASSUME NEW n \in Notification
      PROVE  Stage(n) = "none" /\ Hands(n) = {} /\ calls[n] = 0 /\ n \notin released
  <2>1. \A w \in Worker : ~Holds(w, n)
    BY RestRows, NoneAssumption DEF Init, Holds
  <2>2. outbox[n].status = "NONE" /\ calls[n] = 0 /\ n \notin released
    BY DEF Init, Absent
  <2>3. Stage(n) = "none"
    BY <2>2 DEF Stage, Waiting, Settled
  <2> QED
    BY <2>1, <2>2, <2>3 DEF Hands
<1>3. Queue!Init
  BY <1>2 DEF Queue!Init, QueueStage, QueueHands, QueueSaid
<1> QED
  BY <1>1, <1>3

(* NotificationWorkerService and all who write to its table: for any number
   of bookings, workers and administrators, and whatever crashes, lost
   updates, delays and reports come between, each message of the outbox goes
   the way of a message of MessageQueue.  The provider is called once for
   each claim, by the worker that holds it, and not again after the outcome
   was recorded as final or the message withdrawn, until the claim is taken
   for stale or somebody retries by hand. *)
THEOREM WorkersKeepTheQueue == Spec => QueueIsKept
<1> DEFINE Inv == DeliveryInv /\ RetryKnows
<1>1. Inv /\ DeliveryInv' /\ [Next]_vars
         => RetryKnows' /\ [Queue!Next]_<<QueueStage, QueueHands, QueueSaid>>
  <2>1. CASE Next
    BY <2>1, RetryStep, QueueStep
  <2>2. CASE UNCHANGED vars
    BY <2>2 DEF vars, RetryKnows, QueueStage, QueueHands, QueueSaid, Stage, Hands, Holds
  <2> QED
    BY <2>1, <2>2
<1>2. Spec => []RetryKnows
  BY <1>1, InitQueue, DeliveryInvariant, PTL DEF Spec
<1> QED
  BY <1>1, <1>2, InitQueue, DeliveryInvariant, PTL DEF Spec, QueueIsKept, Queue!Spec
===============================================================================
