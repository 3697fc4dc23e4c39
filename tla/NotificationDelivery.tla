------------------------- MODULE NotificationDelivery -------------------------
(***************************************************************************)
(* The messages of a booking: the transactions that write them into the    *)
(* outbox, ReminderSchedulerService, NotificationWorkerService, the        *)
(* delivery reports of the provider and the retry of the administrator.    *)
(*                                                                         *)
(* The module stands beside BookingLifecycle: a change of a booking is one *)
(* step here, with what it does to the outbox in the same transaction.     *)
(* Time is not a number.  A message becomes due, a claim grows old (the    *)
(* five minutes of STALE_PROCESSING_MS), a reminder falls due, an          *)
(* appointment begins: each is a step of its own.                          *)
(***************************************************************************)
EXTENDS Integers, FiniteSets

CONSTANTS
    Booking,     \* rows of "bookings"
    Start,       \* the times an appointment may be moved to
    Worker,      \* processes that run the notification worker
    Admin,       \* administrators who may press "retry" at the same time
    None,        \* no value
    BatchSize,   \* BATCH_SIZE
    MaxAttempts, \* "max_attempts" of a row
    MaxRevision, \* bound on the revisions of a booking
    MaxFaults,   \* bound on crashes, lost updates and slow workers
    Workload     \* what happens to the bookings in a run

ASSUME DeliveryAssumption ==
    /\ 0 \notin Start
    /\ BatchSize \in Nat \ {0}
    /\ MaxAttempts \in Nat \ {0}
    /\ MaxRevision \in Nat \ {0}
    /\ MaxFaults \in Nat

(* A row of "booking_notifications" is named by its idempotency key, which
   is unique; revision or start is 0 where the key has none. *)
Notification ==
    [event : {"BOOKING_APPROVED", "BOOKING_CANCELLED"},
     booking : Booking, revision : {0}, start : {0}]
    \cup [event : {"BOOKING_RESCHEDULED"},
          booking : Booking, revision : 1..MaxRevision, start : {0}]
    \cup [event : {"BOOKING_REMINDER"},
          booking : Booking, revision : 1..MaxRevision, start : Start]

ASSUME NoneAssumption == None \notin Notification

VARIABLES
    bookings, \* what the messages of a booking depend on
    outbox,   \* table "booking_notifications"
    found,    \* the reminders the scheduler has read and not yet written
    workers,  \* the workers
    retrying, \* the failed message an administrator has looked at
    faults,   \* crashes, lost updates and delays so far
    calls,    \* history: calls of the provider per message
    released  \* history: messages put back into the queue by somebody other
              \* than the worker that had claimed them

vars == <<bookings, outbox, found, workers, retrying, faults, calls, released>>

-----------------------------------------------------------------------------
Waiting == {"PENDING", "RETRY_SCHEDULED"}

Settled == {"SENT", "DELIVERED", "FAILED", "SKIPPED"}

(* due: "available_at" has come; old: the claim is five minutes old;
   message: the provider's message id is known; transient: the last error
   is one of those isRetryableError lists. *)
Row == [status : {"NONE", "PROCESSING"} \cup Waiting \cup Settled,
        attempts : Nat, due : BOOLEAN, old : BOOLEAN,
        message : BOOLEAN, transient : BOOLEAN]

Absent == [status |-> "NONE", attempts |-> 0, due |-> FALSE, old |-> FALSE,
           message |-> FALSE, transient |-> FALSE]

(* reminder: before its lead time, within it, or begun. *)
BookingRow == [status : {"PENDING_APPROVAL", "CONFIRMED", "CANCELLED"},
               revision : 1..MaxRevision, start : Start,
               reminder : {"early", "due", "past"}, enabled : BOOLEAN]

Phase == {"idle", "working", "sending", "recording"}

WorkerState == [phase : Phase, batch : SUBSET Notification,
                current : Notification \cup {None}, attempt : Nat,
                outcome : {"none", "accepted", "retryable", "final"}]

AtRest == [phase |-> "idle", batch |-> {}, current |-> None,
           attempt |-> 0, outcome |-> "none"]

Holds(w, n) == n \in workers[w].batch \/ workers[w].current = n

-----------------------------------------------------------------------------
(* The outbox within a transaction *)

(* NotificationOutboxService.enqueue: an upsert that updates nothing. *)
Enqueued(rows, n) ==
    IF rows[n].status = "NONE"
    THEN [rows EXCEPT ![n].status = "PENDING", ![n].due = TRUE]
    ELSE rows

(* The updateMany of a change that makes waiting messages pointless.
   Mutants: it withdraws claimed messages too; it writes the status that
   markNoShow gives to invitations. *)
WithdrawnWhileSent(rows, b, events) ==
    [n \in Notification |->
        IF n.booking = b /\ n.event \in events /\ rows[n].status \notin Settled \cup {"NONE"}
        THEN [rows[n] EXCEPT !.status = "SKIPPED"] ELSE rows[n]]

WithdrawnAsCancelled(rows, b, events) ==
    [n \in Notification |->
        IF n.booking = b /\ n.event \in events /\ rows[n].status \in Waiting
        THEN [rows[n] EXCEPT !.status = "CANCELLED"] ELSE rows[n]]

Withdrawn(rows, b, events) ==
    [n \in Notification |->
        IF n.booking = b /\ n.event \in events /\ rows[n].status \in Waiting
        THEN [rows[n] EXCEPT !.status = "SKIPPED"] ELSE rows[n]]

News(event, b, revision) == [event |-> event, booking |-> b, revision |-> revision, start |-> 0]

(* The key of ReminderSchedulerService. *)
Reminder(b) ==
    [event |-> "BOOKING_REMINDER", booking |-> b,
     revision |-> bookings[b].revision, start |-> bookings[b].start]

-----------------------------------------------------------------------------
(* What happens to a booking *)

Changes(b, row, rows) ==
    /\ bookings' = [bookings EXCEPT ![b] = row]
    /\ outbox' = rows
    /\ UNCHANGED <<found, workers, retrying, faults, calls, released>>

approve(b) ==
    LET row == bookings[b] IN
    /\ row.status = "PENDING_APPROVAL"
    /\ row.reminder # "past"
    /\ row.revision < MaxRevision
    /\ Changes(b, [row EXCEPT !.status = "CONFIRMED", !.revision = @ + 1],
                  Enqueued(outbox, News("BOOKING_APPROVED", b, 0)))

cancel(b) ==
    LET row == bookings[b] IN
    /\ "cancel" \in Workload
    /\ row.status = "CONFIRMED"
    /\ row.reminder # "past"
    /\ row.revision < MaxRevision
    /\ Changes(b, [row EXCEPT !.status = "CANCELLED", !.revision = @ + 1],
                  Enqueued(Withdrawn(outbox, b, {n.event : n \in Notification}),
                           News("BOOKING_CANCELLED", b, 0)))

reschedule(b, s, reminder) ==
    LET row == bookings[b]
        rows == Withdrawn(outbox, b, {"BOOKING_REMINDER"})
    IN  /\ "reschedule" \in Workload
        /\ row.status = "CONFIRMED"
        /\ row.reminder # "past"
        /\ reminder # "past"
        /\ row.revision < MaxRevision
        /\ Changes(b, [row EXCEPT !.start = s, !.reminder = reminder, !.revision = @ + 1],
                      IF row.enabled
                      THEN Enqueued(rows, News("BOOKING_RESCHEDULED", b, row.revision + 1))
                      ELSE rows)

updateDetails(b, enabled) ==
    LET row == bookings[b] IN
    /\ "updateDetails" \in Workload
    /\ row.revision < MaxRevision
    /\ Changes(b, [row EXCEPT !.enabled = enabled, !.revision = @ + 1], outbox)

(* The lead time of the reminder is reached; the appointment begins. *)
TimePasses(b) ==
    /\ "time" \in Workload
    /\ bookings[b].reminder # "past"
    /\ Changes(b, [bookings[b] EXCEPT !.reminder = IF @ = "early" THEN "due" ELSE "past"],
                  outbox)

-----------------------------------------------------------------------------
(* ReminderSchedulerService: a findMany, then a createMany *)

(* Mutant: a booking is looked for only until it has been reminded once. *)
UnremindedCandidate(b) ==
    /\ bookings[b].status = "CONFIRMED" /\ bookings[b].enabled /\ bookings[b].reminder = "due"
    /\ \A n \in Notification :
          n.booking = b /\ n.event = "BOOKING_REMINDER" => outbox[n].status = "NONE"

Candidate(b) ==
    bookings[b].status = "CONFIRMED" /\ bookings[b].enabled /\ bookings[b].reminder = "due"

RemindersDue == {Reminder(b) : b \in {c \in Booking : Candidate(c)}}

ReadReminders ==
    /\ found = {}
    /\ found' = RemindersDue
    /\ UNCHANGED <<bookings, outbox, workers, retrying, faults, calls, released>>

(* skipDuplicates *)
CreateReminders ==
    /\ found # {}
    /\ outbox' = [n \in Notification |->
                     IF n \in found THEN Enqueued(outbox, n)[n] ELSE outbox[n]]
    /\ found' = {}
    /\ UNCHANGED <<bookings, workers, retrying, faults, calls, released>>

-----------------------------------------------------------------------------
(* NotificationWorkerService.processDue *)

Works(w, state) == workers' = [workers EXCEPT ![w] = state]

(* On to the rest of the batch. *)
Continues(w, batch) ==
    Works(w, IF batch = {} THEN AtRest ELSE [AtRest EXCEPT !.phase = "working", !.batch = batch])

(* Mutant: claims never grow stale. *)
NoStaleClaims == {}

StaleClaims == {n \in Notification : outbox[n].status = "PROCESSING" /\ outbox[n].old}

recoverStaleClaims ==
    [n \in Notification |->
        IF n \in StaleClaims
        THEN [outbox[n] EXCEPT !.status = "RETRY_SCHEDULED", !.due = TRUE,
                               !.old = FALSE, !.transient = TRUE]
        ELSE outbox[n]]

(* What claimBatch selects.  Mutant: also what is being processed. *)
Unsettled(row) == row.status \in Waiting \cup {"PROCESSING"}

Claimable(row) == row.status \in Waiting /\ row.due

(* FOR UPDATE SKIP LOCKED, and the update in the same transaction. *)
claimBatch(rows, batch) ==
    [n \in Notification |->
        IF n \in batch THEN [rows[n] EXCEPT !.status = "PROCESSING", !.old = FALSE]
                       ELSE rows[n]]

(* A round begins.  Claims that have grown old go back into the queue in a
   statement of their own, just before the claim. *)
processDue(w) ==
    LET rows == recoverStaleClaims
        claimable == {n \in Notification : Claimable(rows[n])}
    IN  /\ workers[w].phase = "idle"
        /\ claimable # {}
        /\ \E batch \in SUBSET claimable :
              /\ Cardinality(batch) <= BatchSize
              /\ batch = claimable \/ Cardinality(batch) = BatchSize
              /\ outbox' = claimBatch(rows, batch)
              /\ Continues(w, batch)
        /\ released' = released \cup StaleClaims
        /\ UNCHANGED <<bookings, found, retrying, faults, calls>>

(* The message says something that is no longer so, or nobody wants it. *)
Outdated(n) ==
    LET row == bookings[n.booking] IN
    \/ ~row.enabled
    \/ n.revision # 0 /\ n.revision # row.revision
    \/ /\ n.event = "BOOKING_REMINDER"
       /\ row.status # "CONFIRMED" \/ row.reminder = "past" \/ n.start # row.start

(* processOne looks at the row and the booking, and skips the message, or
   sets out to send it. *)
processOne(w) ==
    /\ workers[w].phase = "working"
    /\ \E n \in workers[w].batch :
          LET rest == workers[w].batch \ {n} IN
          \/ /\ outbox[n].status # "PROCESSING"
             /\ Continues(w, rest)
             /\ UNCHANGED outbox
          \/ /\ outbox[n].status = "PROCESSING"
             /\ Outdated(n)
             /\ outbox' = [outbox EXCEPT ![n].status = "SKIPPED", ![n].old = FALSE]
             /\ Continues(w, rest)
          \/ /\ outbox[n].status = "PROCESSING"
             /\ ~Outdated(n)
             /\ Works(w, [AtRest EXCEPT !.phase = "sending", !.batch = rest, !.current = n,
                                        !.attempt = outbox[n].attempts + 1])
             /\ UNCHANGED outbox
    /\ UNCHANGED <<bookings, found, retrying, faults, calls, released>>

(* SmsGatewayService.send.  A provider may accept the message and the answer
   be lost: the worker sees a failure it may retry.  The count of calls
   stops one above the attempts a row allows. *)
send(w) ==
    /\ workers[w].phase = "sending"
    /\ \E outcome \in {"accepted", "retryable", "final"} :
          Works(w, [workers[w] EXCEPT !.phase = "recording", !.outcome = outcome])
    /\ calls' = [calls EXCEPT ![workers[w].current] = IF @ > MaxAttempts THEN @ ELSE @ + 1]
    /\ UNCHANGED <<bookings, outbox, found, retrying, faults, released>>

(* The worker writes the row of its current message and goes on. *)
Records(w, row) ==
    /\ outbox' = [outbox EXCEPT ![workers[w].current] = row]
    /\ Continues(w, workers[w].batch)
    /\ UNCHANGED <<bookings, found, retrying, faults, calls, released>>

Current(w) == outbox[workers[w].current]

recordSent(w) ==
    /\ workers[w].phase = "recording"
    /\ workers[w].outcome = "accepted"
    /\ Records(w, [Current(w) EXCEPT !.status = "SENT", !.attempts = workers[w].attempt,
                                     !.message = TRUE, !.old = FALSE, !.transient = FALSE])

FailedRow(w) ==
    LET retry == workers[w].outcome = "retryable" /\ workers[w].attempt < MaxAttempts
    IN  [Current(w) EXCEPT !.status = IF retry THEN "RETRY_SCHEDULED" ELSE "FAILED",
                           !.attempts = workers[w].attempt, !.due = ~retry, !.old = FALSE,
                           !.transient = workers[w].outcome = "retryable"]

failOrRetry(w) ==
    /\ workers[w].phase = "recording"
    /\ workers[w].outcome \in {"retryable", "final"}
    /\ Records(w, FailedRow(w))

-----------------------------------------------------------------------------
(* Time, and what goes wrong *)

BecomesDue(n) ==
    /\ outbox[n].status \in Waiting
    /\ ~outbox[n].due
    /\ outbox' = [outbox EXCEPT ![n].due = TRUE]
    /\ UNCHANGED <<bookings, found, workers, retrying, faults, calls, released>>

ClaimAges(n) ==
    /\ outbox[n].status = "PROCESSING"
    /\ ~outbox[n].old
    /\ outbox' = [outbox EXCEPT ![n].old = TRUE]
    /\ UNCHANGED <<bookings, found, workers, retrying, calls, released>>

(* The worker that claimed the message is gone. *)
LostClaimAges(n) ==
    /\ \A w \in Worker : ~Holds(w, n)
    /\ ClaimAges(n)
    /\ UNCHANGED faults

Faults == faults < MaxFaults /\ faults' = faults + 1

(* The worker that claimed the message is slow. *)
HeldClaimAges(n) ==
    /\ \E w \in Worker : Holds(w, n)
    /\ ClaimAges(n)
    /\ Faults

(* A crash, or a database error that ends processDue, forgets the batch. *)
Crash(w) ==
    /\ workers[w].phase # "idle"
    /\ Works(w, AtRest)
    /\ Faults
    /\ UNCHANGED <<bookings, outbox, found, retrying, calls, released>>

(* The update to SENT fails: the handler takes it for a failure of the
   provider. *)
SentUpdateFails(w) ==
    /\ workers[w].phase = "recording"
    /\ workers[w].outcome = "accepted"
    /\ Works(w, [workers[w] EXCEPT !.outcome = "retryable"])
    /\ Faults
    /\ UNCHANGED <<bookings, outbox, found, retrying, calls, released>>

-----------------------------------------------------------------------------
(* SmsWebhookController: any status may be overwritten by a report *)

receive(n, status) ==
    /\ "reports" \in Workload
    /\ outbox[n].message
    /\ outbox[n].status # status
    /\ \E transient \in BOOLEAN :
          outbox' = [outbox EXCEPT ![n].status = status,
                        ![n].transient = IF status = "FAILED" THEN transient ELSE @]
    /\ UNCHANGED <<bookings, found, workers, retrying, faults, calls, released>>

(* AdminNotificationsService.retry: a read, then an update by id *)

BeginRetry(a, n) ==
    /\ "retry" \in Workload
    /\ retrying[a] = None
    /\ outbox[n].status = "FAILED"
    /\ outbox[n].attempts < MaxAttempts
    /\ outbox[n].transient
    /\ retrying' = [retrying EXCEPT ![a] = n]
    /\ UNCHANGED <<bookings, outbox, found, workers, faults, calls, released>>

WriteRetry(a) ==
    LET n == retrying[a] IN
    /\ n # None
    /\ outbox' = [outbox EXCEPT ![n].status = "PENDING", ![n].due = TRUE, ![n].transient = FALSE]
    /\ retrying' = [retrying EXCEPT ![a] = None]
    /\ released' = released \cup {n}
    /\ UNCHANGED <<bookings, found, workers, faults, calls>>

-----------------------------------------------------------------------------
Init ==
    /\ \E s \in [Booking -> Start] :
          bookings = [b \in Booking |-> [status |-> "PENDING_APPROVAL", revision |-> 1,
                                         start |-> s[b], reminder |-> "early",
                                         enabled |-> TRUE]]
    /\ outbox = [n \in Notification |-> Absent]
    /\ found = {}
    /\ workers = [w \in Worker |-> AtRest]
    /\ retrying = [a \in Admin |-> None]
    /\ faults = 0
    /\ calls = [n \in Notification |-> 0]
    /\ released = {}

BookingStep(b) ==
    \/ approve(b) \/ cancel(b) \/ TimePasses(b)
    \/ \E s \in Start, reminder \in {"early", "due"} : reschedule(b, s, reminder)
    \/ \E enabled \in BOOLEAN : updateDetails(b, enabled)

Scheduler == ReadReminders \/ CreateReminders

WorkerStep(w) ==
    processDue(w) \/ processOne(w) \/ send(w) \/ recordSent(w) \/ failOrRetry(w)

Next ==
    \/ \E b \in Booking : BookingStep(b)
    \/ Scheduler
    \/ \E w \in Worker : WorkerStep(w) \/ Crash(w) \/ SentUpdateFails(w)
    \/ \E n \in Notification : BecomesDue(n) \/ LostClaimAges(n) \/ HeldClaimAges(n)
    \/ \E n \in Notification, status \in {"DELIVERED", "FAILED"} : receive(n, status)
    \/ \E a \in Admin, n \in Notification : BeginRetry(a, n)
    \/ \E a \in Admin : WriteRetry(a)

Spec == Init /\ [][Next]_vars

(* The intervals of the worker (10 s) and of the scheduler (60 s) run again
   and again, a process that crashed is started again, and time passes. *)
FairSpec ==
    /\ Spec
    /\ WF_vars(Scheduler)
    /\ \A w \in Worker : WF_vars(WorkerStep(w))
    /\ \A n \in Notification : WF_vars(BecomesDue(n)) /\ WF_vars(LostClaimAges(n))

-----------------------------------------------------------------------------
(* Properties *)

(* Every row, worker and booking is of its type. *)
TypeOK ==
    /\ bookings \in [Booking -> BookingRow]
    /\ outbox \in [Notification -> Row]
    /\ found \subseteq Notification
    /\ workers \in [Worker -> WorkerState]
    /\ retrying \in [Admin -> Notification \cup {None}]
    /\ faults \in 0..MaxFaults
    /\ calls \in [Notification -> 0..MaxAttempts + 1]
    /\ released \subseteq Notification

(* A message belongs to the worker that claimed it until that worker has
   recorded what became of it: no second worker has it, and no change of the
   booking, no scheduler and no report touches its row.  Only a claim that
   is taken for stale, or a retry by hand, can break in. *)
ClaimIsExclusive ==
    \A n \in Notification \ released : \A w \in Worker :
        Holds(w, n) => /\ outbox[n].status = "PROCESSING"
                       /\ \A v \in Worker \ {w} : ~Holds(v, n)

(* The outbox as the queue it stands for.  Of a message that was put back by
   somebody other than the worker that had claimed it, nothing is promised. *)
Hands(n) == {w \in Worker : Holds(w, n)}

Said(n) == \E w \in Worker : workers[w].phase = "recording" /\ workers[w].current = n

Stage(n) ==
    LET status == outbox[n].status IN
    IF n \in released THEN "released" ELSE
    CASE status = "NONE" -> "none"
      [] status \in Waiting -> "waiting"
      [] status = "SKIPPED" -> "void"
      [] status \in Settled \ {"SKIPPED"} -> "done"
      [] status = "PROCESSING" ->
            IF Said(n) THEN "said" ELSE IF Hands(n) # {} THEN "taken" ELSE "lost"

QueueStage == [n \in Notification |-> Stage(n)]

QueueHands == [n \in Notification |-> IF n \in released THEN {} ELSE Hands(n)]

QueueSaid == [n \in Notification |-> IF n \in released THEN 0 ELSE calls[n]]

Queue == INSTANCE MessageQueue
             WITH Message <- Notification, Taker <- Worker, Limit <- MaxAttempts,
                  stage <- QueueStage, hands <- QueueHands, said <- QueueSaid

(* Whatever bookings, scheduler, workers, faults, reports and administrators
   do to the outbox in whatever order, each message takes the steps of
   MessageQueue: one worker has it at a time, calls the provider once for
   each claim, and never again once the message is settled or withdrawn,
   until somebody takes the claim for stale or retries by hand. *)
QueueIsKept == Queue!Spec

(* A message that was withdrawn, because its booking changed or it was
   outdated, is not sent after all. *)
WithdrawnStays ==
    [][\A n \in Notification \ released' :
          outbox[n].status = "SKIPPED" => outbox'[n] = outbox[n] /\ calls'[n] = calls[n]]_vars

(* Every message in the outbox is settled: claims of workers that died or
   stalled are found, retries come to an end. *)
EveryMessageSettles ==
    \A n \in Notification :
        outbox[n].status \in Waiting \cup {"PROCESSING"} ~> outbox[n].status \in Settled

(* A confirmed booking whose reminder has fallen due is reminded of its
   current start, however often it was moved or edited before and whatever
   the scheduler and the workers had read by then, unless it changes again
   or begins first. *)
Reminded(b) ==
    \E n \in Notification :
        /\ n.event = "BOOKING_REMINDER"
        /\ n.booking = b
        /\ n.revision = bookings[b].revision
        /\ n.start = bookings[b].start
        /\ calls[n] > 0

StandsDue(b, r) ==
    /\ bookings[b].status = "CONFIRMED"
    /\ bookings[b].enabled
    /\ bookings[b].reminder = "due"
    /\ bookings[b].revision = r

ReminderIsSent ==
    \A b \in Booking, r \in 1..MaxRevision :
        StandsDue(b, r) ~> Reminded(b) \/ ~StandsDue(b, r)

-----------------------------------------------------------------------------
(* What the repository says of itself, and the code does not do *)

(* reminder-scheduler.service.spec.ts:7, "creates one idempotent outbox
   event": a customer is not reminded twice of the same start. *)
SentReminders(b, s) ==
    {n \in Notification : /\ n.event = "BOOKING_REMINDER"
                          /\ n.booking = b
                          /\ n.start = s
                          /\ outbox[n].status = "SENT"}

OneReminder == \A b \in Booking, s \in Start : Cardinality(SentReminders(b, s)) <= 1

(* admin-notifications.service.spec.ts:33, "never retries a notification
   already accepted by the provider". *)
NeverRetriesAccepted ==
    [][\A n \in Notification :
          outbox[n].status = "SENT" => outbox'[n].status # "PENDING"]_vars

(* notification-worker.service.spec.ts:190, "skips a reminder that still
   points at the appointment start before reschedule". *)
ReminderIsCurrent ==
    [][\A n \in Notification :
          n.event = "BOOKING_REMINDER" /\ calls'[n] # calls[n]
              => bookings[n.booking].start = n.start]_vars

(* bookings.service.ts:946, "the booking was cancelled, the pending message
   is void": no message of a cancelled booking but the one that says so
   waits to be sent. *)
NothingWaitsAfterCancel ==
    \A n \in Notification :
        bookings[n.booking].status = "CANCELLED" /\ outbox[n].status \in Waiting
            => n.event = "BOOKING_CANCELLED"
=============================================================================
