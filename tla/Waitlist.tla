------------------------------- MODULE Waitlist -------------------------------
(***************************************************************************)
(* The waitlist: WaitlistService and WaitlistWorkerService on the schedule *)
(* of BookingLifecycle.  Whatever frees a place leaves a slot recovery     *)
(* event; the worker, or an administrator who picks a suggestion, claims   *)
(* the event and offers the place to a waiting customer; an offer keeps    *)
(* its place until it is accepted, expires, fails or is withdrawn.         *)
(*                                                                         *)
(* Making and accepting an offer take the branch lock; cancelling an entry *)
(* and expiring an offer do not.                                           *)
(***************************************************************************)
EXTENDS BookingLifecycle

CONSTANTS
    Entry,      \* identifiers of rows of "waitlist_entries"
    Wanted,     \* the places the dates, hours and services of an entry allow
    OfferTtl,   \* how long an offer lives, waitlistOfferTtlMinutes
    MaxAttempts, \* failures after which an event is no longer retried
    MaxFaults   \* bound on errors and crashes of the handlers of events

ASSUME WaitlistAssumption ==
    /\ Wanted \in [Entry -> SUBSET AppointmentPlace]
    /\ None \notin Entry /\ None \notin RecoveryEvent
    /\ OfferTtl \in Nat
    /\ MaxAttempts \in Nat \ {0}
    /\ MaxFaults \in Nat

VARIABLES
    entries,   \* table "waitlist_entries"
    entryOf,   \* column waitlist_entry_id of "waitlist_offers"
    bookingOf, \* column accepted_booking_id of "waitlist_offers"
    work,      \* status and attempts of the recovery events ever claimed
    task,      \* what a handler of the waitlist has read or claimed
    abandoned, \* history: events whose handler died while it held them
    faults     \* errors and crashes so far

waitVars == <<now, bookings, blocks, requests, offers, recovery, lock, tx, reopened,
              entries, entryOf, bookingOf, work, task, abandoned, faults>>

waitOnly == <<entries, entryOf, bookingOf, work, task, abandoned, faults>>

-----------------------------------------------------------------------------
EntryRow == [status   : {"NONE", "ACTIVE", "OFFERED", "FULFILLED", "CANCELLED"},
             failures : Nat]

(* One event at a time; queue is the rest of the batch of the worker, found
   are the candidates of the event that have not been tried yet. *)
NoTask == [event |-> None, entry |-> None, offer |-> None, made |-> FALSE,
           queue |-> {}, found |-> {}]

EventStatus(e) == IF e \in DOMAIN work THEN work[e].status ELSE "PENDING"

Attempts(e) == IF e \in DOMAIN work THEN work[e].attempts ELSE 0

SetsWork(events, status) ==
    work' = [e \in DOMAIN work \cup events |->
                IF e \in events THEN [status |-> status, attempts |-> Attempts(e)]
                                ELSE work[e]]

PendingOfferOf(n) == {o \in Offer : entryOf[o] = n /\ offers[o].status = "PENDING"}

(* What an event offers to entry n: a place that starts with the freed one
   and fits into it. *)
FitsEvent(n, e) ==
    {p \in Wanted[n] : StartAt[p] = StartAt[e.place] /\ Span[p] \subseteq Span[e.place]}

Waiting(c, op) == Running(c, op) /\ UNCHANGED <<now, blocks, requests, reopened>>

(* The subject of a handler of the waitlist that will create a booking. *)
StartsTask(c, op, subject, target, t) ==
    /\ Starts(c, op, subject, target, 0, FALSE)
    /\ task' = [task EXCEPT ![c] = t]

EndsTask(c) ==
    /\ Ends(c)
    /\ Unlocks(c)
    /\ task' = [task EXCEPT ![c] = NoTask]

-----------------------------------------------------------------------------
(* verifyCode: the code is consumed and the entry created *)

verifyCode(n) ==
    /\ entries[n].status = "NONE"
    /\ entries' = [entries EXCEPT ![n].status = "ACTIVE"]
    /\ UNCHANGED <<vars, entryOf, bookingOf, work, task, abandoned, faults>>

-----------------------------------------------------------------------------
(* cancelCurrent reads the entry, then in its transaction the pending
   offers, revokes what is pending, and updates the entry by id: three
   statements.  An offer made in between is revoked if it is there before the
   second one, and stays if it comes after. *)

BeginCancelEntry(c, n) ==
    /\ "cancelEntry" \in Workload
    /\ entries[n].status \in {"ACTIVE", "OFFERED"}
    /\ StartsTask(c, "cancelEntry", None, None, [NoTask EXCEPT !.entry = n])
    /\ UNCHANGED <<entries, entryOf, bookingOf, work, abandoned, faults>>

(* The pending offers are remembered for the events of the last loop. *)
LookCancelEntry(c) ==
    /\ Running(c, "cancelEntry")
    /\ ~task[c].made
    /\ task' = [task EXCEPT ![c].made = TRUE, ![c].found = PendingOfferOf(task[c].entry)]
    /\ UNCHANGED <<vars, entries, entryOf, bookingOf, work, abandoned, faults>>

Revoked(os) ==
    [o \in Offer |-> IF o \in os /\ offers[o].status = "PENDING"
                     THEN [offers[o] EXCEPT !.status = "REVOKED"] ELSE offers[o]]

WithdrawnEvent(o) == Freed("WAITLIST_CANCELLED", o, 0, offers[o].place)

WriteCancelEntry(c) ==
    LET n == task[c].entry
        freed == {WithdrawnEvent(o) : o \in task[c].found}
    IN  /\ Waiting(c, "cancelEntry")
        /\ task[c].made
        /\ \A e \in freed : ~Announced(e)
        /\ \E late \in {{}, PendingOfferOf(n)} : offers' = Revoked(task[c].found \cup late)
        /\ entries' = [entries EXCEPT ![n].status = "CANCELLED"]
        /\ recovery' = recovery \cup freed
        /\ EndsTask(c)
        /\ UNCHANGED <<bookings, entryOf, bookingOf, work, abandoned, faults>>

(* cancelAdmin does not ask for the status, and announces nothing. *)
BeginCancelEntryAdmin(c, n) ==
    /\ "cancelEntryAdmin" \in Workload
    /\ entries[n].status # "NONE"
    /\ StartsTask(c, "cancelEntryAdmin", None, None,
                  [NoTask EXCEPT !.entry = n, !.found = PendingOfferOf(n)])
    /\ UNCHANGED <<entries, entryOf, bookingOf, work, abandoned, faults>>

WriteCancelEntryAdmin(c) ==
    /\ Waiting(c, "cancelEntryAdmin")
    /\ offers' = Revoked(task[c].found)
    /\ entries' = [entries EXCEPT ![task[c].entry].status = "CANCELLED"]
    /\ EndsTask(c)
    /\ UNCHANGED <<bookings, recovery, entryOf, bookingOf, work, abandoned, faults>>

-----------------------------------------------------------------------------
(* acceptOfferForEntry *)

BeginAccept(c, o, b) ==
    /\ "acceptOffer" \in Workload
    /\ LiveOffer(o)
    /\ FreshBooking(b)
    /\ StartsTask(c, "acceptOffer", b, offers[o].place, [NoTask EXCEPT !.offer = o])
    /\ UNCHANGED <<entries, entryOf, bookingOf, work, abandoned, faults>>

AcceptAdmitted(c) ==
    LET o == task[c].offer
    IN  /\ LiveOffer(o)
        /\ entries[entryOf[o]].status = "OFFERED"
        /\ Available(offers[o].place, None, o)

EnterAccept(c) ==
    /\ Enter(c, "acceptOffer", AcceptAdmitted(c))
    /\ UNCHANGED waitOnly

AcceptedRow(c) == [NoBooking EXCEPT !.status = "CONFIRMED", !.place = tx[c].target]

Storable(c) == ExclusionHolds(Id(c), AcceptedRow(c)) /\ SegmentGuardHolds(Id(c), AcceptedRow(c))

(* Offer and entry are updated by id, whatever they have become. *)
WriteAccept(c) ==
    LET o == task[c].offer
    IN  /\ Waiting(c, "acceptOffer")
        /\ lock = c
        /\ Storable(c)
        /\ bookings' = [bookings EXCEPT ![Id(c)] = AcceptedRow(c)]
        /\ offers' = [offers EXCEPT ![o].status = "ACCEPTED"]
        /\ bookingOf' = [bookingOf EXCEPT ![o] = Id(c)]
        /\ entries' = [entries EXCEPT ![entryOf[o]].status = "FULFILLED"]
        /\ EndsTask(c)
        /\ UNCHANGED <<recovery, entryOf, work, abandoned, faults>>

(* A conflict rolls the transaction back and is followed by another one,
   releaseUnavailableOffer.  (The trigger of the segments, whose message is
   none the code looks for, is left to Dies.) *)
AcceptConflicts(c) ==
    /\ Waiting(c, "acceptOffer")
    /\ \/ CanLock(c) /\ ~AcceptAdmitted(c)
       \/ lock = c /\ ~ExclusionHolds(Id(c), AcceptedRow(c))
    /\ tx' = [tx EXCEPT ![c].op = "releaseOffer", ![c].subject = None]
    /\ Unlocks(c)
    /\ UNCHANGED <<bookings, offers, recovery, waitOnly>>

(* The entry goes back to the list, unless it left in the meantime. *)
BackToList(n) ==
    IF entries[n].status = "OFFERED"
    THEN [entries EXCEPT ![n] = [status |-> "ACTIVE", failures |-> @.failures + 1]]
    ELSE entries

releaseUnavailableOffer(c) ==
    LET o == task[c].offer
    IN  /\ Waiting(c, "releaseOffer")
        /\ IF offers[o].status = "PENDING"
           THEN /\ offers' = [offers EXCEPT ![o].status = "FAILED"]
                /\ entries' = BackToList(entryOf[o])
                /\ Announces(Freed("WAITLIST_OFFER_FAILED", o, 0, offers[o].place))
           ELSE UNCHANGED <<offers, entries, recovery>>
        /\ EndsTask(c)
        /\ UNCHANGED <<bookings, entryOf, bookingOf, work, abandoned, faults>>

-----------------------------------------------------------------------------
(* expireOffers, called by the worker and by every list of the waitlist *)

ExpiredEntry(n) == BackToList(n)

expireOffer(o) ==
    /\ offers[o].status = "PENDING"
    /\ offers[o].until <= now
    /\ offers' = [offers EXCEPT ![o].status = "EXPIRED"]
    /\ entries' = ExpiredEntry(entryOf[o])
    /\ Announces(Freed("WAITLIST_OFFER_EXPIRED", o, 0, offers[o].place))
    /\ UNCHANGED <<now, bookings, blocks, requests, lock, tx, reopened,
                   entryOf, bookingOf, work, task, abandoned, faults>>

-----------------------------------------------------------------------------
(* Claiming recovery events *)

Claimable(e) == EventStatus(e) \in {"PENDING", "FAILED"}

(* processRecoveryEvents: FOR UPDATE SKIP LOCKED, a batch at a time. *)
claimRecoveryEvents(c) ==
    LET due == {e \in recovery : Claimable(e)}
    IN  /\ "processRecovery" \in Workload
        /\ due # {}
        /\ \A d \in Client : tx[d].op # "processRecovery"
        /\ StartsTask(c, "processRecovery", None, None, [NoTask EXCEPT !.queue = due])
        /\ SetsWork(due, "PROCESSING")
        /\ UNCHANGED <<entries, entryOf, bookingOf, abandoned, faults>>

(* createSuggestionOffer claims one event, for the entry that was picked. *)
claimSuggestion(c, e, n) ==
    /\ "suggestOffer" \in Workload
    /\ e \in recovery
    /\ Claimable(e)
    /\ StartAt[e.place] > now
    /\ entries[n].status # "NONE"
    /\ StartsTask(c, "suggestOffer", None, None, [NoTask EXCEPT !.queue = {e}, !.entry = n])
    /\ SetsWork({e}, "PROCESSING")
    /\ UNCHANGED <<entries, entryOf, bookingOf, abandoned, faults>>

-----------------------------------------------------------------------------
(* findCandidatesForRecoveryEvent: entries that wait, match the event, were
   not offered this start before, and whose place is free right now. *)

DeclinedBefore(n, e) ==
    \E o \in Offer : /\ entryOf[o] = n
                     /\ offers[o].status \in {"EXPIRED", "REVOKED"}
                     /\ StartAt[offers[o].place] = StartAt[e.place]

Matching(e) ==
    {n \in Entry : entries[n].status = "ACTIVE" /\ ~DeclinedBefore(n, e)}

Candidates(e) ==
    {<<x[1], x[2], entries[x[1]].failures>> :
        x \in {y \in Matching(e) \X AppointmentPlace :
                 y[2] \in FitsEvent(y[1], e) /\ Available(y[2], None, None)}}

(* processRecoveryEvent reads the event again and looks for candidates;
   createSuggestionOffer keeps the picked entry among them. *)
TakesEvent(c, e) ==
    LET picked == {x \in Candidates(e) : task[c].entry \in {None, x[1]}}
    IN  /\ tx[c].op \in {"processRecovery", "suggestOffer"}
        /\ task[c].event = None
        /\ e \in task[c].queue
        /\ EventStatus(e) = "PROCESSING"
        /\ task' = [task EXCEPT ![c].event = e, ![c].queue = @ \ {e}, ![c].found = picked,
                                ![c].made = FALSE]
        /\ UNCHANGED <<vars, entries, entryOf, bookingOf, work, abandoned, faults>>

(* The order of the query: who was disappointed least comes first. *)
NextCandidate(c, x) ==
    /\ x \in task[c].found
    /\ \A y \in task[c].found : x[3] <= y[3]

Offering(c) ==
    /\ tx[c].op \in {"processRecovery", "suggestOffer"}
    /\ task[c].event # None
    /\ ~task[c].made

(* Mutant: the entry is not read again under the lock. *)
OfferUnchecked(x) == Available(x[2], None, None)

OfferAdmitted(x) == Available(x[2], None, None) /\ entries[x[1]].status = "ACTIVE"

(* offerEntry, up to the lock and the checks under it *)
EnterOffer(c, x) ==
    /\ Offering(c)
    /\ NextCandidate(c, x)
    /\ CanLock(c)
    /\ OfferAdmitted(x)
    /\ lock' = c
    /\ task' = [task EXCEPT ![c].found = {x}, ![c].offer = None]
    /\ UNCHANGED <<now, bookings, blocks, requests, offers, recovery, tx, reopened,
                   entries, entryOf, bookingOf, work, abandoned, faults>>

(* waitlist_offers_one_pending_per_entry, waitlist_offers_no_pending_overlap *)
OfferStorable(x) ==
    \A o \in Offer :
        offers[o].status = "PENDING" =>
            entryOf[o] # x[1] /\ ~Overlap(Span[offers[o].place], Span[x[2]])

FreshOffers == {o \in Offer : offers[o].status = "NONE"}

WriteOffer(c, x) ==
    /\ Offering(c)
    /\ lock = c
    /\ x \in task[c].found
    /\ FreshOffers # {}
    /\ OfferStorable(x)
    /\ LET o == CHOOSE o \in FreshOffers : TRUE
       IN  /\ offers' = [offers EXCEPT ![o] = [status |-> "PENDING", place |-> x[2],
                                               until |-> now + OfferTtl]]
           /\ entryOf' = [entryOf EXCEPT ![o] = x[1]]
    /\ entries' = [entries EXCEPT ![x[1]].status = "OFFERED"]
    /\ task' = [task EXCEPT ![c].made = TRUE, ![c].found = {}]
    /\ Unlocks(c)
    /\ UNCHANGED <<now, bookings, blocks, requests, recovery, tx, reopened,
                   bookingOf, work, abandoned, faults>>

(* A conflict: the worker goes on with the next candidate. *)
OfferConflicts(c, x) ==
    /\ Offering(c)
    /\ NextCandidate(c, x)
    /\ \/ CanLock(c) /\ ~OfferAdmitted(x)
       \/ lock = c /\ ~OfferStorable(x)
    /\ task' = [task EXCEPT ![c].found = @ \ {x}]
    /\ Unlocks(c)
    /\ UNCHANGED <<now, bookings, blocks, requests, offers, recovery, tx, reopened,
                   entries, entryOf, bookingOf, work, abandoned, faults>>

-----------------------------------------------------------------------------
(* Settling a claimed event *)

Fault == faults < MaxFaults /\ faults' = faults + 1

(* Mutant: the batch ends with the event. *)
DropsBatch(c) ==
    /\ task' = [task EXCEPT ![c] = NoTask]
    /\ Ends(c)

(* The handler lets go of its event; the worker goes on with its batch. *)
NextOfBatch(c) ==
    IF task[c].queue = {}
    THEN task' = [task EXCEPT ![c] = NoTask] /\ Ends(c)
    ELSE task' = [task EXCEPT ![c] = [NoTask EXCEPT !.queue = task[c].queue]] /\ UNCHANGED tx

LetsGo(c) ==
    /\ NextOfBatch(c)
    /\ Unlocks(c)
    /\ UNCHANGED <<now, bookings, blocks, requests, offers, recovery, reopened,
                   entries, entryOf, bookingOf, abandoned>>

(* An offer was made, or nobody wanted the place.  An administrator whose
   customer no longer matches puts the event back instead. *)
FinishEvent(c) ==
    /\ tx[c].op \in {"processRecovery", "suggestOffer"}
    /\ task[c].event # None
    /\ lock # c
    /\ task[c].made \/ task[c].found = {}
    /\ SetsWork({task[c].event},
                IF task[c].made \/ Running(c, "processRecovery") THEN "PROCESSED" ELSE "FAILED")
    /\ LetsGo(c)
    /\ UNCHANGED faults

(* Any other error.  The worker counts it, and the fourth is the last. *)
FailEvent(c) ==
    LET e == task[c].event
        attempts == Attempts(e) + 1
    IN  /\ Fault
        /\ Running(c, "processRecovery")
        /\ e # None
        /\ work' = [work EXCEPT ![e] =
                       [status |-> IF attempts >= MaxAttempts THEN "PROCESSED" ELSE "FAILED",
                        attempts |-> attempts]]
        /\ LetsGo(c)

FailSuggestion(c) ==
    /\ Fault
    /\ Running(c, "suggestOffer")
    /\ task[c].event # None
    /\ SetsWork({task[c].event}, "FAILED")
    /\ LetsGo(c)

(* What a handler has claimed and not settled. *)
Held(c) == task[c].queue \cup ({task[c].event} \ {None})

(* The process dies between two statements, or the transaction fails in a
   way nothing catches.  What it had claimed stays claimed. *)
Dies(c) ==
    /\ Fault
    /\ task[c] # NoTask
    /\ Fails(c)
    /\ task' = [task EXCEPT ![c] = NoTask]
    /\ abandoned' = abandoned \cup Held(c)
    /\ UNCHANGED <<entries, entryOf, bookingOf, work>>

-----------------------------------------------------------------------------
WaitlistInit ==
    /\ entries = [n \in Entry |-> [status |-> "NONE", failures |-> 0]]
    /\ entryOf = [o \in Offer |-> None]
    /\ bookingOf = [o \in Offer |-> None]
    /\ work = [e \in {} |-> [status |-> "PENDING", attempts |-> 0]]
    /\ task = [c \in Client |-> NoTask]
    /\ abandoned = {}
    /\ faults = 0

WaitInit == ScheduleInit /\ WaitlistInit

Offers(c) ==
    \/ claimRecoveryEvents(c)
    \/ \E e \in recovery, n \in Entry : claimSuggestion(c, e, n)
    \/ \E e \in task[c].queue : TakesEvent(c, e)
    \/ /\ tx[c].op \in {"processRecovery", "suggestOffer"}
       /\ \E x \in task[c].found :
            \/ EnterOffer(c, x)
            \/ OfferConflicts(c, x)
            \/ WriteOffer(c, x)
    \/ FinishEvent(c)
    \/ FailEvent(c)
    \/ FailSuggestion(c)

Customers(c) ==
    \/ \E n \in Entry : BeginCancelEntry(c, n) \/ BeginCancelEntryAdmin(c, n)
    \/ LookCancelEntry(c) \/ WriteCancelEntry(c) \/ WriteCancelEntryAdmin(c)
    \/ \E o \in Offer, b \in Booking : BeginAccept(c, o, b)
    \/ EnterAccept(c) \/ WriteAccept(c) \/ AcceptConflicts(c)
    \/ releaseUnavailableOffer(c)

BookingEnds(c) == Write(c) \/ (task[c] = NoTask /\ GiveUp(c))

(* The handlers of bookings know nothing of the waitlist but its offers. *)
BookingStep ==
    /\ \/ \E c \in Client : Begin(c) \/ Admission(c) \/ BookingEnds(c)
       \/ Timer
       \/ getAdminBookingBoard
       \/ Tick
    /\ UNCHANGED waitOnly

WaitNext ==
    \/ BookingStep
    \/ \E n \in Entry : verifyCode(n)
    \/ \E c \in Client : Offers(c) \/ Customers(c) \/ Dies(c)
    \/ \E o \in Offer : expireOffer(o)

WaitSpec == WaitInit /\ [][WaitNext]_waitVars

-----------------------------------------------------------------------------
(* Properties *)

(* Every row of the waitlist is of its type, and an offer that exists has an
   entry and a place. *)
WaitTypeOK ==
    /\ ScheduleTypeOK
    /\ entries \in [Entry -> EntryRow]
    /\ entryOf \in [Offer -> Entry \cup {None}]
    /\ bookingOf \in [Offer -> Booking \cup {None}]
    /\ DOMAIN work \subseteq recovery
    /\ \A e \in DOMAIN work :
          work[e].status \in {"PROCESSING", "PROCESSED", "FAILED"} /\ work[e].attempts <= MaxAttempts
    /\ \A o \in Offer : offers[o].status # "NONE" =>
          entryOf[o] \in Entry /\ offers[o].place \in Place

(* A live offer keeps its place: no online booking is put there, neither by
   a hold nor by a move nor by the acceptance of another offer.  The
   database compares offers with offers only; it is the check under the
   branch lock that sees them. *)
OfferKept ==
    \A o \in Offer, b \in Booking \ reopened :
        LiveOffer(o) /\ Exclusive(bookings[b])
            => ~Overlap(Busy[bookings[b].place], Busy[offers[o].place])

(* A customer who has accepted is not offered another place, although the
   candidates of an event were read before the acceptance. *)
FulfilledIsFinal ==
    [][\A n \in Entry :
          entries[n].status = "FULFILLED" => entries'[n].status \in {"FULFILLED", "CANCELLED"}]_waitVars

(* No claimed event is forgotten: while it is PROCESSING, which nobody
   claims again, some handler still has it before it, one event of a batch
   failing or not.  Only a handler that dies leaves its events behind. *)
NoEventForgotten ==
    \A e \in DOMAIN work :
        work[e].status = "PROCESSING" => e \in abandoned \/ \E c \in Client : e \in Held(c)

-----------------------------------------------------------------------------
(* What the repository says of itself, and the code does not do *)

(* waitlist.service.ts:1039, "the waitlist entry is not active", asked again
   under the lock: an entry its customer has cancelled gets no offer and no
   booking. *)
CancelledEntryStays ==
    [][\A n \in Entry :
          entries[n].status = "CANCELLED" => entries'[n].status = "CANCELLED"]_waitVars
=============================================================================
