---------------------------- MODULE SalonSchedule ----------------------------
(***************************************************************************)
(* The schedule of one branch as the database stores it, and the rules     *)
(* every writer of the schedule goes through: the availability check of    *)
(* ScheduleValidationService, the two database constraints on online       *)
(* bookings, and the advisory lock of the branch.  The modules of the      *)
(* components (BookingLifecycle, ChangeRequests, ...) extend this one and  *)
(* add the handlers.                                                       *)
(*                                                                         *)
(* Time on the calendar is abstracted to a set of cells, one for every     *)
(* (professional, five minutes) pair.  A place is a proposal for an        *)
(* appointment: a professional, a start and a list of services.            *)
(***************************************************************************)
EXTENDS Integers, FiniteSets

CONSTANTS
    Booking,    \* identifiers of rows of "bookings"
    Block,      \* identifiers of rows of "schedule_blocks"
    Request,    \* identifiers of rows of "booking_change_requests"
    Offer,      \* identifiers of rows of "waitlist_offers"
    Client,     \* requests the API may be serving at the same time
    None,       \* no value
    Cell,       \* cells of the calendar
    Place,      \* everything that may be put on the calendar
    BlockPlace, \* the places a schedule block may take
    Open,       \* the places inside the working hours of the salon
    Span,       \* [start, end) of a place, as cells
    Busy,       \* the occupancy segments of a place: its span without the
                \* processing phases, with the buffers before and after it
    StartAt,    \* the start of a place on the clock
    HoldTtl,    \* how long a hold lives, the five minutes of createHold
    MaxNow,     \* bound on the clock
    MaxRevision \* bound on the revisions handlers start from

ASSUME PlaceAssumption ==
    /\ Open \subseteq Place
    /\ BlockPlace \subseteq Place
    /\ Open \cap BlockPlace = {}
    /\ Span \in [Place -> SUBSET Cell]
    /\ Busy \in [Place -> SUBSET Cell]
    /\ StartAt \in [Place -> Nat]

ASSUME NoneAssumption ==
    None \notin Booking \cup Block \cup Request \cup Offer \cup Client \cup Place

ASSUME BoundAssumption ==
    /\ HoldTtl \in Nat
    /\ MaxNow \in Nat
    /\ MaxRevision \in Nat

VARIABLES
    now,      \* the clock of the server and of the database
    bookings, \* table "bookings" with "booking_occupancy_segments"
    blocks,   \* table "schedule_blocks"
    requests, \* table "booking_change_requests"
    offers,   \* table "waitlist_offers"
    recovery, \* table "slot_recovery_events"
    lock,     \* the transaction that holds the advisory lock of the branch
    tx,       \* what every handler in flight has read so far
    reopened   \* history: bookings a late confirmation wrote after a decision

vars == <<now, bookings, blocks, requests, offers, recovery, lock, tx, reopened>>

-----------------------------------------------------------------------------
(* Rows *)

(* BookingStatus; "NONE" is a row that does not exist yet. *)
Status == {"NONE", "HOLD", "PENDING_APPROVAL", "CONFIRMED",
           "REJECTED", "CANCELLED", "EXPIRED"}

(* BLOCKING_STATUSES: the statuses that keep others off the calendar. *)
Blocking == {"HOLD", "PENDING_APPROVAL", "CONFIRMED"}

Terminal == {"REJECTED", "CANCELLED", "EXPIRED"}

(* MANUAL stands for the sources PHONE, ADMIN and WALK_IN. *)
BookingRow ==
    [status    : Status,
     source    : {"ONLINE", "MANUAL"},
     override  : BOOLEAN,
     place     : Place \cup {None},
     revision  : Nat,
     holdUntil : Nat,
     visit     : {"SCHEDULED", "NO_SHOW"}]

BlockRow == [status : {"NONE", "ACTIVE", "CANCELLED"}, place : Place \cup {None}, version : Nat]

RequestRow ==
    [status  : {"NONE", "PENDING", "APPROVED", "REJECTED", "EXPIRED", "CANCELLED"},
     booking : Booking \cup {None}, place : Place \cup {None},
     revision : Nat, until : Nat]

OfferRow ==
    [status : {"NONE", "PENDING", "ACCEPTED", "EXPIRED", "REVOKED", "FAILED"},
     place  : Place \cup {None}, until : Nat]

NoBooking == [status |-> "NONE", source |-> "ONLINE", override |-> FALSE, place |-> None,
              revision |-> 1, holdUntil |-> 0, visit |-> "SCHEDULED"]

NoBlock == [status |-> "NONE", place |-> None, version |-> 0]

NoRequest == [status |-> "NONE", booking |-> None, place |-> None, revision |-> 0, until |-> 0]

NoOffer == [status |-> "NONE", place |-> None, until |-> 0]

(* A handler in flight: the operation, the row it is about, the place it
   was given or has read, the revision and the clock it has read. *)
Subject == Booking \cup Block \cup Request \cup Offer \cup {None}

Operation ==
    {"idle", "createHold", "confirmHold", "approve", "reject", "cancel", "create",
     "reschedule", "updateDetails", "markNoShow", "revertNoShow",
     "createBlock", "updateBlock", "cancelBlock", "requestChange", "customerCancel",
     "approveChange", "rejectChange", "expireDue",
     "acceptOffer", "releaseOffer", "cancelEntry", "cancelEntryAdmin",
     "processRecovery", "suggestOffer", "createSeries",
     "createSeriesAdmin", "cancelSeries", "cancelSeriesAdmin"}

Transaction == [op : Operation, subject : Subject, target : Place \cup {None},
                revision : Nat, at : Nat, override : BOOLEAN]

Idle == [op |-> "idle", subject |-> None, target |-> None,
         revision |-> 0, at |-> 0, override |-> FALSE]

-----------------------------------------------------------------------------
(* The availability check *)

AppointmentPlace == Place \ BlockPlace

Active(b) == bookings[b].status \in Blocking

Online(b) == bookings[b].source = "ONLINE"

Overlap(s, t) == s \cap t # {}

(* Change requests and waitlist offers reserve their place while they are
   pending and unexpired. *)
LiveRequest(r) == requests[r].status = "PENDING" /\ requests[r].until > now

LiveOffer(o) == offers[o].status = "PENDING" /\ offers[o].until > now

(* What assertAvailable looks for: something other than booking b or offer
   o that keeps the professional busy in one of the occupancy segments. *)
TakenByBooking(p, b) ==
    \E a \in Booking \ {b} : Active(a) /\ Overlap(Busy[bookings[a].place], Busy[p])

TakenByBlock(p) ==
    \E k \in Block : blocks[k].status = "ACTIVE" /\ Overlap(Span[blocks[k].place], Busy[p])

(* Mutant: pending requests are forgotten. *)
RequestsIgnored(p) == FALSE

TakenByRequest(p) ==
    \E r \in Request : LiveRequest(r) /\ Overlap(Busy[requests[r].place], Busy[p])

(* Mutant: pending offers are forgotten. *)
OffersIgnored(p, o) == FALSE

TakenByOffer(p, o) ==
    \E x \in Offer \ {o} : LiveOffer(x) /\ Overlap(Busy[offers[x].place], Busy[p])

Available(p, b, o) ==
    /\ p \in Open
    /\ ~TakenByBooking(p, b)
    /\ ~TakenByBlock(p)
    /\ ~TakenByRequest(p)
    /\ ~TakenByOffer(p, o)

(* The public calendar (AvailabilityService) shows future places and does
   not count a hold whose five minutes are over. *)
Shown(p) ==
    /\ p \in Open
    /\ StartAt[p] > now
    /\ \A b \in Booking :
          Active(b) /\ Overlap(Busy[bookings[b].place], Busy[p])
              => bookings[b].status = "HOLD" /\ bookings[b].holdUntil <= now
    /\ ~TakenByBlock(p)
    /\ ~TakenByRequest(p)
    /\ ~TakenByOffer(p, None)

-----------------------------------------------------------------------------
(* The constraints of the database on the row written for booking b *)

(* booking_no_overlap: the whole intervals of two blocking online bookings
   without an override never overlap. *)
Exclusive(row) ==
    row.status \in Blocking /\ row.source = "ONLINE" /\ ~row.override

(* Mutant: the constraint is evaluated only when the interval is written. *)
ExclusionOnMoveHolds(b, row) ==
    Exclusive(row) /\ row.place # bookings[b].place =>
        \A a \in Booking \ {b} :
            Exclusive(bookings[a]) => ~Overlap(Span[bookings[a].place], Span[row.place])

ExclusionHolds(b, row) ==
    Exclusive(row) =>
        \A a \in Booking \ {b} :
            Exclusive(bookings[a]) => ~Overlap(Span[bookings[a].place], Span[row.place])

(* booking_occupancy_no_overlap: the trigger that runs when the segments
   of an online booking are written. *)
(* Mutant: the trigger looks at the override, as the constraint does. *)
SegmentGuardExempts(b, row) == Exclusive(row) => ~TakenByBooking(row.place, b)

SegmentGuardHolds(b, row) ==
    row.status \in Blocking /\ row.source = "ONLINE" => ~TakenByBooking(row.place, b)

-----------------------------------------------------------------------------
(* Slot recovery events, unique in (source type, source, start) *)

RecoverySource ==
    {"BOOKING_REJECTION", "BOOKING_CANCELLATION", "BOOKING_RESCHEDULE",
     "SCHEDULE_BLOCK_CANCELLATION", "BOOKING_CHANGE", "BOOKING_SERIES_CANCELLATION",
     "WAITLIST_CANCELLED", "WAITLIST_OFFER_FAILED", "WAITLIST_OFFER_EXPIRED"}

RecoveryEvent == [type : RecoverySource, source : Booking \cup Block \cup Request \cup Offer,
                  revision : Nat, place : Place \cup {None}]

Freed(type, source, revision, place) ==
    [type |-> type, source |-> source, revision |-> revision, place |-> place]

Announced(e) ==
    \E f \in recovery : /\ f.type = e.type
                        /\ f.source = e.source
                        /\ f.revision = e.revision
                        /\ StartAt[f.place] = StartAt[e.place]

-----------------------------------------------------------------------------
(* Handlers in flight *)

Starts(c, op, subject, target, revision, override) ==
    /\ tx[c] = Idle
    /\ tx' = [tx EXCEPT ![c] = [op |-> op, subject |-> subject, target |-> target,
                                revision |-> revision, at |-> now, override |-> override]]
    /\ UNCHANGED <<now, bookings, blocks, requests, offers, recovery, lock, reopened>>

Running(c, op) == tx[c].op = op

(* lockBranchSchedule: a transaction waits until no other one holds it;
   commit and rollback both release it. *)
CanLock(c) == lock = None

Locks(c) ==
    /\ lock' = c
    /\ UNCHANGED <<now, bookings, blocks, requests, offers, recovery, tx, reopened>>

Ends(c) == tx' = [tx EXCEPT ![c] = Idle]

Unlocks(c) == lock' = IF lock = c THEN None ELSE lock

(* A handler that throws: the transaction is rolled back. *)
Fails(c) ==
    /\ Ends(c)
    /\ Unlocks(c)
    /\ UNCHANGED <<now, bookings, blocks, requests, offers, recovery, reopened>>

(* An identifier no row and no handler uses yet. *)
FreshBooking(b) == bookings[b].status = "NONE" /\ \A c \in Client : tx[c].subject # b

FreshBlock(k) == blocks[k].status = "NONE" /\ \A c \in Client : tx[c].subject # k

-----------------------------------------------------------------------------
Tick ==
    /\ now < MaxNow
    /\ now' = now + 1
    /\ UNCHANGED <<bookings, blocks, requests, offers, recovery, lock, tx, reopened>>

ScheduleInit ==
    /\ now = 0
    /\ bookings = [b \in Booking |-> NoBooking]
    /\ blocks = [k \in Block |-> NoBlock]
    /\ requests = [r \in Request |-> NoRequest]
    /\ offers = [o \in Offer |-> NoOffer]
    /\ recovery = {}
    /\ lock = None
    /\ tx = [c \in Client |-> Idle]
    /\ reopened = {}

(* Every table holds rows of its type; a row that exists has a place. *)
ScheduleTypeOK ==
    /\ now \in Nat
    /\ bookings \in [Booking -> BookingRow]
    /\ blocks \in [Block -> BlockRow]
    /\ requests \in [Request -> RequestRow]
    /\ offers \in [Offer -> OfferRow]
    /\ recovery \subseteq RecoveryEvent
    /\ lock \in Client \cup {None}
    /\ tx \in [Client -> Transaction]
    /\ reopened \subseteq Booking
    /\ \A b \in Booking : bookings[b].status # "NONE" => bookings[b].place \in Place
    /\ \A k \in Block : blocks[k].status # "NONE" => blocks[k].place \in Place
=============================================================================
