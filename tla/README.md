# A verification project for the salon's appointment system

The system is a beauty salon's appointment system: a backend (NestJS, Prisma,
PostgreSQL) and a web front end. Customers hold and confirm appointments
online, ask for other times, wait for a place, book series; the salon approves,
moves and cancels; workers send reminders and offer what has become free. The
code has few locks and many handlers that read, think and write, and pages that
go on while their calls are under way. The modules here model that core, TLC
checks them on small instances, and TLAPS proves their safety for every size.

Paths below are relative to `src/backend/src/` unless they start otherwise;
names ending in `.tsx` and the hooks are under `src/frontend/src/`.

## 1. Inventory

| Component | State | Operations | Correct when | Modelled by |
|---|---|---|---|---|
| Schedule of a branch (`availability/schedule-validation.service.ts`, `common/schedule-lock.ts`, migrations) | bookings with occupancy segments, blocks, live requests and offers, advisory lock | availability check, lock, two overlap constraints | nobody is booked twice; a check stays true until its transaction commits | `SalonSchedule` |
| Booking lifecycle (`bookings/`) | status, place, revision, visit status | hold, confirm, approve, reject, cancel, create, reschedule, edit, no-show and back, sweeps | closed bookings stay closed; holds and requests end; what is freed is announced | `BookingLifecycle` |
| Schedule blocks (`schedule-blocks/`) | blocks with a version | create, update, cancel | no block under a booking at work | `BookingLifecycle` |
| Change requests (`booking-changes/`) | proposals with an expiry | request, cancel, approve, reject, expire | a live proposal keeps its place; a cancelled booking has none | `ChangeRequests` |
| Waitlist (`waitlist/`) | entries, offers, recovery events | offer, accept, expire, withdraw, process events | an offer keeps its place; no event is lost; fulfilled is final | `Waitlist` |
| Booking series (`booking-series/`) | series, occurrences | create all or none, cancel from one on | a request books once; a cancelled series is over | `BookingSeries` |
| Notification outbox (`notifications/`) | messages with status, attempts, claim | enqueue, withdraw, remind, claim, send, record, report, retry | a claim is exclusive; every message settles | `NotificationDelivery` |
| Codes (`customer-account/`, `booking-access/`, waitlist) | codes, attempts, sessions | request, answer, consume | a code is used once | `AccessCodes`, `OneTimeCode` |
| Staff (`admin/`, sessions) | users, sessions, failed logins | log in, create, change, dismiss | a dismissed session never acts | `TeamAccess` |
| Reviews (`reviews/`, its scheduler) | visits, invitations, tokens | invite, answer, no-show | the link of an invitation opens | `Reviews` |
| Business hours | week, special days | change either | a change leaves nobody outside whom its query sees | `OpeningHours` |
| Forms | templates, versions, submissions | draft, publish, answer, review | one draft; consent backs the answers | `FormTemplates`, `VisitForms` |
| Slot calendar and service resolver | none | list starts, resolve a plan | shows what the check accepts, and every gap | `SlotEngine` |
| Catalogue | services, professionals, what they offer | edit each, copy a plan into a booking | a list that is edited leaves the settings of its rows alone | `Catalogue`, `CatalogueDesk` |
| Customers and memory | profiles, merges, service records | merge, revise, update | revisions chain; no merge closes a circle by itself | `CustomerRecords` |
| Booking page of the customer | selection, times, hold, code | every handler and effect | the times belong to the selection | `BookingWizard` |
| Account pages | login, profile, lists, a visit, forms, review | every handler and effect | lists are whole; what is said is kept | `AccountHome`, `VisitHistory`, `AccountVisit`, `VisitForms`, `ReviewPages` |
| Public pages | session of a booking, waitlist, review link | every handler and effect | who leaves sees nothing; an offer is of its entry | `BookingLookup`, `WaitlistJoin`, `ReviewPages` |
| Board and realtime | board of a day, stream, drawer, drag and drop | every handler and effect | the board is of its day; nothing is overwritten unseen | `AdminBoard`, `BookingDesk` |
| Catalogue page, schedule page | lists, editors, dialogs | every handler | an editor writes what its user saw | `CatalogueDesk`, `BlocksDesk` |
| Booking policy | configuration | | | constants of `ChangeRequests` |
| Calendar subscriptions, audit, reports | a feed, a log, reads | | | not modelled: nothing depends on them |
| Other pages of the salon | a form each | | | not modelled: their services are |

Not modelled inside these: audit rows, prices, texts, photographs, search and
filters, moderation and statistics of reviews, messages to reviewers and the
waitlist in the outbox, categories, the drawer that makes a booking by hand,
weekly hours on the schedule page.

How they interact. Every service writes the same PostgreSQL tables, at READ
COMMITTED. The only mutual exclusion is the transaction-level advisory lock of
the branch, `lockBranchSchedule`.

* Takes it: `createHold`, the salon's `create`, `reschedule`, `updateDetails`,
  creation, approval and customer cancellation in change requests, blocks,
  making and accepting offers, creating a series, changing the hours.
* Does not: `confirmHold`, `decide` (approve, reject), the salon's `cancel`,
  no-show and back, both sweeps, the board (which expires holds as it reads),
  rejection and expiry of requests, cancelling a series, cancelling an entry of
  the waitlist; nothing about customers, staff, forms, reviews, the catalogue.

A transaction that frees a place writes a *slot recovery event* for the waitlist
before it commits, and messages into the outbox. Workers read these tables on
timers. The pages talk to the services by calls only; the board also listens to
a stream of events.

What is hard: handlers outside the lock that update by id what they read
earlier; a revision that some write as a number and others increment; two rules
of the database on overlap that do not agree; expiry by clock here and by status
there; claims that outlive a change of their row; a crash between any two
statements; answers that come late, out of order or not at all to a page that
has moved on. `PROJECT.json` lists the hazards at their lines.

## 2. Modules

Services that share the calendar extend one another; the others stand alone.

    SalonSchedule                     tables, check, constraints, lock, events
      BookingLifecycle                bookings and blocks          BookingLifecycleProofs
        ChangeRequests                requests of customers        ChangeRequestsProofs
        Waitlist                      offers, recovery events      WaitlistProofs
        BookingSeries                 series                       SeriesProofs
    NotificationDelivery              outbox, workers              NotificationDeliveryProofs
    MessageQueue <- NotificationDelivery  one pair of hands        NotificationDeliveryProofs
    Calendar <- BookingLifecycle      what one writer would do     BookingLifecycleProofs
    OneTimeCode <- AccessCodes        abstract and detailed codes  PeopleProofs
    TeamAccess, Reviews               staff; reviews               PeopleProofs
    OpeningHours, FormTemplates       hours; forms                 HouseProofs
    CustomerRecords                   customers, records           PeopleProofs
    Catalogue                         services, plans              HouseProofs
    SlotEngine                        slots of a day               HouseProofs
    BookingWizard, AccountHome, VisitHistory, AccountVisit, VisitForms, ReviewPages,
    BookingLookup, WaitlistJoin, AdminBoard, BookingDesk, CatalogueDesk, BlocksDesk
                                      pages                        PagesProofs

Each proof module stands in the line of what it proves about; `PagesProofs` is
about the pages as `MCPages` puts them together.
`MCBookingLifecycle`, `MCChangeRequests`, `MCNotificationDelivery` and
`MCWaitlist` are the instances of one component each; `Calendar`,
`MessageQueue` and `OneTimeCode` are abstract specifications that the modules
beside the arrow implement. `MCChanges`, `MCSeries`,
`MCHouse` and `MCPages` hold several components that share no state: a
behaviour follows one `part`, chosen in the initial state, and the variables of
the others do not move, so the states of a run are the sum of those of its
parts and not their product. `SalonDay` is a calendar several of them share.

### How a handler becomes actions

A handler is one request served by a client `c`; `tx[c]` is what it has read.

* `Begin…` is all it reads before it would wait: the look outside the
  transaction, or, for handlers without a lock, the read inside it. Its early
  returns are the guard. The clock it reads (`const now = new Date()`) is kept
  in `tx[c].at`, since the code uses that value later.
* `Enter…` takes the branch lock and evaluates the checks under it. While the
  lock is held no other handler that takes it moves; those that do not may run
  between `Enter` and `Write`.
* `Write…` is the update with every other write of the transaction, and the
  commit. Its guard is what the code repeats in `updateMany`, and the
  constraints of the database; an `update` by id has no guard.
* `GiveUp` ends a handler without effect: a check that fails, a constraint that
  refuses, a transaction that times out, a process that dies. All roll back.

A handler that locks, checks and writes at once takes and releases the lock in
its `Write`. The modules of other services use the same three steps under names
of their own (`Start…` and the name of the method).

### How a page becomes actions

A handler that waits for the server *sends* a call and returns. The server
carries the call out at a moment of its own and the answer arrives at another;
the user goes on between them. The step of the answer runs the rest of the
handler on whatever the page has become, with what the handler's closure kept.
Effects run in the step that changed what they depend on. A call may fail at
any moment before its answer. An answer carries what the server wrote or read when
it carried the call out, and that is what the page shows.

What other people do to the rows of `BookingDesk` are steps beside it, each
translated from the handler that does it: moves, edits and marks take a revision
(`EditedElsewhere`), and so do decisions and the sweep of undecided requests
(`DecidedElsewhere`); the profile of the customer (`ProfileSaved`) and a late
confirmation (`ConfirmedLate`) take none.

### State and abstractions

* `bookings` is the table with its segments. `place` stands for professional,
  start and services together: `Span` is the whole interval, `Busy` the
  occupancy segments (buffers included, processing phases left out), as sets of
  cells; half-open intervals overlap exactly when their cells meet. `StartAt` is
  the start on the clock. MANUAL stands for PHONE, ADMIN and WALK_IN.
* `reopened` is history: bookings a late confirmation wrote after they had been
  decided or closed. `confirmHold` updates by id, so it may write a booking that
  is no hold any more; the properties name it as the one exception. In
  `NotificationDelivery` `calls` counts calls of the provider, `released` holds
  messages whose claim was taken for stale or that an administrator put back.
* One branch, one professional in the instances. The lock is per branch, so
  branches do not meet.
* `assertAvailable` is one step although it is seven queries: all writers of
  what it reads hold the lock, except those that only take something off the
  calendar, and late confirmations.
* `NotificationDelivery` has no numeric clock. That a message becomes due, a
  claim grows old, a reminder falls due and an appointment begins are steps, so
  every order of them is covered.
* The OTP of a confirmation is a step that may fail; `AccessCodes` has the codes.
  Dates and rules of a series are the constant `Plan`: lists of places one after
  another in time, as `generateDates` makes them. Filters of waitlist entries are
  the constant `Wanted`.

## 3. Runs

`CHECK_DEADLOCK FALSE` everywhere: clocks, revisions and calls are bounded, so
a day comes to an end.

| Run | Instance | Distinct states | Shows |
|---|---|---|---|
| `decisions` | 1 booking, 1 block, 2 handlers, all operations but moves, sweeps with fairness | 560,032 | `CalendarIsKept`, the refinement of `Calendar`; `HoldFreed`, `PastPendingExpires` under `FairSpec` |
| `moves` | 2 bookings, 2 handlers: hold, confirm, approve, reject, reschedule with and without override | 1,442,854 | `OnlineDisjoint`, `NoOverlap`, `FreedIsAnnounced` |
| `changes` | 2 bookings, 1 request, 2 handlers; or the page of a visit with 2 hours | 864,104 | `ProposalReserved`, `CancelledHasNoRequest`, `CancellationAnnounced`, `RequestKnowsPlace` |
| `waitlist` | 2 freed places, 1 entry, 2 offers, 2 handlers, 1 fault | 825,412 | `OfferKept`, `NoEventForgotten`, `FulfilledIsFinal` |
| `series` | 4 rows for series of 2, 1 key, 1 block, 2 handlers; or 2 customers, 1 record, 2 owners; or 1 service and 1 professional, 2 editors | 699,498 | `OneRowPerOccurrence`, `BlockClear`, `CancelledSeriesIsOver`, `OccurrenceCancelledOnce`; `RevisionsChain`, `NoMergeCycle`; `SettingsAreKept` |
| `outbox` | 1 booking, 2 workers, 2 faults, 2 attempts, reports, 1 administrator, fairness | 13,897 | `QueueIsKept`, the refinement of `MessageQueue`; `EveryMessageSettles` |
| `reminders` | 1 booking moved, edited and cancelled, 1 worker, fairness | 163,800 | `ReminderIsSent`, `WithdrawnStays` |
| `house` | codes, staff, reviews, hours (2 bookings, a limit of 1), slots or forms, 2 requests of each | 427,383 | `CodeUsedOnce`, `DismissedStaysOut`, `InvitationOpens`, `NobodyLockedOut`, `ShownIsAccepted`, `GapIsShown`, `OneDraft` |
| `pages` | one of 14 pages (or pairs of a page and its service), 2 tabs where they matter | 2,595,633 | `SlotsFitSelection`, `BoardIsOfDay`, `LeftSeesNothing`, `HistoryIsWhole`, `OfferIsOfEntry`, `ConsentBacksAnswers`, `SaidIsKept`, `ReasonIsForBlock`, `NothingIsOverwritten` |
| `late_confirmation`, `self_conflict`, `retry_of_sent` | the smallest that shows it | | refuted statements, section 5 |

Bounds. Two clients are two handlers in flight, enough for every race between a
pair; what three could do is covered by the proofs. `MaxRevision` lets a booking
change twice (a move, and a second one that meets it) and stands in the guards
of `Begin…` only, so whoever has begun may finish. `MaxAttempts` 2 reaches the
first attempt, the retry and the end; the code has 4 or 5, and nothing depends
on the number but a comparison. `MaxNow`, `HoldTtl`, `RequestTtl`, `OfferTtl`,
`Lifetime` are the fewest ticks in which something can begin, be live, and be
over. Faults are counted (`MaxFaults`) and may strike at any step. The calendar of
`SalonDay` is the smallest in which every pair of rules differs: a colouring with
a processing phase, a fringe that fits into the phase, brows that begin when the
colouring ends and prepare in its last cell, a break in the phase and a training
at work. Of the pages `Few`, `Some` and `Many` (1, 2, 3) bound the calls without
an answer, the codes and the revisions: two calls are an answer and the later one
it meets, a third is needed only where two blocks and their list are under way. `Limit` is 1 beside two
bookings, as the code's 50 is beside a fifty-first.
Symmetry is used where no liveness is checked.

Fairness. `PendingBookingExpiryService` sweeps every minute, so `FairSpec` of
`BookingLifecycle` takes its actions to be weakly fair; they depend on no client
and no lock. In `NotificationDelivery` worker (10 s) and scheduler (60 s) run again
and again and a crashed process is restarted, so their steps are weakly fair, and
so is the passing of time. Nothing is assumed of clients, administrators, reports
and faults.

Every property has a mutant: a definition with a plausible bug, under which its
own run finds it violated. The mutated forms stand in the modules, marked
"Mutant".

## 4. Proofs

All theorems hold for any number of bookings, handlers, places, keys, messages,
calls and so on, under the assumptions named in the modules (places have spans and
starts, `None` is no identifier, the plans of a series do not overlap
themselves, …), which TLC evaluates on every run. Every proof is of the same
kind: the invariant a run checks is seldom inductive, a stronger one is, each
action has a lemma for it, and only the last step is temporal. The strengthened
invariants were checked with TLC on the runs' instances before they were proved.

**Bookings and blocks** (`BookingLifecycleProofs`): `TypeCorrect`,
`OnlineBookingsAreDisjoint`, `IntervalsDoNotOverlap`, `BlocksStayClear`,
`LockProtects`, `ClosedStaysClosed`, `FreedPlacesAreAnnounced`, `BlocksDoNotOverlap`,
`HandlersKeepTheCalendar`. They follow from `Invariance`:
`Spec => []IInv`. `IInv` adds to the four invariants of the calendar

* `HandlerOK`: a creating handler's identifier is its own and unused, any other
  handler's row exists. Without it a hold might overwrite a booking.
* `LockOK`: the lock is held only by somebody at work.
* `LockProtectsCheck`: what was checked under the lock is still so. `BlockClear`
  after a write follows from it: since the check no handler could add a block,
  for that takes the lock, nor a booking under a block about to be written. It
  also covers requests and offers, which is what makes it serve the next three.

`OnlineDisjoint` after a write follows from the segment trigger, `NoOverlap` from
the exclusion constraint. `CalendarStep`, proved of every step of
`BookingLifecycle`, says what such a step may do to bookings, blocks, lock and
handlers; the services that share these tables use it instead of opening the
fourteen writes again.

`FreedPlacesAreAnnounced` has an invariant of its own, `FreedInv`: a rejection
announces a place it read before its transaction, and it is right because only
confirmed bookings move, and the one way back from confirmed to undecided, a late
confirmation, is noted in `reopened`.

`HandlersKeepTheCalendar` is the refinement of `Calendar`, the abstract
specification of what one writer at a time would do with entries that are held,
asked for, agreed on, moved and closed, each with room of its own. The mapping
(`CalendarStanding`, `CalendarRoom`) takes bookings and blocks as its entries.
Outside are those the rules do not cover: written down by hand, moved as an
exception, or written again by a late confirmation. The proof has three parts.
`DiaryInv` is `IInv`'s counterpart for blocks: a new block has an identifier to
itself, and what was checked against the other blocks under the lock is still so;
`BlocksDoNotOverlap` comes with it. `Course` lists how far an entry may come in a
step, and has one lemma per handler (a move needs `FreedInv`: under the lock it has
seen a confirmed booking, so what it writes to is confirmed, closed or outside).
And a step takes room nobody has because after it, by `IInv` and `DiaryInv`, no two
entries share a cell (`RoomsApart`), so the argument about room is made once and
not for every write.

**Change requests** (`ChangeRequestsProofs`, invariant `ChangeInv`):
`ChangeTypeCorrect`, `ProposalsAreReserved`, `ChangesKeepTheCalendar`. Two more
need to know who is at work. `CancellationsWithdrawRequests` is about a salon
that does not cancel bookings itself (its cancellation does not look at
requests). `CancellationsAreAnnounced` has as hypothesis that a move takes a new
revision and revisions do not go back. `RevisionsKeepGrowing` proves that of holds,
confirmations, approvals and rejections of bookings, moves, edits, requests, the
customer's cancellation and the sweeps, in every interleaving, and with it
`CancellationsKnowThePlace` has no hypothesis on revisions. The argument
(`NumberInv`): a move has seen a confirmed booking and its revision under the lock
(`MoverKnowsRevision`), and whoever works without the lock writes only what is not
confirmed, unless by a late confirmation, which `reopened` notes. Left out are the
salon's own cancellation, the marks of a no-show and the approval of a change
(`Unnumbered`): the first three write confirmed bookings by id without the lock,
the last moves bookings that wait for the salon as well, so each may take the
revision a move then writes again; section 5 has an example.
`RequestsKnowTheirPlace` is about the page of a visit and the service beside it,
which compares the revision it is sent: the answers to the page come late, and the
booking moves on. By `VisitInv` every row the page shows or a call carries has been
the row of the booking at its revision, and a higher revision is a later row; so
a request that is stored with the booking's own revision names its own place. The
statement needs nothing of when answers arrive, or whether.

**Waitlist** (`WaitlistProofs`, `WaitInv`): `OffersAreKept`,
`AcceptancesKeepTheCalendar`, `FulfilmentIsFinal`, `EventsAreRemembered`,
`EventsHaveOneHandler`, `WaitTypeCorrect`. `LockProtectsOffer` is to offers what
`LockProtectsCheck` is to bookings; `EventInv` says that a claimed event is in the
batch of exactly one handler, or its handler died. What a dead handler has claimed
stays PROCESSING for good, since no step takes such events up again
(`waitlist.service.ts:826`), so `NoEventForgotten` excepts it.

**Series** (`SeriesProofs`, `SeriesInv`): `SeriesHaveTheirRows`,
`SeriesKeepTheCalendar`: several rows written at once keep the rules because each
is admitted by the constraints against what is there, and the plan keeps them off
each other. `LockProtectsSeries` says that a key found unused under the lock is
still unused; the unique key of the table (`KeyIsUnique`) stands behind it. A
cancellation takes no lock and compares nothing with the rows it
updates, so its theorems rest on what it has read:

* `CancelledSeriesAreOver` (`KnownInv`): places do not change and closed bookings
  are not put back, so what was read may be stale in one direction only. The
  customer's handler only compares two numbers, the targets chosen at the start
  and what is in the future by the end; that equal numbers mean equal sets follows
  from the occurrences following each other in time (`InOrder`), since what was
  left out before the first target is over before any target. The theorem is
  therefore about a salon that does not move single bookings, which could
  reverse that order.
* `OccurrencesAreCancelledOnce`: a cancelled occurrence has an event
  (`CancelledIsAnnounced`), events are unique in source and start, so the second of
  two cancellations fails as a whole. It is about a salon that does not write to
  single confirmed bookings: those handlers update by id.

**Outbox** (`NotificationDeliveryProofs`): `DeliveryTypeCorrect`,
`ClaimsAreExclusive`, `WithdrawnMessagesStay`, `CallsAreBounded` (no more calls
than `max_attempts`, unless the claim was taken for stale or somebody retried),
all from `DeliveryInv`. `WorkersKeepTheQueue` is the refinement of `MessageQueue`, in
which a message waits, is in the hands of one taker, is said once for each taking,
and is then done or waits again. `QueueStage`, `QueueHands` and `QueueSaid` read these
off the rows and the workers: a message is taken while a worker holds it, said
between the call of the provider and the record of its outcome, lost when its
worker has died. What was put back by anybody but its worker (`released`: a claim
older than five minutes, a retry by hand) is out of the promise for good, since the
first worker may still be at it; the queue therefore says exactly when a customer
may get a message twice. Transactions, scheduler and reports change the messages
one by one (`MildChanges`), a round is `ClaimIsRound`, and each other step of a worker
concerns one message. Beside `DeliveryInv` this takes `RetryKnows`: what an
administrator has looked at is done until somebody puts it back.

**Codes** (`PeopleProofs`): `CodesAgree` (`CodeInv`) and the refinement
`CodesImplementOneTimeCode`: every step of the protocol is a step of `OneTimeCode`
or a stutter, so a code is used once. What makes it so is the one condition of
the `updateMany` that consumes.

**Staff and reviews** (`PeopleProofs`): `DismissedStayOut` with one owner at work
(two owners who write whole rows may take a dismissal back), `InvitationsOpen`,
`ReviewTypeCorrect`. About customers: `RevisionsAreChained` (`RecordInv`: what is
read second is not older than what is read first, so the number that the unique
key leaves free is the next one, and the revision read last is the one before it)
and `MergesFormNoCycle`, for any number of owners and of merges in flight
(`MergeOK`: what a merge has looked up is still so, unless another has archived its
target meanwhile). The history variable `overtaken` notes that exception, and it is
needed: `Acyclic` alone is refuted by two merges of one pair, one each way.

**Hours, forms, catalogue** (`HouseProofs`): `NobodyIsLockedOut`, for any limit: a
new week leaves outside no more bookings than there are beyond those `updateWeekly`
looks at (`take: 50`), the plan of a date nobody. It is a fact about cardinalities:
whoever is left outside was not looked at. `EverybodyStaysInside` follows while there
are never more bookings than the limit, `SpecialDaysAreKept` whatever the limit.
`FormsHaveOneDraft`. `SettingsStay`: what is configured for a professional and a
service changes by configuring it only, although the lists of both are written from
reads that are past (`createMany` with `skipDuplicates` leaves alone the rows it did
not know of). `HoursTypeCorrect`, `FormTypeCorrect`.

**Slots** (`HouseProofs`): `ShownStartsAreAccepted` and `GapsAreShown`, for days of
any length, any hours and busy intervals, and plans with any buffers and phases;
`Asked` says what a query may be. The calendar tries the openings in steps and, for
every busy interval and every part of the appointment, the start at which that
part follows it. It cuts busy intervals at the ends of the day, which the check of
a booking does not: a part that lies in the hours loses nothing by it
(`CuttingIsHarmless`). And a start at which nothing but something busy keeps the
appointment from beginning a minute earlier is among those tried
(`RightBehindIsShown`). When a service begins is a recursive sum; that it is a
number, all the proofs need of it, follows from looking at the least argument for
which it would be none, so no induction is needed.

**Pages** (`PagesProofs`). A page's claim is about what it shows; the inductive
invariant is about the calls under way, and says which answer would still be
listened to and what it would bring:

* `TimesAreOfSelection`: of the questions about the calendar only the last is
  listened to, and it is for the selection of now.
* `BoardShowsItsDate`: the fetch whose number is the last is for the date of the
  page, unless a handler from before the change of the date made it (`behind`).
* `LeavingIsFinal`: after the exit there is no call under way that brings a
  booking back; the first call of the page, which would, knows no other beside it.
* `OffersAreOfTheirEntry`: an offer comes to the page together with its entry, and
  answers that bring an entry alone are waited for only by a page without an offer.
* `AnswersHaveConsent`, `WhatIsSaidIsKept`, `ReasonsAreForTheirBlock`: answer and
  consent are written together; what comes back from an update was written; a
  removal goes out with the block whose dialog is open.
* `ChangesAreNotLost`, of an action property. The part about the catalogue needs
  that a save of a row is for one service (`RowsAreOne`). The part about bookings
  says of a move or a mark that the place, the decision and the visit it writes
  over (`Matter`) are those of the row on the screen. It needs `DeskInv`: every row
  the page knows, in its lists, its drawer, under the mouse or in a call, is not
  newer than the table, and at the same revision place and visit are the same and
  a confirmed row was confirmed already (`Follows`). The second clause is what is
  left to show because revisions do not cover every write of other people: the
  profile of the customer (`customer-account.service.ts:88`) renames rows, and a
  late `confirmHold` (`bookings.service.ts:286`) makes them undecided or closes
  them, both without a new revision. Neither moves or marks a row or makes it
  confirmed, and a move or a mark asks for a confirmed row, so what it writes over
  is what was seen. The name is not: `UntouchedSinceSeen` is refuted. The statement
  speaks of steps that change a row: a call that is answered looks, but for its
  answer, like one that is not, and with two calls alike for the same booking an
  answer to the first would otherwise count as one to the second.
* `HistoryIsReadWhole`, for histories and pages of any length: the list has one
  call at a time, and an answer begins the list anew or goes on where it ends
  (`HistoryInv`). What was history when the first page was read stays so, and
  later pages find it at its place; what becomes history meanwhile may lie before
  the cursor and be missed, and the property does not ask for it. What the page
  shows is the sorted sequence of a set, cut by a cursor and cleared of what
  comes twice, defined without recursion (the increasing enumeration of a
  finite set of numbers, shown to exist and to be the only one); what would be
  induction is an argument about a least element.

The theorems about `MCPages` hold for any sets in place of its constants that
satisfy `PagesAssumption`, so for any number of days, bookings of the board,
forms, reviews, visits, entries, offers, blocks, professionals and calls; where the
module itself puts a number (the values of a setting) they are about that number.

Only model-checked is liveness (`HoldFreed`, `PastPendingExpires`,
`EveryMessageSettles`, `ReminderIsSent`): it rests on fairness and so on
`ENABLED`, which is out of the prover's reach. Every safety property of a run is
stated by a theorem.

## 5. Where the code and its own words disagree

Three statements have a run that refutes them:

* `self_conflict`: `approve` of a change request calls `assertAvailable`, whose
  query of live requests has no exception for the request itself
  (`schedule-validation.service.ts:150`). A live request is refused because of its
  own segments, as "filled by another booking or block" (line 217). Only one that
  expires while the approval waits for the lock passes.
* `late_confirmation`: two confirmations of one hold, sent twice by a signed-in
  customer, with an approval between them: the second update by id
  (`bookings.service.ts:286`) makes the booking undecided again.
* `retry_of_sent`: the status is read before the transaction of `retry`
  (`admin-notifications.service.ts:89`); a second press of the button queues a
  message that was sent in between.

Others were met while modelling. Their statements stand at the end of the
modules; add one to the configuration named here to see it refuted.

| Statement | Configuration | What happens |
|---|---|---|
| `ExpiredHoldsDoNotBlock` (invariant) | `moves` | `availability.service.ts:58` filters expired holds, `assertAvailable` does not: until the sweep, a slot shown cannot be held |
| `OverridesAreExempt` (invariant) | `moves` | the segment trigger ignores `schedule_override`, which the later migration exempts |
| `ProcessingPhaseIsFree` (invariant) | `moves`, Workload = {"createHold"} | one migration takes processing phases out of the overlap rule, a later one puts the exclusion of whole intervals back: shown, admitted and refused |
| `OnlyConfirmedMove`, `MoveTakesRevision` | `moves`, with "cancel" | a booking cancelled between check and update is moved; the number the move writes is the one the cancellation has just reached |
| `OnlyConfirmedNoShow` | `decisions` | a booking closed meanwhile is marked as a no-show |
| `RequestDecidedOnce` | `changes` with `ChangeSpec` of `MCChangeRequests` | approve and expire update by id and overwrite a rejection |
| `OnlyLiveProposalsReserve` (invariant) | the same, Request = {r1, r2} | the constraint looks at the status, no timer expires requests |
| `CancellationAnnounced` | the same, with "confirmHold" and "approve" | the approval of a booking takes the revision that the approval of a change then writes as well: the customer's cancellation announces the place that was left |
| `OneReminder` (invariant) | `reminders` | an edit of contact data takes a revision, which is in the key of the reminder |
| `ReminderIsCurrent` | `reminders`, Start = {1, 2} | the booking moves between the worker's look and its call |
| `NothingWaitsAfterCancel` (invariant) | `outbox`, with "cancel" | a claimed message is not withdrawn and comes back as a retry |
| `CancelledEntryStays` | `waitlist` | an offer made or expired meanwhile puts a cancelled entry back (`waitlist.service.ts:1007`, `:1039`) |
| `RejectedStays` | `series` | the cancellation of a series cancels what was rejected meanwhile |
| `ReviewedVisitWasKept` | `house` | a review handed in between look and write of `markNoShow` is deleted |
| `EverybodyIsInside` (invariant) | `house` | `updateWeekly` looks at 50 bookings, 1 here (`business-hours.service.ts:113`) |
| `Acyclic` (invariant) | `series`, part "customers" | two merges at once, each of the other's target (`customer-memory.service.ts:441`) |
| `InactiveHasNoBookings`, `OfferedPlanIsSound` (invariants) | `series`, part "catalogue" | a hold between look and write of a deactivation; a service shortened under what is offered (`admin-catalog.service.ts:241`, `:127`) |
| `BookedPlanIsOffered` | `series`, part "catalogue" | the plan a hold copies was read in two queries, and edited between them (`professional-service-resolver.service.ts:63`) |

The statements of the pages are refuted in `pages` under the prefix of the part
(`Wizard!`, `Board!`, …), those of `AccountVisit` in `changes`, part "page"
(`Visit!`). `Crossing!`, `Blocks!` and `Drawer!` stand for
`Catalogue({"kept"}, Some)!`, `Blocks(Single, Pair, Some)!` and
`Desk({1}, {1}, {"agenda"})!`, which a configuration reaches by a definition:

| Statement | What happens |
|---|---|
| `Wizard!BusyIsWaiting`, `SuccessIsOfSelection`, `CodeIsForHold` | going back while times are loading leaves the page busy (`useBookingFlow.ts:271`); an answer of a left step is shown beside a newer selection |
| `Board!RequestIsAnnounced` (MaxChange 2), `BoardIsNeverBehind` | of events that come together only the last is heard of, and one that commits after a later one lies behind the cursor (`admin-realtime.controller.ts:39`); a handler refreshes the date it began under |
| `Home!LoggedOutStaysOut`, `ChallengeIsForPhone`, `EditsSurviveSave`, `ShownIsLastSaved` | late answers to login, logout and saving are taken for current ones |
| `History!VisitOnOneList` | pages are read one by one while visits go on from list to list |
| `Joining!AcceptsShown`, `CodeInHandIsLast` (MaxCodes 2) | the cookie may be of another entry than the screen |
| `Forms!SubmittedOnce`, `ReviewedStays`, `ReviewIsOfSeen` | a submission is looked at first and written by id later (`forms.service.ts:353`) |
| `Reviewing!ListIsOfFilter`, `RateAtMostOne`, `UnsavedNoteStays`, `NoteIsOfSeen` (two notes, MaxCalls 2) | answers out of order; a saved note replaces one being written |
| `Lookup!SlotsAreOfDay`, `ActsOnShown` (two bookings) | the session of the browser has moved to another booking under an old screen |
| `Crossing!AssignmentStays`, `UnsavedSettingStays`, `ClosesOwnEditor` (two services, MaxCalls 2) | saving a professional writes the assignment of a stale editor (`admin-catalog.service.ts:270`) |
| `Blocks!BlocksAreOfDate`, `EditorStays`, `ClosesOwnEditor` (two blocks, two dates) | an answer closes an editor that was opened since |
| `Visit!ShownIsAddressed`, `SlotsAreOfDay`, `PreviewIsOfInput` (two dates), `CancelKnowsPlace` (LastRevision 2) | times, preview and booking of different moments stand side by side |
| `Drawer!EditorIsOfRow`, `EditsOnlyLive`, `AnswerIsShown`, `ClosesOwnDrawer`, `DialogStaysWithBooking` (LastAppointment 2), `UntouchedSinceSeen` | the drawer of one booking takes the answer of another; `updateDetails` looks at the revision only (`booking-operations.service.ts:440`), so an editor puts back the name the customer's profile has just replaced |

## 6. Plan

What is left to prove: the calendar kept by the change requests, the waitlist and
the series as well, whose theorems so far are the invariants it rests on. What is
left to model: the drawer that makes a booking by hand, weekly hours on the
schedule page, and the salon's page of the waitlist.
