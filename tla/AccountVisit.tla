------------------------------ MODULE AccountVisit ------------------------------
(***************************************************************************)
(* The page of one appointment in the customer's account,                  *)
(* CustomerBookingPage, and its dialogs: cancel, ask for another time,     *)
(* repeat the appointment as a series, end a series.  The account's        *)
(* service finds the appointment by its owner and leaves the rest to the   *)
(* handlers of ChangeRequests and BookingSeries; here they are one step    *)
(* each, while the salon moves and closes appointments under the page.     *)
(***************************************************************************)
EXTENDS Integers, FiniteSets

CONSTANTS
    LastVisit,      \* the customer's appointments, in the order of their series
    Day,            \* dates of the change dialog
    Time,           \* times of a day
    Frequency,      \* BookingSeriesFrequency, and the other fields of a series
    LastRevision,   \* bound on the changes of appointments
    MaxCalls,       \* bound on calls without an answer
    Absent          \* no value

Visit == 1..LastVisit
Spot == Day \X Time

VisitAssumption ==
    /\ LastVisit \in Nat \ {0} /\ LastRevision \in Nat /\ MaxCalls \in Nat
    /\ Absent \notin Spot \cup Day \cup Time \cup Frequency

VARIABLES
    visits,     \* the appointments of the customer
    address,    \* publicCode of the path
    shown,      \* booking
    fetching,   \* loading
    dialog,     \* the open dialog
    draft,      \* its fields
    waits,      \* the dialogs with busy set
    calls       \* calls without an answer

visitVars == <<visits, address, shown, fetching, dialog, draft, waits, calls>>

-----------------------------------------------------------------------------
VisitStatus == {"PENDING_APPROVAL", "CONFIRMED", "CANCELLED"}
Dialog == {"cancel", "change", "repeat", "overview"}
Live == {"PENDING_APPROVAL", "CONFIRMED"}

Page == <<address, shown, fetching>>

Fields == [day |-> Absent, list |-> Absent, time |-> Absent,
           frequency |-> Absent, preview |-> Absent]

Call(kind, v, input) ==
    [kind |-> kind, visit |-> v, page |-> address, input |-> input,
     orphan |-> FALSE, done |-> FALSE, result |-> Absent]

DialogOf == [cancel |-> "cancel", slots |-> "change", change |-> "change",
             preview |-> "repeat", series |-> "repeat", endSeries |-> "overview"]

Reads == {"slots", "preview"}

(* The dialogs go when the skeleton is shown: what they read is lost, what
   they have sent is not. *)
Orphans == {[c EXCEPT !.orphan = TRUE] : c \in {d \in calls : d.kind \notin Reads}}

Replies(c, result) == calls' = (calls \ {c}) \cup {[c EXCEPT !.done = TRUE, !.result = result]}

ServerOnly == UNCHANGED <<Page, dialog, draft, waits>>

-----------------------------------------------------------------------------
(* CustomerAccountService: booking and toDetail, availability,
   createChangeRequest, cancel; preview, creation and cancellation of a
   series.  A refusal leaves the call to CallFails. *)

booking(c) ==
    /\ c.kind = "load"
    /\ Replies(c, [id |-> c.visit, row |-> visits[c.visit]])
    /\ UNCHANGED visits

(* The times of the day asked for; any of them may be there. *)
availability(c) ==
    /\ c.kind = "slots"
    /\ Replies(c, c.input)
    /\ UNCHANGED visits

(* Mutant: the revision of the request is not compared. *)
AnyRevision(c) == TRUE

RevisionExpected(c) == c.input.revision = visits[c.visit].revision

createChangeRequest(c) ==
    /\ c.kind = "change"
    /\ visits[c.visit].status \in Live
    /\ RevisionExpected(c)
    /\ Replies(c, Absent)
    /\ UNCHANGED visits

cancel(c) ==
    /\ c.kind = "cancel"
    /\ visits[c.visit].status \in Live
    /\ \A v \in Visit : visits[v].revision < LastRevision
    /\ visits' = [visits EXCEPT ![c.visit].status = "CANCELLED", ![c.visit].revision = @ + 1]
    /\ Replies(c, Absent)

(* A preview that allows to create what was previewed *)
previewSeriesOf(c) ==
    /\ c.kind = "preview"
    /\ Replies(c, c.input)
    /\ UNCHANGED visits

createSeries(c) ==
    /\ c.kind = "series"
    /\ Replies(c, Absent)
    /\ UNCHANGED visits

cancelFrom(c) ==
    /\ c.kind = "endSeries"
    /\ \A v \in Visit : visits[v].revision < LastRevision
    /\ visits' = [v \in Visit |->
                     IF v >= c.visit /\ visits[v].status \in Live
                     THEN [visits[v] EXCEPT !.status = "CANCELLED", !.revision = @ + 1]
                     ELSE visits[v]]
    /\ Replies(c, Absent)

(* The salon moves the appointment or cancels it. *)
SalonChanges(v) ==
    /\ visits[v].status \in Live /\ \A w \in Visit : visits[w].revision < LastRevision
    /\ \E row \in [status : {"CONFIRMED"}, place : Spot \ {visits[v].place}]
                      \cup [status : {"CANCELLED"}, place : {visits[v].place}] :
          visits' = [visits EXCEPT ![v].status = row.status, ![v].place = row.place,
                                   ![v].revision = @ + 1]
    /\ UNCHANGED calls
    /\ ServerOnly

-----------------------------------------------------------------------------
(* The page *)

Loads(v) ==
    /\ fetching' = TRUE
    /\ calls' = Orphans \cup {[Call("load", v, Absent) EXCEPT !.orphan = TRUE]}
    /\ draft' = Fields /\ waits' = {}

(* A link of the series, back and forward: the page stays, and so does the
   dialog that was open. *)
Visits(v) ==
    /\ v # address
    /\ Cardinality(calls) < MaxCalls
    /\ address' = v
    /\ Loads(v)
    /\ dialog' = IF dialog = "overview" THEN "none" ELSE dialog
    /\ UNCHANGED <<visits, shown>>

Loaded(c) ==
    /\ c.kind = "load" /\ c.done
    /\ shown' = c.result /\ fetching' = FALSE
    /\ calls' = calls \ {c}
    /\ UNCHANGED <<visits, address, dialog, draft, waits>>

(* The page keeps what it has. *)
LoadFails(c) ==
    /\ c.kind = "load"
    /\ fetching' = FALSE
    /\ calls' = calls \ {c}
    /\ UNCHANGED <<visits, address, shown, dialog, draft, waits>>

Ready == ~fetching /\ shown # Absent

Has(name) == Ready /\ dialog = name

(* The overview opens once the series has been read, which asks nothing of
   the page; the dialog of a new series forgets the preview it had. *)
Opens(name) ==
    /\ Has("none")
    /\ \/ name = "cancel" /\ shown.row.status \in Live
       \/ name = "repeat" /\ shown.row.status = "CONFIRMED" /\ ~shown.row.series
       \/ name = "overview" /\ shown.row.series
    /\ dialog' = name
    /\ draft' = IF name = "repeat" THEN [draft EXCEPT !.preview = Absent] ELSE draft
    /\ UNCHANGED <<visits, Page, waits, calls>>

Closes ==
    /\ Ready /\ dialog # "none"
    /\ dialog' = "none"
    /\ UNCHANGED <<visits, Page, draft, waits, calls>>

Sends(kind, input) ==
    /\ Cardinality(calls) < MaxCalls
    /\ Call(kind, shown.id, input) \notin calls
    /\ calls' = calls \cup {Call(kind, shown.id, input)}
    /\ waits' = waits \cup {DialogOf[kind]}
    /\ UNCHANGED <<visits, Page>>

-----------------------------------------------------------------------------
(* ChangeBookingDialog *)

(* The effect of the dialog: on opening, for the date it has or that of the
   appointment, and with every other date *)
loadAvailability(day) ==
    /\ \/ /\ Has("none") /\ shown.row.status \in Live
          /\ day = IF draft.day = Absent THEN shown.row.place[1] ELSE draft.day
       \/ Has("change") /\ day # draft.day
    /\ dialog' = "change"
    /\ draft' = [draft EXCEPT !.day = day, !.time = Absent]
    /\ Sends("slots", day)

SlotsArrive(c) ==
    /\ c.kind = "slots" /\ c.done
    /\ draft' = [draft EXCEPT !.list = c.result]
    /\ waits' = waits \ {DialogOf[c.kind]}
    /\ calls' = calls \ {c}
    /\ UNCHANGED <<visits, Page, dialog>>

setStartTime(t) ==
    /\ Has("change") /\ "change" \notin waits
    /\ draft.list # Absent
    /\ draft' = [draft EXCEPT !.time = t]
    /\ UNCHANGED <<visits, Page, dialog, waits, calls>>

createCustomerChangeRequest ==
    /\ Has("change") /\ "change" \notin waits
    /\ draft.time # Absent
    /\ Sends("change", [to |-> <<draft.day, draft.time>>, revision |-> shown.row.revision,
                        seen |-> shown.row.place])
    /\ UNCHANGED <<dialog, draft>>

(* CancelBookingDialog: by the public code alone *)
cancelCustomerBooking ==
    /\ Has("cancel") /\ "cancel" \notin waits
    /\ Sends("cancel", Absent)
    /\ UNCHANGED <<dialog, draft>>

-----------------------------------------------------------------------------
(* CreateSeriesDialog, SeriesOverview *)

setFrequency(f) ==
    /\ Has("repeat")
    /\ f # draft.frequency
    /\ draft' = [draft EXCEPT !.frequency = f, !.preview = Absent]
    /\ UNCHANGED <<visits, Page, dialog, waits, calls>>

previewSeries ==
    /\ Has("repeat") /\ "repeat" \notin waits
    /\ draft.frequency # Absent /\ draft.preview = Absent
    /\ Sends("preview", draft.frequency)
    /\ UNCHANGED <<dialog, draft>>

PreviewArrives(c) ==
    /\ c.kind = "preview" /\ c.done
    /\ draft' = [draft EXCEPT !.preview = c.result]
    /\ waits' = waits \ {DialogOf[c.kind]}
    /\ calls' = calls \ {c}
    /\ UNCHANGED <<visits, Page, dialog>>

createCustomerBookingSeries ==
    /\ Has("repeat") /\ "repeat" \notin waits
    /\ draft.preview # Absent
    /\ Sends("series", draft.frequency)
    /\ UNCHANGED <<dialog, draft>>

cancelSeries ==
    /\ Has("overview") /\ "overview" \notin waits
    /\ Sends("endSeries", Absent)
    /\ UNCHANGED <<dialog, draft>>

(* onCompleted, onUpdated: the page of the click is loaded again. *)
Completes(c) ==
    /\ c.kind \in {"change", "cancel", "series", "endSeries"} /\ c.done
    /\ dialog' = IF c.kind = "endSeries" /\ c.orphan THEN dialog ELSE "none"
    /\ fetching' = TRUE
    /\ calls' = (Orphans \ {[c EXCEPT !.orphan = TRUE]}) \cup
                    {[Call("load", c.page, Absent) EXCEPT !.orphan = TRUE]}
    /\ draft' = Fields /\ waits' = {}
    /\ UNCHANGED <<visits, address, shown>>

(* Refused, or lost before or after it was served *)
CallFails(c) ==
    /\ c.kind # "load"
    /\ waits' = IF c.orphan THEN waits ELSE waits \ {DialogOf[c.kind]}
    /\ draft' = IF c.kind = "slots" THEN [draft EXCEPT !.list = Absent] ELSE draft
    /\ calls' = calls \ {c}
    /\ UNCHANGED <<visits, Page, dialog>>

-----------------------------------------------------------------------------
VisitInit ==
    /\ \E place \in Spot, series \in BOOLEAN :
          visits = [v \in Visit |-> [status |-> "CONFIRMED", place |-> place, revision |-> 0,
                                     series |-> series]]
    /\ address = 1 /\ shown = Absent /\ fetching = TRUE
    /\ dialog = "none" /\ draft = Fields /\ waits = {}
    /\ calls = {[Call("load", 1, Absent) EXCEPT !.orphan = TRUE]}

Answers(c) ==
    /\ ~c.done
    /\ \/ booking(c) \/ availability(c) \/ createChangeRequest(c) \/ cancel(c)
       \/ previewSeriesOf(c) \/ createSeries(c) \/ cancelFrom(c)
    /\ ServerOnly

VisitNext ==
    \/ \E c \in calls :
          \/ Answers(c)
          \/ Loaded(c) \/ LoadFails(c) \/ SlotsArrive(c) \/ PreviewArrives(c)
          \/ Completes(c) \/ CallFails(c)
    \/ \E v \in Visit : Visits(v) \/ SalonChanges(v)
    \/ \E name \in {"cancel", "repeat", "overview"} : Opens(name)
    \/ Closes
    \/ \E day \in Day : loadAvailability(day)
    \/ \E t \in Time : setStartTime(t)
    \/ \E f \in Frequency : setFrequency(f)
    \/ createCustomerChangeRequest \/ cancelCustomerBooking
    \/ previewSeries \/ createCustomerBookingSeries \/ cancelSeries

VisitSpec == VisitInit /\ [][VisitNext]_visitVars

-----------------------------------------------------------------------------
(* Properties *)

VisitTypeOK ==
    /\ \A v \in Visit :
          /\ visits[v].status \in VisitStatus /\ visits[v].place \in Spot
          /\ visits[v].revision \in 0..LastRevision
    /\ address \in Visit
    /\ dialog \in Dialog \cup {"none"} /\ waits \subseteq Dialog
    /\ fetching \in BOOLEAN

(* A change is asked for by a customer who has seen where the appointment
   is when the request is stored: whatever dialog was left open, whichever
   page was loaded in between and whatever the salon did meanwhile. *)
KnowsPlace ==
    \A c \in calls :
        ~c.done /\ createChangeRequest(c) => c.input.seen = visits[c.visit].place

RequestKnowsPlace == [][KnowsPlace]_visitVars

(* Why: a row the page has, and a row on its way to it, is as old as its
   revision says; whoever changes a row takes a revision. *)
Knows(v, revision, place) ==
    /\ revision <= visits[v].revision
    /\ revision = visits[v].revision => place = visits[v].place

KnowsRow(s) ==
    /\ {"id", "row"} \subseteq DOMAIN s /\ {"revision", "place"} \subseteq DOMAIN s.row
    /\ s.id \in Visit /\ s.row.revision \in Nat
    /\ Knows(s.id, s.row.revision, s.row.place)

CallKnows(c) ==
    /\ {"kind", "visit", "page", "input", "orphan", "done", "result"} \subseteq DOMAIN c
    /\ c.visit \in Visit /\ c.page \in Visit
    /\ c.kind = "load" /\ c.done => KnowsRow(c.result)
    /\ c.kind = "change" =>
          /\ {"revision", "seen"} \subseteq DOMAIN c.input /\ c.input.revision \in Nat
          /\ Knows(c.visit, c.input.revision, c.input.seen)

VisitRow(row) == {"status", "place", "revision"} \subseteq DOMAIN row /\ row.revision \in Nat

VisitsMoveOn ==
    /\ visits' = [v \in Visit |-> visits'[v]]
    /\ \A v \in Visit :
          /\ VisitRow(visits'[v])
          /\ visits'[v] = visits[v] \/ visits'[v].revision > visits[v].revision

VisitInv ==
    /\ visits = [v \in Visit |-> visits[v]] /\ \A v \in Visit : VisitRow(visits[v])
    /\ address \in Visit
    /\ shown # Absent => KnowsRow(shown)
    /\ \A c \in calls : CallKnows(c)

(* What the page does not promise; each is refuted by VisitNext. *)
ShownIsAddressed == Ready /\ calls = {} => shown.id = address

SlotsAreOfDay == draft.time # Absent /\ "change" \notin waits => draft.list = draft.day

PreviewIsOfInput == draft.preview # Absent => draft.preview = draft.frequency

CancelKnowsPlace == [][\A c \in calls : cancel(c) => shown.row.place = visits[c.visit].place]_visitVars
=============================================================================
