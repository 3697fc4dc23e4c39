------------------------------- MODULE BookingDesk -------------------------------
(***************************************************************************)
(* The salon's page of appointments, AdminDashboard: board, week and       *)
(* agenda, the drawer of one booking with its dialogs and the editor       *)
(* (BookingDetailDrawer, BookingEditDialog), and moving by drag and drop   *)
(* (WeekTimeline).  The server answers in one step here; how its handlers  *)
(* interleave is the business of BookingLifecycle.  Dates and filters, the *)
(* catalogue in the editor and the texts are left out; what follows from   *)
(* a change of the date is in AdminBoard.                                  *)
(***************************************************************************)
EXTENDS Integers, FiniteSets

CONSTANTS
    LastAppointment,  \* appointments are numbered, as occurrences of a series are
    InSeries,         \* those of the series
    OnBoard,          \* those of the date of the board
    Detail,           \* what the editor edits: name, phone, notes
    Place,            \* professional, services, date and time
    Role,             \* of the one who is logged in
    View,             \* the views there are besides the day
    LastRevision,     \* bound on the revisions others write, and the page sends
    MaxCalls,         \* bound on calls without an answer
    Blank             \* nothing

DeskAssumption ==
    /\ LastAppointment \in Nat /\ InSeries \cup OnBoard \subseteq 1..LastAppointment
    /\ Role \in {"OWNER", "RECEPTIONIST", "PROFESSIONAL"} /\ View \subseteq {"week", "agenda"}
    /\ LastRevision \in Nat /\ MaxCalls \in Nat
    /\ Blank \notin Detail \cup Place

VARIABLES
    rows,      \* table "bookings"
    begun,     \* the time of the appointments has come
    view,      \* view
    board,     \* board, with its serverNow
    week,      \* weekBoard, and the error of useWeekBoard
    agenda,    \* agendaBookings
    restore,   \* selectedIdToRestore
    selected,  \* selected
    dialog,    \* action, noShowAction or editor, with the fields of its dialog
    series,    \* state of AdminSeriesPanel
    dragged,   \* dragged
    calls      \* calls without an answer

deskVars ==
    <<rows, begun, view, board, week, agenda, restore, selected, dialog, series,
      dragged, calls>>

-----------------------------------------------------------------------------
Appointment == 1..LastAppointment

(* REJECTED and CANCELLED are one here, and so is EXPIRED. *)
Row == [status : {"PENDING_APPROVAL", "CONFIRMED", "CLOSED"}, detail : Detail, place : Place,
        missed : BOOLEAN, revision : Nat]

Actions == {"approve", "reject", "cancel"}
Visits == {"mark", "revert"}
Editors == {"details", "reschedule"}

(* The three states of the drawer *)
Family(kind) ==
    CASE kind \in Actions -> Actions [] kind \in Visits -> Visits [] OTHER -> Editors

Closes(kind) == dialog # Blank /\ dialog.kind \in Family(kind)

Closing(kind) == IF Closes(kind) THEN Blank ELSE dialog

Open == selected # Blank /\ board # Blank

Staff == Role # "PROFESSIONAL"

(* A dialog as it is mounted *)
Filled(kind, row) ==
    [kind |-> kind, sending |-> FALSE, slots |-> {},
     detail |-> IF kind = "details" THEN row.detail ELSE Blank,
     place |-> IF kind = "reschedule" THEN row.place ELSE Blank]

Unmounted(kind) == Filled(kind, [detail |-> Blank, place |-> Blank])

NoPanel == [listed |-> FALSE, busy |-> FALSE]

(* seen: the row on which the call was made, which gives it its
   expectedRevision; mine: the dialog that waits for it is still there;
   latest: its number is the last of its sequence.  A call whose answer will
   be dropped is dropped at once. *)
Call(kind, of, input, seen) ==
    [kind |-> kind, of |-> of, input |-> input, seen |-> seen, mine |-> TRUE,
     latest |-> TRUE, done |-> FALSE, result |-> Blank]

Orphaned(kinds, rest) == {[c EXCEPT !.mine = @ /\ c.kind \notin kinds] : c \in rest}

Dropped(kinds, rest) == {c \in rest : c.kind \notin kinds}

(* refresh of useBookingBoard and of useWeekBoard *)
Refreshing(kind, of, rest) ==
    {[c EXCEPT !.latest = @ /\ c.kind # kind] :
        c \in {d \in rest : d.kind = kind => d.of = "action"}}
            \cup {Call(kind, of, Blank, Blank)}

(* What a dialog that closes has waited for *)
Without(kind, rest) ==
    IF Closes(kind) THEN Dropped({"slots"}, Orphaned(Family(kind), rest)) ELSE rest

Asking(id, rest) ==
    Dropped({"slots"}, rest) \cup {Call("slots", id, Blank, Blank)}

MayCall == Cardinality(calls) < MaxCalls

Server == <<rows, begun>>
Lists == <<view, board, week, agenda>>
Drawer == <<restore, selected, dialog, series>>

(* The effect on board and selected *)
Fresh(to, b) ==
    IF to = Blank \/ b = Blank \/ to.id \notin OnBoard THEN to
    ELSE [to EXCEPT !.row = b.rows[to.id]]

(* setSelected, with what is mounted, filled or dropped by it *)
Shows(to, b, kept, rest) ==
    LET opens == selected = Blank /\ to # Blank
        another == selected # Blank /\ to # Blank /\ selected.id # to.id
        panel == selected # Blank /\ to # Blank /\ {selected.id, to.id} \subseteq InSeries
        stays == IF panel THEN rest ELSE Dropped({"series"}, Orphaned({"endSeries"}, rest))
        left == IF to # Blank THEN stays
                ELSE Dropped({"slots"}, Orphaned(Actions \cup Visits \cup Editors, stays))
        now == Fresh(to, b)
    IN  /\ selected' = now
        /\ dialog' = CASE kept = Blank -> Blank
                       [] to = Blank -> Unmounted(kept.kind)
                       [] opens -> Filled(kept.kind, now.row)
                       [] OTHER -> kept
        /\ series' = IF panel THEN series ELSE NoPanel
        /\ calls' = IF (opens \/ another) /\ kept # Blank /\ kept.kind = "reschedule"
                    THEN Asking(to.id, left) ELSE left

-----------------------------------------------------------------------------
(* The server.  A refusal leaves the call to a failure. *)

Writes(a, row) ==
    rows' = [rows EXCEPT ![a] = [row EXCEPT !.revision = @ + 1]]

Does(c, kinds, row) ==
    /\ c.kind \in kinds /\ ~c.done
    /\ Writes(c.of, row)
    /\ calls' = (calls \ {c}) \cup {[c EXCEPT !.done = TRUE, !.result = rows'[c.of]]}
    /\ UNCHANGED <<begun, Lists, Drawer, dragged>>

decide(c) ==
    /\ c.kind \in {"approve", "reject"} /\ rows[c.of].status = "PENDING_APPROVAL"
    /\ Does(c, {"approve", "reject"},
            [rows[c.of] EXCEPT !.status = IF c.kind = "approve" THEN "CONFIRMED" ELSE "CLOSED"])

cancel(c) ==
    /\ c.kind = "cancel" /\ rows[c.of].status = "CONFIRMED" /\ ~begun
    /\ Does(c, {"cancel"}, [rows[c.of] EXCEPT !.status = "CLOSED"])

(* expectedRevision *)
Current(c) == rows[c.of].revision = c.seen.revision

markNoShow(c) ==
    /\ c.kind = "mark" /\ Current(c) /\ rows[c.of].status = "CONFIRMED"
    /\ begun /\ ~rows[c.of].missed
    /\ Does(c, {"mark"}, [rows[c.of] EXCEPT !.missed = TRUE])

revertNoShow(c) ==
    /\ c.kind = "revert" /\ Current(c) /\ rows[c.of].status = "CONFIRMED" /\ rows[c.of].missed
    /\ Does(c, {"revert"}, [rows[c.of] EXCEPT !.missed = FALSE])

(* No look at the status *)
updateDetails(c) ==
    /\ c.kind = "details" /\ Current(c)
    /\ Does(c, {"details"}, [rows[c.of] EXCEPT !.detail = c.input])

(* Mutant: the revision is compared in the preview only. *)
MovableUnseen(c) == (c.kind = "preview" => Current(c)) /\ rows[c.of].status = "CONFIRMED" /\ ~begun

Movable(c) == Current(c) /\ rows[c.of].status = "CONFIRMED" /\ ~begun

reschedule(c) ==
    /\ c.kind \in {"reschedule", "move"} /\ Movable(c)
    /\ Does(c, {"reschedule", "move"}, [rows[c.of] EXCEPT !.place = c.input])

(* Whether the place is free or takes an override *)
previewReschedule(c, free) ==
    /\ c.kind = "preview" /\ ~c.done /\ Movable(c)
    /\ calls' = (calls \ {c}) \cup {[c EXCEPT !.done = TRUE, !.result = free]}
    /\ UNCHANGED <<Server, Lists, Drawer, dragged>>

(* cancelAdmin of a series: the occurrence and those after it *)
cancelSeries(c) ==
    LET ended == {a \in InSeries : a >= c.of /\ rows[a].status # "CLOSED" /\ ~begun}
    IN  /\ c.kind = "endSeries" /\ ~c.done /\ ended # {}
        /\ rows' = [a \in Appointment |->
                       IF a \in ended THEN [rows[a] EXCEPT !.status = "CLOSED", !.revision = @ + 1]
                       ELSE rows[a]]
        /\ calls' = (calls \ {c}) \cup {[c EXCEPT !.done = TRUE]}
        /\ UNCHANGED <<begun, Lists, Drawer, dragged>>

(* getAdminBookingBoard, getAdminWeekBoard, searchAdminBookings and the
   bookings of a series *)
read(c) ==
    /\ c.kind \in {"board", "week", "agenda", "series"} /\ ~c.done
    /\ calls' = (calls \ {c}) \cup
                    {[c EXCEPT !.done = TRUE, !.result =
                        IF c.kind = "board"
                        THEN [rows |-> [a \in OnBoard |-> rows[a]], begun |-> begun]
                        ELSE IF c.kind = "series" THEN Blank ELSE rows]}
    /\ UNCHANGED <<Server, Lists, Drawer, dragged>>

(* getSlots with excludeBookingId *)
getAvailability(c, slots) ==
    /\ c.kind = "slots" /\ ~c.done
    /\ calls' = (calls \ {c}) \cup {[c EXCEPT !.done = TRUE, !.result = slots]}
    /\ UNCHANGED <<Server, Lists, Drawer, dragged>>

(* Customers, other members of the staff and the sweeps *)
DecidedElsewhere(a, status) ==
    /\ rows[a].status # "CLOSED" /\ rows[a].revision < LastRevision
    /\ rows[a].status = "CONFIRMED" => ~begun
    /\ status \in {"CONFIRMED", "CLOSED"} /\ status # rows[a].status
    /\ Writes(a, [rows[a] EXCEPT !.status = status])
    /\ UNCHANGED <<begun, Lists, Drawer, dragged, calls>>

(* Moves and marks take what is live; updateDetails does not ask. *)
EditedElsewhere(a, detail, place, missed) ==
    /\ rows[a].revision < LastRevision
    /\ place # rows[a].place => ~begun /\ rows[a].status # "CLOSED"
    /\ missed # rows[a].missed => begun /\ rows[a].status = "CONFIRMED"
    /\ Writes(a, [rows[a] EXCEPT !.detail = detail, !.place = place, !.missed = missed])
    /\ UNCHANGED <<begun, Lists, Drawer, dragged, calls>>

(* The profile of the customer's account: without a revision. *)
ProfileSaved(a, detail) ==
    /\ rows[a].status # "CLOSED" /\ ~begun
    /\ rows' = [rows EXCEPT ![a].detail = detail]
    /\ UNCHANGED <<begun, Lists, Drawer, dragged, calls>>

(* A confirmation of the hold the appointment was made of, sent twice or
   overtaken by the salon: it writes by id what it read long before, and
   takes no revision either.  For a customer who may not book online it
   closes the row. *)
ConfirmedLate(a, status, detail) ==
    /\ a \notin InSeries /\ rows[a].revision < LastRevision
    /\ status \in {"PENDING_APPROVAL", "CLOSED"}
    /\ status = "CLOSED" => detail = rows[a].detail
    /\ rows' = [rows EXCEPT ![a] = [@ EXCEPT !.status = status, !.detail = detail]]
    /\ UNCHANGED <<begun, Lists, Drawer, dragged, calls>>

TimeComes ==
    /\ ~begun
    /\ begun' = TRUE
    /\ UNCHANGED <<rows, Lists, Drawer, dragged, calls>>

-----------------------------------------------------------------------------
(* Board, week and agenda *)

(* An event, the timer, "Panoyu yenile" *)
refreshBoard ==
    /\ MayCall
    /\ calls' = Refreshing("board", Blank, calls)
    /\ UNCHANGED <<Server, Lists, Drawer, dragged>>

refreshWeek ==
    /\ MayCall
    /\ view = "week" /\ ~Open
    /\ calls' = Refreshing("week", Blank, calls)
    /\ week' = [week EXCEPT !.failed = FALSE]
    /\ UNCHANGED <<Server, view, board, agenda, Drawer, dragged>>

setView(v) ==
    /\ MayCall
    /\ v # view /\ ~Open
    /\ view' = v
    /\ dragged' = Blank
    /\ calls' = CASE v = "week" -> Refreshing("week", Blank, calls)
                  [] v = "agenda" -> calls \cup {Call("agenda", Blank, Blank, Blank)}
                  [] OTHER -> calls
    /\ week' = IF v = "week" THEN [week EXCEPT !.failed = FALSE] ELSE week
    /\ UNCHANGED <<Server, board, agenda, Drawer>>

(* The effect that brings a selection back *)
Restored(b) ==
    IF restore \in OnBoard THEN [id |-> restore, row |-> b.rows[restore]] ELSE Blank

(* handleAction closes its dialog when its refresh has come to an end. *)
Ended(c) == IF c.of = "action" THEN Closing("cancel") ELSE dialog

Rest(c) == IF c.of = "action" THEN Without("cancel", calls \ {c}) ELSE calls \ {c}

BoardComes(c) ==
    /\ c.kind = "board" /\ c.done /\ c.latest
    /\ board' = c.result
    /\ Shows(IF selected = Blank THEN Restored(c.result) ELSE selected, c.result, Ended(c),
             Rest(c))
    /\ restore' = IF selected = Blank THEN Blank ELSE restore
    /\ UNCHANGED <<Server, view, week, agenda, dragged>>

(* It fails, or its number is not the last. *)
BoardFails(c) ==
    /\ c.kind = "board"
    /\ dialog' = Ended(c)
    /\ calls' = Rest(c)
    /\ UNCHANGED <<Server, Lists, restore, selected, series, dragged>>

WeekComes(c) ==
    /\ c.kind = "week" /\ c.done
    /\ week' = [week EXCEPT !.rows = c.result]
    /\ calls' = calls \ {c}
    /\ UNCHANGED <<Server, view, board, agenda, Drawer, dragged>>

(* The error takes the place of the timeline. *)
WeekFails(c) ==
    /\ c.kind = "week"
    /\ week' = [week EXCEPT !.failed = TRUE]
    /\ dragged' = Blank
    /\ calls' = calls \ {c}
    /\ UNCHANGED <<Server, view, board, agenda, Drawer>>

(* Whichever comes is shown. *)
AgendaComes(c) ==
    /\ c.kind = "agenda" /\ c.done
    /\ agenda' = c.result
    /\ calls' = calls \ {c}
    /\ UNCHANGED <<Server, view, board, week, Drawer, dragged>>

AgendaFails(c) ==
    /\ c.kind = "agenda"
    /\ calls' = calls \ {c}
    /\ UNCHANGED <<Server, Lists, Drawer, dragged>>

Listed(a) ==
    CASE view = "day" -> IF board = Blank \/ a \notin OnBoard THEN Blank ELSE board.rows[a]
      [] view = "week" -> IF week.rows = Blank \/ week.failed THEN Blank ELSE week.rows[a]
      [] OTHER -> IF agenda = Blank THEN Blank ELSE agenda[a]

select(a) ==
    /\ ~Open /\ Listed(a) # Blank
    /\ Shows([id |-> a, row |-> Listed(a)], board, dialog, calls)
    /\ UNCHANGED <<Server, Lists, restore, dragged>>

-----------------------------------------------------------------------------
(* BookingDetailDrawer *)

(* Escape looks at action only; a dialog of another kind stays set. *)
closeDrawer ==
    /\ Open
    /\ dialog # Blank => dialog.kind \notin Actions
    /\ Shows(Blank, board, dialog, calls)
    /\ restore' = Blank
    /\ UNCHANGED <<Server, Lists, dragged>>

Future == ~board.begun

Opening(kind) ==
    /\ Open /\ dialog = Blank
    /\ dialog' = Filled(kind, selected.row)
    /\ calls' = IF kind = "reschedule" THEN Asking(selected.id, calls) ELSE calls
    /\ UNCHANGED <<Server, Lists, restore, selected, series, dragged>>

setAction(kind) ==
    /\ Staff /\ Opening(kind)
    /\ IF kind = "cancel" THEN selected.row.status = "CONFIRMED" /\ Future
       ELSE selected.row.status = "PENDING_APPROVAL"

setNoShowAction ==
    /\ Open /\ selected.row.status = "CONFIRMED" /\ ~Future
    /\ Opening(IF selected.row.missed THEN "revert" ELSE "mark")

setEditor(kind) ==
    /\ Staff /\ MayCall
    /\ Opening(kind)
    /\ selected.row.status = "CONFIRMED" /\ Future

(* The backdrop does not look at what is under way. *)
closeDialog ==
    /\ Open /\ dialog # Blank
    /\ dialog' = Blank
    /\ calls' = Without(dialog.kind, calls)
    /\ UNCHANGED <<Server, Lists, restore, selected, series, dragged>>

setDetail(detail) ==
    /\ Open /\ dialog # Blank /\ dialog.kind = "details"
    /\ dialog' = [dialog EXCEPT !.detail = detail]
    /\ UNCHANGED <<Server, Lists, restore, selected, series, dragged, calls>>

Choosing == Open /\ dialog # Blank /\ dialog.kind = "reschedule" /\ MayCall

(* Services, professional or date; without a professional nothing is asked,
   and the slots shown stay. *)
setSelection(complete) ==
    /\ Choosing
    /\ dialog' = [dialog EXCEPT !.place = Blank]
    /\ calls' = IF complete THEN Asking(selected.id, calls) ELSE Dropped({"slots"}, calls)
    /\ UNCHANGED <<Server, Lists, restore, selected, series, dragged>>

setStartTime(place) ==
    /\ Choosing
    /\ place \in dialog.slots /\ place # dialog.place
    /\ dialog' = [dialog EXCEPT !.place = place]
    /\ calls' = Asking(selected.id, calls)
    /\ UNCHANGED <<Server, Lists, restore, selected, series, dragged>>

(* A time that is not free is dropped, which asks once more. *)
SlotsCome(c) ==
    LET gone == dialog.place # Blank /\ dialog.place \notin c.result
    IN  /\ c.kind = "slots" /\ c.done
        /\ dialog' = [dialog EXCEPT !.slots = c.result, !.place = IF gone THEN Blank ELSE @]
        /\ calls' = IF gone THEN Asking(c.of, calls \ {c}) ELSE calls \ {c}
        /\ UNCHANGED <<Server, Lists, restore, selected, series, dragged>>

SlotsFail(c) ==
    /\ c.kind = "slots"
    /\ calls' = calls \ {c}
    /\ UNCHANGED <<Server, Lists, Drawer, dragged>>

(* submit of the three dialogs; the revision is that of the booking shown
   now, whenever the dialog was opened. *)
submit ==
    /\ Open /\ dialog # Blank /\ ~dialog.sending
    /\ MayCall /\ selected.row.revision <= LastRevision
    /\ dialog.kind = "reschedule" => dialog.place # Blank
    /\ dialog' = [dialog EXCEPT !.sending = TRUE]
    /\ calls' = calls \cup
          {Call(dialog.kind, selected.id,
                IF dialog.kind = "details" THEN dialog.detail ELSE dialog.place, selected.row)}
    /\ UNCHANGED <<Server, Lists, restore, selected, series, dragged>>

(* handleAction: the dialog waits for the refresh. *)
ActionDone(c) ==
    /\ c.kind \in Actions /\ c.done
    /\ Shows([id |-> c.of, row |-> c.result], board, dialog,
             Refreshing("board", "action", calls \ {c}))
    /\ UNCHANGED <<Server, Lists, restore, dragged>>

(* NoShowDialog and BookingEditDialog close first. *)
EditDone(c) ==
    /\ c.kind \in Visits \cup Editors /\ c.done
    /\ Shows([id |-> c.of, row |-> c.result], board, Closing(c.kind),
             Refreshing("board", Blank, Without(c.kind, calls \ {c})))
    /\ UNCHANGED <<Server, Lists, restore, dragged>>

DialogFails(c) ==
    /\ c.kind \in Actions \cup Visits \cup Editors
    /\ dialog' = IF c.mine THEN [dialog EXCEPT !.sending = FALSE] ELSE dialog
    /\ calls' = calls \ {c}
    /\ UNCHANGED <<Server, Lists, restore, selected, series, dragged>>

-----------------------------------------------------------------------------
(* AdminSeriesPanel *)

InPanel == Open /\ selected.id \in InSeries /\ dialog = Blank /\ ~series.busy /\ MayCall

loadSeries ==
    /\ InPanel /\ ~series.listed
    /\ series' = [series EXCEPT !.busy = TRUE]
    /\ calls' = calls \cup {Call("series", selected.id, Blank, Blank)}
    /\ UNCHANGED <<Server, Lists, restore, selected, dialog, dragged>>

endSeries ==
    /\ InPanel /\ series.listed /\ Staff /\ ~begun
    /\ series' = [series EXCEPT !.busy = TRUE]
    /\ calls' = calls \cup {Call("endSeries", selected.id, Blank, Blank)}
    /\ UNCHANGED <<Server, Lists, restore, selected, dialog, dragged>>

SeriesComes(c) ==
    /\ c.kind = "series"
    /\ series' = [listed |-> c.done, busy |-> FALSE]
    /\ calls' = calls \ {c}
    /\ UNCHANGED <<Server, Lists, restore, selected, dialog, dragged>>

(* onSeriesChanged closes whatever the drawer shows by now. *)
SeriesEnded(c) ==
    /\ c.kind = "endSeries" /\ c.done
    /\ Shows(Restored(board), board, dialog, Refreshing("board", Blank, calls \ {c}))
    /\ restore' = Blank
    /\ UNCHANGED <<Server, Lists, dragged>>

EndSeriesFails(c) ==
    /\ c.kind = "endSeries"
    /\ series' = IF c.mine THEN [series EXCEPT !.busy = FALSE] ELSE series
    /\ calls' = calls \ {c}
    /\ UNCHANGED <<Server, Lists, restore, selected, dialog, dragged>>

-----------------------------------------------------------------------------
(* WeekTimeline and handleWeekReschedule *)

canMove(row) == ~begun /\ row.status # "CLOSED" /\ ~row.missed

drag(a) ==
    /\ view = "week" /\ ~Open /\ dragged = Blank
    /\ Listed(a) # Blank /\ canMove(Listed(a))
    /\ dragged' = [id |-> a, row |-> Listed(a)]
    /\ UNCHANGED <<Server, Lists, Drawer, calls>>

dragEnd ==
    /\ dragged # Blank
    /\ dragged' = Blank
    /\ UNCHANGED <<Server, Lists, Drawer, calls>>

drop(place) ==
    /\ dragged # Blank /\ ~Open
    /\ MayCall /\ dragged.row.revision <= LastRevision
    /\ dragged' = Blank
    /\ calls' = calls \cup {Call("preview", dragged.id, place, dragged.row)}
    /\ UNCHANGED <<Server, Lists, Drawer>>

(* At once, or as an exception with a reason; a professional has none. *)
Proceeds(c) ==
    /\ c.kind = "preview" /\ c.done
    /\ c.result \/ Staff
    /\ calls' = (calls \ {c}) \cup {Call("move", c.of, c.input, c.seen)}
    /\ UNCHANGED <<Server, Lists, Drawer, dragged>>

StaysPut(c) ==
    /\ c.kind = "preview" /\ c.done /\ ~c.result
    /\ calls' = calls \ {c}
    /\ UNCHANGED <<Server, Lists, Drawer, dragged>>

Both(rest) == Refreshing("week", Blank, Refreshing("board", Blank, rest))

MoveDone(c) ==
    /\ c.kind = "move" /\ c.done
    /\ Shows([id |-> c.of, row |-> c.result], board, dialog, Both(calls \ {c}))
    /\ week' = [week EXCEPT !.failed = FALSE]
    /\ UNCHANGED <<Server, view, board, agenda, restore, dragged>>

(* Status 409: somebody else was there first. *)
MoveRefused(c) ==
    /\ c.kind \in {"preview", "move"} /\ ~c.done
    /\ calls' = Both(calls \ {c})
    /\ week' = [week EXCEPT !.failed = FALSE]
    /\ UNCHANGED <<Server, view, board, agenda, Drawer, dragged>>

MoveFails(c) ==
    /\ c.kind \in {"preview", "move"}
    /\ calls' = calls \ {c}
    /\ UNCHANGED <<Server, Lists, Drawer, dragged>>

-----------------------------------------------------------------------------
DeskInit ==
    /\ \E status \in {"PENDING_APPROVAL", "CONFIRMED"}, d \in Detail, p \in Place :
          rows = [a \in Appointment |-> [status |-> status, detail |-> d, place |-> p,
                                         missed |-> FALSE, revision |-> 1]]
    /\ begun = FALSE
    /\ view = "day" /\ board = Blank /\ agenda = Blank
    /\ week = [rows |-> Blank, failed |-> FALSE]
    /\ restore \in Appointment \cup {Blank}
    /\ selected = Blank /\ dialog = Blank /\ series = NoPanel /\ dragged = Blank
    /\ calls = {Call("board", Blank, Blank, Blank)}

Serves(c) ==
    \/ decide(c) \/ cancel(c) \/ markNoShow(c) \/ revertNoShow(c) \/ updateDetails(c)
    \/ reschedule(c) \/ cancelSeries(c) \/ read(c)
    \/ \E free \in BOOLEAN : previewReschedule(c, free)
    \/ \E slots \in SUBSET Place : getAvailability(c, slots)

Arrives(c) ==
    \/ BoardComes(c) \/ BoardFails(c) \/ WeekComes(c) \/ WeekFails(c)
    \/ AgendaComes(c) \/ AgendaFails(c) \/ SlotsCome(c) \/ SlotsFail(c)
    \/ ActionDone(c) \/ EditDone(c) \/ DialogFails(c)
    \/ SeriesComes(c) \/ SeriesEnded(c) \/ EndSeriesFails(c)
    \/ Proceeds(c) \/ StaysPut(c) \/ MoveDone(c) \/ MoveRefused(c) \/ MoveFails(c)

DeskNext ==
    \/ \E c \in calls : Serves(c) \/ Arrives(c)
    \/ \E a \in Appointment, s \in {"CONFIRMED", "CLOSED"} : DecidedElsewhere(a, s)
    \/ \E a \in Appointment, d \in Detail, p \in Place, missed \in BOOLEAN :
          EditedElsewhere(a, d, p, missed)
    \/ \E a \in Appointment, d \in Detail :
          \/ ProfileSaved(a, d)
          \/ \E s \in {"PENDING_APPROVAL", "CLOSED"} : ConfirmedLate(a, s, d)
    \/ \E a \in Appointment : select(a) \/ drag(a)
    \/ TimeComes \/ refreshBoard \/ refreshWeek \/ closeDrawer \/ setNoShowAction
    \/ closeDialog \/ submit \/ loadSeries \/ endSeries \/ dragEnd
    \/ \E v \in View \cup {"day"} : setView(v)
    \/ \E kind \in Actions : setAction(kind)
    \/ \E kind \in Editors : setEditor(kind)
    \/ \E d \in Detail : setDetail(d)
    \/ \E complete \in BOOLEAN : setSelection(complete)
    \/ \E p \in Place : setStartTime(p) \/ drop(p)

DeskSpec == DeskInit /\ [][DeskNext]_deskVars

-----------------------------------------------------------------------------
(* Properties *)

DeskTypeOK ==
    /\ rows \in [Appointment -> Row]
    /\ view \in View \cup {"day"}
    /\ restore \in Appointment \cup {Blank}
    /\ selected # Blank => selected.id \in Appointment /\ selected.row \in Row
    /\ dialog # Blank => dialog.kind \in Actions \cup Visits \cup Editors
    /\ \A c \in calls : c.kind = "slots" => dialog # Blank /\ dialog.kind = "reschedule"

(* Where a booking is, what was decided about it, and whether the customer
   came: what a revision stands for *)
Matter(row) == <<row.status, row.place, row.missed>>

(* A booking that is moved, by drag and drop or in the editor, and one that
   is marked as a no-show or back, is still where it was on the screen when
   the mouse or the button was pressed, confirmed as it was there, and the
   customer has come or not as it said there, however long drawer, preview,
   questions and answers took: nobody else's move, decision or mark is lost.
   (The name may be another by then: UntouchedSinceSeen.) *)
SeesWhatItWrites ==
    \A c \in calls \ calls' :
        c.kind \in {"reschedule", "move"} \cup Visits /\ rows'[c.of] # rows[c.of]
            => Matter(rows[c.of]) = Matter(c.seen)

WritesWhatWasSeen == [][SeesWhatItWrites]_deskVars

(* Why: a row that a page knows is as old as its revision says.  Without a
   new revision nobody moves or marks a booking, and none becomes confirmed;
   a confirmed one may be confirmed no longer. *)
RowOK(row) ==
    /\ {"status", "detail", "place", "missed", "revision"} \subseteq DOMAIN row
    /\ row.revision \in Nat

(* The revision has been the row's in between *)
Follows(row, old) ==
    /\ row.place = old.place /\ row.missed = old.missed
    /\ row.status = "CONFIRMED" => old.status = "CONFIRMED"

Knows(a, row) ==
    /\ RowOK(row)
    /\ row.revision <= rows[a].revision
    /\ row.revision = rows[a].revision => Follows(rows[a], row)

KnowsAll(list) == list = Blank \/ \A a \in Appointment : Knows(a, list[a])

KnowsRows(b) == \A a \in OnBoard : Knows(a, b.rows[a])

KnowsBoard(b) == b = Blank \/ KnowsRows(b)

KnowsOne(s) ==
    s = Blank \/ ({"id", "row"} \subseteq DOMAIN s /\ s.id \in Appointment /\ Knows(s.id, s.row))

Writing == Actions \cup Visits \cup Editors \cup {"move"}

CallKnows(c) ==
    /\ {"kind", "of", "input", "seen", "mine", "latest", "done", "result"} \subseteq DOMAIN c
    /\ c.kind \in Writing \cup {"preview"} => c.of \in Appointment /\ Knows(c.of, c.seen)
    /\ c.kind = "endSeries" => KnowsRows(board)
    /\ c.done => /\ c.kind \in Writing => Knows(c.of, c.result)
                 /\ c.kind = "board" => KnowsRows(c.result)
                 /\ c.kind \in {"week", "agenda"} => KnowsAll(c.result)

RowsInv == rows = [a \in Appointment |-> rows[a]] /\ \A a \in Appointment : RowOK(rows[a])

RowsMoveOn ==
    /\ rows' = [a \in Appointment |-> rows'[a]]
    /\ \A a \in Appointment :
          /\ RowOK(rows'[a])
          /\ \/ rows'[a].revision > rows[a].revision
             \/ rows'[a].revision = rows[a].revision /\ Follows(rows'[a], rows[a])

DeskInv ==
    /\ RowsInv
    /\ KnowsBoard(board) /\ KnowsAll(agenda)
    /\ {"rows", "failed"} \subseteq DOMAIN week /\ KnowsAll(week.rows)
    /\ KnowsOne(selected) /\ KnowsOne(dragged)
    /\ \A c \in calls : CallKnows(c)

(* What the code does not promise; each is refuted by DeskNext. *)

(* Whatever is written on a booking, somebody has seen the row it is written
   on: the customer's profile, and a confirmation that comes late, change a
   booking without a new revision, so that the editor puts the old name back
   and a move announces another. *)
UntouchedSinceSeen ==
    [][\A c \in calls : reschedule(c) \/ markNoShow(c) \/ revertNoShow(c) \/ updateDetails(c)
          => rows[c.of] = c.seen]_deskVars

(* A dialog that stays open stays with the booking it was opened for: an
   answer that comes late, or Escape and another booking, moves it on. *)
DialogStaysWithBooking ==
    [][dialog # Blank /\ dialog' # Blank /\ selected # Blank /\ selected' # Blank =>
          selected'.id = selected.id]_deskVars

(* What the editor was filled with is what its revision stands for: the
   board refreshes the booking under the form. *)
EditorIsOfRow ==
    [][dialog # Blank /\ dialog.kind = "details" /\ dialog' = dialog /\ Open =>
          selected' = selected]_deskVars

(* Nobody edits a booking that is closed: the editor goes on with the revision
   the board brings, and updateDetails does not look at the status. *)
EditsOnlyLive ==
    [][\A c \in calls : updateDetails(c) => rows[c.of].status # "CLOSED"]_deskVars

(* What the drawer shows after an answer is what the answer says: the board
   puts the older row back until it is refreshed. *)
AnswerIsShown ==
    [][\A c \in calls : ActionDone(c) \/ EditDone(c) => selected'.row = c.result]_deskVars

(* The end of a series closes the drawer of one of its bookings. *)
ClosesOwnDrawer ==
    [][\A c \in calls : SeriesEnded(c) => c.mine \/ selected = Blank]_deskVars
=============================================================================
