------------------------------ MODULE BookingLookup ------------------------------
(***************************************************************************)
(* BookingLookupPage: a customer without an account finds a booking by its *)
(* reference and phone, and manages it in the session that the code        *)
(* opens.  The session is a cookie of the browser, and every call of the   *)
(* page means "the current booking".  AccessCodes has the codes,           *)
(* ChangeRequests what becomes of requests.                                *)
(***************************************************************************)
EXTENDS Integers, FiniteSets

CONSTANTS
    Booking,    \* bookings of the customer
    Day,        \* dates of the change dialog
    LastRevision, \* bound on the salon's changes
    MaxCalls,   \* bound on calls without an answer
    None        \* no booking, no date

LookupAssumption ==
    /\ None \notin Booking \cup Day
    /\ LastRevision \in Nat /\ MaxCalls \in Nat

VARIABLES
    rows,       \* the bookings
    cookie,     \* the booking of the session
    stage,      \* stage
    form,       \* referenceCode and phone
    shown,      \* booking
    busy,       \* busy
    dialog,     \* changeOpen, cancelOpen, and what the dialogs hold
    calls,      \* calls without an answer
    left        \* the customer has left, and no code is entered since or on its way

lookupVars == <<rows, cookie, stage, form, shown, busy, dialog, calls, left>>

-----------------------------------------------------------------------------
RowSet == [status : {"CONFIRMED", "CANCELLED"}, revision : 0..LastRevision]

(* acts: actionBusy; list: the date whose times are listed; picked: a time
   is chosen *)
DialogSet == [open : {"none", "change", "cancel"}, day : Day \cup {None},
              list : Day \cup {None}, picked : BOOLEAN, acts : BOOLEAN]

Closed == [open |-> "none", day |-> None, list |-> None, picked |-> FALSE, acts |-> FALSE]

(* mine: the component that called is still there *)
Call(kind, input) ==
    [kind |-> kind, input |-> input, mine |-> TRUE, done |-> FALSE, result |-> None]

Dto(b) == [booking |-> b, row |-> rows[b]]

Answers(c, result) ==
    /\ calls' = (calls \ {c}) \cup {[c EXCEPT !.done = TRUE, !.result = result]}
    /\ UNCHANGED <<stage, form, shown, busy, dialog, left>>

Sends(c) ==
    /\ Cardinality(calls) < MaxCalls
    /\ c \notin calls
    /\ calls' = calls \cup {c}

-----------------------------------------------------------------------------
(* BookingAccessController; a refusal leaves the call to Fails *)

(* getCurrentBooking, by the cookie *)
current(c) ==
    /\ c.kind \in {"open", "read", "refresh"} /\ ~c.done
    /\ cookie # None
    /\ Answers(c, Dto(cookie))
    /\ UNCHANGED <<rows, cookie>>

(* The answer is the same whether they match or not. *)
requestCode(c) ==
    /\ c.kind = "code" /\ ~c.done
    /\ Answers(c, None)
    /\ UNCHANGED <<rows, cookie>>

verifyCode(c) ==
    /\ c.kind = "verify" /\ ~c.done
    /\ cookie' = c.input
    /\ Answers(c, None)
    /\ UNCHANGED rows

closeSession(c) ==
    /\ c.kind = "close" /\ ~c.done
    /\ cookie' = None
    /\ Answers(c, None)
    /\ UNCHANGED rows

availability(c) ==
    /\ c.kind = "slots" /\ ~c.done
    /\ cookie # None
    /\ Answers(c, c.input)
    /\ UNCHANGED <<rows, cookie>>

createChangeRequest(c) ==
    /\ c.kind = "change" /\ ~c.done
    /\ cookie # None
    /\ rows[cookie].status = "CONFIRMED"
    /\ c.input.row.revision = rows[cookie].revision
    /\ Answers(c, None)
    /\ UNCHANGED <<rows, cookie>>

cancel(c) ==
    /\ c.kind = "cancel" /\ ~c.done
    /\ cookie # None
    /\ rows[cookie].status = "CONFIRMED"
    /\ rows' = [rows EXCEPT ![cookie].status = "CANCELLED"]
    /\ Answers(c, None)
    /\ UNCHANGED cookie

Salon(b) ==
    /\ rows[b].status = "CONFIRMED" /\ rows[b].revision < LastRevision
    /\ rows' = [rows EXCEPT ![b].revision = @ + 1]
    /\ UNCHANGED <<cookie, stage, form, shown, busy, dialog, calls, left>>

(* Another tab of the browser opens a session or closes it; a session ends
   by itself. *)
Elsewhere(b) ==
    /\ b # cookie
    /\ cookie' = b
    /\ UNCHANGED <<rows, stage, form, shown, busy, dialog, calls, left>>

-----------------------------------------------------------------------------
(* BookingLookupPage *)

Opened(c) ==
    /\ c.kind = "open" /\ c.done
    /\ shown' = c.result /\ stage' = "booking"
    /\ calls' = calls \ {c}
    /\ UNCHANGED <<rows, cookie, form, busy, dialog, left>>

editForm(b) ==
    /\ stage = "lookup"
    /\ form' = b
    /\ UNCHANGED <<rows, cookie, stage, shown, busy, dialog, calls, left>>

(* From the form, and again from the page of the code *)
askCode ==
    /\ stage \in {"lookup", "otp"} /\ form # None
    /\ ~busy
    /\ Sends(Call("code", form))
    /\ busy' = TRUE
    /\ UNCHANGED <<rows, cookie, stage, form, shown, dialog, left>>

CodeAsked(c) ==
    /\ c.kind = "code" /\ c.done
    /\ stage' = "otp" /\ busy' = FALSE
    /\ calls' = calls \ {c}
    /\ UNCHANGED <<rows, cookie, form, shown, dialog, left>>

(* "Bilgileri değiştir" does not wait. *)
changeForm ==
    /\ stage = "otp"
    /\ stage' = "lookup"
    /\ UNCHANGED <<rows, cookie, form, shown, busy, dialog, calls, left>>

verify ==
    /\ stage = "otp" /\ ~busy
    /\ Sends(Call("verify", form))
    /\ busy' = TRUE
    /\ left' = FALSE
    /\ UNCHANGED <<rows, cookie, stage, form, shown, dialog>>

Verified(c) ==
    /\ c.kind = "verify" /\ c.done
    /\ calls' = (calls \ {c}) \cup {Call("read", None)}
    /\ UNCHANGED <<rows, cookie, stage, form, shown, busy, dialog, left>>

Read(c) ==
    /\ c.kind = "read" /\ c.done
    /\ shown' = c.result /\ stage' = "booking" /\ busy' = FALSE
    /\ calls' = calls \ {c}
    /\ UNCHANGED <<rows, cookie, form, dialog, left>>

Showing == stage = "booking" /\ shown # None

refresh ==
    /\ Showing /\ ~busy
    /\ Sends(Call("refresh", None))
    /\ busy' = TRUE
    /\ UNCHANGED <<rows, cookie, stage, form, shown, dialog, left>>

(* Mutant: a booking that has been read is shown. *)
ComesBack(c) == shown' = c.result /\ stage' = "booking"

Refreshes(c) == shown' = c.result /\ stage' = stage

(* The dialog that waited for it is free again. *)
Refreshed(c) ==
    /\ c.kind = "refresh" /\ c.done
    /\ Refreshes(c)
    /\ busy' = FALSE
    /\ dialog' = IF c.input # None /\ c.mine THEN [dialog EXCEPT !.acts = FALSE] ELSE dialog
    /\ calls' = calls \ {c}
    /\ UNCHANGED <<rows, cookie, form, left>>

(* The button is always there. *)
leave ==
    /\ Showing
    /\ Sends(Call("close", None))
    /\ UNCHANGED <<rows, cookie, stage, form, shown, busy, dialog, left>>

(* Whether the call succeeds or not; the dialogs go with the page. *)
Leaves(c) ==
    /\ c.kind = "close"
    /\ shown' = None /\ stage' = "lookup"
    /\ dialog' = Closed
    /\ calls' = {[d EXCEPT !.mine = FALSE] : d \in {e \in calls \ {c} : e.kind # "slots"}}
    /\ left' = ({d \in calls : d.kind \in {"verify", "read"}} = {})
    /\ UNCHANGED <<rows, cookie, form, busy>>

(* open, code, verify, read, refresh: the page says so and stays. *)
PageCallFails(c) ==
    /\ c.kind \in {"open", "code", "verify", "read", "refresh"}
    /\ stage' = IF c.kind = "open" THEN "lookup" ELSE stage
    /\ busy' = (busy /\ c.kind = "open")
    /\ dialog' = IF c.kind = "refresh" /\ c.input # None /\ c.mine
                 THEN [dialog EXCEPT !.acts = FALSE] ELSE dialog
    /\ calls' = calls \ {c}
    /\ UNCHANGED <<rows, cookie, form, shown, left>>

-----------------------------------------------------------------------------
(* BookingStatus *)

(* The dialog of changes asks for the times of the date it was left with. *)
Opens(name) ==
    /\ Showing /\ dialog.open = "none"
    /\ shown.row.status = "CONFIRMED"
    /\ IF name = "change" /\ dialog.day # None
       THEN /\ Sends(Call("slots", dialog.day))
            /\ dialog' = [dialog EXCEPT !.open = name, !.acts = TRUE]
       ELSE /\ dialog' = [dialog EXCEPT !.open = name]
            /\ UNCHANGED calls
    /\ UNCHANGED <<rows, cookie, stage, form, shown, busy, left>>

(* The times go with the dialog, the choice and the date stay. *)
Dismiss ==
    /\ Showing /\ dialog.open # "none"
    /\ dialog' = [dialog EXCEPT !.open = "none",
                                !.list = IF dialog.open = "change" THEN None ELSE @]
    /\ calls' = {c \in calls : c.kind # "slots"}
    /\ UNCHANGED <<rows, cookie, stage, form, shown, busy, left>>

(* The effect of the dialog drops the answer for the date before. *)
changeDate(day) ==
    /\ Showing /\ dialog.open = "change" /\ day # dialog.day
    /\ Cardinality(calls) < MaxCalls
    /\ dialog' = [dialog EXCEPT !.day = day, !.picked = FALSE, !.acts = TRUE]
    /\ calls' = {c \in calls : c.kind # "slots"} \cup {Call("slots", day)}
    /\ UNCHANGED <<rows, cookie, stage, form, shown, busy, left>>

Slots(c) ==
    /\ c.kind = "slots" /\ c.done
    /\ dialog' = [dialog EXCEPT !.list = c.result, !.acts = FALSE]
    /\ calls' = calls \ {c}
    /\ UNCHANGED <<rows, cookie, stage, form, shown, busy, left>>

(* The times of the date before stay. *)
SlotsFail(c) ==
    /\ c.kind = "slots"
    /\ dialog' = [dialog EXCEPT !.acts = FALSE]
    /\ calls' = calls \ {c}
    /\ UNCHANGED <<rows, cookie, stage, form, shown, busy, left>>

selectTime ==
    /\ Showing /\ dialog.open = "change" /\ ~dialog.acts /\ dialog.list # None
    /\ dialog' = [dialog EXCEPT !.picked = TRUE]
    /\ UNCHANGED <<rows, cookie, stage, form, shown, busy, calls, left>>

submitChange ==
    /\ Showing /\ dialog.open = "change" /\ ~dialog.acts /\ dialog.picked
    /\ Sends(Call("change", shown))
    /\ dialog' = [dialog EXCEPT !.acts = TRUE]
    /\ UNCHANGED <<rows, cookie, stage, form, shown, busy, left>>

submitCancellation ==
    /\ Showing /\ dialog.open = "cancel" /\ ~dialog.acts
    /\ Sends(Call("cancel", shown))
    /\ dialog' = [dialog EXCEPT !.acts = TRUE]
    /\ UNCHANGED <<rows, cookie, stage, form, shown, busy, left>>

(* onRefresh, of the page *)
Done(c) ==
    /\ c.kind \in {"change", "cancel"} /\ c.done
    /\ dialog' = IF c.mine THEN [dialog EXCEPT !.open = "none", !.list = None] ELSE dialog
    /\ busy' = TRUE
    /\ calls' = {d \in calls \ {c} : ~c.mine \/ d.kind # "slots"}
                    \cup {[Call("refresh", c.input.booking) EXCEPT !.mine = c.mine]}
    /\ UNCHANGED <<rows, cookie, stage, form, shown, left>>

ActionFails(c) ==
    /\ c.kind \in {"change", "cancel"}
    /\ dialog' = IF c.mine THEN [dialog EXCEPT !.acts = FALSE] ELSE dialog
    /\ calls' = calls \ {c}
    /\ UNCHANGED <<rows, cookie, stage, form, shown, busy, left>>

-----------------------------------------------------------------------------
LookupInit ==
    /\ rows = [b \in Booking |-> [status |-> "CONFIRMED", revision |-> 0]]
    /\ cookie \in Booking \cup {None}
    /\ stage = "checking" /\ form = None /\ shown = None /\ busy = FALSE
    /\ dialog = Closed
    /\ calls = {Call("open", None)}
    /\ left = FALSE

Serves(c) ==
    \/ current(c) \/ requestCode(c) \/ verifyCode(c) \/ closeSession(c) \/ availability(c)
    \/ createChangeRequest(c) \/ cancel(c)

Arrives(c) ==
    \/ Opened(c) \/ CodeAsked(c) \/ Verified(c) \/ Read(c) \/ Refreshed(c) \/ Leaves(c)
    \/ Slots(c) \/ Done(c)
    \/ PageCallFails(c) \/ SlotsFail(c) \/ ActionFails(c)

LookupNext ==
    \/ \E c \in calls : Serves(c) \/ Arrives(c)
    \/ \E b \in Booking : Salon(b) \/ editForm(b)
    \/ \E b \in Booking \cup {None} : Elsewhere(b)
    \/ askCode \/ changeForm \/ verify \/ refresh \/ leave
    \/ \E name \in {"change", "cancel"} : Opens(name)
    \/ \E day \in Day : changeDate(day)
    \/ Dismiss \/ selectTime \/ submitChange \/ submitCancellation

LookupSpec == LookupInit /\ [][LookupNext]_lookupVars

-----------------------------------------------------------------------------
(* Properties *)

LookupTypeOK ==
    /\ rows \in [Booking -> RowSet]
    /\ cookie \in Booking \cup {None}
    /\ stage \in {"checking", "lookup", "otp", "booking"}
    /\ form \in Booking \cup {None}
    /\ dialog \in DialogSet
    /\ {busy, left} \subseteq BOOLEAN

(* Whoever leaves by "Güvenli çıkış" has left: the page shows no booking
   again before a code is entered, although answers to what was asked
   before are on their way, dialogs wait for theirs, and the cookie may not
   even have been cleared. *)
LeftSeesNothing == left => ~Showing

(* Why: the booking comes back by the first call of the page alone, which
   knows no other beside it, or behind a code. *)
OpenIsAlone == \A c, d \in calls : c.kind = "open" => stage = "checking" /\ d = c

LeftInv ==
    /\ \A c \in calls : "kind" \in DOMAIN c
    /\ OpenIsAlone
    /\ left => /\ stage # "booking"
               /\ \A c \in calls : c.kind \notin {"open", "verify", "read"}

(* What the code does not promise; each is refuted by LookupNext. *)
SlotsAreOfDay == dialog.picked /\ ~dialog.acts /\ dialog.list # None => dialog.list = dialog.day

ActsOnShown ==
    [][\A c \in calls : ~c.done /\ (cancel(c) \/ createChangeRequest(c))
            => c.input.booking = cookie]_lookupVars
=============================================================================
