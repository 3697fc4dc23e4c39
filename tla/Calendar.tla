------------------------------- MODULE Calendar -------------------------------
(***************************************************************************)
(* What the calendar of a branch promises to those who write on it, one    *)
(* writer at a time: an entry stands where nobody else is, is held, asked  *)
(* for and agreed on in this order, moves only once it is agreed on, and   *)
(* stays closed once it is closed.  Entries that step outside ask for no   *)
(* room of their own.                                                      *)
(***************************************************************************)
CONSTANTS
    Entry,     \* what may be written down
    Cell       \* the parts of the calendar

VARIABLES
    standing,  \* how far each entry has come
    room       \* the cells it has to itself

Closed == {"REJECTED", "CANCELLED", "EXPIRED"}

Becomes(e, how) == standing' = [standing EXCEPT ![e] = how]

(* Room that no other entry has *)
Takes(e) ==
    \E cells \in SUBSET Cell :
        /\ \A f \in Entry \ {e} : room[f] \cap cells = {}
        /\ room' = [room EXCEPT ![e] = cells]

Hold(e) == standing[e] = "NONE" /\ Becomes(e, "HOLD") /\ Takes(e)

Ask(e) == standing[e] = "HOLD" /\ Becomes(e, "PENDING_APPROVAL") /\ UNCHANGED room

Agree(e) == standing[e] = "PENDING_APPROVAL" /\ Becomes(e, "CONFIRMED") /\ UNCHANGED room

(* A new entry that needs nobody's agreement, another place for one that is
   agreed on, or the return of one that had stepped outside. *)
WriteDown(e) ==
    /\ standing[e] \in {"NONE", "CONFIRMED", "OUTSIDE"}
    /\ Becomes(e, "CONFIRMED")
    /\ Takes(e)

(* Entries run out together when their time passes. *)
Close(E, how) ==
    /\ \A e \in E : standing[e] \notin Closed \cup {"NONE"}
    /\ standing' = [e \in Entry |-> IF e \in E THEN how ELSE standing[e]]
    /\ room' = [e \in Entry |-> IF e \in E THEN {} ELSE room[e]]

StepOutside(e) ==
    /\ standing[e] \in Closed \cup {"NONE", "CONFIRMED"}
    /\ Becomes(e, "OUTSIDE")
    /\ room' = [room EXCEPT ![e] = {}]

Init ==
    /\ standing = [e \in Entry |-> "NONE"]
    /\ room = [e \in Entry |-> {}]

Next ==
    \/ \E e \in Entry : Hold(e) \/ Ask(e) \/ Agree(e) \/ WriteDown(e) \/ StepOutside(e)
    \/ \E E \in SUBSET Entry, how \in Closed : Close(E, how)

Spec == Init /\ [][Next]_<<standing, room>>
=============================================================================
