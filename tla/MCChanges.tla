------------------------------- MODULE MCChanges -------------------------------
(* Requests for another time on both sides: the handlers of ChangeRequests,
   and AccountVisit, the page that asks.  The two share no state, so a
   behaviour follows one of them, chosen in the initial state; the other
   stays as it begins. *)
EXTENDS MCChangeRequests

CONSTANTS Hour, Date, LastVisit, LastRevision, MaxCalls

VARIABLES part, visits, address, shown, fetching, dialog, draft, waits, calls

Visit ==
    INSTANCE AccountVisit
        WITH Day <- Date, Time <- Hour, Frequency <- Date, Absent <- None

ASSUME PageAssumption == Visit!VisitAssumption

pageVars == <<visits, address, shown, fetching, dialog, draft, waits, calls>>

Rests ==
    /\ visits = None /\ address = None /\ shown = None /\ fetching = None
    /\ dialog = None /\ draft = None /\ waits = None /\ calls = None

MCInit ==
    /\ Init
    /\ \/ part = "requests" /\ Rests
       \/ part = "page" /\ Visit!VisitInit

MCNext ==
    /\ UNCHANGED part
    /\ \/ part = "requests" /\ ChangeNext /\ UNCHANGED pageVars
       \/ part = "page" /\ Visit!VisitNext /\ UNCHANGED vars

MCSpec == MCInit /\ [][MCNext]_<<vars, pageVars, part>>

MCPageSymmetry == MCSymmetry \cup Permutations(Hour)

(* AccountVisit: a change is asked for by a customer who has seen where the
   appointment is when the request is stored. *)
RequestKnowsPlace == [][part = "page" => Visit!KnowsPlace]_<<pageVars, part>>
=============================================================================
