----------------------------- MODULE OneTimeCode -----------------------------
(***************************************************************************)
(* What a verification code promises, whoever asks for it and whatever it  *)
(* opens: it is issued, stays open for a while, and then is either used,   *)
(* once, or void.  Neither is ever undone.                                 *)
(***************************************************************************)
CONSTANT Code       \* the codes ever sent

VARIABLE state      \* where each code stands

CodeState == {"none", "open", "used", "void"}

Issue(k) ==
    /\ state[k] = "none"
    /\ state' = [state EXCEPT ![k] = "open"]

Use(k) ==
    /\ state[k] = "open"
    /\ state' = [state EXCEPT ![k] = "used"]

(* Codes run out together when their time passes. *)
Void(K) ==
    /\ \A k \in K : state[k] = "open"
    /\ state' = [k \in Code |-> IF k \in K THEN "void" ELSE state[k]]

Init == state = [k \in Code |-> "none"]

Next ==
    \/ \E k \in Code : Issue(k) \/ Use(k)
    \/ \E K \in SUBSET Code : Void(K)

Spec == Init /\ [][Next]_state
=============================================================================
