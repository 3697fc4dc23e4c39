----------------------------- MODULE MessageQueue -----------------------------
(***************************************************************************)
(* What an outbox promises of its messages.  A message waits, is taken     *)
(* into one pair of hands, is said once for every time it is taken, and    *)
(* what became of it is noted: done, or back among those that wait.  What  *)
(* is done or has been withdrawn is not said again.  A message whose taker *)
(* died stays out of the queue.  Only a release, of a message somebody     *)
(* took or of one that is done, ends the promise: it may be said twice.    *)
(***************************************************************************)
EXTENDS Naturals

CONSTANTS
    Message, Taker,
    Limit     \* how often a message may be said

VARIABLES
    stage,    \* how far each message has come
    hands,    \* who has it
    said      \* how often it was said

Stages == {"none", "waiting", "taken", "said", "done", "void", "lost", "released"}

Rows ==
    /\ stage \in [Message -> Stages]
    /\ hands \in [Message -> SUBSET Taker]
    /\ said \in [Message -> Nat]

-----------------------------------------------------------------------------
(* What may happen to one message *)

Turns(m, s, h, n) == stage'[m] = s /\ hands'[m] = h /\ said'[m] = n

Stays(m) == Turns(m, stage[m], hands[m], said[m])

(* Of a message that was released nothing is promised. *)
Released(m) == Turns(m, "released", {}, 0)

Write(m) == stage[m] = "none" /\ Turns(m, "waiting", hands[m], said[m])

Withdraw(m) == stage[m] = "waiting" /\ Turns(m, "void", hands[m], said[m])

Take(t, m) == stage[m] = "waiting" /\ Turns(m, "taken", {t}, said[m])

(* Somebody took it long ago. *)
Expire(m) == stage[m] \in {"taken", "said", "lost"} /\ Released(m)

Drop(t, m) ==
    /\ stage[m] = "taken" /\ hands[m] = {t}
    /\ Turns(m, "void", {}, said[m])

Say(t, m) ==
    /\ stage[m] = "taken" /\ hands[m] = {t}
    /\ said[m] < Limit
    /\ Turns(m, "said", {t}, said[m] + 1)

Note(t, m) ==
    /\ stage[m] = "said" /\ hands[m] = {t}
    /\ \/ Turns(m, "done", {}, said[m])
       \/ said[m] < Limit /\ Turns(m, "waiting", {}, said[m])

Lose(t, m) == hands[m] = {t} /\ Turns(m, "lost", {}, said[m])

Repeat(m) == stage[m] = "done" /\ Released(m)

-----------------------------------------------------------------------------
(* What happens in one step *)

Change == \A m \in Message : Stays(m) \/ Write(m) \/ Withdraw(m)

(* Only empty hands take messages. *)
Round(t) ==
    /\ \A m \in Message : t \notin hands[m]
    /\ \A m \in Message : Stays(m) \/ Take(t, m) \/ Expire(m)

Single(m) ==
    /\ \A o \in Message \ {m} : Stays(o)
    /\ Repeat(m) \/ \E t \in Taker : Drop(t, m) \/ Say(t, m) \/ Note(t, m)

Die(t) == \A m \in Message : IF t \in hands[m] THEN Lose(t, m) ELSE Stays(m)

Init ==
    /\ stage = [m \in Message |-> "none"]
    /\ hands = [m \in Message |-> {}]
    /\ said = [m \in Message |-> 0]

Next ==
    /\ Rows'
    /\ \/ Change
       \/ \E t \in Taker : Round(t) \/ Die(t)
       \/ \E m \in Message : Single(m)

Spec == Init /\ [][Next]_<<stage, hands, said>>
=============================================================================
