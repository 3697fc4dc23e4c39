------------------------------- MODULE SalonDay -------------------------------
(* One afternoon of a salon with one professional, shared by the MC modules. *)
EXTENDS Integers, TLC

(* A colouring works on the client before and after a processing phase; the
   fringe fits into that phase; the brows begin when the colouring is over
   and need the last cell of the colouring to prepare.  A break and a
   training are the blocks: the break lies in the processing phase, the
   training in the last cell of the colouring. *)
MCPlace == {"colour", "fringe", "brows", "break", "training"}

MCBlockPlace == {"break", "training"}

MCOpen == {"colour", "fringe", "brows"}

MCCell == 1..4

MCSpan == "colour" :> {1, 2, 3} @@ "fringe" :> {2} @@ "brows" :> {4}
              @@ "break" :> {2} @@ "training" :> {3}

MCBusy == "colour" :> {1, 3} @@ "fringe" :> {2} @@ "brows" :> {3, 4}
              @@ "break" :> {2} @@ "training" :> {3}

MCStartAt == "colour" :> 1 @@ "fringe" :> 2 @@ "brows" :> 3
                 @@ "break" :> 2 @@ "training" :> 3
=============================================================================
