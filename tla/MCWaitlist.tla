------------------------------ MODULE MCWaitlist ------------------------------
(* Waitlist on a morning with two appointments of one professional.  The run
   begins when the bookings b1 and b2 of these places have been cancelled. *)
EXTENDS Waitlist, TLC

CONSTANTS b1, b2, b3

MCPlace == {"ten", "eleven"}

MCCell == 1..2

MCSpan == "ten" :> {1} @@ "eleven" :> {2}

MCStartAt == "ten" :> 1 @@ "eleven" :> 2

(* Two customers whose dates and hours allow both. *)
MCWanted == [n \in Entry |-> MCPlace]

Cancelled(p) == [NoBooking EXCEPT !.status = "CANCELLED", !.place = p, !.revision = 3]

(* Both bookings were confirmed and then cancelled by the salon; another
   customer has seen the first place free and asks for it. *)
MCInit ==
    /\ now = 0
    /\ bookings = [b \in Booking |-> CASE b = b1 -> Cancelled("ten")
                                       [] b = b2 -> Cancelled("eleven")
                                       [] OTHER -> NoBooking]
    /\ blocks = [k \in Block |-> NoBlock]
    /\ requests = [r \in Request |-> NoRequest]
    /\ offers = [o \in Offer |-> NoOffer]
    /\ recovery = {Freed("BOOKING_CANCELLATION", b1, 0, "ten"),
                   Freed("BOOKING_CANCELLATION", b2, 0, "eleven")}
    /\ lock = None
    /\ \E d \in Client :
          tx = [c \in Client |-> IF c = d THEN [Idle EXCEPT !.op = "createHold", !.subject = b3,
                                                      !.target = "ten"] ELSE Idle]
    /\ reopened = {}
    /\ WaitlistInit

MCSpec == MCInit /\ [][WaitNext]_waitVars

MCSymmetry == Permutations(Client) \cup Permutations(Entry)
=============================================================================
