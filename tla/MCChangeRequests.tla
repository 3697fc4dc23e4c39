--------------------------- MODULE MCChangeRequests ---------------------------
(* ChangeRequests on the calendar of SalonDay. *)
EXTENDS ChangeRequests, SalonDay

MCSymmetry == Permutations(Booking) \cup Permutations(Request) \cup Permutations(Client)
=============================================================================
