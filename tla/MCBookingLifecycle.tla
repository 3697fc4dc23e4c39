-------------------------- MODULE MCBookingLifecycle --------------------------
(* BookingLifecycle on the calendar of SalonDay. *)
EXTENDS BookingLifecycle, SalonDay

(* The block alone that shares a cell with the colouring's work. *)
MCTraining == {"training"}

MCSymmetry == Permutations(Booking) \cup Permutations(Client)
=============================================================================
