---------------------------- MODULE MCReservation ----------------------------
(* TLC instances of Reservation. *)
EXTENDS Reservation, TLC

Symmetry == Permutations(Rows) \cup Permutations(Clients) \cup Permutations(Owners)
=============================================================================
