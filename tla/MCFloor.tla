------------------------------ MODULE MCFloor -------------------------------
(***************************************************************************)
(* The instance of Floor that TLC explores.                                 *)
(***************************************************************************)
EXTENDS Floor, TLC

\* Bins, holds and requests are interchangeable.
MCSymmetry == Permutations(Bins) \cup Permutations(Holds) \cup Permutations(Requests)
=============================================================================
