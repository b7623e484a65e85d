------------------------------ MODULE MCLedger ------------------------------
(* Instances of Ledger for TLC. *)
EXTENDS Ledger, TLC

\* An out-of-band write deletes a row or zeroes it.
LosingWrites == {-1, 0}

\* It may also invent a unit.
AnyWrites == {-1, 0, 2}

BinSymmetry == Permutations(Bins)
=============================================================================
