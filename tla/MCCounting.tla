----------------------------- MODULE MCCounting -----------------------------
(***************************************************************************)
(* The instances of Counting that TLC explores.                             *)
(***************************************************************************)
EXTENDS Counting

\* One unit of everything in the first bin, the others empty.
MCStock == [b \in Bins |-> [s \in Skus |-> IF b = 1 THEN 1 ELSE 0]]
=============================================================================
