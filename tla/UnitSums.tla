------------------------------ MODULE UnitSums ------------------------------
(***************************************************************************)
(* Sums of quantities over a finite set, as the SQL `sum(quantity)` of the *)
(* repository computes them.  Quantities are whole (milli-)units, so a sum *)
(* is the number of units: the cardinality of the disjoint union of the    *)
(* sets 1..f[s].  Stated this way the sum needs no recursion.              *)
(***************************************************************************)
EXTENDS Integers, FiniteSets

Units(S, f) == UNION {{s} \X (1 .. f[s]) : s \in S}

Total(S, f) == Cardinality(Units(S, f))
=============================================================================
