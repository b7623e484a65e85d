---------------------------- MODULE MCOrderFlow ----------------------------
(***************************************************************************)
(* Instances of OrderFlow: ids are numbers, so that the next free one and   *)
(* the walk order are fixed.                                               *)
(***************************************************************************)
EXTENDS OrderFlow

CONSTANTS First,    \* units in the first bin of the walk
          Others    \* units in each of the others

MCStock == [b \in Bins |-> IF \A c \in Bins : b <= c THEN First ELSE Others]
=============================================================================
