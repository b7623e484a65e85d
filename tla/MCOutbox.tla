------------------------------ MODULE MCOutbox ------------------------------
(***************************************************************************)
(* TLC instances of Outbox: one message of each of two tenants.            *)
(***************************************************************************)
EXTENDS Outbox, TLC

CONSTANTS a, b

Two == 1 .. 2
Tenant == (1 :> a) @@ (2 :> b)
=============================================================================
