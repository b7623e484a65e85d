------------------------------ MODULE MCWebhook ------------------------------
(* Instances of Webhook for TLC. *)
EXTENDS Webhook, TLC

One == 1 .. 1
Two == 1 .. 2
SenderSymmetry == Permutations(Senders)
=============================================================================
