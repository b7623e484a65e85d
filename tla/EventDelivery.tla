---------------------------- MODULE EventDelivery ----------------------------
(***************************************************************************)
(* What the outbox promises its publishers and subscribers, without the    *)
(* relay: an emitted event is shown to its handlers any number of times,   *)
(* may be parked for an operator, and is settled only after every handler  *)
(* has seen it; nothing settled is opened again.                           *)
(***************************************************************************)
CONSTANTS Messages, Handlers

VARIABLES stage,    \* "none", "open", "parked" or "settled"
          seen      \* the handlers that completed for the event

Init ==
    /\ stage = [m \in Messages |-> "none"]
    /\ seen = [m \in Messages |-> {}]

Emit(m) ==
    /\ stage[m] = "none"
    /\ stage' = [stage EXCEPT ![m] = "open"]
    /\ UNCHANGED seen

See(m, h) ==
    /\ stage[m] # "none"
    /\ seen' = [seen EXCEPT ![m] = @ \cup {h}]
    /\ UNCHANGED stage

Park(m) ==
    /\ stage[m] = "open"
    /\ stage' = [stage EXCEPT ![m] = "parked"]
    /\ UNCHANGED seen

Unpark(m) ==
    /\ stage[m] = "parked"
    /\ stage' = [stage EXCEPT ![m] = "open"]
    /\ UNCHANGED seen

Settle(m) ==
    /\ stage[m] = "open"
    /\ seen[m] = Handlers
    /\ stage' = [stage EXCEPT ![m] = "settled"]
    /\ UNCHANGED seen

Next ==
    \E m \in Messages :
        \/ Emit(m) \/ Park(m) \/ Unpark(m) \/ Settle(m)
        \/ \E h \in Handlers : See(m, h)

Spec == Init /\ [][Next]_<<stage, seen>>
=============================================================================
