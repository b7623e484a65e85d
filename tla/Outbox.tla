------------------------------- MODULE Outbox -------------------------------
(***************************************************************************)
(* The transactional outbox: shared/events/outbox.ts and event-bus.ts.     *)
(* Commands append messages inside their own transaction; relays drain     *)
(* them through the in-process bus under a session advisory lock, acking a *)
(* row (deleting it) once every handler has settled.                       *)
(*                                                                         *)
(* A message is its place in the (created_at, id) order.  A relay is one   *)
(* process's worker; each of its statements and handler calls is a step.   *)
(***************************************************************************)
EXTENDS Integers, FiniteSets

CONSTANTS Messages,     \* the outbox rows, numbered in (created_at, id) order
          TenantOf,     \* the tenant of each message
          Relays,       \* the processes running an OutboxRelayWorker
          Last,         \* the number of handlers subscribed to the event type
          Limit,        \* drain's limit
          MaxAttempts,  \* OUTBOX_MAX_ATTEMPTS
          MaxFaults,    \* crashes, failed statements and lost sessions in a run
          MaxReplays,   \* operator replays in a run
          None          \* no relay, no row

ASSUME OutboxAssumption ==
    /\ Messages \subseteq Nat /\ IsFiniteSet(Messages) /\ IsFiniteSet(Relays)
    /\ None \notin Relays /\ None \notin Messages
    /\ Last \in Nat /\ Limit \in Nat /\ MaxFaults \in Nat /\ MaxReplays \in Nat
    /\ MaxAttempts \in Nat \ {0}

Handlers == 1 .. Last

VARIABLES
    status,     \* outbox_messages.status; a row not yet written or acked has none
    attempts,   \* outbox_messages.attempts
    due,        \* next_attempt_at <= now()
    lock,       \* the session that holds the relay's advisory lock
    pc,         \* where each relay stands
    tenants,    \* the tenants still to walk, each by its oldest due row at discovery
    batch,      \* the rows still to deliver of the tenant being walked
    row,        \* the row being delivered
    read,       \* the attempts of each row when its batch was selected
    published,  \* rows this cycle has acked
    at,         \* the handler the bus calls next
    seen,       \* ghost: the handlers that settled for each message
    throws,     \* ghost: failed publishes of each message
    publishes,  \* ghost: publishes begun of each message
    faults, replays

rows  == <<status, attempts, due>>
cycle == <<pc, tenants, batch, row, read, published, at>>
ghosts == <<seen, throws, publishes>>
vars  == <<rows, lock, cycle, ghosts, faults, replays>>

Oldest(m, S) == m \in S /\ \A n \in S : m <= n

Due == {m \in Messages : status[m] = "pending" /\ due[m]}

\* The first k rows of S in (created_at, id) order.
First(S, k) == {m \in S : Cardinality({n \in S : n < m}) < k}

Fault == faults < MaxFaults /\ faults' = faults + 1

\* What a relay has read of the rows before it selects a batch.
Unread == [m \in Messages |-> 0]

\* The tick returns to the timer; its locals are gone.
Rest(r) ==
    /\ pc' = [pc EXCEPT ![r] = "idle"]
    /\ tenants' = [tenants EXCEPT ![r] = {}]
    /\ batch' = [batch EXCEPT ![r] = {}]
    /\ row' = [row EXCEPT ![r] = None]
    /\ published' = [published EXCEPT ![r] = 0]
    /\ at' = [at EXCEPT ![r] = 1]
    /\ read' = [read EXCEPT ![r] = Unread]

Unlock(r) == lock' = IF lock = r THEN None ELSE lock

\* The row is done with, whatever came of it; later rows still drain.
NextRow(r) ==
    /\ pc' = [pc EXCEPT ![r] = "rows"]
    /\ row' = [row EXCEPT ![r] = None]
    /\ at' = [at EXCEPT ![r] = 1]

-----------------------------------------------------------------------------
(* The write side. *)

\* PostgresOutboxSink.append: the row commits with the command that wrote it.
Append(m) ==
    /\ status[m] = "none"
    /\ status' = [status EXCEPT ![m] = "pending"]
    /\ due' = [due EXCEPT ![m] = TRUE]
    /\ UNCHANGED <<attempts, lock, cycle, ghosts, faults, replays>>

\* OUTBOX_OPERATOR_REPLAY_SQL.
Replay(m) ==
    /\ replays < MaxReplays /\ replays' = replays + 1
    /\ status[m] = "quarantined"
    /\ status' = [status EXCEPT ![m] = "pending"]
    /\ attempts' = [attempts EXCEPT ![m] = 0]
    /\ due' = [due EXCEPT ![m] = TRUE]
    /\ UNCHANGED <<lock, cycle, ghosts, faults>>

\* The backoff of a failed row elapses.
BackoffElapses(m) ==
    /\ status[m] = "pending" /\ ~due[m]
    /\ due' = [due EXCEPT ![m] = TRUE]
    /\ UNCHANGED <<status, attempts, lock, cycle, ghosts, faults, replays>>

-----------------------------------------------------------------------------
(* One drain cycle. *)

\* Mutant: the answer of pg_try_advisory_lock is not looked at.
Discover_NoLock(r) ==
    /\ pc[r] = "idle" /\ Limit > 0
    /\ lock' = IF lock = None THEN r ELSE lock
    /\ pc' = [pc EXCEPT ![r] = "tenants"]
    /\ tenants' = [tenants EXCEPT ![r] =
           {m \in Due : \A n \in Due : TenantOf[n] = TenantOf[m] => m <= n}]
    /\ UNCHANGED <<rows, batch, row, read, published, at, ghosts, faults, replays>>

\* drain takes the advisory lock and discovers the tenants with due rows; a
\* relay that does not get the lock sheds.
Discover(r) ==
    /\ pc[r] = "idle" /\ Limit > 0
    /\ lock = None
    /\ lock' = r
    /\ pc' = [pc EXCEPT ![r] = "tenants"]
    /\ tenants' = [tenants EXCEPT ![r] =
           {m \in Due : \A n \in Due : TenantOf[n] = TenantOf[m] => m <= n}]
    /\ UNCHANGED <<rows, batch, row, read, published, at, ghosts, faults, replays>>

\* Mutant: the batch holds only rows that never failed.
NextTenant_FirstTriesOnly(r) ==
    /\ pc[r] = "tenants"
    /\ published[r] < Limit
    /\ \E first \in Messages :
          /\ Oldest(first, tenants[r])
          /\ tenants' = [tenants EXCEPT ![r] = @ \ {first}]
          /\ batch' = [batch EXCEPT ![r] =
                 First({m \in Due : TenantOf[m] = TenantOf[first] /\ attempts[m] = 0},
                       Limit - published[r])]
    /\ read' = [read EXCEPT ![r] = attempts]
    /\ pc' = [pc EXCEPT ![r] = "rows"]
    /\ UNCHANGED <<rows, lock, row, published, at, ghosts, faults, replays>>

\* The next tenant, oldest activity first: its due rows, up to what the limit
\* leaves.
NextTenant(r) ==
    /\ pc[r] = "tenants"
    /\ published[r] < Limit
    /\ \E first \in Messages :
          /\ Oldest(first, tenants[r])
          /\ tenants' = [tenants EXCEPT ![r] = @ \ {first}]
          /\ batch' = [batch EXCEPT ![r] =
                 First({m \in Due : TenantOf[m] = TenantOf[first]}, Limit - published[r])]
    /\ read' = [read EXCEPT ![r] = attempts]
    /\ pc' = [pc EXCEPT ![r] = "rows"]
    /\ UNCHANGED <<rows, lock, row, published, at, ghosts, faults, replays>>

TenantDone(r) ==
    /\ pc[r] = "rows" /\ batch[r] = {}
    /\ pc' = [pc EXCEPT ![r] = "tenants"]
    /\ read' = [read EXCEPT ![r] = Unread]
    /\ UNCHANGED <<rows, lock, tenants, batch, row, published, at, ghosts,
                   faults, replays>>

\* deliver publishes the oldest row left ...
Deliver(r) ==
    /\ pc[r] = "rows"
    /\ \E m \in Messages :
          /\ Oldest(m, batch[r])
          /\ row' = [row EXCEPT ![r] = m]
          /\ batch' = [batch EXCEPT ![r] = @ \ {m}]
    /\ at' = [at EXCEPT ![r] = 1]
    /\ pc' = [pc EXCEPT ![r] = "publish"]
    /\ publishes' = [publishes EXCEPT ![row'[r]] = @ + 1]
    /\ UNCHANGED <<rows, lock, tenants, read, published, seen, throws, faults, replays>>

\* ... the bus awaits the handlers in order ...
Handle(r) ==
    /\ pc[r] = "publish" /\ at[r] <= Last
    /\ seen' = [seen EXCEPT ![row[r]] = @ \cup {at[r]}]
    /\ at' = [at EXCEPT ![r] = @ + 1]
    /\ UNCHANGED <<rows, lock, pc, tenants, batch, row, read, published, throws,
                   publishes, faults, replays>>

\* Mutant: the bus logs a throwing handler and goes on to the next.
HandlerThrows_Swallowed(r) ==
    /\ pc[r] = "publish" /\ at[r] <= Last
    /\ throws' = [throws EXCEPT ![row[r]] = @ + 1]
    /\ at' = [at EXCEPT ![r] = @ + 1]
    /\ UNCHANGED <<rows, lock, pc, tenants, batch, row, read, published, seen,
                   publishes, faults, replays>>

\* ... and a throwing handler ends the publish.
HandlerThrows(r) ==
    /\ pc[r] = "publish" /\ at[r] <= Last
    /\ throws' = [throws EXCEPT ![row[r]] = @ + 1]
    /\ pc' = [pc EXCEPT ![r] = "fail"]
    /\ UNCHANGED <<rows, lock, tenants, batch, row, read, published, at, seen,
                   publishes, faults, replays>>

\* Mutant: the ack deletes the row whatever its status.
Ack_AnyStatus(r) ==
    /\ pc[r] = "publish" /\ at[r] > Last
    /\ status' = [status EXCEPT ![row[r]] = "acked"]
    /\ published' = [published EXCEPT ![r] = @ + 1]
    /\ NextRow(r)
    /\ UNCHANGED <<attempts, due, lock, tenants, batch, read, ghosts, faults,
                   replays>>

\* The ack: the row is deleted, if it is still pending.
Ack(r) ==
    /\ pc[r] = "publish" /\ at[r] > Last
    /\ status' = IF status[row[r]] = "pending"
                 THEN [status EXCEPT ![row[r]] = "acked"] ELSE status
    /\ published' = [published EXCEPT ![r] = @ + 1]
    /\ NextRow(r)
    /\ UNCHANGED <<attempts, due, lock, tenants, batch, read, ghosts, faults,
                   replays>>

\* Mutant: the budget is off by one.
MarkFailed_OneMore(r) ==
    /\ pc[r] = "fail"
    /\ LET n == read[r][row[r]] + 1 IN
       IF status[row[r]] = "pending"
       THEN /\ attempts' = [attempts EXCEPT ![row[r]] = n]
            /\ status' = [status EXCEPT ![row[r]] =
                              IF n > MaxAttempts THEN "quarantined" ELSE "pending"]
            /\ due' = [due EXCEPT ![row[r]] = n > MaxAttempts]
       ELSE UNCHANGED rows
    /\ NextRow(r)
    /\ UNCHANGED <<lock, tenants, batch, read, published, ghosts, faults, replays>>

\* markFailed writes the attempts the batch read, plus one; past the budget the
\* row is quarantined.  It does nothing to a row that is no longer pending.
MarkFailed(r) ==
    /\ pc[r] = "fail"
    /\ LET n == read[r][row[r]] + 1 IN
       IF status[row[r]] = "pending"
       THEN /\ attempts' = [attempts EXCEPT ![row[r]] = n]
            /\ status' = [status EXCEPT ![row[r]] =
                              IF n >= MaxAttempts THEN "quarantined" ELSE "pending"]
            /\ due' = [due EXCEPT ![row[r]] = n >= MaxAttempts]
       ELSE UNCHANGED rows
    /\ NextRow(r)
    /\ UNCHANGED <<lock, tenants, batch, read, published, ghosts, faults, replays>>

\* No tenant or no budget left: the cycle ends and drops the lock.
Finish(r) ==
    /\ pc[r] = "tenants"
    /\ tenants[r] = {} \/ published[r] >= Limit
    /\ Rest(r)
    /\ Unlock(r)
    /\ UNCHANGED <<rows, ghosts, faults, replays>>

-----------------------------------------------------------------------------
(* Faults. *)

\* The ack-delete or the failure bookkeeping fails: the row stays as it is.
RowWriteFails(r) ==
    /\ Fault
    /\ pc[r] = "fail" \/ (pc[r] = "publish" /\ at[r] > Last)
    /\ NextRow(r)
    /\ UNCHANGED <<rows, lock, tenants, batch, read, published, ghosts, replays>>

\* A tenant whose batch cannot be read is skipped.
TenantFails(r) ==
    /\ Fault
    /\ pc[r] = "tenants" /\ published[r] < Limit
    /\ \E first \in Messages :
          /\ Oldest(first, tenants[r])
          /\ tenants' = [tenants EXCEPT ![r] = @ \ {first}]
    /\ UNCHANGED <<rows, lock, pc, batch, row, read, published, at, ghosts, replays>>

\* The process dies: its session, and with it the lock, is gone.
Crash(r) ==
    /\ Fault
    /\ pc[r] # "idle"
    /\ Rest(r)
    /\ Unlock(r)
    /\ UNCHANGED <<rows, ghosts, replays>>

\* The locked session alone is cut; the cycle goes on over the pool.
SessionLost(r) ==
    /\ Fault
    /\ lock = r
    /\ lock' = None
    /\ UNCHANGED <<rows, cycle, ghosts, replays>>

-----------------------------------------------------------------------------
Init ==
    /\ status = [m \in Messages |-> "none"]
    /\ attempts = [m \in Messages |-> 0]
    /\ due = [m \in Messages |-> FALSE]
    /\ lock = None
    /\ pc = [r \in Relays |-> "idle"]
    /\ tenants = [r \in Relays |-> {}]
    /\ batch = [r \in Relays |-> {}]
    /\ row = [r \in Relays |-> None]
    /\ read = [r \in Relays |-> Unread]
    /\ published = [r \in Relays |-> 0]
    /\ at = [r \in Relays |-> 1]
    /\ seen = [m \in Messages |-> {}]
    /\ throws = [m \in Messages |-> 0]
    /\ publishes = [m \in Messages |-> 0]
    /\ faults = 0 /\ replays = 0

Step(r) ==
    \/ Discover(r) \/ NextTenant(r) \/ TenantDone(r) \/ Deliver(r)
    \/ Handle(r) \/ HandlerThrows(r) \/ Ack(r) \/ MarkFailed(r) \/ Finish(r)

Failure(r) == RowWriteFails(r) \/ TenantFails(r) \/ Crash(r) \/ SessionLost(r)

Next ==
    \/ \E m \in Messages : Append(m) \/ Replay(m) \/ BackoffElapses(m)
    \/ \E r \in Relays : Step(r) \/ Failure(r)

Spec == Init /\ [][Next]_vars

\* The worker's timer keeps ticking and backoffs elapse; nothing makes a
\* handler succeed, a command append or an operator replay.
Fairness ==
    /\ \A r \in Relays : WF_vars(Step(r))
    /\ \A m \in Messages : WF_vars(BackoffElapses(m))

FairSpec == Spec /\ Fairness

-----------------------------------------------------------------------------
(* Properties. *)

\* Every variable has its type.
TypeOK ==
    /\ status \in [Messages -> {"none", "pending", "quarantined", "acked"}]
    /\ attempts \in [Messages -> Nat]
    /\ due \in [Messages -> BOOLEAN]
    /\ lock \in Relays \cup {None}
    /\ pc \in [Relays -> {"idle", "tenants", "rows", "publish", "fail"}]
    /\ tenants \in [Relays -> SUBSET Messages]
    /\ batch \in [Relays -> SUBSET Messages]
    /\ row \in [Relays -> Messages \cup {None}]
    /\ read \in [Relays -> [Messages -> Nat]]
    /\ published \in [Relays -> Nat]
    /\ at \in [Relays -> Nat \ {0}]
    /\ seen \in [Messages -> SUBSET Handlers]
    /\ throws \in [Messages -> Nat] /\ publishes \in [Messages -> Nat]
    /\ faults \in Nat /\ replays \in Nat

\* "an acked row was seen by every handler" (quarantinedMessagesInTx): a
\* deleted row has settled with every subscriber, whatever crashed, whoever
\* else drained it and however often it failed before.
AckedSeenByAll ==
    \A m \in Messages : status[m] = "acked" => seen[m] = Handlers

\* "a row quarantines after N=5 failed attempts": the budget is never spent on
\* failures that did not happen, a pending row is always within it, and a row
\* the relay gave up on has used all of it, also when two cycles overlap.
QuarantineEarned ==
    \A m \in Messages :
        /\ attempts[m] <= throws[m]
        /\ status[m] = "pending" => attempts[m] < MaxAttempts
        /\ status[m] = "quarantined" => throws[m] >= MaxAttempts

\* A message is published again only after a publish of it that failed, or a
\* fault: with every process up and every statement through, no number of
\* relays repeats one that its handlers have settled.
RepeatsExplained ==
    \A m \in Messages : publishes[m] <= 1 + throws[m] + faults

\* At-least-once: a committed message does not stay pending for ever; it is
\* acked or reaches the operator, with no failing row holding up the others.
Settles ==
    \A m \in Messages :
        status[m] = "pending" ~> status[m] \in {"acked", "quarantined"}

-----------------------------------------------------------------------------
(* The outbox implements the delivery its publishers and subscribers see. *)

Stage == [m \in Messages |->
             CASE status[m] = "none"        -> "none"
               [] status[m] = "pending"     -> "open"
               [] status[m] = "quarantined" -> "parked"
               [] status[m] = "acked"       -> "settled"]

Delivery == INSTANCE EventDelivery WITH stage <- Stage

\* Every behaviour of relays, crashes and replays is a behaviour of EventDelivery.
ImplementsDelivery == Delivery!Spec
=============================================================================
