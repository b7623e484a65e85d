------------------------------- MODULE Webhook -------------------------------
(***************************************************************************)
(* Client webhooks: the enqueue that turns an outbox event into one        *)
(* delivery row per endpoint, the sender processes that sweep, claim, POST *)
(* and write outcomes, and the staff commands on an endpoint.  One tenant  *)
(* with one client, one event type.                                        *)
(*                                                                         *)
(* A claim is a transaction of two steps: it reads, with the due rows      *)
(* locked, and it writes.  A send is three: it re-reads the row and the    *)
(* endpoint, it POSTs, it writes the outcome.  The claim stamp of a row is *)
(* the process that made it: a process ends all its sends before it claims *)
(* again, so that no two live claims of a row carry the same one.  The     *)
(* arms of a sweep are actions of their own: each touches only rows past   *)
(* its own age, and a sweep is a sequence of them.                         *)
(***************************************************************************)
EXTENDS Integers, FiniteSets

CONSTANTS
    Events,        \* source events, numbered in the order of their rows
    Endpoints,
    Senders,       \* worker processes
    MaxAttempts,   \* WEBHOOK_MAX_ATTEMPTS
    MaxInFlight,   \* WEBHOOK_MAX_IN_FLIGHT_PER_ENDPOINT
    MaxHeld,       \* WEBHOOK_MAX_HELD_PER_ENDPOINT
    DisableAfter,  \* WEBHOOK_DISABLE_AFTER_FAILURES
    MaxCommands,   \* bound on what staff do
    None

ASSUME WebhookAssumption ==
    /\ Events \in SUBSET Nat /\ IsFiniteSet(Events) /\ IsFiniteSet(Senders)
    /\ MaxAttempts \in Nat \ {0} /\ MaxInFlight \in Nat \ {0}
    /\ MaxHeld \in Nat \ {0} /\ DisableAfter \in Nat \ {0} /\ MaxCommands \in Nat
    /\ None \notin Senders

Deliveries == Events \X Endpoints

VARIABLES
    \* webhook_deliveries
    row,         \* status, or "none" before the insert
    attempts,
    due,         \* next_attempt_at has passed
    old,         \* pending_since of a row on its way is 72 hours ago
    code,        \* last_error_code, as far as it is asked about
    claim,       \* whose claim stamp the row carries
    \* webhook_endpoints and clients
    standing,    \* status with its disabled_reason
    failures,    \* consecutive_failures, up to the threshold
    aged,        \* failing_since is 24 hours ago
    subscribed,  \* event_types has the type
    departed,
    \* enqueues in flight: what each read of the endpoints
    reading,
    \* the processes
    picked,      \* rows a claim in flight has locked
    view,        \* the endpoints as that claim read them
    task,        \* where each send is
    \* ghosts
    commands,    \* staff commands so far
    posts        \* POSTs ever made, less the attempts counted before a reset

rows      == <<row, attempts, due, old, code, claim>>
endpoints == <<standing, failures, aged, subscribed, departed>>
procs     == <<picked, view, task>>
vars      == <<rows, endpoints, reading, procs, posts, commands>>

Of(e) == Events \X {e}
Final == {"succeeded", "failed"}

\* What the claim and the send ask of an endpoint.
Seen(e) ==
    IF standing[e] = "active" /\ ~ subscribed[e] THEN "unsubscribed" ELSE standing[e]

\* What a process knows of the endpoints outside a claim.
Unseen == [e \in Endpoints |-> "active"]

\* A row that some claim has locked makes an UPDATE of it wait.
Unlocked(S) == \A p \in Senders : picked[p] \cap S = {}

-----------------------------------------------------------------------------
(* What the transactions share. *)

\* trimHeldInTx: the newest MaxHeld held rows of the endpoint stay held.
Overflow(r, e) ==
    {d \in Of(e) : /\ r[d] = "held"
                   /\ Cardinality({x \in Of(e) : r[x] = "held" /\ x[1] > d[1]}) >= MaxHeld}
Trim(r, e) == [d \in Deliveries |-> IF d \in Overflow(r, e) THEN "failed" ELSE r[d]]

\* The rows of S become status s; their error code becomes c.
Mark(r, S, s) == [d \in Deliveries |-> IF d \in S THEN s ELSE r[d]]
Code(S, c) == code' = [d \in Deliveries |-> IF d \in S THEN c ELSE code[d]]

\* pending_since counts while the row is on its way.
KeepClock == old' = [d \in Deliveries |-> old[d] /\ row'[d] \in {"pending", "sending"}]

NowFailed(d) == row'[d] = "failed" /\ row[d] # "failed"

PendingIn(r, e) == {d \in Of(e) : r[d] = "pending"}
Waiting(e) == {d \in Of(e) : row[d] \in {"pending", "held"}}

\* The rows of S start again: a fresh count and a fresh 72 hours.
Restart(S) ==
    /\ attempts' = [d \in Deliveries |-> IF d \in S THEN 0 ELSE attempts[d]]
    /\ due' = [d \in Deliveries |-> due[d] \/ d \in S]
    /\ old' = [d \in Deliveries |-> old[d] /\ d \notin S]
    /\ posts' = [d \in Deliveries |-> posts[d] - IF d \in S THEN attempts[d] ELSE 0]

\* countFinalFailuresInTx: n final failures of an active endpoint, on rows r.
\* Past the threshold, and after a day, it is disabled and its pending rows
\* are held.
Disables(e, n) ==
    n > 0 /\ standing[e] = "active" /\ failures[e] + n >= DisableAfter /\ aged[e]
CountFinal(r, e, n) ==
    /\ failures' = [failures EXCEPT ![e] =
           IF standing[e] # "active" THEN @
           ELSE IF @ + n > DisableAfter THEN DisableAfter ELSE @ + n]
    /\ IF Disables(e, n)
       THEN /\ Unlocked(PendingIn(r, e))
            /\ standing' = [standing EXCEPT ![e] = "failing"]
            /\ row' = Trim(Mark(r, PendingIn(r, e), "held"), e)
       ELSE row' = r /\ UNCHANGED standing
    /\ UNCHANGED <<aged, subscribed, departed>>

\* The send is over.
Done(p, d) == task' = [task EXCEPT ![p][d] = "none"]

-----------------------------------------------------------------------------
(* The enqueue. *)

\* enqueueFromSourceInTx reads the endpoints that are subscribed and active,
\* or disabled for failing; the relay, an operator's replay and the sweep's
\* quarantine reconcile all come here.
EnqueueRead(m) ==
    /\ reading[m] = {}
    /\ ~ departed
    /\ \A d \in Deliveries : d[1] = m => row[d] = "none"
    /\ \A k \in Events : k < m => \E e \in Endpoints : row[<<k, e>>] # "none"
    /\ reading' = [reading EXCEPT ![m] =
           {<<e, standing[e]>> : e \in {e \in Endpoints :
               subscribed[e] /\ standing[e] \in {"active", "failing"}}}]
    /\ reading'[m] # {}
    /\ UNCHANGED <<rows, endpoints, procs, posts>>

\* It inserts one row per endpoint it read, whatever happened to them since.
EnqueueInsert(m) ==
    /\ reading[m] # {}
    /\ LET active == {<<m, x[1]>> : x \in {x \in reading[m] : x[2] = "active"}}
           held   == {<<m, x[1]>> : x \in {x \in reading[m] : x[2] = "failing"}}
           r      == Mark(Mark(row, active, "pending"), held, "held")
       IN  row' = [d \in Deliveries |->
                      IF d[2] \in {x[2] : x \in held} THEN Trim(r, d[2])[d] ELSE r[d]]
    /\ code' = [d \in Deliveries |-> IF NowFailed(d) THEN "other" ELSE code[d]]
    /\ reading' = [reading EXCEPT ![m] = {}]
    /\ UNCHANGED <<attempts, due, old, claim, endpoints, procs, posts>>

\* The transaction fails; the relay or the next sweep tries again.
EnqueueFails(m) ==
    /\ reading[m] # {}
    /\ reading' = [reading EXCEPT ![m] = {}]
    /\ UNCHANGED <<rows, endpoints, procs, posts>>

-----------------------------------------------------------------------------
(* The claim. *)

Sending(e) == {d \in Of(e) : row[d] = "sending"}
Resting(p) == picked[p] = {} /\ \A d \in Deliveries : task[p][d] = "none"

\* Due rows, at most MaxInFlight less the endpoint's live sends; the budget
\* of the tick may leave any of them out.
Claimable(S) ==
    /\ S # {}
    /\ \A d \in S : row[d] = "pending" /\ due[d]
    /\ \A e \in Endpoints :
          S \cap Of(e) # {} =>
              Cardinality(S \cap Of(e)) + Cardinality(Sending(e)) <= MaxInFlight

\* Mutant: no advisory lock around the claim.
ClaimRead_NoLock(p, S) ==
    /\ Resting(p)
    /\ Unlocked(S)
    /\ Claimable(S)
    /\ picked' = [picked EXCEPT ![p] = S]
    /\ view' = [view EXCEPT ![p] = [e \in Endpoints |-> Seen(e)]]
    /\ UNCHANGED <<rows, endpoints, reading, task, posts>>

\* One claim at a time, under the tenant's advisory lock.
ClaimRead(p, S) ==
    /\ Resting(p)
    /\ \A q \in Senders : picked[q] = {}
    /\ Claimable(S)
    /\ picked' = [picked EXCEPT ![p] = S]
    /\ view' = [view EXCEPT ![p] = [e \in Endpoints |-> Seen(e)]]
    /\ UNCHANGED <<rows, endpoints, reading, task, posts>>

\* disableDepartedInTx, on the rows r.
DisableDeparted ==
    standing' = [e \in Endpoints |->
                    IF departed /\ standing[e] = "active" THEN "departed" ELSE standing[e]]
DepartedRows == IF departed THEN {d \in Deliveries : row[d] \in {"pending", "held"}} ELSE {}

\* Each locked row is judged by what the claim read of its endpoint.
ClaimWrite(p) ==
    /\ picked[p] # {}
    /\ LET Judged(S) == {d \in picked[p] \ DepartedRows : view[p][d[2]] \in S}
           held   == Judged({"failing"})
           failed == Judged({"deleted", "gone", "manual", "departed", "unsubscribed"})
           sent   == Judged({"active"})
       IN  /\ row' = Mark(Mark(Mark(row, held, "held"), failed \cup DepartedRows, "failed"),
                          sent, "sending")
           /\ code' = [d \in Deliveries |->
                 IF d \in DepartedRows \/ (d \in failed /\ view[p][d[2]] \in {"deleted", "unsubscribed"})
                 THEN "dropped"
                 ELSE IF d \in failed THEN "other" ELSE code[d]]
           /\ claim' = [d \in Deliveries |-> IF d \in sent THEN p ELSE claim[d]]
           /\ task' = [task EXCEPT ![p] = [d \in Deliveries |->
                          IF d \in sent THEN "claimed" ELSE "none"]]
    /\ DisableDeparted
    /\ picked' = [picked EXCEPT ![p] = {}]
    /\ view' = [view EXCEPT ![p] = Unseen]
    /\ KeepClock
    /\ UNCHANGED <<attempts, due, failures, aged, subscribed, departed, reading, posts>>

-----------------------------------------------------------------------------
(* The sends. *)

\* The tick's budget ran out before the send started: no attempt is spent.
Release(p, d) ==
    /\ task[p][d] = "claimed"
    /\ IF claim[d] = p
       THEN /\ row' = [row EXCEPT ![d] = "pending"]
            /\ claim' = [claim EXCEPT ![d] = None]
       ELSE UNCHANGED <<row, claim>>
    /\ Done(p, d)
    /\ UNCHANGED <<attempts, due, old, code, endpoints, reading, picked, view, posts>>

\* sendOne re-reads the row under its stamp, with the endpoint; the signing
\* keys may not open.
SendRead(p, d) ==
    /\ task[p][d] = "claimed"
    /\ \/ /\ claim[d] # p
          /\ Done(p, d)
       \/ /\ claim[d] = p
          /\ \/ /\ standing[d[2]] # "active"
                /\ task' = [task EXCEPT ![p][d] = standing[d[2]]]
             \/ /\ standing[d[2]] = "active"
                /\ \E next \in {"post", "config"} : task' = [task EXCEPT ![p][d] = next]
    /\ UNCHANGED <<rows, endpoints, reading, picked, view, posts>>

Inactive == {"failing", "gone", "manual", "departed", "deleted"}

\* The endpoint was not active: held if it was failing, failed otherwise.
SendSettle(p, d) ==
    /\ task[p][d] \in Inactive
    /\ IF claim[d] = p
       THEN /\ row' = [row EXCEPT ![d] = IF task[p][d] = "failing" THEN "held" ELSE "failed"]
            /\ code' = [code EXCEPT ![d] = CASE task[p][d] = "failing" -> @
                                             [] task[p][d] = "deleted" -> "dropped"
                                             [] OTHER -> "other"]
            /\ claim' = [claim EXCEPT ![d] = None]
       ELSE UNCHANGED <<row, code, claim>>
    /\ Done(p, d)
    /\ KeepClock
    /\ UNCHANGED <<attempts, due, endpoints, reading, picked, view, posts>>

\* Mutant: the retry after a config fault starts a new 72 hours.
SendConfig_NewClock(p, d) ==
    /\ task[p][d] = "config"
    /\ IF claim[d] = p
       THEN /\ row' = [row EXCEPT ![d] = "pending"]
            /\ due' = [due EXCEPT ![d] = FALSE]
            /\ old' = [old EXCEPT ![d] = FALSE]
            /\ code' = [code EXCEPT ![d] = "secret"]
            /\ claim' = [claim EXCEPT ![d] = None]
       ELSE UNCHANGED <<row, due, old, code, claim>>
    /\ Done(p, d)
    /\ UNCHANGED <<attempts, endpoints, reading, picked, view, posts>>

\* A config fault: retried later, no attempt spent, on the same 72 hours.
SendConfig(p, d) ==
    /\ task[p][d] = "config"
    /\ IF claim[d] = p
       THEN /\ row' = [row EXCEPT ![d] = "pending"]
            /\ due' = [due EXCEPT ![d] = FALSE]
            /\ code' = [code EXCEPT ![d] = "secret"]
            /\ claim' = [claim EXCEPT ![d] = None]
       ELSE UNCHANGED <<row, due, code, claim>>
    /\ Done(p, d)
    /\ UNCHANGED <<attempts, old, endpoints, reading, picked, view, posts>>

\* classifyOutcome: 2xx; 410; other 3xx and 4xx; a timeout, a network error,
\* 408, 429 or 5xx; a target that is never sent to.
Outcomes == {"2xx", "410", "refused", "retry", "blocked"}

Post(p, d, o) ==
    /\ task[p][d] = "post"
    /\ task' = [task EXCEPT ![p][d] = o]
    /\ posts' = [posts EXCEPT ![d] = @ + 1]
    /\ UNCHANGED <<rows, endpoints, reading, picked, view>>

\* Mutant: one attempt too many.
Retries_OneMore(o, tries) == o \in {"retry", "blocked"} /\ tries <= MaxAttempts

Retries(o, tries) == o \in {"retry", "blocked"} /\ tries < MaxAttempts

\* writeOutcomeInTx, while the row carries the stamp.  The attempts it writes
\* are the claim's plus one: nothing else counts under the same stamp.
Recorded(p, d, o) ==
    LET e     == d[2]
        tries == attempts[d] + 1
        again == Retries(o, tries)
        r     == [row EXCEPT ![d] = IF o = "2xx" THEN "succeeded"
                                    ELSE IF again THEN "pending" ELSE "failed"]
    IN  /\ attempts' = [attempts EXCEPT ![d] = tries]
        /\ claim' = [claim EXCEPT ![d] = None]
        /\ due' = [due EXCEPT ![d] = @ /\ ~ again]
        /\ CASE o = "2xx" ->
                   /\ row' = r
                   /\ IF standing[e] = "active"
                      THEN /\ failures' = [failures EXCEPT ![e] = 0]
                           /\ aged' = [aged EXCEPT ![e] = FALSE]
                      ELSE UNCHANGED <<failures, aged>>
                   /\ UNCHANGED <<standing, subscribed, departed>>
             [] o = "410" /\ standing[e] = "active" ->
                   /\ Unlocked(PendingIn(r, e))
                   /\ standing' = [standing EXCEPT ![e] = "gone"]
                   /\ row' = Mark(r, PendingIn(r, e), "failed")
                   /\ UNCHANGED <<failures, aged, subscribed, departed>>
             [] o = "410" /\ standing[e] # "active" -> row' = r /\ UNCHANGED endpoints
             [] OTHER -> CountFinal(r, e, IF again \/ o = "blocked" THEN 0 ELSE 1)
        /\ code' = [x \in Deliveries |-> IF x = d \/ NowFailed(x) THEN "other" ELSE code[x]]

WriteOutcome(p, d) ==
    /\ task[p][d] \in Outcomes
    /\ IF claim[d] = p
       THEN Recorded(p, d, task[p][d])
       ELSE UNCHANGED <<row, attempts, due, code, claim, endpoints>>
    /\ Done(p, d)
    /\ KeepClock
    /\ UNCHANGED <<reading, picked, view, posts>>

\* The process dies, or the database fails around its sends: their rows are
\* left to the stale sweep.
Crash(p) ==
    /\ ~ Resting(p)
    /\ picked' = [picked EXCEPT ![p] = {}]
    /\ view' = [view EXCEPT ![p] = Unseen]
    /\ task' = [task EXCEPT ![p] = [d \in Deliveries |-> "none"]]
    /\ UNCHANGED <<rows, endpoints, reading, posts>>

-----------------------------------------------------------------------------
(* The sweep, which runs in every tick and with the gateway off. *)

\* Mutant: a stale return spends no attempt.
SweepStale_Uncounted(d) ==
    /\ row[d] = "sending"
    /\ row' = [row EXCEPT ![d] = "pending"]
    /\ due' = [due EXCEPT ![d] = TRUE]
    /\ old' = [old EXCEPT ![d] = FALSE]
    /\ Code({d}, "other")
    /\ claim' = [claim EXCEPT ![d] = None]
    /\ UNCHANGED <<attempts, endpoints, reading, procs, posts>>

\* A claim that is five minutes old: the attempt is counted, and the last one
\* is final.  Nothing says that the process is dead.
SweepStale(d) ==
    /\ row[d] = "sending"
    /\ row' = [row EXCEPT ![d] = IF attempts[d] + 1 >= MaxAttempts THEN "failed" ELSE "pending"]
    /\ attempts' = [attempts EXCEPT ![d] = @ + 1]
    /\ due' = [due EXCEPT ![d] = TRUE]
    /\ old' = [old EXCEPT ![d] = FALSE]
    /\ Code({d}, "other")
    /\ claim' = [claim EXCEPT ![d] = None]
    /\ UNCHANGED <<endpoints, reading, procs, posts>>

\* Pending for 72 hours: failed, and counted where the receiver was tried.
SweepExpire(e) ==
    LET X == {d \in PendingIn(row, e) : old[d]}
        blamed == {d \in X : attempts[d] # 0 /\ code[d] # "secret"}
    IN  /\ X # {}
        /\ Unlocked(X)
        /\ CountFinal(Mark(row, X, "failed"), e, Cardinality(blamed))
        /\ code' = [d \in Deliveries |-> IF d \in X THEN "expired"
                                         ELSE IF NowFailed(d) THEN "other" ELSE code[d]]
        /\ KeepClock
        /\ UNCHANGED <<attempts, due, claim, reading, procs, posts>>

\* Held for thirty days, or past the endpoint's limit.
SweepHeld(e, S) ==
    LET r == Trim(Mark(row, S, "failed"), e)
    IN  /\ S \subseteq {d \in Of(e) : row[d] = "held"}
        /\ row # r
        /\ row' = r
        /\ code' = [d \in Deliveries |-> IF NowFailed(d) THEN "other" ELSE code[d]]
        /\ UNCHANGED <<attempts, due, old, claim, endpoints, reading, procs, posts>>

\* The client has left.
SweepDeparted ==
    /\ departed
    /\ Unlocked(DepartedRows)
    /\ DisableDeparted
    /\ row' = Mark(row, DepartedRows, "failed")
    /\ Code(DepartedRows, "dropped")
    /\ <<row, standing>>' # <<row, standing>>
    /\ KeepClock
    /\ UNCHANGED <<attempts, due, claim, failures, aged, subscribed, departed, reading,
                   procs, posts>>

-----------------------------------------------------------------------------
(* Staff commands; each locks the client, then the endpoint. *)

\* update, enabling: the held rows are released or discarded as a whole.
Enable(e, release) ==
    LET held == {d \in Of(e) : row[d] = "held"}
    IN  /\ standing[e] \in Inactive \ {"deleted"}
        /\ ~ departed
        /\ standing' = [standing EXCEPT ![e] = "active"]
        /\ failures' = [failures EXCEPT ![e] = 0]
        /\ aged' = [aged EXCEPT ![e] = FALSE]
        /\ IF release
           THEN row' = Mark(row, held, "pending") /\ Restart(held) /\ UNCHANGED code
           ELSE /\ row' = Mark(row, held, "failed")
                /\ Code(held, "dropped")
                /\ UNCHANGED <<attempts, due, old, posts>>
        /\ UNCHANGED <<claim, subscribed, departed, reading, procs>>

\* update, to disabled: whatever waits fails.
Disable(e) ==
    /\ standing[e] \notin {"manual", "deleted"}
    /\ Unlocked(Waiting(e))
    /\ standing' = [standing EXCEPT ![e] = "manual"]
    /\ row' = Mark(row, Waiting(e), "failed")
    /\ Code(Waiting(e), "other")
    /\ KeepClock
    /\ UNCHANGED <<attempts, due, claim, failures, aged, subscribed, departed, reading,
                   procs, posts>>

\* update of the event types; a dropped type fails what waits.
Subscribe(e, wanted) ==
    /\ standing[e] # "deleted"
    /\ subscribed[e] # wanted
    /\ LET S == IF wanted THEN {} ELSE Waiting(e)
       IN  Unlocked(S) /\ row' = Mark(row, S, "failed") /\ Code(S, "dropped")
    /\ subscribed' = [subscribed EXCEPT ![e] = wanted]
    /\ KeepClock
    /\ UNCHANGED <<attempts, due, claim, standing, failures, aged, departed, reading,
                   procs, posts>>

\* update of the URL starts a clean failure record.
ChangeUrl(e) ==
    /\ standing[e] # "deleted"
    /\ failures[e] > 0
    /\ failures' = [failures EXCEPT ![e] = 0]
    /\ aged' = [aged EXCEPT ![e] = FALSE]
    /\ UNCHANGED <<rows, standing, subscribed, departed, reading, procs, posts>>

Remove(e) ==
    /\ standing[e] # "deleted"
    /\ Unlocked(Waiting(e))
    /\ standing' = [standing EXCEPT ![e] = "deleted"]
    /\ row' = Mark(row, Waiting(e), "failed")
    /\ Code(Waiting(e), "dropped")
    /\ KeepClock
    /\ UNCHANGED <<attempts, due, claim, failures, aged, subscribed, departed, reading,
                   procs, posts>>

\* A final delivery starts again; the limiter of manual sends may refuse.
Redeliver(d) ==
    /\ standing[d[2]] = "active"
    /\ row[d] \in Final
    /\ row' = [row EXCEPT ![d] = "pending"]
    /\ Restart({d})
    /\ UNCHANGED <<code, claim, endpoints, reading, procs>>

\* Every failed delivery since event m, or the expired ones only.
BulkRedeliver(e, m, expired) ==
    LET S == {d \in Of(e) : /\ row[d] = "failed" /\ d[1] >= m
                            /\ IF expired THEN code[d] = "expired" ELSE code[d] # "dropped"}
    IN  /\ standing[e] = "active"
        /\ S # {}
        /\ row' = Mark(row, S, "pending")
        /\ Restart(S)
        /\ UNCHANGED <<code, claim, endpoints, reading, procs>>

-----------------------------------------------------------------------------
(* The clients module and the clock. *)

Depart == departed' = ~ departed /\ UNCHANGED <<rows, standing, failures, aged, subscribed,
                                                reading, procs, posts>>

BackoffElapses(d) ==
    /\ row[d] = "pending" /\ ~ due[d]
    /\ due' = [due EXCEPT ![d] = TRUE]
    /\ UNCHANGED <<row, attempts, old, code, claim, endpoints, reading, procs, posts>>

Age(d) ==
    /\ row[d] \in {"pending", "sending"} /\ ~ old[d]
    /\ old' = [old EXCEPT ![d] = TRUE]
    /\ UNCHANGED <<row, attempts, due, code, claim, endpoints, reading, procs, posts>>

FailingAges(e) ==
    /\ standing[e] = "active" /\ failures[e] > 0 /\ ~ aged[e]
    /\ aged' = [aged EXCEPT ![e] = TRUE]
    /\ UNCHANGED <<rows, standing, failures, subscribed, departed, reading, procs, posts>>

-----------------------------------------------------------------------------
\* No delivery yet; earlier ones, gone since, may have left failures behind.
Init ==
    /\ row = [d \in Deliveries |-> "none"]
    /\ attempts = [d \in Deliveries |-> 0]
    /\ due = [d \in Deliveries |-> TRUE]
    /\ old = [d \in Deliveries |-> FALSE]
    /\ code = [d \in Deliveries |-> "other"]
    /\ claim = [d \in Deliveries |-> None]
    /\ standing \in [Endpoints -> {"active", "failing"}]
    /\ failures \in [Endpoints -> 0 .. DisableAfter]
    /\ aged \in [Endpoints -> BOOLEAN]
    /\ \A e \in Endpoints :
          /\ aged[e] => failures[e] > 0
          /\ standing[e] = "failing" => failures[e] = DisableAfter /\ aged[e]
    /\ subscribed = [e \in Endpoints |-> TRUE]
    /\ departed = FALSE
    /\ reading = [m \in Events |-> {}]
    /\ picked = [p \in Senders |-> {}]
    /\ view = [p \in Senders |-> Unseen]
    /\ task = [p \in Senders |-> [d \in Deliveries |-> "none"]]
    /\ commands = 0
    /\ posts = [d \in Deliveries |-> 0]

Send(p, d) ==
    \/ Release(p, d) \/ SendRead(p, d) \/ SendSettle(p, d) \/ SendConfig(p, d)
    \/ (\E o \in Outcomes : Post(p, d, o)) \/ WriteOutcome(p, d)

SenderStep(p) ==
    \/ \E S \in SUBSET Deliveries : ClaimRead(p, S)
    \/ ClaimWrite(p) \/ Crash(p)
    \/ \E d \in Deliveries : Send(p, d)

SweepStep ==
    \/ \E d \in Deliveries : SweepStale(d)
    \/ \E e \in Endpoints : SweepExpire(e) \/ \E S \in SUBSET Of(e) : SweepHeld(e, S)
    \/ SweepDeparted

ClockStep ==
    \/ \E d \in Deliveries : BackoffElapses(d) \/ Age(d)
    \/ \E e \in Endpoints : FailingAges(e)

Command ==
    \/ \E e \in Endpoints :
          \/ Disable(e) \/ ChangeUrl(e) \/ Remove(e)
          \/ \E b \in BOOLEAN : Enable(e, b) \/ Subscribe(e, b)
          \/ \E m \in Events, b \in BOOLEAN : BulkRedeliver(e, m, b)
    \/ \E d \in Deliveries : Redeliver(d)
    \/ Depart

Next ==
    \/ /\ \/ \E m \in Events : EnqueueRead(m) \/ EnqueueInsert(m) \/ EnqueueFails(m)
          \/ \E p \in Senders : SenderStep(p)
          \/ SweepStep \/ ClockStep
       /\ UNCHANGED commands
    \/ /\ commands < MaxCommands
       /\ Command
       /\ commands' = commands + 1

Spec == Init /\ [][Next]_vars

\* The sweeps run, the clock runs and a claim's transaction ends; nothing
\* makes a send go on, a receiver answer or a process stay up.
Fairness ==
    /\ \A d \in Deliveries : /\ WF_vars(SweepStale(d) /\ UNCHANGED commands)
                             /\ WF_vars(Age(d) /\ UNCHANGED commands)
    /\ \A e \in Endpoints : SF_vars(SweepExpire(e) /\ UNCHANGED commands)
    /\ \A p \in Senders : WF_vars(ClaimWrite(p) /\ UNCHANGED commands)

LiveSpec == Spec /\ Fairness

-----------------------------------------------------------------------------
(* Properties. *)

Phases == {"none", "claimed", "post", "config"} \cup Inactive \cup Outcomes

\* Every variable has its type; a row never counts more attempts than it has.
TypeOK ==
    /\ row \in [Deliveries -> {"none", "pending", "sending", "held"} \cup Final]
    /\ attempts \in [Deliveries -> 0 .. MaxAttempts]
    /\ due \in [Deliveries -> BOOLEAN] /\ old \in [Deliveries -> BOOLEAN]
    /\ code \in [Deliveries -> {"other", "secret", "expired", "dropped"}]
    /\ claim \in [Deliveries -> Senders \cup {None}]
    /\ standing \in [Endpoints -> {"active"} \cup Inactive]
    /\ failures \in [Endpoints -> 0 .. DisableAfter]
    /\ aged \in [Endpoints -> BOOLEAN] /\ subscribed \in [Endpoints -> BOOLEAN]
    /\ departed \in BOOLEAN
    /\ reading \in [Events -> SUBSET (Endpoints \X {"active", "failing"})]
    /\ picked \in [Senders -> SUBSET Deliveries]
    /\ view \in [Senders -> [Endpoints -> {"active", "unsubscribed"} \cup Inactive]]
    /\ task \in [Senders -> [Deliveries -> Phases]]
    /\ commands \in 0 .. MaxCommands
    /\ posts \in [Deliveries -> Int]

\* "at most two `sending` per endpoint across ticks and processes" (claim).
InFlightCapped == \A e \in Endpoints : Cardinality(Sending(e)) <= MaxInFlight

\* No POST goes uncounted, and a row never counts more than MaxAttempts: of
\* every POST ever made of a delivery, those of processes that stalled past
\* the stale bound and came back after another claim or a redelivery included,
\* an attempt was counted, before a reset or since, but for the one that the
\* claim in force may still make; and that one is within MaxAttempts.
Counted(d) == attempts[d] + IF row[d] = "sending" THEN 1 ELSE 0
PostsBounded ==
    \A d \in Deliveries : posts[d] <= Counted(d) /\ Counted(d) <= MaxAttempts

\* Every delivery that waits is settled in the end: it succeeds, fails, or is
\* held for the endpoint's next enabling.
DeliveriesSettle ==
    \A d \in Deliveries : row[d] = "pending" ~> row[d] \in Final \cup {"held"}
=============================================================================
