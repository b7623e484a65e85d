----------------------------- MODULE Reservation -----------------------------
(***************************************************************************)
(* The reservation engine of one (tenant, warehouse, SKU) scope:           *)
(* modules/inventory/reservation.service.ts over two stores that share no  *)
(* transaction, the Postgres journal `reservations` (the truth) and the    *)
(* Valkey reserved counter with its ready marker (the mirror that decides).*)
(*                                                                         *)
(* A client is one request (a grant, a release, a dispatch, the reaper's   *)
(* expiry, an ATP read); its pc is where it stands between the two stores. *)
(* Each Postgres transaction and each Valkey command is one atomic step.   *)
(***************************************************************************)
EXTENDS UnitSums

CONSTANTS Clients,      \* concurrent requests
          Instances,    \* application processes, each with its single-flight map
          Rows,         \* slots for live journal rows: a terminal row frees its slot
          Owners,       \* (owner_type, owner_id) scopes
          Standing,     \* the owners of type 'buffer', whose holds never expire
          MaxQty,       \* largest quantity one hold asks for
          MaxStock,     \* largest on-hand figure
          MaxBlocked,   \* largest blocked figure
          MaxFaults,    \* crashes, lost replies, flushes and evictions in a run
          NoOwner       \* the owner of no hold (an ATP read, an unused row)

ASSUME ReservationAssumption ==
    /\ IsFiniteSet(Clients) /\ IsFiniteSet(Rows) /\ IsFiniteSet(Instances)
    /\ Clients \cap Instances = {}
    /\ Standing \subseteq Owners
    /\ NoOwner \notin Owners
    /\ MaxQty \in Nat \ {0} /\ MaxStock \in Nat /\ MaxBlocked \in Nat
    /\ MaxFaults \in Nat

Missing == -1           \* the counter key does not exist
NotReading == -1        \* no parity pass between its two reads

VARIABLES
    stock,      \* on-hand units in the scope's lockable stock_on_hand rows
    blocked,    \* units the ceiling excludes without touching those rows
    state,      \* reservations.state of each live row, else "closed"
    quantity,   \* reservations.quantity
    owner,      \* reservations.owner_type/owner_id
    counter,    \* the Valkey reserved counter
    ready,      \* the warehouse's ready marker
    pc,         \* where each client stands
    qty,        \* units the client moves
    asOwner,    \* owner scope the client grants for
    ceil,       \* the ceiling the client last read
    snap,       \* journal sum a client's heal or an instance's rebuild last read
    clean,      \* ghost: no client was between the stores since that read
    rpc,        \* where each instance's rebuild stands
    parity,     \* the journal sum an instance's parity pass compares
    drift,      \* ghost: what is known of counter against journal
    faults      \* faults so far

journal == <<stock, blocked, state, quantity, owner>>
store   == <<counter, ready>>
client  == <<pc, qty, asOwner, ceil>>
repair  == <<snap, clean, rpc, parity>>
vars    == <<journal, store, client, repair, drift, faults>>

Live == {r \in Rows : state[r] \in {"held", "committed"}}
Reserved == Total(Live, quantity)

Between == {"won", "insert", "undo", "restore"}
Busy == {c \in Clients : pc[c] \in Between}
InFlight == Total(Busy, qty)

Ceiling == IF stock > blocked THEN stock - blocked ELSE 0
OpenHold(o) == \E r \in Rows : state[r] = "held" /\ owner[r] = o
LockFree == \A c \in Clients : pc[c] # "insert"

-----------------------------------------------------------------------------
(* What the steps share. *)

Goto(c, where) == pc' = [pc EXCEPT ![c] = where]

\* The request answers; its locals are gone.
Answer(c) ==
    /\ Goto(c, "idle")
    /\ qty' = [qty EXCEPT ![c] = 0]
    /\ asOwner' = [asOwner EXCEPT ![c] = NoOwner]
    /\ ceil' = [ceil EXCEPT ![c] = 0]

\* The journal INSERT of a hold, and the terminal UPDATE of one: a released or
\* expired row is history that nothing below reads, so its slot is free.
InsertHeld(r, o, q) ==
    /\ state' = [state EXCEPT ![r] = "held"]
    /\ quantity' = [quantity EXCEPT ![r] = q]
    /\ owner' = [owner EXCEPT ![r] = o]

CloseRow(r) ==
    /\ state' = [state EXCEPT ![r] = "closed"]
    /\ quantity' = [quantity EXCEPT ![r] = 0]
    /\ owner' = [owner EXCEPT ![r] = NoOwner]

\* A client that starts to stand between the stores spoils every journal sum
\* that a rebuild or a heal has read and not yet written.
Straddle == clean' = [p \in Clients \cup Instances |-> FALSE]

\* Mutant: the journal sums leave out committed rows.
ReadJournal_HeldOnly(p) ==
    /\ snap' = [snap EXCEPT ![p] = Total({r \in Rows : state[r] = "held"}, quantity)]
    /\ clean' = [clean EXCEPT ![p] = (Busy = {})]

ReadJournal(p) ==
    /\ snap' = [snap EXCEPT ![p] = Reserved]
    /\ clean' = [clean EXCEPT ![p] = (Busy = {})]

\* A written sum is used up.
DropSnap(p) ==
    /\ snap' = [snap EXCEPT ![p] = 0]
    /\ clean' = [clean EXCEPT ![p] = FALSE]

\* A forced write leaves the counter as good as the sum it writes.
Forced(p) ==
    /\ counter' = snap[p]
    /\ drift' = IF clean[p] THEN "none" ELSE "unknown"

\* A unit that leaves a client without reaching the counter over-counts.
Leak == drift' = IF drift = "none" THEN "over" ELSE drift

\* Mutant: the release script without its floor.
ReleaseScript_NoFloor(q) ==
    counter' = IF counter = Missing THEN Missing ELSE counter - q

\* RESERVATION_RELEASE_SCRIPT: floored at zero, nothing on a missing counter.
ReleaseScript(q) ==
    counter' = IF counter = Missing THEN Missing
               ELSE IF counter - q < 0 THEN 0 ELSE counter - q

\* RESERVATION_GRANT_SCRIPT's winning arm.
ScriptWins(c) ==
    /\ ready /\ counter # Missing
    /\ counter + qty[c] <= ceil[c]

Fault ==
    /\ faults < MaxFaults
    /\ faults' = faults + 1

-----------------------------------------------------------------------------
(* grant: probe, script, locked re-validation, journal insert.             *)

\* The probe transaction: no open hold for the owner, the committed ceiling.
GrantProbe(c, o, q) ==
    /\ pc[c] = "idle"
    /\ ~OpenHold(o)
    /\ Goto(c, "script")
    /\ qty' = [qty EXCEPT ![c] = q]
    /\ asOwner' = [asOwner EXCEPT ![c] = o]
    /\ ceil' = [ceil EXCEPT ![c] = Ceiling]
    /\ UNCHANGED <<journal, store, repair, drift, faults>>

GrantWins(c) ==
    /\ pc[c] \in {"script", "retry"}
    /\ ScriptWins(c)
    /\ counter' = counter + qty[c]
    /\ Goto(c, "won")
    /\ Straddle
    /\ UNCHANGED <<journal, ready, qty, asOwner, ceil, snap, rpc, parity,
                   drift, faults>>

\* 'unavailable', or any refusal of the one retry: the 409, nothing written.
GrantLoses(c) ==
    /\ \/ pc[c] = "script" /\ ready /\ counter # Missing
       \/ pc[c] = "retry"
    /\ ~ScriptWins(c)
    /\ Answer(c)
    /\ UNCHANGED <<journal, store, repair, drift, faults>>

\* 'not-ready': ensureReady joins the instance's rebuild in flight or starts one
\* (a failed repair's backoff, a clock, may refuse); the grant fails closed.
GrantNotReady(c, i) ==
    /\ pc[c] = "script" /\ ~ready
    /\ Answer(c)
    /\ \/ rpc[i] = "idle" /\ rpc' = [rpc EXCEPT ![i] = "disarm"]
       \/ UNCHANGED rpc
    /\ UNCHANGED <<journal, store, snap, clean, parity, drift, faults>>

\* 'missing-counter': the grant heals the scope and retries once.
GrantMissing(c) ==
    /\ pc[c] = "script" /\ ready /\ counter = Missing
    /\ Goto(c, "healSum")
    /\ UNCHANGED <<journal, store, qty, asOwner, ceil, repair, drift, faults>>

\* An ATP read under a ready marker heals a missing counter the same way.
AtpMissing(c) ==
    /\ pc[c] = "idle" /\ ready /\ counter = Missing
    /\ Goto(c, "healSum")
    /\ UNCHANGED <<journal, store, qty, asOwner, ceil, repair, drift, faults>>

HealSum(c) ==
    /\ pc[c] = "healSum"
    /\ ReadJournal(c)
    /\ Goto(c, "healSet")
    /\ UNCHANGED <<journal, store, qty, asOwner, ceil, rpc, parity, drift, faults>>

\* SET NX: a counter that reappeared is kept.
HealSet(c) ==
    /\ pc[c] = "healSet"
    /\ IF counter = Missing THEN Forced(c) ELSE UNCHANGED <<counter, drift>>
    /\ DropSnap(c)
    /\ Goto(c, IF asOwner[c] = NoOwner THEN "idle" ELSE "retry")
    /\ UNCHANGED <<journal, ready, qty, asOwner, ceil, rpc, parity, faults>>

\* Mutant: the counter is compared with the probe's ceiling, not the locked one.
GrantCheck_ProbeCeiling(c) ==
    /\ pc[c] = "won" /\ LockFree
    /\ Goto(c, IF counter # Missing /\ counter <= ceil[c] THEN "insert" ELSE "undo")
    /\ UNCHANGED <<journal, store, qty, asOwner, ceil, repair, drift, faults>>

\* The journal transaction: stock rows FOR UPDATE, ceiling re-read, counter
\* read.  A shrunken ceiling or an unreadable counter compensates.
GrantCheck(c) ==
    /\ pc[c] = "won" /\ LockFree
    /\ ceil' = [ceil EXCEPT ![c] = Ceiling]
    /\ Goto(c, IF counter # Missing /\ counter <= Ceiling THEN "insert" ELSE "undo")
    /\ UNCHANGED <<journal, store, qty, asOwner, repair, drift, faults>>

\* The INSERT and its commit, which drops the row locks ...
GrantInsert(c, r) ==
    /\ pc[c] = "insert"
    /\ r \notin Live
    /\ ~OpenHold(asOwner[c])
    /\ InsertHeld(r, asOwner[c], qty[c])
    /\ Answer(c)
    /\ UNCHANGED <<stock, blocked, store, repair, drift, faults>>

\* ... unless a second open hold of the owner loses to
\* reservations_open_owner_scope_unique.
GrantDuplicate(c) ==
    /\ pc[c] = "insert"
    /\ OpenHold(asOwner[c])
    /\ Goto(c, "undo")
    /\ UNCHANGED <<journal, store, qty, asOwner, ceil, repair, drift, faults>>

\* compensate, restoreCounter, restoreReservedUnits: one release script call
\* after the journal has settled.
Mirror(c) ==
    /\ pc[c] \in {"undo", "restore"}
    /\ ReleaseScript(qty[c])
    /\ Answer(c)
    /\ UNCHANGED <<journal, ready, repair, drift, faults>>

-----------------------------------------------------------------------------
(* The terminal transitions.  Each is a conditional UPDATE in one journal  *)
(* transaction; the units then go back to the counter through Mirror.      *)

GiveBack(c, units) ==
    /\ pc[c] = "idle"
    /\ Goto(c, "restore")
    /\ qty' = [qty EXCEPT ![c] = units]
    /\ Straddle
    /\ UNCHANGED <<blocked, store, asOwner, ceil, snap, rpc, parity, drift, faults>>

Release(c, r) ==
    /\ state[r] = "held"
    /\ CloseRow(r)
    /\ GiveBack(c, quantity[r])
    /\ UNCHANGED stock

\* Dispatch takes a shipped hold off the counter.
RetireCommitted(c, r) ==
    /\ state[r] = "committed"
    /\ CloseRow(r)
    /\ GiveBack(c, quantity[r])
    /\ UNCHANGED stock

\* The reaper: any live hold with a TTL may be past it.
ExpireDue(c, r) ==
    /\ r \in Live /\ owner[r] \notin Standing
    /\ CloseRow(r)
    /\ GiveBack(c, quantity[r])
    /\ UNCHANGED stock

Commit(r) ==
    /\ state[r] = "held"
    /\ state' = [state EXCEPT ![r] = "committed"]
    /\ UNCHANGED <<stock, blocked, quantity, owner, store, client, repair, drift, faults>>

\* A pick draws the units and settles their hold in one transaction; the
\* draw UPDATEs the stock rows, so it waits for a grant's row locks.
Pick(r) ==
    /\ state[r] = "held"
    /\ LockFree /\ stock >= quantity[r]
    /\ stock' = stock - quantity[r]
    /\ state' = [state EXCEPT ![r] = "committed"]
    /\ UNCHANGED <<blocked, quantity, owner, store, client, repair, drift, faults>>

\* A short pick draws what is there, releases the hold and re-grants (grantInTx)
\* what is still owed, less than the hold by what this slice and its siblings
\* drew, when the drawn-down ceiling covers it; one net restore.
Remainder(r, drawn, owed) ==
    LET free == stock - drawn - blocked
    IN  IF Total(Live \ {r}, quantity) + owed <= free THEN owed ELSE 0

\* Mutant: the whole hold goes back although its remainder is held again.
ShortPick_RestoresAll(c, r, drawn, owed) ==
    /\ state[r] = "held"
    /\ drawn + owed <= quantity[r] /\ drawn < quantity[r]
    /\ drawn <= stock /\ (drawn > 0 => LockFree)
    /\ stock' = stock - drawn
    /\ IF Remainder(r, drawn, owed) > 0
       THEN InsertHeld(r, owner[r], owed)
       ELSE CloseRow(r)
    /\ GiveBack(c, quantity[r])

ShortPick(c, r, drawn, owed) ==
    /\ state[r] = "held"
    /\ drawn + owed <= quantity[r] /\ drawn < quantity[r]
    /\ drawn <= stock /\ (drawn > 0 => LockFree)
    /\ stock' = stock - drawn
    /\ IF Remainder(r, drawn, owed) > 0
       THEN InsertHeld(r, owner[r], owed)
       ELSE CloseRow(r)
    /\ GiveBack(c, quantity[r] - Remainder(r, drawn, owed))

-----------------------------------------------------------------------------
(* Stock under the reservations. *)

\* Every other stock movement UPDATEs the rows a grant locks; only a receipt
\* into a new row need not wait.
MoveStock(n) ==
    /\ n < stock => LockFree
    /\ n # stock
    /\ stock' = n
    /\ UNCHANGED <<blocked, state, quantity, owner, store, client, repair, drift, faults>>

\* A quarantine, a batch or a bin block moves the ceiling under no stock row.
Block(n) ==
    /\ n # blocked
    /\ blocked' = n
    /\ UNCHANGED <<stock, state, quantity, owner, store, client, repair, drift, faults>>

-----------------------------------------------------------------------------
(* Parity and rebuild.                                                     *)

\* rebuildCounters: one flight per instance, joined by whoever asks.
RebuildStart(i) ==
    /\ rpc[i] = "idle"
    /\ rpc' = [rpc EXCEPT ![i] = "disarm"]
    /\ UNCHANGED <<journal, store, client, snap, clean, parity, drift, faults>>

RebuildDisarm(i) ==
    /\ rpc[i] = "disarm"
    /\ ready' = FALSE
    /\ rpc' = [rpc EXCEPT ![i] = "sum"]
    /\ UNCHANGED <<journal, counter, client, snap, clean, parity, drift, faults>>

\* Both journal reads of rebuildWarehouse: the seed and the correction pass.
\* The second skips a scope without live rows.
RebuildSum(i) ==
    /\ rpc[i] \in {"sum", "resum"}
    /\ IF rpc[i] = "resum" /\ Live = {}
       THEN rpc' = [rpc EXCEPT ![i] = "arm"] /\ UNCHANGED <<snap, clean>>
       ELSE /\ rpc' = [rpc EXCEPT ![i] = IF rpc[i] = "sum" THEN "set" ELSE "compare"]
            /\ ReadJournal(i)
    /\ UNCHANGED <<journal, store, client, parity, drift, faults>>

RebuildCompare(i) ==
    /\ rpc[i] = "compare"
    /\ IF counter < snap[i]
       THEN rpc' = [rpc EXCEPT ![i] = "fix"] /\ UNCHANGED <<snap, clean>>
       ELSE rpc' = [rpc EXCEPT ![i] = "arm"] /\ DropSnap(i)
    /\ UNCHANGED <<journal, store, client, parity, drift, faults>>

RebuildSet(i) ==
    /\ rpc[i] \in {"set", "fix"}
    /\ Forced(i)
    /\ DropSnap(i)
    /\ rpc' = [rpc EXCEPT ![i] = IF rpc[i] = "set" THEN "resum" ELSE "arm"]
    /\ UNCHANGED <<journal, ready, client, parity, faults>>

RebuildArm(i) ==
    /\ rpc[i] = "arm"
    /\ ready' = TRUE
    /\ rpc' = [rpc EXCEPT ![i] = "idle"]
    /\ UNCHANGED <<journal, counter, client, snap, clean, parity, drift, faults>>

\* A store that fails under the rebuild, or a crash, ends the flight, disarmed.
RebuildFail(i) ==
    /\ Fault
    /\ rpc[i] # "idle"
    /\ rpc' = [rpc EXCEPT ![i] = "idle"]
    /\ DropSnap(i)
    /\ UNCHANGED <<journal, store, client, parity, drift>>

\* parityPass reads the journal sums of the scopes that have live rows ...
ParityRead(i) ==
    /\ parity[i] = NotReading
    /\ Live # {}
    /\ parity' = [parity EXCEPT ![i] = Reserved]
    /\ UNCHANGED <<journal, store, client, snap, clean, rpc, drift, faults>>

\* Mutant: only a counter below the journal counts as divergent.
ParityCompare_UnderOnly(i) ==
    /\ parity[i] # NotReading
    /\ parity' = [parity EXCEPT ![i] = NotReading]
    /\ rpc' = IF counter < parity[i] /\ rpc[i] = "idle"
              THEN [rpc EXCEPT ![i] = "disarm"] ELSE rpc
    /\ UNCHANGED <<journal, store, client, snap, clean, drift, faults>>

\* ... and then each counter; a difference starts (or joins) a rebuild.
ParityCompare(i) ==
    /\ parity[i] # NotReading
    /\ parity' = [parity EXCEPT ![i] = NotReading]
    /\ rpc' = IF counter # parity[i] /\ rpc[i] = "idle"
              THEN [rpc EXCEPT ![i] = "disarm"] ELSE rpc
    /\ UNCHANGED <<journal, store, client, snap, clean, drift, faults>>

-----------------------------------------------------------------------------
(* Faults. *)

\* The journal transaction of a won grant fails: grant compensates.
JournalFails(c) ==
    /\ Fault
    /\ pc[c] \in {"won", "insert"}
    /\ Goto(c, "undo")
    /\ UNCHANGED <<journal, store, qty, asOwner, ceil, repair, drift>>

\* The INSERT commits but the connection dies before the answer: grant's catch
\* compensates a hold that stands.
CommitAckLost(c, r) ==
    /\ Fault
    /\ pc[c] = "insert"
    /\ r \notin Live
    /\ ~OpenHold(asOwner[c])
    /\ InsertHeld(r, asOwner[c], qty[c])
    /\ Goto(c, "undo")
    /\ drift' = "unknown"
    /\ UNCHANGED <<stock, blocked, store, qty, asOwner, ceil, repair>>

\* A crash, a lost reply, or a mirror call that cannot reach Valkey: the
\* client ends where it stands; its units stay on the counter.
Abandon(c) ==
    /\ Fault
    /\ pc[c] # "idle"
    /\ Answer(c)
    /\ DropSnap(c)
    /\ IF c \in Busy THEN Leak ELSE UNCHANGED drift
    /\ UNCHANGED <<journal, store, rpc, parity>>

\* The counter's TTL backstop or an eviction takes the key alone ...
Evict ==
    /\ Fault
    /\ counter # Missing
    /\ counter' = Missing
    /\ UNCHANGED <<journal, ready, client, repair, drift>>

\* ... and a Valkey restart takes the ready marker with it.
Flush ==
    /\ Fault
    /\ counter' = Missing
    /\ ready' = FALSE
    /\ UNCHANGED <<journal, client, repair, drift>>

-----------------------------------------------------------------------------
Init ==
    /\ stock \in 0 .. MaxStock
    /\ blocked = 0
    /\ state = [r \in Rows |-> "closed"]
    /\ quantity = [r \in Rows |-> 0]
    /\ owner = [r \in Rows |-> NoOwner]
    /\ counter = Missing
    /\ ready = FALSE
    /\ pc = [c \in Clients |-> "idle"]
    /\ qty = [c \in Clients |-> 0]
    /\ asOwner = [c \in Clients |-> NoOwner]
    /\ ceil = [c \in Clients |-> 0]
    /\ snap = [p \in Clients \cup Instances |-> 0]
    /\ clean = [p \in Clients \cup Instances |-> FALSE]
    /\ rpc = [i \in Instances |-> "disarm"]      \* onModuleInit
    /\ parity = [i \in Instances |-> NotReading]
    /\ drift = "none"
    /\ faults = 0

ClientStep(c) ==
    \/ \E o \in Owners, q \in 1 .. MaxQty : GrantProbe(c, o, q)
    \/ GrantWins(c) \/ GrantLoses(c) \/ GrantMissing(c)
    \/ \E i \in Instances : GrantNotReady(c, i)
    \/ AtpMissing(c) \/ HealSum(c) \/ HealSet(c)
    \/ GrantCheck(c)
    \/ GrantDuplicate(c) \/ \E r \in Rows : GrantInsert(c, r)
    \/ Mirror(c)
    \/ \E r \in Rows : Release(c, r) \/ RetireCommitted(c, r) \/ ExpireDue(c, r)
    \/ \E r \in Rows, drawn, owed \in 0 .. MaxQty : ShortPick(c, r, drawn, owed)
    \/ JournalFails(c) \/ Abandon(c)
    \/ \E r \in Rows : CommitAckLost(c, r)

RepairStep(i) ==
    \/ RebuildStart(i) \/ RebuildDisarm(i) \/ RebuildSum(i) \/ RebuildCompare(i)
    \/ RebuildSet(i) \/ RebuildArm(i) \/ RebuildFail(i)
    \/ ParityRead(i) \/ ParityCompare(i)

StockStep ==
    \/ \E r \in Rows : Commit(r) \/ Pick(r)
    \/ \E n \in 0 .. MaxStock : MoveStock(n)
    \/ \E n \in 0 .. MaxBlocked : Block(n)
    \/ Evict \/ Flush

Next ==
    \/ \E c \in Clients : ClientStep(c)
    \/ \E i \in Instances : RepairStep(i)
    \/ StockStep

Spec == Init /\ [][Next]_vars

\* A request that has started takes its next step; an instance's rebuild and
\* the reaper's parity pass go on.  Nothing makes a new request arrive.
Continue(c) ==
    \/ GrantWins(c) \/ GrantLoses(c) \/ GrantMissing(c)
    \/ \E i \in Instances : GrantNotReady(c, i)
    \/ HealSum(c) \/ HealSet(c)
    \/ GrantCheck(c)
    \/ GrantDuplicate(c) \/ \E r \in Rows : GrantInsert(c, r)
    \/ Mirror(c)

Rebuild(i) ==
    \/ RebuildDisarm(i) \/ RebuildSum(i) \/ RebuildCompare(i)
    \/ RebuildSet(i) \/ RebuildArm(i)

Fairness ==
    /\ \A c \in Clients : WF_vars(Continue(c))
    /\ \A i \in Instances : WF_vars(Rebuild(i)) /\ WF_vars(ParityRead(i))
                             /\ WF_vars(ParityCompare(i))

FairSpec == Spec /\ Fairness

-----------------------------------------------------------------------------
(* Properties. *)

States == {"closed", "held", "committed"}
ClientPcs == {"idle", "script", "healSum", "healSet", "retry"} \cup Between
RebuildPcs == {"idle", "disarm", "sum", "set", "resum", "compare", "fix", "arm"}

\* Every variable has its type.  The counter in particular is never negative
\* (the release script floors it) and a live row always reserves something.
TypeOK ==
    /\ stock \in Nat /\ blocked \in Nat
    /\ state \in [Rows -> States]
    /\ quantity \in [Rows -> Nat]
    /\ owner \in [Rows -> Owners \cup {NoOwner}]
    /\ counter \in Nat \cup {Missing}
    /\ ready \in BOOLEAN
    /\ pc \in [Clients -> ClientPcs]
    /\ qty \in [Clients -> Nat]
    /\ asOwner \in [Clients -> Owners \cup {NoOwner}]
    /\ ceil \in [Clients -> Nat]
    /\ snap \in [Clients \cup Instances -> Nat]
    /\ clean \in [Clients \cup Instances -> BOOLEAN]
    /\ rpc \in [Instances -> RebuildPcs]
    /\ parity \in [Instances -> Nat \cup {NotReading}]
    /\ drift \in {"none", "over", "unknown"}
    /\ faults \in Nat

\* The counter mirrors the journal.  With no unit lost on the way it is the
\* journal's live sum plus the units of the requests standing between the two
\* stores, exactly; crashes, lost replies and failed mirrors (`Abandon`) can
\* only leave it too high.  Only a rebuild or heal that writes a sum which some
\* request straddled, or a commit whose answer was lost, ends the guarantee,
\* and the next rebuild no request straddles restores it.
MirrorAgrees ==
    counter # Missing =>
        /\ drift = "none" => counter = Reserved + InFlight
        /\ drift = "over" => counter >= Reserved + InFlight

\* "Never oversells": under that guarantee a step that raises the reserved
\* total is a grant's insert, and the total it reaches is covered by the
\* ceiling it read under the stock-row locks, which the stock still covers.
NeverOversells ==
    [][drift # "unknown" /\ Reserved' > Reserved =>
         \E c \in Clients : /\ pc[c] = "insert"
                            /\ Reserved' <= ceil[c] /\ ceil[c] <= stock']_vars

\* parityPass repairs: once requests leave the stores alone, a scope with live
\* rows ends with its counter equal to the journal.
ParityRepairs == <>[](Busy = {} /\ Live # {}) => <>[](counter = Reserved)
=============================================================================
