------------------------------- MODULE Ledger -------------------------------
(***************************************************************************)
(* The stock ledger of one warehouse and one SKU, and the reconciliation   *)
(* of its projections: modules/inventory/ledger.service.ts and             *)
(* reconcile.ts.  The append-only events are the truth; stock_on_hand and  *)
(* batch_on_hand are folds of them, written in the event's own transaction *)
(* and repaired when an out-of-band write makes them diverge.              *)
(*                                                                         *)
(* A bucket is one projection row: <<bin, Plain>> of stock_on_hand, or     *)
(* <<bin, batch>> of batch_on_hand.  Appends and repairs run under the     *)
(* warehouse's advisory lock, in two steps here: the reads behind the lock *)
(* and the commit.  Detection reads and writes in one repeatable-read      *)
(* snapshot whose conflicting writes fail, hence in one step.              *)
(***************************************************************************)
EXTENDS UnitSums

CONSTANTS Writers,        \* transactions that append movements
          Workers,        \* processes that run reconciliation cycles
          Operators,      \* callers of rebuildProjections
          Bins, NoBin,    \* bins; the bin of an absent arm
          Batches, Plain, \* batches; the batch of a movement without one
          MaxQty,         \* largest quantity of one movement
          MaxSeq,         \* longest ledger
          FullPassEvery,  \* RECONCILE_FULL_PASS_EVERY
          Corruptions,    \* what an out-of-band write may leave in a row
          Jumps,          \* how far beyond the head a checkpoint may be corrupted
          MaxFaults,      \* out-of-band writes, crashes and failed repairs
          Free            \* nobody holds the lock

ASSUME LedgerAssumption ==
    /\ NoBin \notin Bins /\ Plain \notin Batches
    /\ Writers \cap (Workers \cup Operators) = {} /\ Workers \cap Operators = {}
    /\ Free \notin Writers \cup Workers \cup Operators
    /\ MaxQty \in Nat \ {0} /\ MaxSeq \in Nat /\ MaxFaults \in Nat
    /\ FullPassEvery \in Nat \ {0}
    /\ Jumps \subseteq Nat \ {0}
    /\ -1 \in Corruptions /\ Corruptions \subseteq Nat \cup {-1}

Missing == -1                    \* the row does not exist
CheckpointInvalidLimit == 2

Arms == Batches \cup {Plain}
Buckets == Bins \X Arms
Seqs == 1 .. MaxSeq
Repairers == Workers \cup Operators
Movements == [from : Bins \cup {NoBin}, to : Bins \cup {NoBin},
              batch : Arms, qty : 0 .. MaxQty]
NoMovement == [from |-> NoBin, to |-> NoBin, batch |-> Plain, qty |-> 0]

VARIABLES
    head,       \* seq of the newest ledger event
    event,      \* ledger_events by seq
    onHand,     \* quantity of each bucket's row
    epoch,      \* bin_state_epochs
    lock,       \* holder of the warehouse's advisory lock
    move,       \* the movement each writer appends
    seq,        \* the seq it read for it, 0 outside a transaction
    last,       \* reconciliation_checkpoints.last_seq
    invalid,    \* .invalid_attempts
    count,      \* .incremental_count
    memory,     \* .last_divergences
    at,         \* where each worker stands in its cycle
    bins,       \* the bins its detection flagged
    repeat,     \* those of them the checkpoint remembered
    base,       \* the last_seq it compared from
    passes,     \* the incremental_count it will write
    fold,       \* the head its repair folded to
    quarantined,\* bins with an open quarantine
    alerted,    \* bins a reconciliation.divergence alert has named
    tainted,    \* ghost: buckets written out of band and not rebuilt since
    hits,       \* ghost: out-of-band writes to each bin
    faults      \* faults so far

ledger     == <<head, event, onHand, epoch>>
appending  == <<move, seq>>
checkpoint == <<last, invalid, count, memory>>
cycle      == <<at, bins, repeat, base, passes, fold>>
outcome    == <<quarantined, alerted>>
ghosts     == <<tainted, hits, faults>>
vars == <<ledger, lock, appending, checkpoint, cycle, outcome, ghosts>>

-----------------------------------------------------------------------------
(* The fold. *)

ArmsOf(m) == {Plain, m.batch}
Receives(m, k) == k[1] = m.to /\ k[2] \in ArmsOf(m)
Releases(m, k) == k[1] = m.from /\ k[2] \in ArmsOf(m)

Quantity == [s \in Seqs |-> event[s].qty]
In(k, n)  == {s \in 1 .. n : Receives(event[s], k)}
Out(k, n) == {s \in 1 .. n : Releases(event[s], k)}

Replayed(k, n)  == Total(In(k, n), Quantity) - Total(Out(k, n), Quantity)
Supported(k, n) == In(k, n) \cup Out(k, n) # {}

\* A row equals its fold, and a bucket with events has a row.
Agrees(k) == IF onHand[k] = Missing THEN ~ Supported(k, head)
                                    ELSE onHand[k] = Replayed(k, head)

Last == IF last = Missing THEN 0 ELSE last
FullPass == Last = 0 \/ count >= FullPassEvery
\* Mutant: only a missing checkpoint resets the counter.
NextCount_NoReset == IF Last = 0 THEN 0 ELSE count + 1

NextCount == IF FullPass THEN 0 ELSE count + 1
TouchedAfter(k, n) ==
    \E s \in (n + 1) .. head : Receives(event[s], k) \/ Releases(event[s], k)

\* Mutant: the bounded scan's window starts one event late.
Window_OffByOne == IF FullPass THEN Buckets ELSE {k \in Buckets : TouchedAfter(k, Last + 1)}

Window == IF FullPass THEN Buckets ELSE {k \in Buckets : TouchedAfter(k, Last)}

Divergent(W) == {b \in Bins : \E a \in Arms : <<b, a>> \in W /\ ~ Agrees(<<b, a>>)}

-----------------------------------------------------------------------------
(* appendMovement. *)

Held(k) == IF onHand[k] = Missing THEN 0 ELSE onHand[k]

\* addToOnHand's upsert: insert greatest(delta, 0), or add the delta.
Folded(m, k) ==
    IF Receives(m, k) THEN Held(k) + m.qty
    ELSE IF ~ Releases(m, k) THEN onHand[k]
    ELSE IF onHand[k] = Missing THEN 0 ELSE onHand[k] - m.qty

\* Each fold of an arm bumps the bin's epoch.
Bumps(m) == IF m.batch = Plain THEN 1 ELSE 2

Acquire(p) == lock = Free /\ lock' = p
Release(p) == lock' = IF lock = p THEN Free ELSE lock

\* Under the lock: the head, and the over-draw guards.
AppendBegin(w, m) ==
    /\ seq[w] = 0
    /\ Acquire(w)
    /\ m.qty > 0 /\ m.from # m.to
    /\ head < MaxSeq
    /\ \A k \in Buckets : Releases(m, k) => Held(k) >= m.qty
    /\ move' = [move EXCEPT ![w] = m]
    /\ seq' = [seq EXCEPT ![w] = head + 1]
    /\ UNCHANGED <<ledger, checkpoint, cycle, outcome, ghosts>>

EndAppend(w) ==
    /\ Release(w)
    /\ move' = [move EXCEPT ![w] = NoMovement]
    /\ seq' = [seq EXCEPT ![w] = 0]

\* The event, both folds and the epochs commit together.  The unique index
\* refuses a taken seq, the CHECK a negative row.
AppendCommit(w) ==
    /\ seq[w] > head
    /\ \A k \in Buckets : Releases(move[w], k) => Folded(move[w], k) >= 0
    /\ head' = seq[w]
    /\ event' = [event EXCEPT ![seq[w]] = move[w]]
    /\ onHand' = [k \in Buckets |-> Folded(move[w], k)]
    /\ epoch' = [b \in Bins |-> IF b \in {move[w].from, move[w].to}
                                THEN epoch[b] + Bumps(move[w]) ELSE epoch[b]]
    /\ EndAppend(w)
    /\ UNCHANGED <<checkpoint, cycle, outcome, ghosts>>

\* The transaction rolls back: a later failure of its caller, the CHECK, a crash.
AppendAbort(w) ==
    /\ seq[w] # 0
    /\ EndAppend(w)
    /\ UNCHANGED <<ledger, checkpoint, cycle, outcome, ghosts>>

-----------------------------------------------------------------------------
(* ReconciliationService: pick, detect, repair. *)

\* The partition has unverified events, an impossible checkpoint, or is owed
\* a full pass.
Pending == head > 0 /\ (head > Last \/ last > head \/ count >= FullPassEvery)

Goto(w, where) == at' = [at EXCEPT ![w] = where]

Forget(w) ==
    /\ Goto(w, "idle")
    /\ bins' = [bins EXCEPT ![w] = {}]
    /\ repeat' = [repeat EXCEPT ![w] = {}]
    /\ base' = [base EXCEPT ![w] = 0]
    /\ passes' = [passes EXCEPT ![w] = 0]
    /\ fold' = [fold EXCEPT ![w] = 0]

\* What detection hands to the repair.
Flag(w, D, R, from, n) ==
    /\ Goto(w, "flagged")
    /\ bins' = [bins EXCEPT ![w] = D]
    /\ repeat' = [repeat EXCEPT ![w] = R]
    /\ base' = [base EXCEPT ![w] = from]
    /\ passes' = [passes EXCEPT ![w] = n]
    /\ UNCHANGED fold

\* The upsert of a clean pass.
Advance(n) ==
    /\ last' = head
    /\ invalid' = 0
    /\ count' = n
    /\ memory' = {}

\* The failure path inserts an empty checkpoint where there is none.
Requeue == last' = Last /\ UNCHANGED <<invalid, count, memory>>

Pick(w) ==
    /\ at[w] = "idle"
    /\ Pending
    /\ Goto(w, "picked")
    /\ UNCHANGED <<ledger, lock, appending, checkpoint, bins, repeat, base, passes, fold,
                   outcome, ghosts>>

\* An idle tick: every partition is verified through its head.
Idle(w) == at[w] = "idle" /\ ~ Pending /\ UNCHANGED vars

\* A first invalid checkpoint: the pass is skipped.
DetectSkip(w) ==
    /\ at[w] = "picked"
    /\ last > head
    /\ invalid + 1 < CheckpointInvalidLimit
    /\ invalid' = invalid + 1
    /\ Forget(w)
    /\ UNCHANGED <<ledger, lock, appending, last, count, memory, outcome, ghosts>>

\* A second one: the checkpoint is discarded and the whole ledger replayed.
DetectDiscard(w) ==
    /\ at[w] = "picked"
    /\ last > head
    /\ invalid + 1 >= CheckpointInvalidLimit
    /\ \/ /\ Divergent(Buckets) = {}
          /\ Advance(0)
          /\ Forget(w)
       \/ /\ Divergent(Buckets) # {}
          /\ last' = Missing /\ invalid' = 0 /\ count' = 0 /\ memory' = {}
          /\ Flag(w, Divergent(Buckets), {}, 0, 0)
    /\ UNCHANGED <<ledger, lock, appending, outcome, ghosts>>

DetectClean(w) ==
    /\ at[w] = "picked"
    /\ last <= head
    /\ Divergent(Window) = {}
    /\ Advance(NextCount)
    /\ Forget(w)
    /\ UNCHANGED <<ledger, lock, appending, outcome, ghosts>>

\* Mutant: detection already writes the divergences to the checkpoint.
DetectDivergent_Remembers(w) ==
    /\ at[w] = "picked"
    /\ last <= head
    /\ Divergent(Window) # {}
    /\ Flag(w, Divergent(Window), Divergent(Window) \cap memory, Last, NextCount)
    /\ last' = Last /\ memory' = Divergent(Window)
    /\ UNCHANGED <<ledger, lock, appending, invalid, count, outcome, ghosts>>

DetectDivergent(w) ==
    /\ at[w] = "picked"
    /\ last <= head
    /\ Divergent(Window) # {}
    /\ Flag(w, Divergent(Window), Divergent(Window) \cap memory, Last, NextCount)
    /\ UNCHANGED <<ledger, lock, appending, checkpoint, outcome, ghosts>>

\* Mutant: the repair folds without the warehouse's lock.
RepairFold_NoLock(w) ==
    /\ at[w] = "flagged"
    /\ Goto(w, "folded")
    /\ fold' = [fold EXCEPT ![w] = head]
    /\ UNCHANGED <<ledger, lock, appending, checkpoint, bins, repeat, base, passes, outcome, ghosts>>

\* The repair's transaction: the lock, then a fresh fold of the ledger.
RepairFold(w) ==
    /\ at[w] = "flagged"
    /\ Acquire(w)
    /\ Goto(w, "folded")
    /\ fold' = [fold EXCEPT ![w] = head]
    /\ UNCHANGED <<ledger, appending, checkpoint, bins, repeat, base, passes, outcome, ghosts>>

\* What rebuildProjectionsInTx leaves in a bucket of the bins it was given.
Rebuilt(B, k, n) ==
    IF k[1] \notin B THEN onHand[k]
    ELSE IF Supported(k, n) THEN Replayed(k, n) ELSE Missing

\* The CHECK on both tables refuses a negative quantity.
Writable(B, n) ==
    \A k \in Buckets : k[1] \in B /\ Supported(k, n) => Replayed(k, n) >= 0

\* Mutant: only appends move a bin's epoch.
Rebuild_NoEpoch(B, n) ==
    /\ Writable(B, n)
    /\ onHand' = [k \in Buckets |-> Rebuilt(B, k, n)]
    /\ tainted' = {k \in tainted : k[1] \notin B}
    /\ alerted' = alerted \cup B
    /\ UNCHANGED <<head, event, epoch, hits, faults>>

\* rebuildProjectionsInTx with the alert of its transaction.
Rebuild(B, n) ==
    /\ Writable(B, n)
    /\ onHand' = [k \in Buckets |-> Rebuilt(B, k, n)]
    /\ epoch' = [b \in Bins |-> IF \E a \in Arms : Rebuilt(B, <<b, a>>, n) # onHand[<<b, a>>]
                                THEN epoch[b] + 1 ELSE epoch[b]]
    /\ tainted' = {k \in tainted : k[1] \notin B}
    /\ alerted' = alerted \cup B
    /\ UNCHANGED <<head, event, hits, faults>>

\* Quarantine the repeats, rebuild, alert, remember; last_seq only if the
\* checkpoint is new.
RepairCommit(w) ==
    /\ at[w] = "folded"
    /\ Rebuild(bins[w], fold[w])
    /\ quarantined' = quarantined \cup repeat[w]
    /\ last' = IF last = Missing THEN base[w] ELSE last
    /\ invalid' = 0
    /\ count' = passes[w]
    /\ memory' = bins[w]
    /\ Forget(w)
    /\ Release(w)
    /\ UNCHANGED appending

\* The operator's rebuildProjections: replay and rebuild in one locked transaction.
OperatorFold(w, scope) ==
    /\ at[w] = "idle"
    /\ Divergent(Buckets) \cap scope # {}
    /\ Acquire(w)
    /\ Goto(w, "operator")
    /\ bins' = [bins EXCEPT ![w] = Divergent(Buckets) \cap scope]
    /\ fold' = [fold EXCEPT ![w] = head]
    /\ UNCHANGED <<ledger, appending, checkpoint, repeat, base, passes, outcome, ghosts>>

OperatorCommit(w) ==
    /\ at[w] = "operator"
    /\ Rebuild(bins[w], fold[w])
    /\ Forget(w)
    /\ Release(w)
    /\ UNCHANGED <<appending, checkpoint, quarantined>>

\* The CHECK rolls the whole repair back, its alert included.
RepairRefused(w) ==
    /\ at[w] \in {"folded", "operator"}
    /\ ~ Writable(bins[w], fold[w])
    /\ IF at[w] = "folded" THEN Requeue ELSE UNCHANGED checkpoint
    /\ Forget(w)
    /\ Release(w)
    /\ UNCHANGED <<ledger, appending, outcome, ghosts>>

-----------------------------------------------------------------------------
(* Faults. *)

Fault == faults < MaxFaults /\ faults' = faults + 1

\* A cycle or a rebuild stops half-way: the process dies, or a statement
\* fails and the failure path runs.
CycleFails(w) ==
    /\ Fault
    /\ at[w] # "idle"
    /\ \/ UNCHANGED checkpoint
       \/ at[w] # "operator" /\ Requeue
    /\ Forget(w)
    /\ Release(w)
    /\ UNCHANGED <<ledger, appending, outcome, tainted, hits>>

\* A projection row is written or deleted by something other than the ledger.
CorruptRow(k, v) ==
    /\ Fault
    /\ onHand[k] # v
    /\ onHand' = [onHand EXCEPT ![k] = v]
    /\ tainted' = tainted \cup {k}
    /\ hits' = [hits EXCEPT ![k[1]] = @ + 1]
    /\ UNCHANGED <<head, event, epoch, lock, appending, checkpoint, cycle, outcome>>

CorruptCheckpoint(n) ==
    /\ Fault
    /\ last # Missing
    /\ last' = head + n
    /\ UNCHANGED <<ledger, lock, appending, invalid, count, memory, cycle, outcome,
                   tainted, hits>>

-----------------------------------------------------------------------------
Init ==
    /\ head = 0
    /\ event = [s \in Seqs |-> NoMovement]
    /\ onHand = [k \in Buckets |-> Missing]
    /\ epoch = [b \in Bins |-> 0]
    /\ lock = Free
    /\ move = [w \in Writers |-> NoMovement]
    /\ seq = [w \in Writers |-> 0]
    /\ last = Missing /\ invalid = 0 /\ count = 0 /\ memory = {}
    /\ at = [w \in Repairers |-> "idle"]
    /\ bins = [w \in Repairers |-> {}]
    /\ repeat = [w \in Repairers |-> {}]
    /\ base = [w \in Repairers |-> 0]
    /\ passes = [w \in Repairers |-> 0]
    /\ fold = [w \in Repairers |-> 0]
    /\ quarantined = {} /\ alerted = {}
    /\ tainted = {}
    /\ hits = [b \in Bins |-> 0]
    /\ faults = 0

WriterStep(w) ==
    \/ \E m \in Movements : AppendBegin(w, m)
    \/ AppendCommit(w)
    \/ AppendAbort(w)

\* One worker's cycle up to the repair's transaction.
DetectStep(w) ==
    \/ Pick(w)
    \/ Idle(w)
    \/ DetectSkip(w)
    \/ DetectDiscard(w)
    \/ DetectClean(w)
    \/ DetectDivergent(w)

RepairStep(w) ==
    \/ RepairCommit(w)
    \/ OperatorCommit(w)
    \/ RepairRefused(w)

Next ==
    \/ \E w \in Writers : WriterStep(w)
    \/ \E w \in Workers : DetectStep(w) \/ RepairFold(w)
    \/ \E w \in Operators, scope \in {Bins} \cup {{b} : b \in Bins} : OperatorFold(w, scope)
    \/ \E w \in Repairers : RepairStep(w) \/ CycleFails(w)
    \/ \E k \in Buckets, v \in Corruptions : CorruptRow(k, v)
    \/ \E n \in Jumps : CorruptCheckpoint(n)

Spec == Init /\ [][Next]_vars

\* A transaction that has begun ends; a worker ticks and its cycle goes on;
\* the advisory lock's queue is first come, first served, so that a repair
\* waiting for a lock that is free again and again gets it.
Fairness ==
    /\ \A w \in Writers : WF_vars(AppendCommit(w) \/ AppendAbort(w))
    /\ \A w \in Workers : WF_vars(DetectStep(w)) /\ SF_vars(RepairFold(w))
    /\ \A w \in Repairers : WF_vars(RepairStep(w))

LiveSpec == Spec /\ Fairness

-----------------------------------------------------------------------------
(* Properties. *)

\* Every variable has its type: no row goes negative, whatever is rebuilt.
TypeOK ==
    /\ head \in 0 .. MaxSeq
    /\ event \in [Seqs -> Movements]
    /\ onHand \in [Buckets -> Nat \cup {Missing}]
    /\ epoch \in [Bins -> Nat]
    /\ lock \in Writers \cup Repairers \cup {Free}
    /\ move \in [Writers -> Movements]
    /\ seq \in [Writers -> 0 .. MaxSeq]
    /\ last \in Nat \cup {Missing}
    /\ invalid \in 0 .. CheckpointInvalidLimit - 1
    /\ count \in 0 .. FullPassEvery
    /\ memory \in SUBSET Bins
    /\ at \in [Repairers -> {"idle", "picked", "flagged", "folded", "operator"}]
    /\ bins \in [Repairers -> SUBSET Bins]
    /\ repeat \in [Repairers -> SUBSET Bins]
    /\ base \in [Repairers -> Nat]
    /\ passes \in [Repairers -> 0 .. FullPassEvery]
    /\ fold \in [Repairers -> 0 .. MaxSeq]
    /\ quarantined \in SUBSET Bins
    /\ alerted \in SUBSET Bins
    /\ tainted \in SUBSET Buckets
    /\ hits \in [Bins -> Nat]
    /\ faults \in 0 .. MaxFaults

\* Every projection row, plain or batch, is exactly the fold of the committed
\* events unless something outside the ledger wrote it and no rebuild has run
\* since: neither interleaved appends nor a rebuild that was detected long
\* before, with movements in between, may lose or double a unit.
ProjectionAgrees == \A k \in Buckets \ tainted : Agrees(k)

\* A bin is quarantined for repeated divergence only if it really relapsed:
\* something outside the ledger hit it at least twice.  Failed repairs, stale
\* detections of other workers and discarded checkpoints never add up to one.
QuarantineIsRelapse == \A b \in quarantined : hits[b] >= 2

\* Whenever the ledger or a rebuild changes what a bin holds, the bin's epoch
\* moves forward in the same commit, so that equal epochs mean equal contents.
ContentsMoveEpoch ==
    [][\A b \in Bins :
          hits'[b] = hits[b] /\ (\E a \in Arms : onHand'[<<b, a>>] # onHand[<<b, a>>])
          => epoch'[b] > epoch[b]]_vars

\* A divergent bucket with an event the checkpoint has not verified is
\* repaired in the end, whatever cycles fail or appends intervene.
TouchedRepaired ==
    \A k \in Buckets : (~ Agrees(k) /\ TouchedAfter(k, Last)) ~> Agrees(k)
=============================================================================
