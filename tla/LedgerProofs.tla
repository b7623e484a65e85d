---------------------------- MODULE LedgerProofs ----------------------------
(***************************************************************************)
(* Proofs about appendMovement and the replay behind it, for every value   *)
(* of the constants: for Ledger type correctness, exact projections and    *)
(* earned quarantines; for Serial, its serial arm, the chain of a unit.    *)
(***************************************************************************)
EXTENDS Ledger, Serial, UnitSumsProofs, FiniteSetTheorems, TLAPS

-----------------------------------------------------------------------------
(* The inductive invariant. *)

\* Whoever is between its reads and its commit holds the lock, and the ledger
\* has not grown since it read the head.
LockHeld ==
    /\ \A w \in Writers : seq[w] # 0 => lock = w /\ seq[w] = head + 1
    /\ \A w \in Repairers :
          at[w] \in {"folded", "operator"} => lock = w /\ fold[w] = head

\* A movement about to commit has two different arms, and the rows it draws
\* on still cover it unless they were written out of band.
MoveCovered ==
    \A w \in Writers : seq[w] # 0 =>
        /\ move[w].qty > 0 /\ move[w].from # move[w].to
        /\ \A k \in Buckets \ tainted : Releases(move[w], k) => Held(k) >= move[w].qty

\* How often a bin was hit, by what is known of it: a tainted or flagged bin
\* once, a remembered bin that is tainted again twice.
HitsCounted ==
    /\ \A k \in tainted : hits[k[1]] >= 1
    /\ \A b \in memory : hits[b] >= 1
    /\ \A k \in tainted : k[1] \in memory => hits[k[1]] >= 2
    /\ \A w \in Repairers : \A b \in bins[w] : hits[b] >= 1
    /\ \A w \in Repairers : \A b \in repeat[w] : hits[b] >= 2

\* The inductive invariant.
IInv == /\ TypeOK /\ LockHeld /\ MoveCovered /\ ProjectionAgrees
        /\ HitsCounted /\ QuarantineIsRelapse

-----------------------------------------------------------------------------
(* The fold. *)

\* The constants' facts the proofs use.
LEMMA Bounds ==
    /\ MaxSeq \in Nat /\ MaxQty \in Nat /\ MaxFaults \in Nat
    /\ FullPassEvery \in Nat /\ FullPassEvery > 0
    /\ NoBin \notin Bins /\ Plain \notin Batches /\ Plain \in Arms
    /\ Free \notin Writers /\ Free \notin Repairers
    /\ Writers \cap Repairers = {}
BY LedgerAssumption DEF Arms, Repairers

\* The events of a prefix of the ledger are finitely many, each with a quantity.
LEMMA PrefixFinite ==
    ASSUME TypeOK, NEW k, NEW n \in 0 .. MaxSeq
    PROVE  /\ IsFiniteSet(In(k, n)) /\ IsFiniteSet(Out(k, n))
           /\ In(k, n) \subseteq Seqs /\ Out(k, n) \subseteq Seqs
           /\ \A s \in Seqs : Quantity[s] \in Nat
<1>1. IsFiniteSet(1 .. n)
  BY Bounds, FS_Interval
<1>2. In(k, n) \subseteq 1 .. n /\ Out(k, n) \subseteq 1 .. n
  BY DEF In, Out
<1>3. 1 .. n \subseteq Seqs
  BY Bounds DEF Seqs
<1>4. ASSUME NEW s \in Seqs PROVE Quantity[s] \in Nat
  <2>1. event[s] \in Movements
    BY DEF TypeOK
  <2>2. event[s].qty \in 0 .. MaxQty
    BY <2>1 DEF Movements
  <2> QED
    BY <2>2, Bounds DEF Quantity
<1> QED
  BY <1>1, <1>2, <1>3, <1>4, FS_Subset

\* The replayed quantity of a bucket is an integer at every prefix of the log.
LEMMA ReplayedType ==
    ASSUME TypeOK, NEW k, NEW n \in 0 .. MaxSeq
    PROVE  Replayed(k, n) \in Int
<1>1. Total(In(k, n), Quantity) \in Nat
  BY PrefixFinite, TotalType
<1>2. Total(Out(k, n), Quantity) \in Nat
  BY PrefixFinite, TotalType
<1> QED
  BY <1>1, <1>2 DEF Replayed

\* What one appended event does to every bucket's fold.
LEMMA FoldStep ==
    ASSUME TypeOK, NEW m \in Movements, head + 1 \in Seqs, NEW k,
           head' = head + 1, event' = [event EXCEPT ![head + 1] = m]
    PROVE  /\ Replayed(k, head)' = Replayed(k, head)
                  + (IF Receives(m, k) THEN m.qty ELSE 0)
                  - (IF Releases(m, k) THEN m.qty ELSE 0)
           /\ Supported(k, head)' <=> Supported(k, head) \/ Receives(m, k) \/ Releases(m, k)
<1> DEFINE x == head + 1
           I == In(k, head)
           O == Out(k, head)
           J == In(k, head)'
           P == Out(k, head)'
           q == Quantity
           r == Quantity'
<1>a. m.qty \in Nat
  BY Bounds DEF Movements
<1>b. event \in [Seqs -> Movements]
  BY DEF TypeOK
<1>c. head \in 0 .. MaxSeq
  BY DEF TypeOK
<1>0. /\ head \in 0 .. MaxSeq /\ head \in Nat /\ x \notin 1 .. head /\ x \in Seqs
      /\ 1 .. x = (1 .. head) \cup {x} /\ m.qty \in Nat
      /\ 1 .. head \subseteq Seqs /\ event \in [Seqs -> Movements]
  BY <1>a, <1>b, <1>c, Bounds DEF Seqs
<1>1. /\ IsFiniteSet(I) /\ IsFiniteSet(O) /\ I \subseteq 1 .. head /\ O \subseteq 1 .. head
      /\ \A s \in Seqs : q[s] \in Nat
  BY <1>0, PrefixFinite DEF In, Out
<1>2. /\ event'[x] = m
      /\ \A s \in 1 .. head : event'[s] = event[s]
  BY <1>0
<1>3. /\ \A s \in 1 .. head : r[s] = q[s]
      /\ r[x] = m.qty
  BY <1>0, <1>2 DEF Quantity
<1>4. J = IF Receives(m, k) THEN I \cup {x} ELSE I
  <2>1. J = {s \in 1 .. x : Receives(event'[s], k)}
    BY DEF In, Receives, ArmsOf
  <2> QED
    BY <2>1, <1>0, <1>2 DEF In
<1>5. P = IF Releases(m, k) THEN O \cup {x} ELSE O
  <2>1. P = {s \in 1 .. x : Releases(event'[s], k)}
    BY DEF Out, Releases, ArmsOf
  <2> QED
    BY <2>1, <1>0, <1>2 DEF Out
<1>6. x \notin I /\ x \notin O
  BY <1>0, <1>1
<1>7. /\ Total(I, q) \in Nat
      /\ Total(J, r) = Total(I, q) + (IF Receives(m, k) THEN m.qty ELSE 0)
  <2>0. IsFiniteSet(I) /\ x \notin I
    BY <1>1, <1>6
  <2>1. \A s \in I : q[s] \in Nat
    BY <1>0, <1>1
  <2>2. \A s \in I : r[s] = q[s]
    BY <1>1, <1>3
  <2>3. \A s \in I \cup {x} : r[s] \in Nat
    BY <2>1, <2>2, <1>0, <1>3
  <2> HIDE DEF I, J, q, r, x
  <2>4. Total(I, q) \in Nat
    BY <2>0, <2>1, TotalType
  <2>5. Total(I, r) = Total(I, q)
    BY <2>2, TotalSame
  <2>6. Total(I \cup {x}, r) = Total(I, r) + r[x]
    BY <2>0, <2>3, TotalAdd
  <2> QED
    BY <2>4, <2>5, <2>6, <1>4, <1>3, <1>0
<1>8. /\ Total(O, q) \in Nat
      /\ Total(P, r) = Total(O, q) + (IF Releases(m, k) THEN m.qty ELSE 0)
  <2>0. IsFiniteSet(O) /\ x \notin O
    BY <1>1, <1>6
  <2>1. \A s \in O : q[s] \in Nat
    BY <1>0, <1>1
  <2>2. \A s \in O : r[s] = q[s]
    BY <1>1, <1>3
  <2>3. \A s \in O \cup {x} : r[s] \in Nat
    BY <2>1, <2>2, <1>0, <1>3
  <2> HIDE DEF O, P, q, r, x
  <2>4. Total(O, q) \in Nat
    BY <2>0, <2>1, TotalType
  <2>5. Total(O, r) = Total(O, q)
    BY <2>2, TotalSame
  <2>6. Total(O \cup {x}, r) = Total(O, r) + r[x]
    BY <2>0, <2>3, TotalAdd
  <2> QED
    BY <2>4, <2>5, <2>6, <1>5, <1>3, <1>0
<1>9. Replayed(k, head)' = Total(J, r) - Total(P, r) /\ Replayed(k, head) = Total(I, q) - Total(O, q)
  BY DEF Replayed
<1>10. Supported(k, head)' = (J \cup P # {}) /\ Supported(k, head) = (I \cup O # {})
  BY DEF Supported
<1>11. Supported(k, head)' <=> Supported(k, head) \/ Receives(m, k) \/ Releases(m, k)
  <2> HIDE DEF I, O, J, P, x
  <2> QED
    BY <1>10, <1>4, <1>5
<1>12. Replayed(k, head)' = Replayed(k, head)
                  + (IF Receives(m, k) THEN m.qty ELSE 0)
                  - (IF Releases(m, k) THEN m.qty ELSE 0)
  <2> HIDE DEF I, O, J, P, q, r, x
  <2> QED
    BY <1>7, <1>8, <1>9, <1>0
<1> QED
  BY <1>11, <1>12

-----------------------------------------------------------------------------
(* Type correctness. *)

\* The initial state has the types.
LEMMA InitType == Init => TypeOK
BY Bounds
DEF Init, TypeOK, Movements, NoMovement, Arms, CheckpointInvalidLimit, Missing, Seqs

\* What an append leaves in a bucket.
LEMMA FoldedType ==
    ASSUME TypeOK, NEW m \in Movements, NEW k \in Buckets,
           Releases(m, k) => Folded(m, k) >= 0
    PROVE  Folded(m, k) \in Nat \cup {Missing}
<1>1. onHand[k] \in Nat \cup {Missing}
  BY DEF TypeOK
<1>2. m.qty \in Nat
  BY Bounds DEF Movements
<1>3. CASE Receives(m, k)
  BY <1>1, <1>2, <1>3 DEF Folded, Held, Missing
<1>4. CASE ~ Receives(m, k) /\ Releases(m, k)
  BY <1>1, <1>2, <1>4 DEF Folded, Missing
<1>5. CASE ~ Receives(m, k) /\ ~ Releases(m, k)
  BY <1>1, <1>5 DEF Folded
<1> QED
  BY <1>3, <1>4, <1>5

\* What a rebuild leaves in a bucket.
LEMMA RebuiltType ==
    ASSUME TypeOK, NEW B, NEW n \in 0 .. MaxSeq, Writable(B, n), NEW k \in Buckets
    PROVE  Rebuilt(B, k, n) \in Nat \cup {Missing}
<1>1. onHand[k] \in Nat \cup {Missing}
  BY DEF TypeOK
<1>2. Replayed(k, n) \in Int
  BY ReplayedType
<1>3. k[1] \in B /\ Supported(k, n) => Replayed(k, n) >= 0
  BY DEF Writable
<1>4. CASE k[1] \notin B
  BY <1>1, <1>4 DEF Rebuilt
<1>5. CASE k[1] \in B /\ Supported(k, n)
  BY <1>2, <1>3, <1>5 DEF Rebuilt
<1>6. CASE k[1] \in B /\ ~ Supported(k, n)
  BY <1>6 DEF Rebuilt
<1> QED
  BY <1>4, <1>5, <1>6

\* The counter after a detection still fits its column.
LEMMA CountType ==
    ASSUME TypeOK
    PROVE  NextCount \in 0 .. FullPassEvery /\ Last \in Nat
BY Bounds DEF TypeOK, NextCount, FullPass, Last, Missing

\* A scan reports bins.
LEMMA DivergentType ==
    ASSUME NEW W
    PROVE  Divergent(W) \in SUBSET Bins
BY DEF Divergent

\* The repairers' part of TypeOK.
CycleType ==
    /\ at \in [Repairers -> {"idle", "picked", "flagged", "folded", "operator"}]
    /\ bins \in [Repairers -> SUBSET Bins]
    /\ repeat \in [Repairers -> SUBSET Bins]
    /\ base \in [Repairers -> Nat]
    /\ passes \in [Repairers -> 0 .. FullPassEvery]
    /\ fold \in [Repairers -> 0 .. MaxSeq]

\* Leaving a cycle keeps the types of its snapshot.
LEMMA ForgetType ==
    ASSUME CycleType, NEW w \in Repairers, Forget(w)
    PROVE  CycleType'
BY Bounds DEF CycleType, Forget, Goto

\* Flagging a repeat keeps the types of the quarantine marks.
LEMMA FlagType ==
    ASSUME CycleType, NEW w \in Repairers, NEW D \in SUBSET Bins, NEW R \in SUBSET Bins,
           NEW start \in Nat, NEW n \in 0 .. FullPassEvery, Flag(w, D, R, start, n)
    PROVE  CycleType'
BY DEF CycleType, Flag, Goto

\* A rebuild writes quantities a row can hold.
LEMMA RebuildType ==
    ASSUME TypeOK, NEW B \in SUBSET Bins, NEW n \in 0 .. MaxSeq, Rebuild(B, n)
    PROVE  /\ onHand' \in [Buckets -> Nat \cup {Missing}]
           /\ epoch' \in [Bins -> Nat]
           /\ tainted' \in SUBSET Buckets
           /\ alerted' \in SUBSET Bins
           /\ UNCHANGED <<head, event, hits, faults>>
<1>1. onHand' \in [Buckets -> Nat \cup {Missing}]
  BY RebuiltType DEF Rebuild
<1>2. epoch' \in [Bins -> Nat]
  BY DEF Rebuild, TypeOK
<1> QED
  BY <1>1, <1>2 DEF Rebuild, TypeOK

\* Every step keeps the types.
LEMMA TypeStep == TypeOK /\ [Next]_vars => TypeOK'
<1> SUFFICES ASSUME TypeOK, [Next]_vars PROVE TypeOK'
  OBVIOUS
<1> USE Bounds
<1>1. ASSUME NEW w \in Writers, NEW m \in Movements, AppendBegin(w, m) PROVE TypeOK'
  BY <1>1 DEF TypeOK, AppendBegin, Acquire, ledger, checkpoint, cycle, outcome, ghosts, Missing
<1>2. ASSUME NEW w \in Writers, AppendCommit(w) PROVE TypeOK'
  <2> USE <1>2 DEF AppendCommit
  <2>1. move[w] \in Movements /\ seq[w] \in 0 .. MaxSeq /\ seq[w] > head /\ head \in 0 .. MaxSeq
    BY DEF TypeOK
  <2>2. seq[w] \in Seqs
    BY <2>1 DEF Seqs
  <2>3. onHand' \in [Buckets -> Nat \cup {Missing}]
    BY <2>1, FoldedType
  <2>4. event' \in [Seqs -> Movements]
    BY <2>1, <2>2 DEF TypeOK
  <2>5. epoch' \in [Bins -> Nat]
    BY DEF TypeOK, Bumps
  <2>6. NoMovement \in Movements
    BY DEF NoMovement, Movements
  <2>7. move' \in [Writers -> Movements] /\ seq' \in [Writers -> 0 .. MaxSeq] /\ lock' \in Writers \cup Repairers \cup {Free}
    BY <2>6 DEF TypeOK, EndAppend, Release
  <2> QED
    BY <2>1, <2>3, <2>4, <2>5, <2>7 DEF TypeOK, checkpoint, cycle, outcome, ghosts
<1>3. ASSUME NEW w \in Writers, AppendAbort(w) PROVE TypeOK'
  <2>1. NoMovement \in Movements
    BY DEF NoMovement, Movements
  <2> QED
    BY <1>3, <2>1 DEF TypeOK, AppendAbort, EndAppend, Release, ledger, checkpoint, cycle, outcome, ghosts
<1>4. ASSUME NEW w \in Workers, Pick(w) PROVE TypeOK'
  BY <1>4 DEF TypeOK, Pick, Goto, Repairers, ledger, checkpoint, appending, outcome, ghosts
<1>5. ASSUME NEW w \in Workers, Idle(w) PROVE TypeOK'
  BY <1>5 DEF TypeOK, Idle, vars, ledger, checkpoint, appending, cycle, outcome, ghosts
<1>c. CycleType /\ Workers \subseteq Repairers /\ Operators \subseteq Repairers
  BY DEF TypeOK, CycleType, Repairers
<1>6. ASSUME NEW w \in Workers, DetectSkip(w) PROVE TypeOK'
  <2>1. CycleType'
    BY <1>6, <1>c, ForgetType DEF DetectSkip
  <2> QED
    BY <1>6, <2>1 DEF TypeOK, DetectSkip, CycleType, CheckpointInvalidLimit, ledger, appending, outcome, ghosts
<1>7. ASSUME NEW w \in Workers, DetectDiscard(w) PROVE TypeOK'
  <2>1. CycleType'
    <3>1. CASE Forget(w)
      BY <3>1, <1>c, ForgetType
    <3>2. CASE Flag(w, Divergent(Buckets), {}, 0, 0)
      BY <3>2, <1>c, FlagType, DivergentType
    <3> QED
      BY <1>7, <3>1, <3>2 DEF DetectDiscard
  <2>2. /\ last' \in Nat \cup {Missing} /\ invalid' = 0 /\ count' = 0 /\ memory' = {}
    BY <1>7 DEF DetectDiscard, Advance, TypeOK
  <2> QED
    BY <1>7, <2>1, <2>2 DEF TypeOK, DetectDiscard, CycleType, CheckpointInvalidLimit, ledger, appending, outcome, ghosts
<1>8. ASSUME NEW w \in Workers, DetectClean(w) PROVE TypeOK'
  <2>1. CycleType'
    BY <1>8, <1>c, ForgetType DEF DetectClean
  <2>2. /\ last' \in Nat /\ invalid' = 0 /\ count' \in 0 .. FullPassEvery /\ memory' = {}
    BY <1>8, CountType DEF DetectClean, Advance, TypeOK
  <2> QED
    BY <1>8, <2>1, <2>2 DEF TypeOK, DetectClean, CycleType, CheckpointInvalidLimit, ledger, appending, outcome, ghosts
<1>9. ASSUME NEW w \in Workers, DetectDivergent(w) PROVE TypeOK'
  <2>1. CycleType'
    <3> DEFINE D == Divergent(Window)
    <3>1. D \in SUBSET Bins /\ D \cap memory \in SUBSET Bins
      BY DivergentType
    <3>2. Flag(w, D, D \cap memory, Last, NextCount)
      BY <1>9 DEF DetectDivergent
    <3> QED
      BY <3>1, <3>2, <1>c, FlagType, CountType
  <2> QED
    BY <1>9, <2>1 DEF TypeOK, DetectDivergent, CycleType, ledger, checkpoint, appending, outcome, ghosts
<1>10. ASSUME NEW w \in Workers, RepairFold(w) PROVE TypeOK'
  BY <1>10 DEF TypeOK, RepairFold, Acquire, Goto, Repairers, ledger, checkpoint, appending, outcome, ghosts
<1>11. ASSUME NEW w \in Operators, NEW scope, OperatorFold(w, scope) PROVE TypeOK'
  <2>1. Divergent(Buckets) \cap scope \in SUBSET Bins
    BY DivergentType
  <2> QED
    BY <1>11, <2>1 DEF TypeOK, OperatorFold, Acquire, Goto, Repairers, ledger, checkpoint, appending, outcome, ghosts
<1>12. ASSUME NEW w \in Repairers, RepairCommit(w) PROVE TypeOK'
  <2>1. CycleType'
    BY <1>12, <1>c, ForgetType DEF RepairCommit
  <2>2. bins[w] \in SUBSET Bins /\ repeat[w] \in SUBSET Bins /\ fold[w] \in 0 .. MaxSeq /\ base[w] \in Nat /\ passes[w] \in 0 .. FullPassEvery
    BY DEF TypeOK
  <2>3. Rebuild(bins[w], fold[w])
    BY <1>12 DEF RepairCommit
  <2>4. /\ onHand' \in [Buckets -> Nat \cup {Missing}]
        /\ epoch' \in [Bins -> Nat]
        /\ tainted' \in SUBSET Buckets
        /\ alerted' \in SUBSET Bins
        /\ UNCHANGED <<head, event, hits, faults>>
    BY <2>2, <2>3, RebuildType
  <2>5. /\ quarantined' \in SUBSET Bins /\ last' \in Nat \cup {Missing} /\ invalid' = 0
        /\ count' \in 0 .. FullPassEvery /\ memory' \in SUBSET Bins
        /\ lock' \in Writers \cup Repairers \cup {Free} /\ UNCHANGED <<move, seq>>
    BY <1>12, <2>2 DEF RepairCommit, TypeOK, Release, appending
  <2> QED
    BY <2>1, <2>4, <2>5 DEF TypeOK, CycleType, CheckpointInvalidLimit
<1>13. ASSUME NEW w \in Repairers, OperatorCommit(w) PROVE TypeOK'
  <2>1. CycleType'
    BY <1>13, <1>c, ForgetType DEF OperatorCommit
  <2>2. bins[w] \in SUBSET Bins /\ fold[w] \in 0 .. MaxSeq
    BY DEF TypeOK
  <2>3. Rebuild(bins[w], fold[w])
    BY <1>13 DEF OperatorCommit
  <2>4. /\ onHand' \in [Buckets -> Nat \cup {Missing}]
        /\ epoch' \in [Bins -> Nat]
        /\ tainted' \in SUBSET Buckets
        /\ alerted' \in SUBSET Bins
        /\ UNCHANGED <<head, event, hits, faults>>
    BY <2>2, <2>3, RebuildType
  <2>5. /\ lock' \in Writers \cup Repairers \cup {Free}
        /\ UNCHANGED <<move, seq, last, invalid, count, memory, quarantined>>
    BY <1>13 DEF OperatorCommit, TypeOK, Release, appending, checkpoint
  <2> QED
    BY <2>1, <2>4, <2>5 DEF TypeOK, CycleType
<1>14. ASSUME NEW w \in Repairers, RepairRefused(w) PROVE TypeOK'
  <2>1. CycleType'
    BY <1>14, <1>c, ForgetType DEF RepairRefused
  <2>2. last' \in Nat \cup {Missing} /\ UNCHANGED <<invalid, count, memory>>
    BY <1>14, CountType DEF RepairRefused, Requeue, checkpoint, TypeOK
  <2> QED
    BY <1>14, <2>1, <2>2 DEF TypeOK, RepairRefused, CycleType, Release, ledger, appending, outcome, ghosts
<1>15. ASSUME NEW w \in Repairers, CycleFails(w) PROVE TypeOK'
  <2>1. CycleType'
    BY <1>15, <1>c, ForgetType DEF CycleFails
  <2>2. last' \in Nat \cup {Missing} /\ UNCHANGED <<invalid, count, memory>>
    BY <1>15, CountType DEF CycleFails, Requeue, checkpoint, TypeOK
  <2> QED
    BY <1>15, <2>1, <2>2 DEF TypeOK, CycleFails, Fault, CycleType, Release, ledger, appending, outcome
<1>16. ASSUME NEW k \in Buckets, NEW v \in Corruptions, CorruptRow(k, v) PROVE TypeOK'
  <2>1. v \in Nat \cup {Missing}
    BY LedgerAssumption DEF Missing
  <2>2. k[1] \in Bins
    BY DEF Buckets
  <2> QED
    BY <1>16, <2>1, <2>2 DEF TypeOK, CorruptRow, Fault, appending, checkpoint, cycle, outcome
<1>17. ASSUME NEW n \in Jumps, CorruptCheckpoint(n) PROVE TypeOK'
  <2>1. n \in Nat
    BY LedgerAssumption
  <2> QED
    BY <1>17, <2>1 DEF TypeOK, CorruptCheckpoint, Fault, ledger, appending, cycle, outcome
<1>18. CASE UNCHANGED vars
  BY <1>18 DEF TypeOK, vars, ledger, appending, checkpoint, cycle, outcome, ghosts
<1> QED
  BY <1>1, <1>2, <1>3, <1>4, <1>5, <1>6, <1>7, <1>8, <1>9, <1>10, <1>11, <1>12, <1>13,
     <1>14, <1>15, <1>16, <1>17, <1>18
  DEF Next, WriterStep, DetectStep, RepairStep

\* Every reachable state is well typed: in particular no row goes negative,
\* whatever is written out of band between an append's guard and its commit,
\* and incremental_count never passes the knob its column is sized for.
THEOREM TypeCorrect == Spec => []TypeOK
BY InitType, TypeStep, PTL DEF Spec

-----------------------------------------------------------------------------
(* The invariant's preservation. *)

\* A divergent bin has a bucket that was written out of band.
LEMMA DivergentTainted ==
    ASSUME ProjectionAgrees, NEW W, NEW b \in Divergent(W)
    PROVE  \E k \in tainted : k[1] = b
<1>1. PICK a \in Arms : ~ Agrees(<<b, a>>)
  BY DEF Divergent
<1>2. <<b, a>> \in Buckets
  BY <1>1 DEF Divergent, Buckets
<1>3. <<b, a>> \in tainted
  BY <1>1, <1>2 DEF ProjectionAgrees
<1> QED
  BY <1>3

\* Agreement depends on the ledger and the rows alone.
LEMMA AgreesSame ==
    ASSUME UNCHANGED <<head, event>>, NEW k, onHand'[k] = onHand[k]
    PROVE  Agrees(k)' <=> Agrees(k)
BY DEF Agrees, Supported, Replayed, In, Out, Quantity, Receives, Releases, ArmsOf

\* An append leaves every bucket it may vouch for equal to its fold.
LEMMA AppendAgrees ==
    ASSUME IInv, NEW w \in Writers, AppendCommit(w), seq[w] # 0
    PROVE  ProjectionAgrees'
<1> DEFINE m == move[w]
<1>1. /\ TypeOK /\ m \in Movements /\ seq[w] = head + 1 /\ head + 1 \in Seqs
      /\ head \in 0 .. MaxSeq
  BY Bounds DEF IInv, TypeOK, LockHeld, Seqs
<1>2. /\ head' = head + 1
      /\ event' = [event EXCEPT ![head + 1] = m]
      /\ onHand' = [k \in Buckets |-> Folded(m, k)]
      /\ tainted' = tainted
  BY <1>1 DEF AppendCommit, ghosts
<1>3. m.qty \in Nat /\ m.qty > 0 /\ m.from # m.to
  BY <1>1, Bounds DEF IInv, MoveCovered, Movements
<1> SUFFICES ASSUME NEW k \in Buckets, k \notin tainted
             PROVE  Agrees(k)'
  BY <1>2 DEF ProjectionAgrees
<1>4. /\ Replayed(k, head)' = Replayed(k, head)
             + (IF Receives(m, k) THEN m.qty ELSE 0)
             - (IF Releases(m, k) THEN m.qty ELSE 0)
      /\ Supported(k, head)' <=> Supported(k, head) \/ Receives(m, k) \/ Releases(m, k)
  BY <1>1, <1>2, FoldStep
<1>5. Agrees(k)
  BY DEF IInv, ProjectionAgrees
<1>6. onHand[k] \in Nat \cup {Missing} /\ Replayed(k, head) \in Int
  BY <1>1, ReplayedType DEF TypeOK
<1>7. ~ (Receives(m, k) /\ Releases(m, k))
  BY <1>3 DEF Receives, Releases
<1>8. Releases(m, k) => onHand[k] # Missing /\ onHand[k] >= m.qty
  <2>1. Releases(m, k) => Held(k) >= m.qty
    BY DEF IInv, MoveCovered
  <2> QED
    BY <2>1, <1>3, <1>6 DEF Held
<1>9. ~ Supported(k, head) => Replayed(k, head) = 0
  BY TotalEmpty DEF Supported, Replayed
<1>10. onHand'[k] = Folded(m, k)
  BY <1>2
<1>11. Agrees(k)' <=> IF onHand'[k] = Missing THEN ~ Supported(k, head)'
                                         ELSE onHand'[k] = Replayed(k, head)'
  BY DEF Agrees
<1>12. Agrees(k) <=> IF onHand[k] = Missing THEN ~ Supported(k, head)
                                       ELSE onHand[k] = Replayed(k, head)
  BY DEF Agrees
<1> HIDE DEF m
<1>13. CASE Receives(m, k)
  <2>1. onHand'[k] = Held(k) + m.qty
    BY <1>10, <1>13 DEF Folded
  <2>2. Held(k) = Replayed(k, head)
    BY <1>5, <1>9, <1>12 DEF Held
  <2>3. onHand'[k] # Missing
    BY <2>1, <1>6, <1>3 DEF Held, Missing
  <2> QED
    BY <2>1, <2>2, <2>3, <1>3, <1>4, <1>6, <1>7, <1>11, <1>13
<1>14. CASE Releases(m, k)
  <2>1. onHand'[k] = onHand[k] - m.qty
    BY <1>7, <1>8, <1>10, <1>14 DEF Folded
  <2>2. onHand'[k] # Missing
    BY <2>1, <1>3, <1>6, <1>8, <1>14 DEF Missing
  <2> QED
    BY <2>1, <2>2, <1>3, <1>4, <1>5, <1>6, <1>7, <1>8, <1>11, <1>12, <1>14
<1>15. CASE ~ Receives(m, k) /\ ~ Releases(m, k)
  <2>1. onHand'[k] = onHand[k]
    BY <1>10, <1>15 DEF Folded
  <2>2. Replayed(k, head)' = Replayed(k, head)
    BY <1>4, <1>6, <1>15
  <2> QED
    BY <2>1, <2>2, <1>4, <1>5, <1>11, <1>12, <1>15
<1> QED
  BY <1>13, <1>14, <1>15

\* A rebuild to the head leaves every bucket of its bins equal to its fold.
LEMMA RebuildAgrees ==
    ASSUME TypeOK, ProjectionAgrees, NEW B \in SUBSET Bins, Rebuild(B, head)
    PROVE  ProjectionAgrees'
<1>0. /\ UNCHANGED <<head, event>>
      /\ onHand' = [k \in Buckets |-> Rebuilt(B, k, head)]
      /\ tainted' = {k \in tainted : k[1] \notin B}
      /\ Writable(B, head) /\ head \in 0 .. MaxSeq
  BY DEF Rebuild, TypeOK
<1> SUFFICES ASSUME NEW k \in Buckets, k \notin tainted'
             PROVE  Agrees(k)'
  BY DEF ProjectionAgrees
<1>1. onHand'[k] = Rebuilt(B, k, head)
  BY <1>0
<1>2. CASE k[1] \notin B
  <2>1. Agrees(k) /\ onHand'[k] = onHand[k]
    BY <1>0, <1>1, <1>2 DEF ProjectionAgrees, Rebuilt
  <2> QED
    BY <2>1, <1>0, AgreesSame
<1>3. CASE k[1] \in B
  <2>1. /\ Supported(k, head)' <=> Supported(k, head)
        /\ Replayed(k, head)' = Replayed(k, head)
    BY <1>0 DEF Supported, Replayed, In, Out, Quantity, Receives, Releases, ArmsOf
  <2>2. Agrees(k)' <=> IF onHand'[k] = Missing THEN ~ Supported(k, head)'
                                          ELSE onHand'[k] = Replayed(k, head)'
    BY DEF Agrees
  <2>3. Replayed(k, head) \in Int /\ (Supported(k, head) => Replayed(k, head) >= 0)
    BY <1>0, <1>3, ReplayedType DEF Writable
  <2>4. onHand'[k] = IF Supported(k, head) THEN Replayed(k, head) ELSE Missing
    BY <1>1, <1>3 DEF Rebuilt
  <2> QED
    BY <2>1, <2>2, <2>3, <2>4 DEF Missing
<1> QED
  BY <1>2, <1>3

\* What the proofs of one step share: workers and operators repair.
LEMMA Repair ==
    Workers \subseteq Repairers /\ Operators \subseteq Repairers
BY DEF Repairers

\* No step breaks the lock discipline.
LEMMA LockStep ==
    ASSUME IInv, [Next]_vars
    PROVE  LockHeld'
<1> USE Bounds, Repair DEF IInv
<1>1. ASSUME NEW w \in Writers, NEW m \in Movements, AppendBegin(w, m)
      PROVE  LockHeld'
  BY <1>1 DEF LockHeld, AppendBegin, Acquire, ledger, checkpoint, cycle, outcome, ghosts,
     TypeOK
<1>2. ASSUME NEW w \in Writers, AppendCommit(w)
      PROVE  LockHeld'
  BY <1>2 DEF LockHeld, AppendCommit, EndAppend, Release, checkpoint, cycle, outcome,
     ghosts, TypeOK
<1>3. ASSUME NEW w \in Writers, AppendAbort(w)
      PROVE  LockHeld'
  BY <1>3 DEF LockHeld, AppendAbort, EndAppend, Release, ledger, checkpoint, cycle, outcome,
     ghosts, TypeOK
<1>4. ASSUME NEW w \in Workers, Pick(w)
      PROVE  LockHeld'
  BY <1>4 DEF LockHeld, Pick, Goto, ledger, appending, checkpoint, outcome, ghosts, TypeOK
<1>5. ASSUME NEW w \in Workers, Idle(w)
      PROVE  LockHeld'
  BY <1>5 DEF LockHeld, Idle, vars, ledger, appending, checkpoint, cycle, outcome, ghosts,
     TypeOK
<1>6. ASSUME NEW w \in Workers, DetectSkip(w)
      PROVE  LockHeld'
  BY <1>6 DEF LockHeld, DetectSkip, Forget, Goto, ledger, appending, outcome, ghosts, TypeOK
<1>7. ASSUME NEW w \in Workers, DetectDiscard(w)
      PROVE  LockHeld'
  BY <1>7 DEF LockHeld, DetectDiscard, Advance, Flag, Forget, Goto, ledger, appending,
     outcome, ghosts, TypeOK
<1>8. ASSUME NEW w \in Workers, DetectClean(w)
      PROVE  LockHeld'
  BY <1>8 DEF LockHeld, DetectClean, Advance, Forget, Goto, ledger, appending, outcome,
     ghosts, TypeOK
<1>9. ASSUME NEW w \in Workers, DetectDivergent(w)
      PROVE  LockHeld'
  BY <1>9 DEF LockHeld, DetectDivergent, Flag, Goto, ledger, appending, checkpoint, outcome,
     ghosts, TypeOK
<1>10. ASSUME NEW w \in Workers, RepairFold(w)
      PROVE  LockHeld'
  BY <1>10 DEF LockHeld, RepairFold, Acquire, Goto, ledger, appending, checkpoint, outcome,
     ghosts, TypeOK
<1>11. ASSUME NEW w \in Operators, NEW scope, OperatorFold(w, scope)
      PROVE  LockHeld'
  BY <1>11 DEF LockHeld, OperatorFold, Acquire, Goto, ledger, appending, checkpoint,
     outcome, ghosts, TypeOK
<1>12. ASSUME NEW w \in Repairers, RepairCommit(w)
      PROVE  LockHeld'
  BY <1>12 DEF LockHeld, RepairCommit, Rebuild, Forget, Goto, Release, appending, TypeOK
<1>13. ASSUME NEW w \in Repairers, OperatorCommit(w)
      PROVE  LockHeld'
  BY <1>13 DEF LockHeld, OperatorCommit, Rebuild, Forget, Goto, Release, appending,
     checkpoint, TypeOK
<1>14. ASSUME NEW w \in Repairers, RepairRefused(w)
      PROVE  LockHeld'
  BY <1>14 DEF LockHeld, RepairRefused, Requeue, Forget, Goto, Release, ledger, appending,
     checkpoint, outcome, ghosts, TypeOK
<1>15. ASSUME NEW w \in Repairers, CycleFails(w)
      PROVE  LockHeld'
  BY <1>15 DEF LockHeld, CycleFails, Fault, Requeue, Forget, Goto, Release, ledger,
     appending, checkpoint, outcome, TypeOK
<1>16. ASSUME NEW k \in Buckets, NEW v \in Corruptions, CorruptRow(k, v)
      PROVE  LockHeld'
  BY <1>16 DEF LockHeld, CorruptRow, Fault, appending, checkpoint, cycle, outcome, TypeOK
<1>17. ASSUME NEW n \in Jumps, CorruptCheckpoint(n)
      PROVE  LockHeld'
  BY <1>17 DEF LockHeld, CorruptCheckpoint, Fault, ledger, appending, cycle, outcome, TypeOK
<1>18. CASE UNCHANGED vars
  BY <1>18 DEF LockHeld, vars, ledger, appending, checkpoint, cycle, outcome, ghosts, TypeOK
<1> QED
  BY <1>1, <1>2, <1>3, <1>4, <1>5, <1>6, <1>7, <1>8, <1>9, <1>10, <1>11, <1>12, <1>13,
     <1>14, <1>15, <1>16, <1>17, <1>18 DEF Next, WriterStep, DetectStep, RepairStep

\* A movement stays covered until it commits.
LEMMA MoveStep ==
    ASSUME IInv, [Next]_vars
    PROVE  MoveCovered'
<1> USE Bounds, Repair DEF IInv
<1>1. ASSUME NEW w \in Writers, NEW m \in Movements, AppendBegin(w, m)
      PROVE  MoveCovered'
  BY <1>1 DEF MoveCovered, AppendBegin, Acquire, ledger, checkpoint, cycle, outcome, ghosts,
     TypeOK, LockHeld, Held, Releases, ArmsOf, NoMovement
<1>2. ASSUME NEW w \in Writers, AppendCommit(w)
      PROVE  MoveCovered'
  BY <1>2 DEF MoveCovered, AppendCommit, EndAppend, Release, checkpoint, cycle, outcome,
     ghosts, TypeOK, LockHeld, Held, Releases, ArmsOf, NoMovement
<1>3. ASSUME NEW w \in Writers, AppendAbort(w)
      PROVE  MoveCovered'
  BY <1>3 DEF MoveCovered, AppendAbort, EndAppend, Release, ledger, checkpoint, cycle,
     outcome, ghosts, TypeOK, LockHeld, Held, Releases, ArmsOf, NoMovement
<1>4. ASSUME NEW w \in Workers, Pick(w)
      PROVE  MoveCovered'
  BY <1>4 DEF MoveCovered, Pick, Goto, ledger, appending, checkpoint, outcome, ghosts,
     TypeOK, LockHeld, Held, Releases, ArmsOf, NoMovement
<1>5. ASSUME NEW w \in Workers, Idle(w)
      PROVE  MoveCovered'
  BY <1>5 DEF MoveCovered, Idle, vars, ledger, appending, checkpoint, cycle, outcome,
     ghosts, TypeOK, LockHeld, Held, Releases, ArmsOf, NoMovement
<1>6. ASSUME NEW w \in Workers, DetectSkip(w)
      PROVE  MoveCovered'
  BY <1>6 DEF MoveCovered, DetectSkip, Forget, Goto, ledger, appending, outcome, ghosts,
     TypeOK, LockHeld, Held, Releases, ArmsOf, NoMovement
<1>7. ASSUME NEW w \in Workers, DetectDiscard(w)
      PROVE  MoveCovered'
  BY <1>7 DEF MoveCovered, DetectDiscard, Advance, Flag, Forget, Goto, ledger, appending,
     outcome, ghosts, TypeOK, LockHeld, Held, Releases, ArmsOf, NoMovement
<1>8. ASSUME NEW w \in Workers, DetectClean(w)
      PROVE  MoveCovered'
  BY <1>8 DEF MoveCovered, DetectClean, Advance, Forget, Goto, ledger, appending, outcome,
     ghosts, TypeOK, LockHeld, Held, Releases, ArmsOf, NoMovement
<1>9. ASSUME NEW w \in Workers, DetectDivergent(w)
      PROVE  MoveCovered'
  BY <1>9 DEF MoveCovered, DetectDivergent, Flag, Goto, ledger, appending, checkpoint,
     outcome, ghosts, TypeOK, LockHeld, Held, Releases, ArmsOf, NoMovement
<1>10. ASSUME NEW w \in Workers, RepairFold(w)
      PROVE  MoveCovered'
  BY <1>10 DEF MoveCovered, RepairFold, Acquire, Goto, ledger, appending, checkpoint,
     outcome, ghosts, TypeOK, LockHeld, Held, Releases, ArmsOf, NoMovement
<1>11. ASSUME NEW w \in Operators, NEW scope, OperatorFold(w, scope)
      PROVE  MoveCovered'
  BY <1>11 DEF MoveCovered, OperatorFold, Acquire, Goto, ledger, appending, checkpoint,
     outcome, ghosts, TypeOK, LockHeld, Held, Releases, ArmsOf, NoMovement
<1>12. ASSUME NEW w \in Repairers, RepairCommit(w)
      PROVE  MoveCovered'
  BY <1>12 DEF MoveCovered, RepairCommit, Rebuild, Forget, Goto, Release, appending, TypeOK,
     LockHeld, Held, Releases, ArmsOf, NoMovement
<1>13. ASSUME NEW w \in Repairers, OperatorCommit(w)
      PROVE  MoveCovered'
  BY <1>13 DEF MoveCovered, OperatorCommit, Rebuild, Forget, Goto, Release, appending,
     checkpoint, TypeOK, LockHeld, Held, Releases, ArmsOf, NoMovement
<1>14. ASSUME NEW w \in Repairers, RepairRefused(w)
      PROVE  MoveCovered'
  BY <1>14 DEF MoveCovered, RepairRefused, Requeue, Forget, Goto, Release, ledger,
     appending, checkpoint, outcome, ghosts, TypeOK, LockHeld, Held, Releases, ArmsOf,
     NoMovement
<1>15. ASSUME NEW w \in Repairers, CycleFails(w)
      PROVE  MoveCovered'
  BY <1>15 DEF MoveCovered, CycleFails, Fault, Requeue, Forget, Goto, Release, ledger,
     appending, checkpoint, outcome, TypeOK, LockHeld, Held, Releases, ArmsOf, NoMovement
<1>16. ASSUME NEW k \in Buckets, NEW v \in Corruptions, CorruptRow(k, v)
      PROVE  MoveCovered'
  BY <1>16 DEF MoveCovered, CorruptRow, Fault, appending, checkpoint, cycle, outcome,
     TypeOK, LockHeld, Held, Releases, ArmsOf, NoMovement
<1>17. ASSUME NEW n \in Jumps, CorruptCheckpoint(n)
      PROVE  MoveCovered'
  BY <1>17 DEF MoveCovered, CorruptCheckpoint, Fault, ledger, appending, cycle, outcome,
     TypeOK, LockHeld, Held, Releases, ArmsOf, NoMovement
<1>18. CASE UNCHANGED vars
  BY <1>18 DEF MoveCovered, vars, ledger, appending, checkpoint, cycle, outcome, ghosts,
     TypeOK, LockHeld, Held, Releases, ArmsOf, NoMovement
<1> QED
  BY <1>1, <1>2, <1>3, <1>4, <1>5, <1>6, <1>7, <1>8, <1>9, <1>10, <1>11, <1>12, <1>13,
     <1>14, <1>15, <1>16, <1>17, <1>18 DEF Next, WriterStep, DetectStep, RepairStep

\* Every step keeps untainted projections exact.
LEMMA AgreesStep ==
    ASSUME IInv, [Next]_vars
    PROVE  ProjectionAgrees'
<1> USE Bounds, Repair DEF IInv
<1>1. ASSUME NEW w \in Writers, NEW m \in Movements, AppendBegin(w, m)
      PROVE  ProjectionAgrees'
  BY <1>1, AgreesSame DEF ProjectionAgrees, AppendBegin, Acquire, ledger, checkpoint, cycle,
     outcome, ghosts
<1>2. ASSUME NEW w \in Writers, AppendCommit(w)
      PROVE  ProjectionAgrees'
  <2>1. seq[w] # 0
    BY <1>2 DEF AppendCommit, TypeOK
  <2> QED
    BY <1>2, <2>1, AppendAgrees
<1>3. ASSUME NEW w \in Writers, AppendAbort(w)
      PROVE  ProjectionAgrees'
  BY <1>3, AgreesSame DEF ProjectionAgrees, AppendAbort, EndAppend, Release, ledger,
     checkpoint, cycle, outcome, ghosts
<1>4. ASSUME NEW w \in Workers, Pick(w)
      PROVE  ProjectionAgrees'
  BY <1>4, AgreesSame DEF ProjectionAgrees, Pick, Goto, ledger, appending, checkpoint,
     outcome, ghosts
<1>5. ASSUME NEW w \in Workers, Idle(w)
      PROVE  ProjectionAgrees'
  BY <1>5, AgreesSame DEF ProjectionAgrees, Idle, vars, ledger, appending, checkpoint,
     cycle, outcome, ghosts
<1>6. ASSUME NEW w \in Workers, DetectSkip(w)
      PROVE  ProjectionAgrees'
  BY <1>6, AgreesSame DEF ProjectionAgrees, DetectSkip, Forget, Goto, ledger, appending,
     outcome, ghosts
<1>7. ASSUME NEW w \in Workers, DetectDiscard(w)
      PROVE  ProjectionAgrees'
  BY <1>7, AgreesSame DEF ProjectionAgrees, DetectDiscard, Advance, Flag, Forget, Goto,
     ledger, appending, outcome, ghosts
<1>8. ASSUME NEW w \in Workers, DetectClean(w)
      PROVE  ProjectionAgrees'
  BY <1>8, AgreesSame DEF ProjectionAgrees, DetectClean, Advance, Forget, Goto, ledger,
     appending, outcome, ghosts
<1>9. ASSUME NEW w \in Workers, DetectDivergent(w)
      PROVE  ProjectionAgrees'
  BY <1>9, AgreesSame DEF ProjectionAgrees, DetectDivergent, Flag, Goto, ledger, appending,
     checkpoint, outcome, ghosts
<1>10. ASSUME NEW w \in Workers, RepairFold(w)
      PROVE  ProjectionAgrees'
  BY <1>10, AgreesSame DEF ProjectionAgrees, RepairFold, Acquire, Goto, ledger, appending,
     checkpoint, outcome, ghosts
<1>11. ASSUME NEW w \in Operators, NEW scope, OperatorFold(w, scope)
      PROVE  ProjectionAgrees'
  BY <1>11, AgreesSame DEF ProjectionAgrees, OperatorFold, Acquire, Goto, ledger, appending,
     checkpoint, outcome, ghosts
<1>12. ASSUME NEW w \in Repairers, RepairCommit(w)
      PROVE  ProjectionAgrees'
  <2>1. fold[w] = head /\ bins[w] \in SUBSET Bins
    BY <1>12 DEF RepairCommit, LockHeld, TypeOK
  <2>2. Rebuild(bins[w], head)
    BY <1>12, <2>1 DEF RepairCommit
  <2> QED
    BY <2>1, <2>2, RebuildAgrees
<1>13. ASSUME NEW w \in Repairers, OperatorCommit(w)
      PROVE  ProjectionAgrees'
  <2>1. fold[w] = head /\ bins[w] \in SUBSET Bins
    BY <1>13 DEF OperatorCommit, LockHeld, TypeOK
  <2>2. Rebuild(bins[w], head)
    BY <1>13, <2>1 DEF OperatorCommit
  <2> QED
    BY <2>1, <2>2, RebuildAgrees
<1>14. ASSUME NEW w \in Repairers, RepairRefused(w)
      PROVE  ProjectionAgrees'
  BY <1>14, AgreesSame DEF ProjectionAgrees, RepairRefused, Requeue, Forget, Goto, Release,
     ledger, appending, checkpoint, outcome, ghosts
<1>15. ASSUME NEW w \in Repairers, CycleFails(w)
      PROVE  ProjectionAgrees'
  BY <1>15, AgreesSame DEF ProjectionAgrees, CycleFails, Fault, Requeue, Forget, Goto,
     Release, ledger, appending, checkpoint, outcome
<1>16. ASSUME NEW k \in Buckets, NEW v \in Corruptions, CorruptRow(k, v)
      PROVE  ProjectionAgrees'
  <2>1. ASSUME NEW j \in Buckets, j \notin tainted'
        PROVE  Agrees(j)'
    <3>1. j # k /\ j \notin tainted
      BY <1>16, <2>1 DEF CorruptRow
    <3>2. onHand'[j] = onHand[j] /\ UNCHANGED <<head, event>>
      BY <1>16, <3>1 DEF CorruptRow, TypeOK
    <3> QED
      BY <3>1, <3>2, AgreesSame DEF ProjectionAgrees
  <2> QED
    BY <2>1 DEF ProjectionAgrees
<1>17. ASSUME NEW n \in Jumps, CorruptCheckpoint(n)
      PROVE  ProjectionAgrees'
  BY <1>17, AgreesSame DEF ProjectionAgrees, CorruptCheckpoint, Fault, ledger, appending,
     cycle, outcome
<1>18. CASE UNCHANGED vars
  BY <1>18, AgreesSame DEF ProjectionAgrees, vars, ledger, appending, checkpoint, cycle,
     outcome, ghosts
<1> QED
  BY <1>1, <1>2, <1>3, <1>4, <1>5, <1>6, <1>7, <1>8, <1>9, <1>10, <1>11, <1>12, <1>13,
     <1>14, <1>15, <1>16, <1>17, <1>18 DEF Next, WriterStep, DetectStep, RepairStep

\* Flags, memory and taint are all paid for by out-of-band writes.
LEMMA HitsStep ==
    ASSUME IInv, [Next]_vars
    PROVE  HitsCounted'
<1> USE Bounds, Repair DEF IInv
<1>1. ASSUME NEW w \in Writers, NEW m \in Movements, AppendBegin(w, m)
      PROVE  HitsCounted'
  BY <1>1 DEF HitsCounted, AppendBegin, Acquire, ledger, checkpoint, cycle, outcome, ghosts,
     TypeOK
<1>2. ASSUME NEW w \in Writers, AppendCommit(w)
      PROVE  HitsCounted'
  BY <1>2 DEF HitsCounted, AppendCommit, EndAppend, Release, checkpoint, cycle, outcome,
     ghosts, TypeOK
<1>3. ASSUME NEW w \in Writers, AppendAbort(w)
      PROVE  HitsCounted'
  BY <1>3 DEF HitsCounted, AppendAbort, EndAppend, Release, ledger, checkpoint, cycle,
     outcome, ghosts, TypeOK
<1>4. ASSUME NEW w \in Workers, Pick(w)
      PROVE  HitsCounted'
  BY <1>4 DEF HitsCounted, Pick, Goto, ledger, appending, checkpoint, outcome, ghosts,
     TypeOK
<1>5. ASSUME NEW w \in Workers, Idle(w)
      PROVE  HitsCounted'
  BY <1>5 DEF HitsCounted, Idle, vars, ledger, appending, checkpoint, cycle, outcome,
     ghosts, TypeOK
<1>6. ASSUME NEW w \in Workers, DetectSkip(w)
      PROVE  HitsCounted'
  BY <1>6 DEF HitsCounted, DetectSkip, Forget, Goto, ledger, appending, outcome, ghosts,
     TypeOK
<1>7. ASSUME NEW w \in Workers, DetectDiscard(w)
      PROVE  HitsCounted'
  <2>1. \A b \in Divergent(Buckets) : hits[b] >= 1 /\ (b \in memory => hits[b] >= 2)
    BY DivergentTainted DEF HitsCounted
  <2>2. memory' = {} /\ UNCHANGED <<tainted, hits>>
    BY <1>7 DEF DetectDiscard, Advance, ghosts
  <2>3. /\ bins' \in {[bins EXCEPT ![w] = {}], [bins EXCEPT ![w] = Divergent(Buckets)]}
        /\ repeat' = [repeat EXCEPT ![w] = {}]
    BY <1>7 DEF DetectDiscard, Flag, Forget
  <2>4. /\ \A v \in Repairers : bins'[v] \subseteq bins[v] \cup Divergent(Buckets)
        /\ \A v \in Repairers : repeat'[v] \subseteq repeat[v]
    BY <2>3 DEF TypeOK
  <2> QED
    BY <2>1, <2>2, <2>4 DEF HitsCounted
<1>8. ASSUME NEW w \in Workers, DetectClean(w)
      PROVE  HitsCounted'
  BY <1>8 DEF HitsCounted, DetectClean, Advance, Forget, Goto, ledger, appending, outcome,
     ghosts, TypeOK
<1>9. ASSUME NEW w \in Workers, DetectDivergent(w)
      PROVE  HitsCounted'
  <2>1. \A b \in Divergent(Window) : hits[b] >= 1 /\ (b \in memory => hits[b] >= 2)
    BY DivergentTainted DEF HitsCounted
  <2> QED
    BY <1>9, <2>1 DEF HitsCounted, DetectDivergent, Flag, Goto, ledger, appending, checkpoint,
       outcome, ghosts, TypeOK
<1>10. ASSUME NEW w \in Workers, RepairFold(w)
      PROVE  HitsCounted'
  BY <1>10 DEF HitsCounted, RepairFold, Acquire, Goto, ledger, appending, checkpoint,
     outcome, ghosts, TypeOK
<1>11. ASSUME NEW w \in Operators, NEW scope, OperatorFold(w, scope)
      PROVE  HitsCounted'
  <2>1. \A b \in Divergent(Buckets) : hits[b] >= 1 /\ (b \in memory => hits[b] >= 2)
    BY DivergentTainted DEF HitsCounted
  <2> QED
    BY <1>11, <2>1 DEF HitsCounted, OperatorFold, Acquire, Goto, ledger, appending,
       checkpoint, outcome, ghosts, TypeOK
<1>12. ASSUME NEW w \in Repairers, RepairCommit(w)
      PROVE  HitsCounted'
  BY <1>12 DEF HitsCounted, RepairCommit, Rebuild, Forget, Goto, Release, appending, TypeOK
<1>13. ASSUME NEW w \in Repairers, OperatorCommit(w)
      PROVE  HitsCounted'
  BY <1>13 DEF HitsCounted, OperatorCommit, Rebuild, Forget, Goto, Release, appending,
     checkpoint, TypeOK
<1>14. ASSUME NEW w \in Repairers, RepairRefused(w)
      PROVE  HitsCounted'
  BY <1>14 DEF HitsCounted, RepairRefused, Requeue, Forget, Goto, Release, ledger,
     appending, checkpoint, outcome, ghosts, TypeOK
<1>15. ASSUME NEW w \in Repairers, CycleFails(w)
      PROVE  HitsCounted'
  BY <1>15 DEF HitsCounted, CycleFails, Fault, Requeue, Forget, Goto, Release, ledger,
     appending, checkpoint, outcome, TypeOK
<1>16. ASSUME NEW k \in Buckets, NEW v \in Corruptions, CorruptRow(k, v)
      PROVE  HitsCounted'
  <2>1. /\ k[1] \in Bins /\ \A j \in tainted : j[1] \in Bins
        /\ \A b \in Bins : hits[b] \in Nat
    BY DEF TypeOK, Buckets
  <2>2. /\ hits'[k[1]] = hits[k[1]] + 1
        /\ \A b \in Bins : b # k[1] => hits'[b] = hits[b]
        /\ tainted' = tainted \cup {k}
        /\ UNCHANGED <<memory, bins, repeat>>
    BY <1>16, <2>1 DEF CorruptRow, checkpoint, cycle, TypeOK
  <2>3. \A b \in Bins : hits'[b] \in Nat /\ hits'[b] >= hits[b]
    BY <2>1, <2>2
  <2>4. memory \subseteq Bins /\ \A w \in Repairers : bins[w] \subseteq Bins /\ repeat[w] \subseteq Bins
    BY DEF TypeOK
  <2>5. \A j \in tainted' : hits'[j[1]] >= 1
    BY <2>1, <2>2, <2>3 DEF HitsCounted
  <2>6. \A j \in tainted' : j[1] \in memory => hits'[j[1]] >= 2
    BY <2>1, <2>2, <2>3 DEF HitsCounted
  <2>7. \A b \in memory : hits'[b] >= 1
    BY <2>1, <2>3, <2>4 DEF HitsCounted
  <2>8. \A w \in Repairers : (\A b \in bins[w] : hits'[b] >= 1) /\ (\A b \in repeat[w] : hits'[b] >= 2)
    BY <2>1, <2>3, <2>4 DEF HitsCounted
  <2> QED
    BY <2>2, <2>5, <2>6, <2>7, <2>8 DEF HitsCounted
<1>17. ASSUME NEW n \in Jumps, CorruptCheckpoint(n)
      PROVE  HitsCounted'
  BY <1>17 DEF HitsCounted, CorruptCheckpoint, Fault, ledger, appending, cycle, outcome,
     TypeOK
<1>18. CASE UNCHANGED vars
  BY <1>18 DEF HitsCounted, vars, ledger, appending, checkpoint, cycle, outcome, ghosts,
     TypeOK
<1> QED
  BY <1>1, <1>2, <1>3, <1>4, <1>5, <1>6, <1>7, <1>8, <1>9, <1>10, <1>11, <1>12, <1>13,
     <1>14, <1>15, <1>16, <1>17, <1>18 DEF Next, WriterStep, DetectStep, RepairStep

\* Only a repeat is quarantined.
LEMMA RelapseStep ==
    ASSUME IInv, [Next]_vars
    PROVE  QuarantineIsRelapse'
<1> USE Bounds, Repair DEF IInv
<1>1. ASSUME NEW w \in Writers, NEW m \in Movements, AppendBegin(w, m)
      PROVE  QuarantineIsRelapse'
  BY <1>1 DEF QuarantineIsRelapse, AppendBegin, Acquire, ledger, checkpoint, cycle, outcome,
     ghosts, HitsCounted, TypeOK
<1>2. ASSUME NEW w \in Writers, AppendCommit(w)
      PROVE  QuarantineIsRelapse'
  BY <1>2 DEF QuarantineIsRelapse, AppendCommit, EndAppend, Release, checkpoint, cycle,
     outcome, ghosts, HitsCounted, TypeOK
<1>3. ASSUME NEW w \in Writers, AppendAbort(w)
      PROVE  QuarantineIsRelapse'
  BY <1>3 DEF QuarantineIsRelapse, AppendAbort, EndAppend, Release, ledger, checkpoint,
     cycle, outcome, ghosts, HitsCounted, TypeOK
<1>4. ASSUME NEW w \in Workers, Pick(w)
      PROVE  QuarantineIsRelapse'
  BY <1>4 DEF QuarantineIsRelapse, Pick, Goto, ledger, appending, checkpoint, outcome,
     ghosts, HitsCounted, TypeOK
<1>5. ASSUME NEW w \in Workers, Idle(w)
      PROVE  QuarantineIsRelapse'
  BY <1>5 DEF QuarantineIsRelapse, Idle, vars, ledger, appending, checkpoint, cycle,
     outcome, ghosts, HitsCounted, TypeOK
<1>6. ASSUME NEW w \in Workers, DetectSkip(w)
      PROVE  QuarantineIsRelapse'
  BY <1>6 DEF QuarantineIsRelapse, DetectSkip, Forget, Goto, ledger, appending, outcome,
     ghosts, HitsCounted, TypeOK
<1>7. ASSUME NEW w \in Workers, DetectDiscard(w)
      PROVE  QuarantineIsRelapse'
  BY <1>7 DEF QuarantineIsRelapse, DetectDiscard, Advance, Flag, Forget, Goto, ledger,
     appending, outcome, ghosts, HitsCounted, TypeOK
<1>8. ASSUME NEW w \in Workers, DetectClean(w)
      PROVE  QuarantineIsRelapse'
  BY <1>8 DEF QuarantineIsRelapse, DetectClean, Advance, Forget, Goto, ledger, appending,
     outcome, ghosts, HitsCounted, TypeOK
<1>9. ASSUME NEW w \in Workers, DetectDivergent(w)
      PROVE  QuarantineIsRelapse'
  BY <1>9 DEF QuarantineIsRelapse, DetectDivergent, Flag, Goto, ledger, appending,
     checkpoint, outcome, ghosts, HitsCounted, TypeOK
<1>10. ASSUME NEW w \in Workers, RepairFold(w)
      PROVE  QuarantineIsRelapse'
  BY <1>10 DEF QuarantineIsRelapse, RepairFold, Acquire, Goto, ledger, appending,
     checkpoint, outcome, ghosts, HitsCounted, TypeOK
<1>11. ASSUME NEW w \in Operators, NEW scope, OperatorFold(w, scope)
      PROVE  QuarantineIsRelapse'
  BY <1>11 DEF QuarantineIsRelapse, OperatorFold, Acquire, Goto, ledger, appending,
     checkpoint, outcome, ghosts, HitsCounted, TypeOK
<1>12. ASSUME NEW w \in Repairers, RepairCommit(w)
      PROVE  QuarantineIsRelapse'
  BY <1>12 DEF QuarantineIsRelapse, RepairCommit, Rebuild, Forget, Goto, Release, appending,
     HitsCounted, TypeOK
<1>13. ASSUME NEW w \in Repairers, OperatorCommit(w)
      PROVE  QuarantineIsRelapse'
  BY <1>13 DEF QuarantineIsRelapse, OperatorCommit, Rebuild, Forget, Goto, Release,
     appending, checkpoint, HitsCounted, TypeOK
<1>14. ASSUME NEW w \in Repairers, RepairRefused(w)
      PROVE  QuarantineIsRelapse'
  BY <1>14 DEF QuarantineIsRelapse, RepairRefused, Requeue, Forget, Goto, Release, ledger,
     appending, checkpoint, outcome, ghosts, HitsCounted, TypeOK
<1>15. ASSUME NEW w \in Repairers, CycleFails(w)
      PROVE  QuarantineIsRelapse'
  BY <1>15 DEF QuarantineIsRelapse, CycleFails, Fault, Requeue, Forget, Goto, Release,
     ledger, appending, checkpoint, outcome, HitsCounted, TypeOK
<1>16. ASSUME NEW k \in Buckets, NEW v \in Corruptions, CorruptRow(k, v)
      PROVE  QuarantineIsRelapse'
  BY <1>16 DEF QuarantineIsRelapse, CorruptRow, Fault, appending, checkpoint, cycle,
     outcome, HitsCounted, TypeOK
<1>17. ASSUME NEW n \in Jumps, CorruptCheckpoint(n)
      PROVE  QuarantineIsRelapse'
  BY <1>17 DEF QuarantineIsRelapse, CorruptCheckpoint, Fault, ledger, appending, cycle,
     outcome, HitsCounted, TypeOK
<1>18. CASE UNCHANGED vars
  BY <1>18 DEF QuarantineIsRelapse, vars, ledger, appending, checkpoint, cycle, outcome,
     ghosts, HitsCounted, TypeOK
<1> QED
  BY <1>1, <1>2, <1>3, <1>4, <1>5, <1>6, <1>7, <1>8, <1>9, <1>10, <1>11, <1>12, <1>13,
     <1>14, <1>15, <1>16, <1>17, <1>18 DEF Next, WriterStep, DetectStep, RepairStep

\* The initial states satisfy the invariant.
LEMMA InitIInv == Init => IInv
<1> SUFFICES ASSUME Init PROVE IInv
  OBVIOUS
<1>1. TypeOK
  BY InitType
<1>2. ProjectionAgrees
  <2> SUFFICES ASSUME NEW k \in Buckets PROVE Agrees(k)
    BY DEF ProjectionAgrees
  <2>1. onHand[k] = Missing /\ head = 0
    BY DEF Init
  <2>2. 1 .. 0 = {}
    OBVIOUS
  <2> QED
    BY <2>1, <2>2 DEF Agrees, Supported, In, Out
<1>3. LockHeld /\ MoveCovered /\ HitsCounted /\ QuarantineIsRelapse
  BY DEF Init, LockHeld, MoveCovered, HitsCounted, QuarantineIsRelapse
<1> QED
  BY <1>1, <1>2, <1>3 DEF IInv

\* The invariant is inductive.
LEMMA StepIInv == IInv /\ [Next]_vars => IInv'
<1> SUFFICES ASSUME IInv, [Next]_vars PROVE IInv'
  OBVIOUS
<1>1. TypeOK'
  BY TypeStep DEF IInv
<1> QED
  BY <1>1, LockStep, MoveStep, AgreesStep, HitsStep, RelapseStep DEF IInv

\* For any number of writers, workers, operators, bins and batches, and any
\* length of the ledger: every projection row that nothing outside the ledger
\* wrote since its last rebuild is exactly the fold of the committed events.
THEOREM ProjectionCorrect == Spec => []ProjectionAgrees
<1>1. IInv => ProjectionAgrees
  BY DEF IInv
<1> QED
  BY <1>1, InitIInv, StepIInv, PTL DEF Spec

\* For every value of the constants: a bin is quarantined for repeated
\* divergence only after at least two out-of-band writes hit it.
THEOREM QuarantineCorrect == Spec => []QuarantineIsRelapse
<1>1. IInv => QuarantineIsRelapse
  BY DEF IInv
<1> QED
  BY <1>1, InitIInv, StepIInv, PTL DEF Spec

\* A step that changes what a bin holds, other than an out-of-band write to
\* it, moves the bin's epoch forward.
LEMMA EpochStep ==
    ASSUME IInv, [Next]_vars, NEW b \in Bins, hits'[b] = hits[b],
           NEW a \in Arms, onHand'[<<b, a>>] # onHand[<<b, a>>]
    PROVE  epoch'[b] > epoch[b]
<1> DEFINE k == <<b, a>>
<1>0. k \in Buckets /\ epoch[b] \in Nat /\ TypeOK
  BY DEF Buckets, IInv, TypeOK
<1>1. ASSUME NEW w \in Writers, AppendCommit(w) PROVE epoch'[b] > epoch[b]
  <2>1. Folded(move[w], k) # onHand[k]
    BY <1>0, <1>1 DEF AppendCommit
  <2>2. Receives(move[w], k) \/ Releases(move[w], k)
    BY <2>1 DEF Folded
  <2>3. b \in {move[w].from, move[w].to}
    BY <2>2 DEF Receives, Releases
  <2> QED
    BY <1>0, <1>1, <2>3 DEF AppendCommit, Bumps
<1>2. ASSUME NEW B, NEW n, Rebuild(B, n) PROVE epoch'[b] > epoch[b]
  <2>1. Rebuilt(B, k, n) # onHand[k]
    BY <1>0, <1>2 DEF Rebuild
  <2> QED
    BY <1>0, <1>2, <2>1 DEF Rebuild
<1>3. ASSUME NEW j \in Buckets, NEW v \in Corruptions, CorruptRow(j, v)
      PROVE  epoch'[b] > epoch[b]
  <2>1. j # k
    BY <1>0, <1>3 DEF CorruptRow, TypeOK
  <2> QED
    BY <1>0, <1>3, <2>1 DEF CorruptRow, TypeOK
<1>4. ~ UNCHANGED onHand
  OBVIOUS
<1> QED
  BY <1>1, <1>2, <1>3, <1>4
  DEF Next, WriterStep, DetectStep, RepairStep, AppendBegin, AppendAbort, Pick, Idle, DetectSkip,
      DetectDiscard, DetectClean, DetectDivergent, RepairFold, OperatorFold, RepairCommit,
      OperatorCommit, RepairRefused, CycleFails, CorruptCheckpoint, vars, ledger

\* For every value of the constants, a bin's contents and its epoch never
\* part: whatever the ledger or a rebuild changes, the epoch moves with it.
THEOREM EpochCorrect == Spec => ContentsMoveEpoch
<1>1. IInv /\ [Next]_vars =>
        [\A b \in Bins :
          hits'[b] = hits[b] /\ (\E a \in Arms : onHand'[<<b, a>>] # onHand[<<b, a>>])
          => epoch'[b] > epoch[b]]_vars
  BY EpochStep
<1> QED
  BY <1>1, InitIInv, StepIInv, PTL DEF Spec, ContentsMoveEpoch


-----------------------------------------------------------------------------
(* The serial arm of the same append: any number of processes, whatever    *)
(* their clocks do, for every span of the sequence and every length of the *)
(* history.                                                                *)

\* The types the order of ids needs.
SerialTypes ==
    /\ clock \in [Processes -> Nat]
    /\ lastMs \in [Processes -> Nat]
    /\ lastRaw \in [Processes -> Nat]
    /\ sequence \in [Processes -> 0 .. Span - 1]
    /\ length \in 0 .. MaxEvents
    /\ from \in [1 .. MaxEvents -> Places]
    /\ to \in [1 .. MaxEvents -> Places]
    /\ ms \in [1 .. MaxEvents -> Nat]
    /\ no \in [1 .. MaxEvents -> Nat]
    /\ appender \in Processes
    /\ handed \in SUBSET (2 .. length)

\* The last event's id is at most the last id of the process that appended
\* it, unless that process's clock has gone back since.
LastBehind ==
    length > 0 /\ ~ rewound =>
        \/ ms[length] < lastMs[appender]
        \/ ms[length] = lastMs[appender] /\ no[length] <= sequence[appender]

\* Ids increase in commit order.
Ordered == \A d \in 1 .. length : \A e \in 1 .. length : d < e => Before(d, e)

\* The inductive invariant.
SerialInv ==
    /\ SerialTypes
    /\ LastBehind
    /\ HandoversOrdered => Ordered /\ Chained

\* What the assumptions on the constants give the arithmetic.
LEMMA SerialBounds ==
    Span \in Nat /\ Span > 1 /\ MaxMs \in Nat /\ MaxEvents \in Nat /\ Nowhere \in Places
BY SerialAssumption DEF Places

\* The initial state satisfies the invariant.
LEMMA SerialInitInv == SerialInit => SerialInv
BY SerialBounds DEF SerialInit, SerialInv, SerialTypes, LastBehind, Ordered, Chained

\* A new id is well-formed, and greater than the process's last one unless
\* its clock has gone back.
LEMMA MintGrows ==
    ASSUME SerialTypes, NEW p \in Processes, NEW r \in Starts
    PROVE  /\ NextMs(p) \in Nat /\ NextSequence(p, r) \in 0 .. Span - 1
           /\ \/ Rewinds(p)
              \/ lastMs[p] < NextMs(p)
              \/ lastMs[p] = NextMs(p) /\ sequence[p] < NextSequence(p, r)
<1>1. /\ clock[p] \in Nat /\ lastMs[p] \in Nat /\ lastRaw[p] \in Nat
      /\ sequence[p] \in 0 .. Span - 1
  BY DEF SerialTypes
<1>2. r \in 0 .. Span - 2
  BY DEF Starts
<1>3. CASE Fresh(p)
  <2>1. clock[p] > lastMs[p] \/ Rewinds(p)
    BY <1>3 DEF Fresh
  <2> QED
    BY <2>1, <1>1, <1>2, <1>3, SerialBounds DEF NextMs, NextSequence
<1>4. CASE ~ Fresh(p)
  BY <1>1, <1>4, SerialBounds DEF NextMs, NextSequence, Wrapped
<1> QED
  BY <1>3, <1>4

\* Minting writes the process's own id state.
LEMMA MintStep ==
    ASSUME SerialTypes, NEW p \in Processes, NEW r \in Starts, Mint(p, r)
    PROVE  /\ lastMs' \in [Processes -> Nat]
           /\ lastRaw' \in [Processes -> Nat]
           /\ sequence' \in [Processes -> 0 .. Span - 1]
           /\ lastMs'[p] = NextMs(p) /\ sequence'[p] = NextSequence(p, r)
           /\ \A q \in Processes \ {p} : lastMs'[q] = lastMs[q] /\ sequence'[q] = sequence[q]
BY MintGrows DEF SerialTypes, Mint

\* While ids follow the commits, the latest event by id committed last.
LEMMA LatestIsLast ==
    ASSUME SerialTypes, Ordered, NEW e \in 1 .. length, Latest(e)
    PROVE  e = length
<1>1. length \in 1 .. length /\ length \in Nat
  BY SerialBounds DEF SerialTypes
<1>2. e < length => Before(e, length)
  BY <1>1 DEF Ordered
<1>3. ~ Before(e, length)
  BY <1>1 DEF Latest
<1> QED
  BY <1>1, <1>2, <1>3

\* An append that the ids so far have not misled leaves the place the unit is.
LEMMA LegalIsThere ==
    ASSUME SerialTypes, Ordered, NEW f \in Places, Legal(f)
    PROVE  f = IF length = 0 THEN Nowhere ELSE to[length]
<1>1. CASE length = 0
  <2>1. 1 .. length = {}
    BY <1>1
  <2> QED
    BY <1>1, <2>1 DEF Legal
<1>2. CASE length # 0
  BY <1>2, LatestIsLast DEF Legal
<1> QED
  BY <1>1, <1>2

\* A movement of the serial keeps the invariant.
LEMMA AppendSerialStep ==
    ASSUME SerialInv, NEW p \in Processes, NEW f \in Places, NEW t \in Places,
           NEW r \in Starts, Append(p, f, t, r)
    PROVE  SerialInv'
<1> DEFINE x == length + 1
<1>w. /\ length < MaxEvents /\ length' = x /\ UNCHANGED clock
      /\ from' = [from EXCEPT ![x] = f] /\ to' = [to EXCEPT ![x] = t]
      /\ ms' = [ms EXCEPT ![x] = NextMs(p)] /\ no' = [no EXCEPT ![x] = NextSequence(p, r)]
  BY DEF Append
<1>t. /\ clock \in [Processes -> Nat] /\ length \in 0 .. MaxEvents
      /\ from \in [1 .. MaxEvents -> Places] /\ to \in [1 .. MaxEvents -> Places]
      /\ ms \in [1 .. MaxEvents -> Nat] /\ no \in [1 .. MaxEvents -> Nat]
  BY DEF SerialInv, SerialTypes
<1>0. /\ length \in Nat /\ length < MaxEvents /\ x \in 1 .. MaxEvents /\ length' = x
      /\ 1 .. x = (1 .. length) \cup {x} /\ 1 .. length \subseteq 1 .. MaxEvents
  BY <1>w, <1>t, SerialBounds
<1>1. /\ lastMs' \in [Processes -> Nat]
      /\ lastRaw' \in [Processes -> Nat]
      /\ sequence' \in [Processes -> 0 .. Span - 1]
      /\ lastMs'[p] = NextMs(p) /\ sequence'[p] = NextSequence(p, r)
  BY MintStep DEF Append, SerialInv
<1>2. /\ NextMs(p) \in Nat /\ NextSequence(p, r) \in 0 .. Span - 1
      /\ NextSequence(p, r) \in Nat
      /\ \/ Rewinds(p)
         \/ lastMs[p] < NextMs(p)
         \/ lastMs[p] = NextMs(p) /\ sequence[p] < NextSequence(p, r)
  BY MintGrows, SerialBounds DEF SerialInv
<1>3. appender' = p /\ handed' = handed \cup {e \in {x} : Handover(p)} /\ UNCHANGED clock
  BY DEF Append
<1>4. handed' \in SUBSET (2 .. x)
  <2>1. handed \subseteq 2 .. x
    BY <1>0 DEF SerialInv, SerialTypes
  <2>2. Handover(p) => x \in 2 .. x
    BY <1>0 DEF Handover
  <2> HIDE DEF x
  <2> QED
    BY <1>3, <2>1, <2>2
<1>5. SerialTypes'
  <2>1. /\ length' \in 0 .. MaxEvents
        /\ from' \in [1 .. MaxEvents -> Places] /\ to' \in [1 .. MaxEvents -> Places]
        /\ ms' \in [1 .. MaxEvents -> Nat] /\ no' \in [1 .. MaxEvents -> Nat]
    BY <1>0, <1>2, <1>w, <1>t, SerialBounds
  <2>2. handed' \in SUBSET (2 .. length')
    BY <1>0, <1>4
  <2> QED
    BY <1>1, <1>3, <1>t, <2>1, <2>2 DEF SerialTypes
<1>6. /\ ms'[x] = NextMs(p) /\ no'[x] = NextSequence(p, r) /\ from'[x] = f /\ to'[x] = t
      /\ \A e \in 1 .. length : /\ ms'[e] = ms[e] /\ no'[e] = no[e]
                                /\ from'[e] = from[e] /\ to'[e] = to[e]
  BY <1>0, <1>2, <1>w, <1>t
<1>7. \A e \in 1 .. length : ms[e] \in Nat /\ no[e] \in Nat
  BY <1>0 DEF SerialInv, SerialTypes
<1>8. LastBehind'
  BY <1>0, <1>1, <1>2, <1>3, <1>6 DEF LastBehind
<1>9. ASSUME HandoversOrdered'
      PROVE  Ordered' /\ Chained'
  <2>1. \A e \in handed : e \in 1 .. length /\ e - 1 \in 1 .. length
    BY <1>0 DEF SerialInv, SerialTypes
  <2>2. HandoversOrdered
    BY <1>3, <1>6, <1>9, <2>1 DEF HandoversOrdered, Before
  <2>3. SerialTypes /\ Ordered /\ Chained
    BY <2>2 DEF SerialInv
  <2>4. ASSUME length # 0
        PROVE  ms[length] < NextMs(p) \/ (ms[length] = NextMs(p) /\ no[length] < NextSequence(p, r))
    <3>0. length \in 1 .. length
      BY <1>0, <2>4
    <3>1. CASE Handover(p)
      <4>1. x \in handed' /\ x - 1 = length
        BY <1>0, <1>3, <3>1
      <4>2. \/ ms'[x - 1] < ms'[x]
            \/ ms'[x - 1] = ms'[x] /\ no'[x - 1] < no'[x]
        BY <1>9, <4>1 DEF HandoversOrdered, Before
      <4> QED
        BY <1>0, <1>6, <3>0, <4>1, <4>2
    <3>2. CASE ~ Handover(p)
      <4>1. p = appender /\ ~ rewound /\ ~ Rewinds(p)
        BY <1>0, <2>4, <3>2 DEF Handover
      <4>2. \/ ms[length] < lastMs[p]
            \/ ms[length] = lastMs[p] /\ no[length] <= sequence[p]
        BY <1>0, <2>4, <4>1 DEF SerialInv, LastBehind
      <4>3. lastMs[p] \in Nat /\ sequence[p] \in Nat
        BY SerialBounds DEF SerialInv, SerialTypes
      <4> QED
        BY <1>2, <1>7, <3>0, <4>1, <4>2, <4>3
    <3> QED
      BY <3>1, <3>2
  <2>5. ASSUME NEW d \in 1 .. length
        PROVE  ms[d] < NextMs(p) \/ (ms[d] = NextMs(p) /\ no[d] < NextSequence(p, r))
    <3>1. length # 0 /\ length \in 1 .. length
      BY <1>0
    <3>2. d = length \/ ms[d] < ms[length] \/ (ms[d] = ms[length] /\ no[d] < no[length])
      BY <1>0, <2>3, <3>1 DEF Ordered, Before
    <3> QED
      BY <1>2, <1>7, <2>4, <3>1, <3>2
  <2>6. Ordered'
    <3> SUFFICES ASSUME NEW d \in 1 .. x, NEW e \in 1 .. x, d < e
                 PROVE  ms'[d] < ms'[e] \/ (ms'[d] = ms'[e] /\ no'[d] < no'[e])
      BY <1>0 DEF Ordered, Before
    <3>1. d \in 1 .. length
      BY <1>0
    <3>2. CASE e = x
      BY <3>1, <3>2, <1>6, <2>5
    <3>3. CASE e \in 1 .. length
      BY <3>1, <3>3, <1>6, <2>3 DEF Ordered, Before
    <3> QED
      BY <3>2, <3>3, <1>0
  <2>7. f = IF length = 0 THEN Nowhere ELSE to[length]
    BY <2>3, LegalIsThere DEF Append
  <2>8. Chained'
    <3> SUFFICES ASSUME NEW e \in 1 .. x
                 PROVE  from'[e] = IF e = 1 THEN Nowhere ELSE to'[e - 1]
      BY <1>0 DEF Chained
    <3>1. CASE e = x
      <4>1. CASE length = 0
        BY <3>1, <4>1, <1>6, <2>7
      <4>2. CASE length # 0
        <5>1. e - 1 = length /\ length \in 1 .. length /\ e # 1
          BY <3>1, <4>2, <1>0
        <5> QED
          BY <5>1, <3>1, <4>2, <1>6, <2>7
      <4> QED
        BY <4>1, <4>2
    <3>2. CASE e \in 1 .. length
      <4>1. e = 1 \/ e - 1 \in 1 .. length
        BY <3>2, <1>0
      <4> QED
        BY <3>2, <4>1, <1>6, <2>3 DEF Chained
    <3> QED
      BY <3>1, <3>2, <1>0
  <2> QED
    BY <2>6, <2>8
<1> QED
  BY <1>5, <1>8, <1>9 DEF SerialInv

\* Minting an id for anything else keeps the invariant.
LEMMA MintOtherStep ==
    ASSUME SerialInv, NEW p \in Processes, NEW r \in Starts, MintOther(p, r)
    PROVE  SerialInv'
<1>1. /\ lastMs' \in [Processes -> Nat]
      /\ lastRaw' \in [Processes -> Nat]
      /\ sequence' \in [Processes -> 0 .. Span - 1]
      /\ lastMs'[p] = NextMs(p) /\ sequence'[p] = NextSequence(p, r)
      /\ \A q \in Processes \ {p} : lastMs'[q] = lastMs[q] /\ sequence'[q] = sequence[q]
  BY MintStep DEF MintOther, SerialInv
<1>2. /\ NextMs(p) \in Nat /\ NextSequence(p, r) \in 0 .. Span - 1
      /\ \/ Rewinds(p)
         \/ lastMs[p] < NextMs(p)
         \/ lastMs[p] = NextMs(p) /\ sequence[p] < NextSequence(p, r)
  BY MintGrows DEF SerialInv
<1>3. UNCHANGED <<clock, length, from, to, ms, no, appender, handed>>
  BY DEF MintOther, events
<1>4. SerialTypes' /\ (HandoversOrdered' => Ordered' /\ Chained')
  <2>1. SerialTypes'
    BY <1>1, <1>3 DEF SerialInv, SerialTypes
  <2>2. HandoversOrdered' => HandoversOrdered
    BY <1>3 DEF HandoversOrdered, Before
  <2>3. (Ordered => Ordered') /\ (Chained => Chained')
    BY <1>3 DEF Ordered, Before, Chained
  <2> QED
    BY <2>1, <2>2, <2>3 DEF SerialInv
<1>5. LastBehind'
  <2> SUFFICES ASSUME length > 0, ~ rewound'
               PROVE  \/ ms[length] < lastMs'[appender]
                      \/ ms[length] = lastMs'[appender] /\ no[length] <= sequence'[appender]
    BY <1>3 DEF LastBehind
  <2>1. ~ rewound /\ (p = appender => ~ Rewinds(p))
    BY DEF MintOther
  <2>2. \/ ms[length] < lastMs[appender]
        \/ ms[length] = lastMs[appender] /\ no[length] <= sequence[appender]
    BY <2>1 DEF SerialInv, LastBehind
  <2>3. /\ length \in 1 .. MaxEvents /\ appender \in Processes
        /\ ms[length] \in Nat /\ no[length] \in Nat
        /\ lastMs[appender] \in Nat /\ sequence[appender] \in Nat
    BY SerialBounds DEF SerialInv, SerialTypes
  <2>4. CASE p = appender
    BY <1>1, <1>2, <2>1, <2>2, <2>3, <2>4
  <2>5. CASE p # appender
    BY <1>1, <2>2, <2>3, <2>5
  <2> QED
    BY <2>4, <2>5
<1> QED
  BY <1>4, <1>5 DEF SerialInv

\* A clock that moves, forward or back, keeps the invariant.
LEMMA TickStep ==
    ASSUME SerialInv, NEW p \in Processes, Tick(p)
    PROVE  SerialInv'
<1>1. PICK t \in 1 .. MaxMs : clock' = [clock EXCEPT ![p] = t]
  BY DEF Tick
<1>2. UNCHANGED <<lastMs, lastRaw, sequence, length, from, to, ms, no, appender, rewound, handed>>
  BY DEF Tick, events, handovers
<1>3. SerialTypes'
  BY <1>1, <1>2, SerialBounds DEF SerialInv, SerialTypes
<1> QED
  BY <1>2, <1>3 DEF SerialInv, LastBehind, HandoversOrdered, Ordered, Before, Chained

\* For any number of processes, whose clocks may differ and be set back: as
\* long as the ids agree with the commits at the handovers of the serial, the
\* unit leaves the place it last entered, whatever the sequences' wraps and
\* the other ids minted (serialLatestEventInTx, uuidv7).
THEOREM SerialCorrect == SerialSpec => []SerialChain
<1>1. SerialInv /\ [SerialNext]_serialVars => SerialInv'
  <2> SUFFICES ASSUME SerialInv, [SerialNext]_serialVars PROVE SerialInv'
    OBVIOUS
  <2>1. CASE UNCHANGED serialVars
    BY <2>1 DEF serialVars, ids, events, handovers, SerialInv, SerialTypes, LastBehind,
                HandoversOrdered, Ordered, Before, Chained
  <2> QED
    BY <2>1, AppendSerialStep, MintOtherStep, TickStep DEF SerialNext
<1>2. SerialInv => SerialChain
  BY DEF SerialInv, SerialChain
<1> QED
  BY <1>1, <1>2, SerialInitInv, PTL DEF SerialSpec
=============================================================================
