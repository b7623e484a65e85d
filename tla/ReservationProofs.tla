-------------------------- MODULE ReservationProofs --------------------------
(***************************************************************************)
(* The reservation engine's invariant, for any number of requests,         *)
(* instances, rows and faults, and the no-oversell action property that    *)
(* follows from it.                                                        *)
(***************************************************************************)
EXTENDS Reservation, UnitSumsProofs

-----------------------------------------------------------------------------
(* The inductive invariant. *)

\* A journal sum that no request straddled is the present one.
SnapExact ==
    \A p \in Clients \cup Instances : clean[p] => Busy = {} /\ snap[p] = Reserved

\* The request that holds the stock-row locks is alone, the stock covers the
\* ceiling it read, and that ceiling covers the hold it is about to insert.
InsertSafe ==
    \A c \in Clients : pc[c] = "insert" =>
        /\ \A d \in Clients : pc[d] = "insert" => d = c
        /\ ceil[c] <= stock
        /\ drift # "unknown" => Reserved + qty[c] <= ceil[c]

IInv == TypeOK /\ MirrorAgrees /\ SnapExact /\ InsertSafe

-----------------------------------------------------------------------------
(* How the two sums move. *)

\* Live rows and busy requests are finitely many, so both sums are numbers.
LEMMA SumTypes ==
    ASSUME TypeOK
    PROVE  /\ IsFiniteSet(Live) /\ IsFiniteSet(Busy)
           /\ \A r \in Live : quantity[r] \in Nat
           /\ \A c \in Busy : qty[c] \in Nat
           /\ Reserved \in Nat /\ InFlight \in Nat
<1> USE ReservationAssumption
<1>1. Live \in SUBSET Rows /\ Busy \in SUBSET Clients
  BY DEF Live, Busy
<1>2. IsFiniteSet(Live) /\ IsFiniteSet(Busy)
  BY <1>1, FS_Subset
<1>3. /\ \A r \in Live : quantity[r] \in Nat
      /\ \A c \in Busy : qty[c] \in Nat
  BY <1>1 DEF TypeOK
<1>4. Reserved \in Nat /\ InFlight \in Nat
  BY <1>2, <1>3, TotalType DEF Reserved, InFlight
<1> QED
  BY <1>2, <1>3, <1>4

\* A request that steps between the stores brings its units in flight.
LEMMA BusyJoin ==
    ASSUME TypeOK, NEW c \in Clients, c \notin Busy, NEW q \in Nat,
           NEW w \in Between, pc' = [pc EXCEPT ![c] = w],
           qty' \in [Clients -> Nat], qty'[c] = q,
           \A d \in Clients \ {c} : qty'[d] = qty[d]
    PROVE  Busy' = Busy \cup {c} /\ InFlight' = InFlight + q
<1>1. Busy' = Busy \cup {c}
  BY DEF Busy, TypeOK
<1>2. IsFiniteSet(Busy)
  BY SumTypes
<1>3. \A d \in Busy \cup {c} : qty'[d] \in Nat
  BY DEF Busy
<1>4. Total(Busy \cup {c}, qty') = Total(Busy, qty') + q
  BY <1>2, <1>3, TotalAdd
<1>5. \A d \in Busy : qty[d] = qty'[d]
  BY DEF Busy
<1>6. Total(Busy, qty) = Total(Busy, qty')
  BY <1>5, TotalSame
<1> QED
  BY <1>1, <1>4, <1>6 DEF InFlight

\* A request that answers takes its units out of flight.
LEMMA BusyLeave ==
    ASSUME TypeOK, NEW c \in Busy, Answer(c)
    PROVE  /\ Busy' = Busy \ {c}
           /\ InFlight' \in Nat /\ InFlight = InFlight' + qty[c]
           /\ qty[c] \in Nat
<1>1. Busy' = Busy \ {c} /\ c \in Clients
  BY DEF Busy, TypeOK, Answer, Goto, Between
<1>2. IsFiniteSet(Busy) /\ \A d \in Busy : qty[d] \in Nat
  BY SumTypes
<1>3. /\ Total(Busy \ {c}, qty) \in Nat
      /\ Total(Busy, qty) = Total(Busy \ {c}, qty) + qty[c]
  BY <1>2, TotalRemove
<1>4. \A d \in Busy \ {c} : qty[d] = qty'[d]
  BY DEF Busy, TypeOK, Answer
<1>5. Total(Busy \ {c}, qty) = Total(Busy \ {c}, qty')
  BY <1>4, TotalSame
<1> QED
  BY <1>1, <1>2, <1>3, <1>5 DEF InFlight

\* Nobody enters or leaves: the units in flight stay.
LEMMA BusySame ==
    ASSUME Busy' = Busy, \A d \in Busy : qty'[d] = qty[d]
    PROVE  InFlight' = InFlight
<1>1. Total(Busy, qty) = Total(Busy, qty')
  BY TotalSame
<1> QED
  BY <1>1 DEF InFlight

\* A new hold adds its quantity to the journal's sum.
LEMMA RowOpens ==
    ASSUME TypeOK, NEW r \in Rows, r \notin Live, NEW o, NEW q \in Nat, InsertHeld(r, o, q)
    PROVE  Reserved' = Reserved + q
<1>1. Live' = Live \cup {r}
  BY DEF Live, TypeOK, InsertHeld
<1>2. IsFiniteSet(Live)
  BY SumTypes
<1>3. \A s \in Live \cup {r} : quantity'[s] \in Nat
  BY DEF Live, TypeOK, InsertHeld
<1>4. Total(Live \cup {r}, quantity') = Total(Live, quantity') + quantity'[r]
  BY <1>2, <1>3, TotalAdd
<1>5. quantity'[r] = q
  BY DEF TypeOK, InsertHeld
<1>6. \A s \in Live : quantity[s] = quantity'[s]
  BY DEF Live, TypeOK, InsertHeld
<1>7. Total(Live, quantity) = Total(Live, quantity')
  BY <1>6, TotalSame
<1> QED
  BY <1>1, <1>4, <1>5, <1>7 DEF Reserved

\* A terminal hold takes its quantity off.
LEMMA RowCloses ==
    ASSUME TypeOK, NEW r \in Live, CloseRow(r)
    PROVE  Reserved' \in Nat /\ Reserved = Reserved' + quantity[r]
<1>1. Live' = Live \ {r} /\ r \in Rows
  BY DEF Live, TypeOK, CloseRow
<1>2. IsFiniteSet(Live) /\ \A s \in Live : quantity[s] \in Nat
  BY SumTypes
<1>3. /\ Total(Live \ {r}, quantity) \in Nat
      /\ Total(Live, quantity) = Total(Live \ {r}, quantity) + quantity[r]
  BY <1>2, TotalRemove
<1>4. \A s \in Live \ {r} : quantity[s] = quantity'[s]
  BY DEF Live, TypeOK, CloseRow
<1>5. Total(Live \ {r}, quantity) = Total(Live \ {r}, quantity')
  BY <1>4, TotalSame
<1> QED
  BY <1>1, <1>3, <1>5 DEF Reserved

\* A hold released and re-granted smaller changes the sum by the difference.
LEMMA RowShrinks ==
    ASSUME TypeOK, NEW r \in Live, NEW o, NEW q \in Nat, InsertHeld(r, o, q)
    PROVE  Reserved' \in Nat /\ Reserved' + quantity[r] = Reserved + q
<1>1. Live' = Live /\ r \in Rows
  BY DEF Live, TypeOK, InsertHeld
<1>2. IsFiniteSet(Live) /\ \A s \in Live : quantity[s] \in Nat
  BY SumTypes
<1>3. /\ Total(Live \ {r}, quantity) \in Nat
      /\ Total(Live, quantity) = Total(Live \ {r}, quantity) + quantity[r]
  BY <1>2, TotalRemove
<1>4. \A s \in Live : quantity'[s] \in Nat
  BY DEF Live, TypeOK, InsertHeld
<1>5. /\ Total(Live \ {r}, quantity') \in Nat
      /\ Total(Live, quantity') = Total(Live \ {r}, quantity') + quantity'[r]
  BY <1>2, <1>4, TotalRemove
<1>6. \A s \in Live \ {r} : quantity[s] = quantity'[s]
  BY DEF Live, TypeOK, InsertHeld
<1>7. Total(Live \ {r}, quantity) = Total(Live \ {r}, quantity')
  BY <1>6, TotalSame
<1>8. quantity'[r] = q /\ quantity[r] \in Nat
  BY <1>1, <1>2 DEF TypeOK, InsertHeld
<1> QED
  BY <1>1, <1>3, <1>5, <1>7, <1>8 DEF Reserved

\* Settling a hold leaves the sum alone.
LEMMA RowCommits ==
    ASSUME TypeOK, NEW r \in Live,
           state' = [state EXCEPT ![r] = "committed"], quantity' = quantity
    PROVE  Reserved' = Reserved
<1>1. Live' = Live
  BY DEF Live, TypeOK
<1> QED
  BY <1>1 DEF Reserved

\* No row is written: the sum stays.
LEMMA RowsSame ==
    ASSUME state' = state, quantity' = quantity
    PROVE  Reserved' = Reserved /\ Live' = Live
BY DEF Reserved, Live

-----------------------------------------------------------------------------
(* Types. *)

\* Every step of a request keeps every variable in its type.
LEMMA ClientStepType ==
    ASSUME TypeOK, NEW c \in Clients, ClientStep(c)
    PROVE  TypeOK'
<1> USE ReservationAssumption
<1> USE DEF TypeOK, ClientPcs, Between, States, vars, journal, store, client, repair,
            Goto, Answer
<1>0. Reserved \in Nat /\ Ceiling \in Nat
  BY SumTypes DEF Ceiling
<1>1. ASSUME NEW o \in Owners, NEW q \in 1 .. MaxQty, GrantProbe(c, o, q) PROVE TypeOK'
  BY <1>0, <1>1 DEF GrantProbe
<1>2. CASE GrantWins(c)
  BY <1>2 DEF GrantWins, ScriptWins, Straddle, Missing
<1>3. CASE GrantLoses(c) \/ GrantMissing(c) \/ AtpMissing(c) \/ GrantDuplicate(c)
  BY <1>3 DEF GrantLoses, GrantMissing, AtpMissing, GrantDuplicate
<1>4. ASSUME NEW i \in Instances, GrantNotReady(c, i) PROVE TypeOK'
  BY <1>4 DEF GrantNotReady, RebuildPcs
<1>5. CASE HealSum(c)
  BY <1>0, <1>5 DEF HealSum, ReadJournal
<1>6. CASE HealSet(c)
  BY <1>6 DEF HealSet, Forced, DropSnap
<1>7. CASE GrantCheck(c)
  BY <1>0, <1>7 DEF GrantCheck
<1>8. ASSUME NEW r \in Rows, GrantInsert(c, r) PROVE TypeOK'
  BY <1>8 DEF GrantInsert, InsertHeld
<1>9. CASE Mirror(c)
  BY <1>9 DEF Mirror, ReleaseScript, Missing
<1>10. ASSUME NEW r \in Rows, Release(c, r) \/ RetireCommitted(c, r) \/ ExpireDue(c, r)
       PROVE TypeOK'
  <2>1. CloseRow(r) /\ GiveBack(c, quantity[r]) /\ UNCHANGED stock
    BY <1>10 DEF Release, RetireCommitted, ExpireDue
  <2> QED
    BY <2>1 DEF CloseRow, GiveBack, Straddle
<1>11. ASSUME NEW r \in Rows, NEW drawn \in 0 .. MaxQty, NEW owed \in 0 .. MaxQty,
              ShortPick(c, r, drawn, owed)
       PROVE TypeOK'
  <2>1. Remainder(r, drawn, owed) \in {0, owed}
    BY DEF Remainder
  <2>2. quantity[r] - Remainder(r, drawn, owed) \in Nat
    BY <1>11, <2>1 DEF ShortPick
  <2>3. stock' \in Nat
    BY <1>11 DEF ShortPick
  <2> QED
    BY <1>11, <2>2, <2>3 DEF ShortPick, InsertHeld, CloseRow, GiveBack, Straddle
<1>12. CASE JournalFails(c) \/ Abandon(c)
  <2>1. CASE JournalFails(c)
    BY <2>1 DEF JournalFails, Fault
  <2>2. CASE Abandon(c)
    BY <2>2 DEF Abandon, Fault, DropSnap, Leak
  <2> QED
    BY <1>12, <2>1, <2>2
<1>13. ASSUME NEW r \in Rows, CommitAckLost(c, r) PROVE TypeOK'
  BY <1>13 DEF CommitAckLost, Fault, InsertHeld
<1> QED
  BY <1>1, <1>2, <1>3, <1>4, <1>5, <1>6, <1>7, <1>8, <1>9, <1>10, <1>11, <1>12, <1>13
  DEF ClientStep

\* So does every step of an instance's rebuild and parity pass.
LEMMA RepairStepType ==
    ASSUME TypeOK, NEW i \in Instances, RepairStep(i)
    PROVE  TypeOK'
<1> USE ReservationAssumption
<1> USE DEF TypeOK, RebuildPcs, vars, journal, store, client, repair
<1>0. Reserved \in Nat
  BY SumTypes
<1>1. CASE RebuildStart(i) \/ RebuildDisarm(i) \/ RebuildArm(i)
  BY <1>1 DEF RebuildStart, RebuildDisarm, RebuildArm
<1>2. CASE RebuildSum(i)
  <2>1. CASE ReadJournal(i)
    BY <1>0, <1>2, <2>1 DEF RebuildSum, ReadJournal
  <2>2. CASE UNCHANGED <<snap, clean>>
    BY <1>2, <2>2 DEF RebuildSum
  <2> QED
    BY <1>2, <2>1, <2>2 DEF RebuildSum
<1>3. CASE RebuildCompare(i)
  <2>1. CASE counter < snap[i]
    BY <1>3, <2>1 DEF RebuildCompare
  <2>2. CASE ~(counter < snap[i])
    <3>1. DropSnap(i) /\ rpc' = [rpc EXCEPT ![i] = "arm"]
      BY <1>3, <2>2 DEF RebuildCompare
    <3>2. snap' \in [Clients \cup Instances -> Nat] /\ clean' \in [Clients \cup Instances -> BOOLEAN]
      BY <3>1 DEF DropSnap
    <3>3. UNCHANGED <<journal, store, client, parity, drift, faults>>
      BY <1>3 DEF RebuildCompare
    <3> QED
      BY <3>1, <3>2, <3>3
  <2> QED
    BY <2>1, <2>2
<1>4. CASE RebuildSet(i)
  BY <1>4 DEF RebuildSet, Forced, DropSnap
<1>5. CASE RebuildFail(i)
  BY <1>5 DEF RebuildFail, Fault, DropSnap
<1>6. CASE ParityRead(i)
  BY <1>0, <1>6 DEF ParityRead
<1>7. CASE ParityCompare(i)
  BY <1>7 DEF ParityCompare
<1> QED
  BY <1>1, <1>2, <1>3, <1>4, <1>5, <1>6, <1>7 DEF RepairStep

\* And every step of the stock and the store.
LEMMA StockStepType ==
    ASSUME TypeOK, StockStep
    PROVE  TypeOK'
<1> USE ReservationAssumption
<1> USE DEF TypeOK, States, Missing, vars, journal, store, client, repair
<1>1. ASSUME NEW r \in Rows, Commit(r) \/ Pick(r) PROVE TypeOK'
  BY <1>1 DEF Commit, Pick
<1>2. ASSUME NEW n \in 0 .. MaxStock, MoveStock(n) PROVE TypeOK'
  BY <1>2 DEF MoveStock
<1>3. ASSUME NEW n \in 0 .. MaxBlocked, Block(n) PROVE TypeOK'
  BY <1>3 DEF Block
<1>4. CASE Evict \/ Flush
  <2>1. CASE Evict
    BY <2>1 DEF Evict, Fault
  <2>2. CASE Flush
    <3>1. ready' \in BOOLEAN
      BY <2>2, Zenon DEF Flush
    <3> QED
      BY <2>2, <3>1 DEF Flush, Fault
  <2> QED
    BY <1>4, <2>1, <2>2
<1> QED
  BY <1>1, <1>2, <1>3, <1>4 DEF StockStep

\* The initial states have their types.
LEMMA InitType == Init => TypeOK
<1> SUFFICES ASSUME Init PROVE TypeOK
  OBVIOUS
<1>1. clean \in [Clients \cup Instances -> BOOLEAN] /\ ready \in BOOLEAN
  BY Zenon DEF Init
<1>2. stock \in Nat /\ blocked \in Nat
  BY ReservationAssumption DEF Init
<1> QED
  BY <1>1, <1>2 DEF Init, TypeOK, States, ClientPcs, RebuildPcs, Missing, NotReading

\* Type correctness, for every value of the constants.
THEOREM TypeCorrect == Spec => []TypeOK
<1>1. TypeOK /\ [Next]_vars => TypeOK'
  <2>1. TypeOK /\ Next => TypeOK'
    BY ClientStepType, RepairStepType, StockStepType DEF Next
  <2>2. TypeOK /\ UNCHANGED vars => TypeOK'
    BY DEF TypeOK, vars, journal, store, client, repair
  <2> QED
    BY <2>1, <2>2
<1> QED
  BY InitType, <1>1, PTL DEF Spec

-----------------------------------------------------------------------------
(* The three parts of the invariant under the kinds of steps there are. *)

Procs == Clients \cup Instances

\* A request that stays outside the stores leaves both sums alone.
LEMMA BusyOutside ==
    ASSUME TypeOK, NEW c \in Clients, c \notin Busy, NEW w, w \notin Between,
           pc' = [pc EXCEPT ![c] = w], \A d \in Clients \ {c} : qty'[d] = qty[d]
    PROVE  Busy' = Busy /\ InFlight' = InFlight
<1>1. Busy' = Busy
  BY DEF Busy, TypeOK
<1>2. \A d \in Busy : qty'[d] = qty[d]
  BY DEF Busy
<1> QED
  BY <1>1, <1>2, BusySame

\* A request that moves on between the stores keeps its units in flight.
LEMMA BusyInside ==
    ASSUME TypeOK, NEW c \in Busy, NEW w \in Between,
           pc' = [pc EXCEPT ![c] = w], qty' = qty
    PROVE  Busy' = Busy /\ InFlight' = InFlight
<1>1. Busy' = Busy
  BY DEF Busy, TypeOK
<1> QED
  BY <1>1, BusySame

\* Sums that were exact stay exact when nothing they count has moved.
LEMMA SnapKeep ==
    ASSUME SnapExact, Busy' = Busy, Reserved' = Reserved,
           \A p \in Procs : clean'[p] => clean[p] /\ snap'[p] = snap[p]
    PROVE  SnapExact'
BY DEF SnapExact, Procs

\* While a request stands between the stores no sum is taken for exact.
LEMMA SnapBusy ==
    ASSUME SnapExact, Busy # {}, \A p \in Procs : clean'[p] => clean[p]
    PROVE  SnapExact'
BY DEF SnapExact, Procs

\* A step that puts a request there marks every sum.
LEMMA SnapStraddle ==
    ASSUME Straddle
    PROVE  SnapExact'
BY Zenon DEF SnapExact, Straddle

\* A fresh read is exact unless a request stands between the stores.
LEMMA SnapRead ==
    ASSUME TypeOK, SnapExact, NEW p \in Procs, ReadJournal(p), Busy' = Busy,
           Reserved' = Reserved
    PROVE  SnapExact'
<1> SUFFICES ASSUME NEW x \in Procs, clean'[x] PROVE Busy' = {} /\ snap'[x] = Reserved'
  BY DEF SnapExact, Procs
<1>1. CASE x = p
  <2>1. clean'[x] = (Busy = {}) /\ snap'[x] = Reserved
    BY <1>1 DEF ReadJournal, TypeOK, Procs
  <2> QED
    BY <2>1
<1>2. CASE x # p
  <2>1. clean'[x] = clean[x] /\ snap'[x] = snap[x]
    BY <1>2 DEF ReadJournal, TypeOK, Procs
  <2> QED
    BY <2>1 DEF SnapExact, Procs
<1> QED
  BY <1>1, <1>2

\* Nobody new takes the row locks, and what they protect does not get worse.
LEMMA InsertKeep ==
    ASSUME TypeOK, TypeOK', InsertSafe, Reserved \in Nat, Reserved' \in Nat,
           \A c \in Clients : pc'[c] = "insert" =>
               pc[c] = "insert" /\ ceil'[c] = ceil[c] /\ qty'[c] = qty[c],
           Reserved' <= Reserved,
           drift' # "unknown" => drift # "unknown" \/ Busy = {},
           stock' >= stock \/ LockFree
    PROVE  InsertSafe'
<1> SUFFICES ASSUME NEW c \in Clients, pc'[c] = "insert"
             PROVE  /\ \A d \in Clients : pc'[d] = "insert" => d = c
                    /\ ceil'[c] <= stock'
                    /\ drift' # "unknown" => Reserved' + qty'[c] <= ceil'[c]
  BY DEF InsertSafe
<1>1. pc[c] = "insert" /\ ceil'[c] = ceil[c] /\ qty'[c] = qty[c]
  OBVIOUS
<1>2. c \in Busy
  BY <1>1 DEF Busy, Between
<1>3. ceil[c] \in Nat /\ qty[c] \in Nat /\ stock \in Nat /\ stock' \in Nat
  BY DEF TypeOK
<1>4. /\ \A d \in Clients : pc[d] = "insert" => d = c
      /\ ceil[c] <= stock
      /\ drift # "unknown" => Reserved + qty[c] <= ceil[c]
  BY <1>1 DEF InsertSafe
<1>5. stock' >= stock
  BY <1>1 DEF LockFree
<1> QED
  BY <1>1, <1>2, <1>3, <1>4, <1>5

\* A forced write makes the counter exact, or is known not to.
LEMMA ForcedWrite ==
    ASSUME IInv, NEW p \in Procs, Forced(p), Reserved' = Reserved, InFlight' = InFlight
    PROVE  MirrorAgrees' /\ (drift' # "unknown" => Busy = {})
<1>1. CASE clean[p]
  <2>1. Busy = {} /\ snap[p] = Reserved
    BY <1>1 DEF IInv, SnapExact, Procs
  <2>2. InFlight = 0 /\ Reserved \in Nat
    BY <2>1, TotalEmpty, SumTypes DEF IInv, InFlight
  <2>3. counter' = Reserved /\ drift' = "none"
    BY <1>1, <2>1 DEF Forced
  <2> QED
    BY <2>1, <2>2, <2>3 DEF MirrorAgrees
<1>2. CASE ~clean[p]
  BY <1>2 DEF Forced, MirrorAgrees
<1> QED
  BY <1>1, <1>2

\* A counter that stays while the two sums stay still agrees.
LEMMA MirrorKeep ==
    ASSUME MirrorAgrees, counter' \in {counter, Missing}, drift' = drift,
           Reserved' = Reserved, InFlight' = InFlight
    PROVE  MirrorAgrees'
BY DEF MirrorAgrees

-----------------------------------------------------------------------------
(* The steps of a request preserve the invariant. *)

Rest == MirrorAgrees /\ SnapExact /\ InsertSafe

\* A step that touches neither store nor the units in flight.
LEMMA OutsideStep ==
    ASSUME IInv, TypeOK', NEW c \in Clients, c \notin Busy, NEW w, w \notin Between,
           Goto(c, w),
           \A d \in Clients \ {c} : qty'[d] = qty[d] /\ ceil'[d] = ceil[d],
           UNCHANGED <<stock, state, quantity, counter, drift>>,
           \A p \in Procs : clean'[p] => clean[p] /\ snap'[p] = snap[p]
    PROVE  Rest'
<1>0. TypeOK /\ MirrorAgrees /\ SnapExact /\ InsertSafe
  BY DEF IInv
<1>1. Busy' = Busy /\ InFlight' = InFlight
  BY <1>0, BusyOutside DEF Goto
<1>2. Reserved' = Reserved /\ Reserved \in Nat
  BY <1>0, RowsSame, SumTypes
<1>3. MirrorAgrees'
  BY <1>0, <1>1, <1>2, MirrorKeep
<1>4. SnapExact'
  BY <1>0, <1>1, <1>2, SnapKeep
<1>5. \A d \in Clients : pc'[d] = "insert" =>
          pc[d] = "insert" /\ ceil'[d] = ceil[d] /\ qty'[d] = qty[d]
  BY <1>0 DEF Goto, TypeOK, Between
<1>6. InsertSafe'
  BY <1>0, <1>2, <1>5, InsertKeep DEF TypeOK
<1> QED
  BY <1>3, <1>4, <1>6 DEF Rest

\* A grant whose journal transaction starts, fails or loses to a duplicate.
LEMMA InsideStep ==
    ASSUME IInv, TypeOK', NEW c \in Busy, NEW w \in Between \ {"insert"},
           Goto(c, w), UNCHANGED <<qty, stock, state, quantity, counter, drift, snap, clean>>,
           \A d \in Clients \ {c} : ceil'[d] = ceil[d]
    PROVE  Rest'
<1>0. TypeOK /\ MirrorAgrees /\ SnapExact /\ InsertSafe /\ c \in Clients
  BY DEF IInv, Busy
<1>1. Busy' = Busy /\ InFlight' = InFlight
  BY <1>0, BusyInside DEF Goto
<1>2. Reserved' = Reserved /\ Reserved \in Nat
  BY <1>0, RowsSame, SumTypes
<1>3. MirrorAgrees'
  BY <1>0, <1>1, <1>2, MirrorKeep
<1>4. SnapExact'
  BY <1>0, <1>1, <1>2, SnapKeep
<1>5. \A d \in Clients : pc'[d] = "insert" =>
          pc[d] = "insert" /\ ceil'[d] = ceil[d] /\ qty'[d] = qty[d]
  BY <1>0 DEF Goto, TypeOK
<1>6. InsertSafe'
  BY <1>0, <1>2, <1>5, InsertKeep DEF TypeOK
<1> QED
  BY <1>3, <1>4, <1>6 DEF Rest

\* A winning script raises the counter by the units it puts in flight.
LEMMA GrantWinsInv ==
    ASSUME IInv, TypeOK', NEW c \in Clients, GrantWins(c)
    PROVE  Rest'
<1> USE DEF GrantWins, journal, store
<1>0. TypeOK /\ MirrorAgrees /\ SnapExact /\ InsertSafe /\ c \notin Busy
  BY DEF IInv, Busy, Between
<1>1. qty[c] \in Nat /\ counter \in Nat
  BY <1>0 DEF TypeOK, ScriptWins
<1>2. InFlight' = InFlight + qty[c]
  <2>1. "won" \in Between /\ qty \in [Clients -> Nat]
    BY <1>0 DEF Between, TypeOK
  <2> QED
    BY <1>0, <1>1, <2>1, BusyJoin DEF Goto
<1>3. Reserved' = Reserved /\ Reserved \in Nat /\ InFlight \in Nat
  BY <1>0, RowsSame, SumTypes
<1>4. MirrorAgrees'
  BY <1>0, <1>1, <1>2, <1>3 DEF MirrorAgrees, ScriptWins
<1>5. SnapExact'
  BY SnapStraddle
<1>6. \A d \in Clients : pc'[d] = "insert" =>
          pc[d] = "insert" /\ ceil'[d] = ceil[d] /\ qty'[d] = qty[d]
  BY <1>0 DEF Goto, TypeOK
<1>7. InsertSafe'
  BY <1>0, <1>3, <1>6, InsertKeep DEF TypeOK
<1> QED
  BY <1>4, <1>5, <1>7 DEF Rest

\* The heal of a missing counter.
LEMMA HealInv ==
    ASSUME IInv, TypeOK', NEW c \in Clients, HealSum(c) \/ HealSet(c)
    PROVE  Rest'
<1> USE DEF journal, store
<1>0. /\ TypeOK /\ MirrorAgrees /\ SnapExact /\ InsertSafe /\ c \notin Busy
      /\ c \in Procs /\ Reserved \in Nat
  BY SumTypes DEF IInv, Busy, Between, HealSum, HealSet, Procs
<1>1. PICK w \in {"healSet", "idle", "retry"} :
          /\ pc' = [pc EXCEPT ![c] = w]
          /\ UNCHANGED <<journal, qty, asOwner, ceil>>
  BY DEF HealSum, HealSet, Goto
<1>2. Busy' = Busy /\ InFlight' = InFlight
  BY <1>0, <1>1, BusyOutside DEF Between
<1>3. Reserved' = Reserved
  BY <1>1, RowsSame
<1>4. \A d \in Clients : pc'[d] = "insert" =>
          pc[d] = "insert" /\ ceil'[d] = ceil[d] /\ qty'[d] = qty[d]
  BY <1>0, <1>1 DEF TypeOK
<1>5. MirrorAgrees' /\ (drift' # "unknown" => drift # "unknown" \/ Busy = {})
  <2>1. CASE counter' = counter /\ drift' = drift
    BY <1>0, <1>2, <1>3, <2>1, MirrorKeep
  <2>2. CASE Forced(c)
    BY <1>0, <1>2, <1>3, <2>2, ForcedWrite
  <2> QED
    BY <2>1, <2>2 DEF HealSum, HealSet
<1>6. InsertSafe'
  BY <1>0, <1>1, <1>3, <1>4, <1>5, InsertKeep DEF TypeOK
<1>7. SnapExact'
  <2>1. CASE ReadJournal(c)
    BY <1>0, <1>2, <1>3, <2>1, SnapRead
  <2>2. CASE DropSnap(c)
    <3>1. \A p \in Procs : clean'[p] => clean[p] /\ snap'[p] = snap[p]
      BY <1>0, <2>2 DEF DropSnap, TypeOK, Procs
    <3> QED
      BY <1>0, <1>2, <1>3, <3>1, SnapKeep
  <2> QED
    BY <2>1, <2>2 DEF HealSum, HealSet
<1> QED
  BY <1>5, <1>6, <1>7 DEF Rest

\* The locked re-validation: the counter it reads covers this very hold.
LEMMA GrantCheckInv ==
    ASSUME IInv, TypeOK', NEW c \in Clients, GrantCheck(c)
    PROVE  Rest'
<1> USE DEF GrantCheck, journal, store, repair
<1>0. TypeOK /\ MirrorAgrees /\ SnapExact /\ InsertSafe /\ c \in Busy
  BY DEF IInv, Busy, Between
<1>1. CASE counter # Missing /\ counter <= Ceiling
  <2>1. pc' = [pc EXCEPT ![c] = "insert"]
    BY <1>1 DEF Goto
  <2>2. Busy' = Busy /\ InFlight' = InFlight
    BY <1>0, <2>1, BusyInside DEF Between
  <2>3. Reserved' = Reserved /\ Reserved \in Nat
    BY <1>0, RowsSame, SumTypes
  <2>4. MirrorAgrees'
    BY <1>0, <2>2, <2>3, MirrorKeep
  <2>5. SnapExact'
    BY <1>0, <2>2, <2>3, SnapKeep
  <2>6. Total(Busy \ {c}, qty) \in Nat /\ InFlight = Total(Busy \ {c}, qty) + qty[c]
    BY <1>0, SumTypes, TotalRemove DEF InFlight
  <2>7. qty[c] \in Nat /\ counter \in Nat /\ stock \in Nat /\ blocked \in Nat
    BY <1>0, <1>1 DEF TypeOK
  <2>8. ceil'[c] = Ceiling /\ Ceiling <= stock
    BY <1>0, <2>7 DEF TypeOK, Ceiling
  <2>9. drift # "unknown" => Reserved + qty[c] <= Ceiling
    <3>1. drift # "unknown" => counter >= Reserved + InFlight
      BY <1>0, <1>1, <2>3, <2>6, <2>7 DEF MirrorAgrees, TypeOK
    <3>2. Ceiling \in Nat
      BY <2>7 DEF Ceiling
    <3> QED
      BY <1>1, <2>3, <2>6, <2>7, <3>1, <3>2
  <2>10. \A d \in Clients : pc'[d] = "insert" <=> d = c
    BY <1>0, <2>1 DEF LockFree, TypeOK
  <2>11. InsertSafe'
    BY <2>3, <2>8, <2>9, <2>10 DEF InsertSafe
  <2> QED
    BY <2>4, <2>5, <2>11 DEF Rest
<1>2. CASE ~(counter # Missing /\ counter <= Ceiling)
  <2>1. Goto(c, "undo") /\ "undo" \in Between \ {"insert"}
    BY <1>2 DEF Between
  <2>2. \A d \in Clients \ {c} : ceil'[d] = ceil[d]
    BY <1>0 DEF TypeOK
  <2> QED
    BY <1>0, <2>1, <2>2, InsideStep
<1> QED
  BY <1>1, <1>2

\* The insert turns units in flight into a live row.
LEMMA GrantInsertInv ==
    ASSUME IInv, TypeOK', NEW c \in Clients, NEW r \in Rows, GrantInsert(c, r)
    PROVE  Rest'
<1> USE DEF GrantInsert, journal, store, repair
<1>0. TypeOK /\ MirrorAgrees /\ SnapExact /\ InsertSafe /\ c \in Busy
  BY DEF IInv, Busy, Between
<1>1. /\ InFlight' \in Nat /\ InFlight = InFlight' + qty[c] /\ qty[c] \in Nat
  BY <1>0, BusyLeave
<1>2. Reserved' = Reserved + qty[c] /\ Reserved \in Nat
  BY <1>0, <1>1, RowOpens, SumTypes
<1>3. MirrorAgrees'
  BY <1>0, <1>1, <1>2 DEF MirrorAgrees
<1>4. SnapExact'
  BY <1>0, SnapBusy
<1>5. \A d \in Clients : pc'[d] # "insert"
  BY <1>0 DEF InsertSafe, Answer, Goto, TypeOK
<1> QED
  BY <1>3, <1>4, <1>5 DEF Rest, InsertSafe

\* A restore takes the units out of flight and off the counter.
LEMMA MirrorInv ==
    ASSUME IInv, TypeOK', NEW c \in Clients, Mirror(c)
    PROVE  Rest'
<1> USE DEF Mirror, journal, repair
<1>0. TypeOK /\ MirrorAgrees /\ SnapExact /\ InsertSafe /\ c \in Busy
  BY DEF IInv, Busy, Between
<1>1. /\ InFlight' \in Nat /\ InFlight = InFlight' + qty[c] /\ qty[c] \in Nat
  BY <1>0, BusyLeave
<1>2. Reserved' = Reserved /\ Reserved \in Nat
  BY <1>0, RowsSame, SumTypes
<1>3. MirrorAgrees'
  BY <1>0, <1>1, <1>2 DEF MirrorAgrees, ReleaseScript, TypeOK, Missing
<1>4. SnapExact'
  BY <1>0, SnapBusy
<1>5. \A d \in Clients : pc'[d] = "insert" =>
          pc[d] = "insert" /\ ceil'[d] = ceil[d] /\ qty'[d] = qty[d]
  BY <1>0 DEF Answer, Goto, TypeOK
<1>6. InsertSafe'
  BY <1>0, <1>2, <1>5, InsertKeep DEF TypeOK
<1> QED
  BY <1>3, <1>4, <1>6 DEF Rest

\* A part is at most the whole.
LEMMA SumBounds ==
    ASSUME NEW a \in Nat, NEW u \in Nat, NEW b \in Nat, b = a + u
    PROVE  a <= b
OBVIOUS

\* A terminal transition turns units of a live row into units in flight.
LEMMA GiveBackInv ==
    ASSUME IInv, TypeOK', NEW c \in Clients, NEW units \in Nat, GiveBack(c, units),
           Reserved' \in Nat, Reserved = Reserved' + units,
           stock' >= stock \/ LockFree
    PROVE  Rest'
<1> USE DEF GiveBack, store
<1>0. TypeOK /\ MirrorAgrees /\ SnapExact /\ InsertSafe /\ c \notin Busy
  BY DEF IInv, Busy, Between
<1>1. InFlight' = InFlight + units
  <2>1. "restore" \in Between /\ qty' \in [Clients -> Nat] /\ qty'[c] = units
    BY <1>0 DEF Between, TypeOK
  <2>2. \A d \in Clients \ {c} : qty'[d] = qty[d]
    BY <1>0 DEF TypeOK
  <2> QED
    BY <1>0, <2>1, <2>2, BusyJoin DEF Goto
<1>2. Reserved \in Nat /\ InFlight \in Nat
  BY <1>0, SumTypes
<1>3. MirrorAgrees'
  BY <1>0, <1>1, <1>2 DEF MirrorAgrees
<1>4. SnapExact'
  BY SnapStraddle
<1>5. \A d \in Clients : pc'[d] = "insert" =>
          pc[d] = "insert" /\ ceil'[d] = ceil[d] /\ qty'[d] = qty[d]
  BY <1>0 DEF Goto, TypeOK
<1>6. Reserved' <= Reserved /\ drift' = drift
  <2>1. drift' = drift
    OBVIOUS
  <2>2. Reserved' <= Reserved
    BY <1>2, SumBounds
  <2> QED
    BY <2>1, <2>2
<1>7. InsertSafe'
  BY <1>0, <1>2, <1>5, <1>6, InsertKeep
<1> QED
  BY <1>3, <1>4, <1>7 DEF Rest

\* Release, dispatch and the reaper close one row.
LEMMA CloseInv ==
    ASSUME IInv, TypeOK', NEW c \in Clients, NEW r \in Rows,
           Release(c, r) \/ RetireCommitted(c, r) \/ ExpireDue(c, r)
    PROVE  Rest'
<1>0. TypeOK /\ r \in Live /\ CloseRow(r) /\ GiveBack(c, quantity[r]) /\ stock' = stock
  BY DEF IInv, Release, RetireCommitted, ExpireDue, Live
<1>1. Reserved' \in Nat /\ Reserved = Reserved' + quantity[r]
  BY <1>0, RowCloses
<1>2. quantity[r] \in Nat /\ stock \in Nat
  BY <1>0 DEF TypeOK
<1> QED
  BY <1>0, <1>1, <1>2, GiveBackInv

\* A short pick gives back what it does not re-grant.
LEMMA ShortPickInv ==
    ASSUME IInv, TypeOK', NEW c \in Clients, NEW r \in Rows,
           NEW drawn \in Nat, NEW owed \in Nat, ShortPick(c, r, drawn, owed)
    PROVE  Rest'
<1> DEFINE R == Remainder(r, drawn, owed)
<1>0. TypeOK /\ r \in Live /\ GiveBack(c, quantity[r] - R)
  BY DEF IInv, ShortPick, Live
<1>1. R \in {0, owed} /\ quantity[r] \in Nat /\ stock \in Nat
  BY <1>0 DEF TypeOK, Remainder
<1>2. quantity[r] - R \in Nat
  BY <1>1 DEF ShortPick
<1>3. stock' >= stock \/ LockFree
  BY <1>1 DEF ShortPick
<1>4. IF R > 0 THEN InsertHeld(r, owner[r], owed) ELSE CloseRow(r)
  BY DEF ShortPick
<1>5. Reserved \in Nat
  BY <1>0, SumTypes
<1> HIDE DEF R
<1>6. Reserved' \in Nat /\ Reserved = Reserved' + (quantity[r] - R)
  <2>1. CASE R > 0
    <3>1. InsertHeld(r, owner[r], owed) /\ R = owed
      BY <1>1, <1>4, <2>1
    <3>2. Reserved' \in Nat /\ Reserved' + quantity[r] = Reserved + owed
      BY <1>0, <3>1, RowShrinks
    <3> QED
      BY <1>1, <1>5, <3>1, <3>2
  <2>2. CASE ~(R > 0)
    <3>1. CloseRow(r) /\ R = 0
      BY <1>1, <1>4, <2>2
    <3> QED
      BY <1>0, <1>1, <3>1, RowCloses
  <2> QED
    BY <2>1, <2>2
<1> QED
  BY <1>0, <1>2, <1>3, <1>6, GiveBackInv

\* A request that dies between the stores leaves the counter too high.
LEMMA AbandonInv ==
    ASSUME IInv, TypeOK', NEW c \in Clients, Abandon(c)
    PROVE  Rest'
<1> USE DEF Abandon, journal, store
<1>0. TypeOK /\ MirrorAgrees /\ SnapExact /\ InsertSafe /\ c \in Procs
  BY DEF IInv, Procs
<1>1. \A p \in Procs : clean'[p] => clean[p] /\ snap'[p] = snap[p]
  BY <1>0 DEF DropSnap, TypeOK, Procs
<1>2. \A d \in Clients \ {c} : qty'[d] = qty[d] /\ ceil'[d] = ceil[d]
  BY <1>0 DEF Answer, TypeOK
<1>3. CASE c \in Busy
  <2>1. InFlight' \in Nat /\ InFlight = InFlight' + qty[c] /\ qty[c] \in Nat
    BY <1>0, <1>3, BusyLeave
  <2>2. Reserved' = Reserved /\ Reserved \in Nat
    BY <1>0, RowsSame, SumTypes
  <2>3. MirrorAgrees'
    <3>1. counter' = counter /\ counter \in Nat \cup {Missing}
      BY <1>0 DEF TypeOK
    <3>2. drift \in {"none", "over", "unknown"}
      BY <1>0 DEF TypeOK
    <3>3. /\ drift' # "none"
          /\ drift' = "over" => drift \in {"none", "over"}
      BY <1>3, <3>2 DEF Leak
    <3> QED
      BY <1>0, <2>1, <2>2, <3>1, <3>3 DEF MirrorAgrees, Missing
  <2>4. SnapExact'
    BY <1>0, <1>1, <1>3, SnapBusy
  <2>5. \A d \in Clients : pc'[d] = "insert" =>
            pc[d] = "insert" /\ ceil'[d] = ceil[d] /\ qty'[d] = qty[d]
    BY <1>0 DEF Answer, Goto, TypeOK
  <2>6. drift' # "unknown" => drift # "unknown"
    BY <1>3 DEF Leak
  <2>7. InsertSafe'
    BY <1>0, <2>2, <2>5, <2>6, InsertKeep DEF TypeOK
  <2> QED
    BY <2>3, <2>4, <2>7 DEF Rest
<1>4. CASE c \notin Busy
  <2>1. Goto(c, "idle") /\ "idle" \notin Between /\ UNCHANGED drift
    BY <1>4 DEF Answer, Between
  <2> QED
    BY <1>0, <1>1, <1>2, <1>4, <2>1, OutsideStep
<1> QED
  BY <1>3, <1>4

\* A commit whose answer is lost: known to end the guarantee.
LEMMA CommitAckLostInv ==
    ASSUME IInv, TypeOK', NEW c \in Clients, NEW r \in Rows, CommitAckLost(c, r)
    PROVE  Rest'
<1> USE DEF CommitAckLost, repair
<1>0. TypeOK /\ SnapExact /\ InsertSafe /\ c \in Busy
  BY DEF IInv, Busy, Between
<1>1. MirrorAgrees'
  BY DEF MirrorAgrees
<1>2. SnapExact'
  BY <1>0, SnapBusy
<1>3. \A d \in Clients : pc'[d] # "insert"
  BY <1>0 DEF InsertSafe, Goto, TypeOK
<1> QED
  BY <1>1, <1>2, <1>3 DEF Rest, InsertSafe

\* Every step of a request.
LEMMA ClientStepInv ==
    ASSUME IInv, NEW c \in Clients, ClientStep(c)
    PROVE  Rest'
<1> USE DEF journal, store, repair
<1>0. TypeOK /\ TypeOK'
  BY ClientStepType DEF IInv
<1>b. c \in Busy <=> pc[c] \in Between
  BY DEF Busy
<1>1. ASSUME NEW o \in Owners, NEW q \in 1 .. MaxQty, GrantProbe(c, o, q) PROVE Rest'
  <2>1. c \notin Busy /\ Goto(c, "script") /\ "script" \notin Between
    BY <1>1, <1>b DEF GrantProbe, Between
  <2>2. \A d \in Clients \ {c} : qty'[d] = qty[d] /\ ceil'[d] = ceil[d]
    BY <1>0, <1>1 DEF GrantProbe, TypeOK
  <2> QED
    BY <1>0, <1>1, <2>1, <2>2, OutsideStep DEF GrantProbe
<1>2. ASSUME GrantLoses(c) \/ \E i \in Instances : GrantNotReady(c, i) PROVE Rest'
  <2>1. c \notin Busy /\ Goto(c, "idle") /\ "idle" \notin Between
    BY <1>2, <1>b DEF GrantLoses, GrantNotReady, Answer, Between
  <2>2. \A d \in Clients \ {c} : qty'[d] = qty[d] /\ ceil'[d] = ceil[d]
    BY <1>0, <1>2 DEF GrantLoses, GrantNotReady, Answer, TypeOK
  <2> QED
    BY <1>0, <1>2, <2>1, <2>2, OutsideStep DEF GrantLoses, GrantNotReady
<1>3. CASE GrantMissing(c) \/ AtpMissing(c)
  <2>1. c \notin Busy /\ Goto(c, "healSum") /\ "healSum" \notin Between
    BY <1>3, <1>b DEF GrantMissing, AtpMissing, Between
  <2> QED
    BY <1>0, <1>3, <2>1, OutsideStep DEF GrantMissing, AtpMissing
<1>4. CASE GrantDuplicate(c) \/ JournalFails(c)
  <2>1. c \in Busy /\ Goto(c, "undo") /\ "undo" \in Between \ {"insert"}
    BY <1>4, <1>b DEF GrantDuplicate, JournalFails, Between
  <2> QED
    BY <1>0, <1>4, <2>1, InsideStep DEF GrantDuplicate, JournalFails
<1>5. ASSUME NEW r \in Rows, NEW drawn \in 0 .. MaxQty, NEW owed \in 0 .. MaxQty,
             ShortPick(c, r, drawn, owed)
      PROVE  Rest'
  BY <1>0, <1>5, ShortPickInv, ReservationAssumption
<1> QED
  BY <1>0, <1>1, <1>2, <1>3, <1>4, <1>5, GrantWinsInv, HealInv, GrantCheckInv,
     GrantInsertInv, MirrorInv, CloseInv, AbandonInv, CommitAckLostInv
  DEF ClientStep

-----------------------------------------------------------------------------
(* The steps of the repair, the stock and the store. *)

\* A step of no request that leaves the journal's sum alone.
LEMMA AsideStep ==
    ASSUME IInv, TypeOK', UNCHANGED <<pc, qty, ceil>>, Reserved' = Reserved,
           counter' \in {counter, Missing}, drift' = drift,
           stock' >= stock \/ LockFree,
           SnapExact'
    PROVE  Rest'
<1>0. TypeOK /\ MirrorAgrees /\ InsertSafe /\ Reserved \in Nat
  BY SumTypes DEF IInv
<1>1. Busy' = Busy
  BY DEF Busy
<1>2. InFlight' = InFlight
  BY <1>1, BusySame
<1>3. MirrorAgrees'
  BY <1>0, <1>2, MirrorKeep
<1>4. InsertSafe'
  BY <1>0, InsertKeep
<1> QED
  BY <1>3, <1>4 DEF Rest

\* Parity pass and rebuild.
LEMMA RepairStepInv ==
    ASSUME IInv, NEW i \in Instances, RepairStep(i)
    PROVE  Rest'
<1> USE DEF journal, store, client
<1>0. /\ TypeOK /\ TypeOK' /\ SnapExact /\ i \in Procs
      /\ stock \in Nat /\ Reserved \in Nat
  BY RepairStepType, SumTypes DEF IInv, Procs, TypeOK
<1>1. UNCHANGED <<stock, state, quantity, pc, qty, ceil>>
  BY DEF RepairStep, RebuildStart, RebuildDisarm, RebuildSum, RebuildCompare, RebuildSet,
         RebuildArm, RebuildFail, ParityRead, ParityCompare
<1>2. Busy' = Busy /\ Reserved' = Reserved
  BY <1>1, RowsSame DEF Busy
<1>3. stock' >= stock \/ LockFree
  BY <1>0, <1>1
<1>4. ASSUME DropSnap(i) PROVE SnapExact'
  <2>1. \A p \in Procs : clean'[p] => clean[p] /\ snap'[p] = snap[p]
    BY <1>0, <1>4 DEF DropSnap, TypeOK, Procs
  <2> QED
    BY <1>0, <1>2, <2>1, SnapKeep
<1>5. ASSUME UNCHANGED <<snap, clean>> PROVE SnapExact'
  BY <1>0, <1>2, <1>5, SnapKeep
<1>6. CASE RebuildSet(i)
  <2>1. InFlight' = InFlight
    BY <1>1, <1>2, BusySame
  <2>2. MirrorAgrees' /\ (drift' # "unknown" => Busy = {})
    BY <1>0, <1>2, <1>6, <2>1, ForcedWrite DEF RebuildSet
  <2>3. InsertSafe'
    BY <1>0, <1>1, <1>2, <1>3, <2>2, InsertKeep DEF IInv
  <2> QED
    BY <1>4, <1>6, <2>2, <2>3 DEF RebuildSet, Rest
<1>7. CASE RebuildSum(i)
  <2>1. SnapExact'
    BY <1>0, <1>2, <1>5, <1>7, SnapRead DEF RebuildSum
  <2> QED
    BY <1>0, <1>1, <1>2, <1>3, <1>7, <2>1, AsideStep DEF RebuildSum
<1>8. CASE RebuildCompare(i) \/ RebuildFail(i)
  <2>1. SnapExact'
    BY <1>4, <1>5, <1>8 DEF RebuildCompare, RebuildFail
  <2> QED
    BY <1>0, <1>1, <1>2, <1>3, <1>8, <2>1, AsideStep DEF RebuildCompare, RebuildFail
<1>9. CASE \/ RebuildStart(i) \/ RebuildDisarm(i) \/ RebuildArm(i)
           \/ ParityRead(i) \/ ParityCompare(i)
  <2> USE DEF RebuildStart, RebuildDisarm, RebuildArm, ParityRead, ParityCompare
  <2>1. SnapExact'
    BY <1>5, <1>9
  <2>2. counter' = counter /\ drift' = drift
    BY <1>9
  <2> QED
    BY <1>0, <1>1, <1>2, <1>3, <2>1, <2>2, AsideStep
<1> QED
  BY <1>6, <1>7, <1>8, <1>9 DEF RepairStep

\* Picks, other stock movements, blocks, evictions and flushes.
LEMMA StockStepInv ==
    ASSUME IInv, StockStep
    PROVE  Rest'
<1> USE DEF journal, store, client, repair
<1>0. /\ TypeOK /\ TypeOK' /\ SnapExact /\ stock \in Nat /\ stock' \in Nat
  BY StockStepType DEF IInv, TypeOK
<1>1. UNCHANGED <<pc, qty, ceil, snap, clean, drift>> /\ counter' \in {counter, Missing}
  BY DEF StockStep, Commit, Pick, MoveStock, Block, Evict, Flush
<1>2. Reserved' = Reserved
  <2>1. ASSUME NEW r \in Rows, Commit(r) \/ Pick(r) PROVE Reserved' = Reserved
    BY <1>0, <2>1, RowCommits DEF Commit, Pick, Live
  <2>2. ASSUME UNCHANGED <<state, quantity>> PROVE Reserved' = Reserved
    BY <2>2, RowsSame
  <2> QED
    BY <2>1, <2>2 DEF StockStep, MoveStock, Block, Evict, Flush
<1>3. stock' >= stock \/ LockFree
  BY <1>0, ReservationAssumption
  DEF StockStep, Commit, Pick, MoveStock, Block, Evict, Flush
<1>4. SnapExact'
  <2>1. Busy' = Busy
    BY <1>1 DEF Busy
  <2> QED
    BY <1>0, <1>1, <1>2, <2>1, SnapKeep
<1> QED
  BY <1>0, <1>1, <1>2, <1>3, <1>4, AsideStep

-----------------------------------------------------------------------------
(* The theorems. *)

\* The invariant holds initially: nothing is live, nothing is in flight, no sum
\* is taken for exact.
LEMMA InitInv == Init => IInv
<1> SUFFICES ASSUME Init PROVE IInv
  OBVIOUS
<1>1. TypeOK
  BY InitType
<1>2. MirrorAgrees /\ InsertSafe
  BY DEF Init, MirrorAgrees, InsertSafe, Missing
<1>3. \A p \in Procs : clean[p] = FALSE
  BY DEF Init, Procs
<1>4. SnapExact
  BY <1>3 DEF SnapExact, Procs
<1> QED
  BY <1>1, <1>2, <1>4 DEF IInv

\* Every step preserves it.
LEMMA StepInv == IInv /\ [Next]_vars => IInv'
<1> SUFFICES ASSUME IInv, [Next]_vars PROVE IInv'
  OBVIOUS
<1>1. CASE Next
  <2>1. TypeOK'
    BY <1>1, ClientStepType, RepairStepType, StockStepType DEF Next, IInv
  <2>2. Rest'
    BY <1>1, ClientStepInv, RepairStepInv, StockStepInv DEF Next
  <2> QED
    BY <2>1, <2>2 DEF IInv, Rest
<1>2. CASE UNCHANGED vars
  <2> USE <1>2 DEF vars, journal, store, client, repair
  <2>1. TypeOK' /\ MirrorAgrees'
    BY DEF IInv, TypeOK, MirrorAgrees, Reserved, Live, InFlight, Busy
  <2>2. SnapExact'
    BY DEF IInv, SnapExact, Reserved, Live, Busy
  <2>3. InsertSafe'
    BY DEF IInv, InsertSafe, Reserved, Live
  <2> QED
    BY <2>1, <2>2, <2>3 DEF IInv
<1> QED
  BY <1>1, <1>2

\* The counter mirrors the journal: exactly, or from above once units were lost
\* on the way, in every reachable state in which no straddled sum was written
\* and no commit answer was lost since the last clean write (grant, release,
\* expireDue, retireCommittedInTx, grantInTx, rebuildWarehouse, the heals).
THEOREM MirrorCorrect == Spec => []MirrorAgrees
<1>1. IInv => MirrorAgrees
  BY DEF IInv
<1> QED
  BY InitInv, StepInv, <1>1, PTL DEF Spec

\* No grant oversells while that guarantee stands: the only steps that raise
\* the reserved total are inserts, and they stay within the ceiling read under
\* the stock-row locks, which the stock covers.
THEOREM NoOversell == Spec => NeverOversells
<1> DEFINE Fits == drift # "unknown" /\ Reserved' > Reserved =>
                     \E c \in Clients : /\ pc[c] = "insert"
                                        /\ Reserved' <= ceil[c] /\ ceil[c] <= stock'
<1>1. IInv /\ [Next]_vars => [Fits]_vars
  <2> SUFFICES ASSUME IInv, Next, drift # "unknown", Reserved' > Reserved
               PROVE  \E c \in Clients : /\ pc[c] = "insert"
                                         /\ Reserved' <= ceil[c] /\ ceil[c] <= stock'
    BY DEF Fits
  <2>0. TypeOK /\ InsertSafe /\ Reserved \in Nat /\ ~(Reserved' = Reserved)
    BY SumTypes DEF IInv
  <2>1. ASSUME NEW c \in Clients, NEW r \in Rows, GrantInsert(c, r) \/ CommitAckLost(c, r)
        PROVE  /\ pc[c] = "insert"
               /\ Reserved' <= ceil[c] /\ ceil[c] <= stock'
    <3>1. /\ pc[c] = "insert" /\ r \notin Live /\ stock' = stock
          /\ InsertHeld(r, asOwner[c], qty[c]) /\ qty[c] \in Nat
      BY <2>0, <2>1 DEF GrantInsert, CommitAckLost, TypeOK
    <3>2. Reserved' = Reserved + qty[c]
      BY <2>0, <3>1, RowOpens
    <3>3. Reserved + qty[c] <= ceil[c] /\ ceil[c] <= stock
      BY <2>0, <3>1 DEF InsertSafe
    <3> QED
      BY <3>1, <3>2, <3>3
  <2>2. ASSUME NEW c \in Clients, ClientStep(c)
        PROVE  \E r \in Rows : GrantInsert(c, r) \/ CommitAckLost(c, r)
    <3> USE DEF journal
    <3>1. ASSUME NEW r \in Rows, Release(c, r) \/ RetireCommitted(c, r) \/ ExpireDue(c, r)
          PROVE FALSE
      <4>1. r \in Live /\ CloseRow(r) /\ quantity[r] \in Nat
        BY <2>0, <3>1 DEF Release, RetireCommitted, ExpireDue, Live, TypeOK
      <4>2. Reserved' \in Nat /\ Reserved = Reserved' + quantity[r]
        BY <2>0, <4>1, RowCloses
      <4> QED
        BY <2>0, <4>1, <4>2, SumBounds
    <3>2. ASSUME NEW r \in Rows, NEW drawn \in 0 .. MaxQty, NEW owed \in 0 .. MaxQty,
                 ShortPick(c, r, drawn, owed)
          PROVE FALSE
      <4>1. r \in Live /\ quantity[r] \in Nat /\ owed <= quantity[r] /\ owed \in Nat
        BY <2>0, <3>2, ReservationAssumption DEF ShortPick, Live, TypeOK
      <4>2. CASE CloseRow(r)
        <5>1. Reserved' \in Nat /\ Reserved = Reserved' + quantity[r]
          BY <2>0, <4>1, <4>2, RowCloses
        <5> QED
          BY <2>0, <4>1, <5>1, SumBounds
      <4>3. CASE InsertHeld(r, owner[r], owed)
        <5>1. Reserved' \in Nat /\ Reserved' + quantity[r] = Reserved + owed
          BY <2>0, <4>1, <4>3, RowShrinks
        <5> QED
          BY <2>0, <4>1, <5>1
      <4> QED
        BY <3>2, <4>2, <4>3 DEF ShortPick
    <3>3. ASSUME UNCHANGED <<state, quantity>> PROVE FALSE
      BY <2>0, <3>3, RowsSame
    <3> QED
      BY <2>2, <3>1, <3>2, <3>3
      DEF ClientStep, GrantProbe, GrantWins, GrantLoses, GrantMissing, GrantNotReady,
          AtpMissing, HealSum, HealSet, GrantCheck, GrantDuplicate, Mirror, JournalFails,
          Abandon
  <2>3. ASSUME NEW i \in Instances, RepairStep(i) PROVE FALSE
    <3>1. UNCHANGED <<state, quantity>>
      BY <2>3 DEF RepairStep, RebuildStart, RebuildDisarm, RebuildSum, RebuildCompare,
         RebuildSet, RebuildArm, RebuildFail, ParityRead, ParityCompare, journal
    <3> QED
      BY <2>0, <3>1, RowsSame
  <2>4. ASSUME StockStep PROVE FALSE
    <3>1. ASSUME NEW r \in Rows, Commit(r) \/ Pick(r) PROVE Reserved' = Reserved
      BY <2>0, <3>1, RowCommits DEF Commit, Pick, Live
    <3>2. ASSUME UNCHANGED <<state, quantity>> PROVE Reserved' = Reserved
      BY <3>2, RowsSame
    <3> QED
      BY <2>0, <2>4, <3>1, <3>2 DEF StockStep, MoveStock, Block, Evict, Flush, journal
  <2> QED
    BY <2>1, <2>2, <2>3, <2>4 DEF Next
<1> QED
  BY InitInv, StepInv, <1>1, PTL DEF Spec, NeverOversells, Fits
=============================================================================
