--------------------------- MODULE CountingProofs ---------------------------
(***************************************************************************)
(* Counts and stock takes, for any bins, SKUs, takes, tasks and requests:  *)
(* one count of a bin at a time, no freeze without its count, and every    *)
(* correction leaves the bin with what was counted.                        *)
(***************************************************************************)
EXTENDS Counting, FiniteSetTheorems, WellFoundedInduction, TLAPS

OpenOn(b) == {v \in Rows : Status(v) = "open" /\ BinOf(v) = b}

\* Tasks take their ids in order.
Slots == \E k \in 0 .. MaxTasks : \A t \in Tasks : task[t] # "none" <=> t <= k

\* What a task remembers of its bin is what the bin holds, as long as the bin
\* has not moved; only a completed task has variances.
TaskInv(t) ==
    /\ task[t] = "none" => of[t] = None
    /\ task[t] # "none" =>
          /\ bin[t] \in Bins /\ basis[t] <= epoch[bin[t]]
          /\ basis[t] = epoch[bin[t]] => expected[t] = onHand[bin[t]]
    /\ \A s \in Skus : variance[t][s] # "none" => task[t] = "completed"

\* A pending task is the latest of its bin and, unless a request missed a count
\* there, in the take that froze the bin and still counts; a take that counts has
\* all the bins of its tasks frozen.
TakeInv(t) ==
    /\ task[t] = "pending" =>
          /\ \A u \in Tasks : task[u] # "none" /\ bin[u] = bin[t] => u <= t
          /\ \/ bin[t] \in missed
             \/ of[t] = frozen[bin[t]] /\ (of[t] # None => take[of[t]] = "counting")
    /\ of[t] # None => take[of[t]] # "none"
    /\ of[t] # None /\ take[of[t]] = "counting" => frozen[bin[t]] = of[t]

\* The open variances of a frozen bin are of the take that froze it, and none is
\* left while the bin waits for a count, unless a request missed one.
BinInv(b) ==
    frozen[b] # None /\ b \notin missed =>
        \A v \in OpenOn(b) : of[v[1]] = frozen[b] /\ Pending({b}) = {}

\* The open variances of a running take are those of a bin's latest count.
Latest(v) ==
    Status(v) = "open" /\ of[v[1]] # None /\ take[of[v[1]]] \in {"counting", "posting"}
        /\ BinOf(v) \notin missed
    => \A u \in Completed(of[v[1]], BinOf(v)) : u <= v[1]

\* A request has its take for itself, in the state it read, and has locked every
\* open variance of its bins that it did not miss.
ReqInv(r) ==
    /\ cmd[r].kind = "idle" => cmd[r] = Idle
    /\ cmd[r].kind = "start" => cmd[r].take \in Takes /\ take[cmd[r].take] = "none"
    /\ cmd[r].kind = "recount" =>
          /\ cmd[r].take \in Takes /\ take[cmd[r].take] = "counting"
          /\ \A b \in cmd[r].bins : frozen[b] = cmd[r].take
    /\ \A v \in cmd[r].open : task[v[1]] # "none" /\ BinOf(v) \in cmd[r].bins
    /\ \A b \in cmd[r].bins : OpenOn(b) \subseteq cmd[r].open \/ b \in missed
    /\ \A q \in Requests : cmd[q].take = cmd[r].take => q = r \/ cmd[r].take = None

\* The inductive invariant.
IInv ==
    /\ TypeOK /\ Slots
    /\ \A t \in Tasks : TaskInv(t) /\ TakeInv(t)
    /\ \A b \in Bins : BinInv(b)
    /\ \A v \in Rows : Latest(v)
    /\ \A r \in Requests : ReqInv(r)
    /\ FrozenIsCounted /\ ClosedAccounts

-----------------------------------------------------------------------------
(* Constants, least elements, ranks. *)

\* The constants are finite sets, and None is neither a take nor a task.
LEMMA Constants ==
    /\ IsFiniteSet(Bins) /\ Bins \subseteq Nat /\ MaxTasks \in Nat /\ Tasks \subseteq Nat
    /\ IsFiniteSet(Tasks) /\ IsFiniteSet(Skus) /\ IsFiniteSet(Rows)
    /\ None \notin Takes /\ None \notin Tasks
    /\ Stock \in [Bins -> [Skus -> Nat]]
<1>1. /\ IsFiniteSet(Bins) /\ Bins \subseteq Nat /\ MaxTasks \in Nat /\ Tasks \subseteq Nat
      /\ IsFiniteSet(Skus) /\ None \notin Takes /\ None \notin Tasks
      /\ Stock \in [Bins -> [Skus -> Nat]]
  BY CountingConstants DEF Tasks
<1>2. IsFiniteSet(Tasks)
  BY <1>1, FS_Interval DEF Tasks
<1>3. IsFiniteSet(Rows)
  BY <1>1, <1>2, FS_Product DEF Rows
<1> QED
  BY <1>1, <1>2, <1>3

\* A set of numbers that is not empty has a least one.
LEMMA Least ==
    ASSUME NEW S \in SUBSET Nat, S # {}
    PROVE  \E x \in S : \A y \in S : x <= y
<1> DEFINE R == {p \in Nat \X Nat : p[1] < p[2]}
<1>1. IsWellFoundedOn(R, Nat)
  BY NatLessThanWellFounded DEF OpToRel
<1>2. PICK x \in S : \A y \in S : ~ (<<y, x>> \in R)
  BY <1>1, WFMin
<1>3. \A y \in S : ~ (y < x)
  BY <1>2
<1> QED
  BY <1>3

\* Counting the members up to b numbers the members of a finite set from 1 on.
LEMMA Ranks ==
    ASSUME NEW B \in SUBSET Bins
    PROVE  /\ Cardinality(B) \in Nat
           /\ \A b \in B : Cardinality({c \in B : c <= b}) \in 1 .. Cardinality(B)
           /\ \A b, d \in B : Cardinality({c \in B : c <= b}) = Cardinality({c \in B : c <= d})
                              => b = d
           /\ \A n \in 1 .. Cardinality(B) : \E b \in B : Cardinality({c \in B : c <= b}) = n
<1> DEFINE upto(b) == {c \in B : c <= b}
           rank == [b \in B |-> Cardinality(upto(b))]
           last == 1 .. Cardinality(B)
<1>1. IsFiniteSet(B) /\ B \subseteq Nat /\ Cardinality(B) \in Nat
  BY Constants, FS_Subset, FS_CardinalityType
<1>2. \A S \in SUBSET B : IsFiniteSet(S) /\ Cardinality(S) \in Nat /\ Cardinality(S) <= Cardinality(B)
  BY <1>1, FS_Subset, FS_CardinalityType
<1>3. \A b \in B : Cardinality(upto(b)) \in last
  <2> SUFFICES ASSUME NEW b \in B PROVE Cardinality(upto(b)) \in last
    OBVIOUS
  <2>1. b \in upto(b) /\ upto(b) \in SUBSET B
    BY <1>1
  <2>2. Cardinality(upto(b)) # 0
    BY <2>1, <1>2, FS_EmptySet
  <2> HIDE DEF upto
  <2> QED
    BY <2>1, <2>2, <1>1, <1>2
<1>4. \A b, d \in B : b < d => Cardinality(upto(b)) < Cardinality(upto(d))
  <2> SUFFICES ASSUME NEW b \in B, NEW d \in B, b < d
               PROVE  Cardinality(upto(b)) < Cardinality(upto(d))
    OBVIOUS
  <2>0. b \in Nat /\ d \in Nat /\ \A c \in B : c \in Nat
    BY <1>1
  <2>1. upto(b) \in SUBSET upto(d) /\ d \in upto(d) /\ d \notin upto(b) /\ upto(d) \in SUBSET B
    <3>1. \A c \in B : c <= b => c <= d
      BY <2>0
    <3>2. d <= d /\ ~ (d <= b)
      BY <2>0
    <3> QED
      BY <3>1, <3>2
  <2>2. upto(d) # upto(b) /\ upto(b) \in SUBSET B
    BY <2>1
  <2> HIDE DEF upto
  <2>3. Cardinality(upto(b)) <= Cardinality(upto(d)) /\ Cardinality(upto(d)) # Cardinality(upto(b))
    BY <2>1, <2>2, <1>2, FS_Subset
  <2> QED
    BY <2>1, <2>2, <2>3, <1>2
<1>5. \A b, d \in B : Cardinality(upto(b)) = Cardinality(upto(d)) => b = d
  <2> HIDE DEF upto
  <2> QED
    BY <1>1, <1>3, <1>4
<1>6. rank \in Injection(B, last)
  <2> HIDE DEF upto, last
  <2> QED
    BY <1>3, <1>5 DEF Injection, IsInjective
<1>7. IsFiniteSet(last) /\ Cardinality(last) = Cardinality(B)
  BY <1>1, FS_Interval
<1>8. rank \in Surjection(B, last)
  <2> HIDE DEF rank, last
  <2> QED
    BY <1>6, <1>7, FS_Injection
<1>9. \A n \in last : \E b \in B : Cardinality(upto(b)) = n
  BY <1>8 DEF Surjection
<1> QED
  BY <1>1, <1>3, <1>5, <1>9

-----------------------------------------------------------------------------
(* Types. *)

Statuses == {"none", "pending", "completed", "cancelled"}
Owners == Takes \cup {None}
Commands == [kind : {"idle", "start", "recount"}, take : Takes \cup {None},
             bins : SUBSET Bins, tasks : SUBSET Tasks, open : SUBSET Rows]

StockTypes == onHand \in [Bins -> [Skus -> Nat]] /\ epoch \in [Bins -> Nat]
TaskTypes ==
    /\ task \in [Tasks -> Statuses]
    /\ bin \in [Tasks -> Bins \cup {None}] /\ of \in [Tasks -> Owners]
    /\ basis \in [Tasks -> Nat] /\ expected \in [Tasks -> [Skus -> Nat]]
QueueTypes ==
    /\ variance \in [Tasks -> [Skus -> {"none", "open", "adjusted", "recounted"}]]
    /\ counted \in [Tasks -> [Skus -> Nat]]
    /\ recount \in [Tasks -> [Skus -> Tasks \cup {None}]]
TakeTypes ==
    /\ frozen \in [Bins -> Owners]
    /\ take \in [Takes -> {"none", "counting", "posting", "closed", "abandoned"}]
    /\ unposted \in [Takes -> SUBSET Rows]
    /\ missed \subseteq Bins

\* The type invariant, by tables.
LEMMA Types ==
    /\ TypeOK <=> StockTypes /\ TaskTypes /\ QueueTypes /\ TakeTypes /\ cmd \in [Requests -> Commands]
    /\ TypeOK' <=> /\ StockTypes' /\ TaskTypes' /\ QueueTypes' /\ TakeTypes'
                   /\ cmd' \in [Requests -> Commands]
BY DEF TypeOK, StockTypes, TaskTypes, QueueTypes, TakeTypes, Commands, Statuses, Owners

-----------------------------------------------------------------------------
(* Making tasks. *)

\* The ids in use are those up to Used.
LEMMA UsedIs ==
    ASSUME Slots
    PROVE  Used \in Nat /\ \A t \in Tasks : task[t] # "none" <=> t <= Used
<1>1. PICK k \in 0 .. MaxTasks : \A t \in Tasks : task[t] # "none" <=> t <= k
  BY DEF Slots
<1>2. {t \in Tasks : task[t] # "none"} = 1 .. k
  BY <1>1, Constants DEF Tasks
<1>3. k \in Int /\ k >= 0
  BY Constants
<1>4. Cardinality(1 .. k) = k
  BY <1>3, FS_Interval
<1>5. Used = k
  BY <1>2, <1>4 DEF Used
<1> QED
  BY <1>1, <1>3, <1>5

\* The new ids are the next ones, one for each bin.
LEMMA NewIds ==
    ASSUME Slots, NEW B \in SUBSET Bins, Used + Cardinality(B) <= MaxTasks
    PROVE  /\ NewTasks(B) = (Used + 1) .. (Used + Cardinality(B)) /\ NewTasks(B) \subseteq Tasks
           /\ \A b \in B : NewTask(B, b) \in NewTasks(B)
           /\ \A b, d \in B : NewTask(B, b) = NewTask(B, d) => b = d
<1> DEFINE rank(b) == Cardinality({c \in B : c <= b})
<1>1. /\ Cardinality(B) \in Nat
      /\ \A b \in B : rank(b) \in 1 .. Cardinality(B)
      /\ \A b, d \in B : rank(b) = rank(d) => b = d
      /\ \A n \in 1 .. Cardinality(B) : \E b \in B : rank(b) = n
  BY Ranks
<1>2. Used \in Nat /\ MaxTasks \in Nat
  BY UsedIs, Constants
<1>3. \A b \in B : NewTask(B, b) = Used + rank(b)
  BY DEF NewTask
<1> HIDE DEF rank
<1>4. \A b \in B : NewTask(B, b) \in (Used + 1) .. (Used + Cardinality(B))
  BY <1>1, <1>2, <1>3
<1>5. ASSUME NEW n \in (Used + 1) .. (Used + Cardinality(B))
      PROVE  \E b \in B : NewTask(B, b) = n
  <2>1. n - Used \in 1 .. Cardinality(B)
    BY <1>1, <1>2
  <2>2. PICK b \in B : rank(b) = n - Used
    BY <2>1, <1>1
  <2> QED
    BY <2>2, <1>2, <1>3
<1>6. NewTasks(B) = (Used + 1) .. (Used + Cardinality(B))
  BY <1>4, <1>5 DEF NewTasks
<1>7. NewTasks(B) \subseteq Tasks
  BY <1>6, <1>1, <1>2 DEF Tasks
<1>8. \A b, d \in B : NewTask(B, b) = NewTask(B, d) => b = d
  <2> SUFFICES ASSUME NEW b \in B, NEW d \in B, NewTask(B, b) = NewTask(B, d) PROVE b = d
    OBVIOUS
  <2>1. rank(b) = rank(d)
    BY <1>1, <1>2, <1>3
  <2> QED
    BY <2>1, <1>1
<1> QED
  BY <1>4, <1>6, <1>7, <1>8

\* What a step did that made the tasks N, one for each bin of B, over the
\* statuses st and the takes tk.
Made(N, B, inTake, st, tk) ==
    /\ N \subseteq Tasks
    /\ \A t \in N : /\ task[t] = "none" /\ \A u \in Tasks : task[u] # "none" => u < t
                    /\ task'[t] = "pending" /\ bin'[t] \in B /\ of'[t] = inTake[bin'[t]]
                    /\ basis'[t] = epoch[bin'[t]] /\ expected'[t] = onHand[bin'[t]]
    /\ \A t \in Tasks \ N : /\ task'[t] = st[t] /\ of'[t] = tk[t] /\ bin'[t] = bin[t]
                            /\ basis'[t] = basis[t] /\ expected'[t] = expected[t]
    /\ \A b \in B : NewTask(B, b) \in N /\ bin'[NewTask(B, b)] = b
    /\ \A t, u \in N : bin'[t] = bin'[u] => t = u

\* Minted makes them, and tasks still take their ids in order.
LEMMA MintedMade ==
    ASSUME TypeOK, Slots, NEW B \in SUBSET Bins, NEW inTake \in [Bins -> Owners],
           NEW st \in [Tasks -> Statuses], NEW tk \in [Tasks -> Owners],
           \A t \in Tasks : st[t] = "none" <=> task[t] = "none",
           Minted(B, inTake, st, tk)
    PROVE  Made(NewTasks(B), B, inTake, st, tk) /\ Slots' /\ TaskTypes'
<1> DEFINE N == NewTasks(B)
           for(t) == CHOOSE b \in B : NewTask(B, b) = t
<1>1. /\ N = (Used + 1) .. (Used + Cardinality(B)) /\ N \subseteq Tasks
      /\ \A b \in B : NewTask(B, b) \in N
      /\ \A b, d \in B : NewTask(B, b) = NewTask(B, d) => b = d
  BY NewIds DEF Minted
<1>2. \A t \in N : for(t) \in B /\ NewTask(B, for(t)) = t
  BY DEF NewTasks
<1>3. \A b \in B : for(NewTask(B, b)) = b
  BY <1>1, <1>2
<1>4. /\ task' = [t \in Tasks |-> IF t \in N THEN "pending" ELSE st[t]]
      /\ of' = [t \in Tasks |-> IF t \in N THEN inTake[for(t)] ELSE tk[t]]
      /\ bin' = [t \in Tasks |-> IF t \in N THEN for(t) ELSE bin[t]]
      /\ basis' = [t \in Tasks |-> IF t \in N THEN epoch[for(t)] ELSE basis[t]]
      /\ expected' = [t \in Tasks |-> IF t \in N THEN onHand[for(t)] ELSE expected[t]]
      /\ Used + Cardinality(B) <= MaxTasks
  BY DEF Minted
<1>5. Used \in Nat /\ (\A t \in Tasks : task[t] # "none" <=> t <= Used) /\ MaxTasks \in Nat
      /\ Cardinality(B) \in Nat /\ Tasks \subseteq Nat
  BY UsedIs, Constants, Ranks
<1> HIDE DEF N, for
<1>6. StockTypes /\ TaskTypes
  BY Types
<1>7. TaskTypes'
  <2>1. task' \in [Tasks -> Statuses]
    BY <1>4 DEF Statuses
  <2>2. bin' \in [Tasks -> Bins \cup {None}]
    BY <1>2, <1>4, <1>6 DEF TaskTypes
  <2>3. of' \in [Tasks -> Owners]
    BY <1>2, <1>4
  <2>4. basis' \in [Tasks -> Nat]
    BY <1>2, <1>4, <1>6 DEF TaskTypes, StockTypes
  <2>5. expected' \in [Tasks -> [Skus -> Nat]]
    BY <1>2, <1>4, <1>6 DEF TaskTypes, StockTypes
  <2> QED
    BY <2>1, <2>2, <2>3, <2>4, <2>5 DEF TaskTypes
<1>8. Slots'
  <2>1. Used + Cardinality(B) \in 0 .. MaxTasks
    BY <1>4, <1>5
  <2>2. \A t \in Tasks : task'[t] # "none" <=> t <= Used + Cardinality(B)
    <3> SUFFICES ASSUME NEW t \in Tasks
                 PROVE  task'[t] # "none" <=> t <= Used + Cardinality(B)
      OBVIOUS
    <3>1. CASE t \in N
      BY <3>1, <1>1, <1>4, <1>5
    <3>2. CASE t \notin N
      BY <3>2, <1>1, <1>4, <1>5
    <3> QED
      BY <3>1, <3>2
  <2> QED
    BY <2>1, <2>2 DEF Slots
<1>9. \A t \in N : task[t] = "none" /\ \A u \in Tasks : task[u] # "none" => u < t
  BY <1>1, <1>5
<1>10. \A t \in N : /\ task'[t] = "pending" /\ bin'[t] = for(t) /\ of'[t] = inTake[for(t)]
                    /\ basis'[t] = epoch[for(t)] /\ expected'[t] = onHand[for(t)]
  BY <1>1, <1>4
<1>11. \A t \in Tasks \ N : /\ task'[t] = st[t] /\ of'[t] = tk[t] /\ bin'[t] = bin[t]
                            /\ basis'[t] = basis[t] /\ expected'[t] = expected[t]
  BY <1>4
<1>12. Made(N, B, inTake, st, tk)
  BY <1>1, <1>2, <1>3, <1>9, <1>10, <1>11 DEF Made
<1> QED
  BY <1>7, <1>8, <1>12 DEF N

-----------------------------------------------------------------------------
(* The stock of a bin while a close posts its corrections. *)

\* A correction is booked unless it overdraws the bin.
Booked(x, d) == IF x + d < 0 THEN x ELSE x + d

\* g books the corrections d of the first n tasks on a stock of h.
Books(g, d, h, n) == g[0] = h /\ \A m \in 1 .. n : g[m] = Booked(g[m - 1], d[m])

\* There is such a g: induction over the tasks.
LEMMA BooksExist ==
    ASSUME NEW h \in Nat, NEW d \in [Tasks -> Int]
    PROVE  \E g \in [0 .. MaxTasks -> Nat] : Books(g, d, h, MaxTasks)
<1> DEFINE Some(n) == \E g \in [0 .. n -> Nat] : Books(g, d, h, n)
           Bad == {n \in 0 .. MaxTasks : ~ Some(n)}
<1>0. MaxTasks \in Nat
  BY Constants
<1>1. SUFFICES Bad = {}
  BY <1>0
<1>2. SUFFICES ASSUME Bad # {} PROVE FALSE
  OBVIOUS
<1>3. PICK n \in Bad : \A m \in Bad : n <= m
  <2>1. Bad \in SUBSET Nat
    BY <1>0
  <2> HIDE DEF Bad
  <2> QED
    BY <1>2, <2>1, Least
<1>4. CASE n = 0
  <2> DEFINE g == [m \in 0 .. 0 |-> h]
  <2>1. g \in [0 .. 0 -> Nat] /\ Books(g, d, h, 0)
    BY DEF Books
  <2> QED
    BY <2>1, <1>3, <1>4
<1>5. CASE n # 0
  <2>1. n \in 1 .. MaxTasks /\ n \in Nat /\ n - 1 \in 0 .. MaxTasks /\ n - 1 \in Nat /\ n \in Tasks
    BY <1>0, <1>3, <1>5 DEF Tasks
  <2>2. n - 1 \notin Bad
    BY <2>1, <1>3
  <2>3. PICK f \in [0 .. (n - 1) -> Nat] : Books(f, d, h, n - 1)
    BY <2>1, <2>2
  <2>4. n - 1 \in 0 .. (n - 1) /\ f[n - 1] \in Nat /\ d[n] \in Int
    BY <2>1, <2>3
  <2> DEFINE g == [m \in 0 .. n |-> IF m = n THEN Booked(f[n - 1], d[n]) ELSE f[m]]
  <2>5. Booked(f[n - 1], d[n]) \in Nat
    BY <2>4 DEF Booked
  <2>6. \A m \in 0 .. n : m # n => m \in 0 .. (n - 1)
    BY <2>1
  <2>7. g \in [0 .. n -> Nat]
    BY <2>3, <2>5, <2>6
  <2>8. g[0] = h /\ n # 0
    BY <2>1, <2>3 DEF Books
  <2>9. ASSUME NEW m \in 1 .. n PROVE g[m] = Booked(g[m - 1], d[m])
    <3>1. m \in 0 .. n /\ m - 1 \in 0 .. n /\ m - 1 # n
      BY <2>1
    <3>2. CASE m = n
      BY <3>1, <3>2
    <3>3. CASE m # n
      <4>1. m \in 1 .. (n - 1)
        BY <3>3, <2>1
      <4> QED
        BY <4>1, <3>1, <3>3, <2>3 DEF Books
    <3> QED
      BY <3>2, <3>3
  <2>10. Some(n)
    <3> HIDE DEF g
    <3> QED
      BY <2>7, <2>8, <2>9 DEF Books
  <2> QED
    BY <2>10, <1>3
<1> QED
  BY <1>4, <1>5

\* Whatever books corrections on a stock keeps it from going negative, and keeps
\* it as it is along tasks with nothing to correct.
LEMMA BooksKeep ==
    ASSUME NEW h \in Nat, NEW d \in [Tasks -> Int], NEW g, Books(g, d, h, MaxTasks)
    PROVE  /\ \A n \in 0 .. MaxTasks : g[n] \in Nat
           /\ \A m, n \in 0 .. MaxTasks :
                 m <= n /\ (\A i \in (m + 1) .. n : d[i] = 0) => g[n] = g[m]
<1>0. MaxTasks \in Nat
  BY Constants
<1>1. ASSUME NEW n \in 0 .. MaxTasks PROVE g[n] \in Nat
  <2> DEFINE Bad == {m \in 0 .. MaxTasks : g[m] \notin Nat}
  <2>1. SUFFICES ASSUME Bad # {} PROVE FALSE
    OBVIOUS
  <2>2. PICK m \in Bad : \A i \in Bad : m <= i
    <3>1. Bad \in SUBSET Nat
      BY <1>0
    <3> HIDE DEF Bad
    <3> QED
      BY <2>1, <3>1, Least
  <2>3. m # 0
    BY <2>2 DEF Books
  <2>4. m \in 1 .. MaxTasks /\ m - 1 \in 0 .. MaxTasks /\ m \in Tasks
    BY <1>0, <2>2, <2>3 DEF Tasks
  <2>5. m - 1 \notin Bad
    BY <1>0, <2>2, <2>4
  <2>6. g[m - 1] \in Nat /\ d[m] \in Int /\ g[m] = Booked(g[m - 1], d[m])
    BY <2>4, <2>5 DEF Books
  <2> QED
    BY <2>2, <2>6 DEF Booked
<1>2. ASSUME NEW m \in 0 .. MaxTasks, NEW n \in 0 .. MaxTasks,
             m <= n, \A i \in (m + 1) .. n : d[i] = 0
      PROVE  g[n] = g[m]
  <2> DEFINE Bad == {i \in m .. n : g[i] # g[m]}
  <2>1. SUFFICES ASSUME Bad # {} PROVE FALSE
    BY <1>0, <1>2
  <2>2. PICK i \in Bad : \A j \in Bad : i <= j
    <3>1. Bad \in SUBSET Nat
      BY <1>0
    <3> HIDE DEF Bad
    <3> QED
      BY <2>1, <3>1, Least
  <2>3. i # m /\ i \in m .. n
    BY <2>2
  <2>4. i \in (m + 1) .. n /\ i \in 1 .. MaxTasks /\ i - 1 \in m .. n /\ i - 1 \in 0 .. MaxTasks
    BY <1>0, <2>3
  <2>5. i - 1 \notin Bad
    BY <1>0, <2>2, <2>4
  <2>6. g[i - 1] = g[m] /\ d[i] = 0 /\ g[i] = Booked(g[i - 1], d[i])
    BY <2>4, <2>5, <1>2 DEF Books
  <2>7. g[i - 1] \in Nat
    BY <1>1, <2>4
  <2> QED
    BY <2>2, <2>6, <2>7 DEF Booked
<1> QED
  BY <1>1, <1>2

\* The level of a bin books the corrections that are posted there.
LEMMA LevelBooks ==
    ASSUME NEW k, NEW b, NEW s, NEW refused, onHand[b][s] \in Nat,
           Deltas(k, b, s, refused) \in [Tasks -> Int]
    PROVE  Books(Level(k, b, s, refused), Deltas(k, b, s, refused), onHand[b][s], MaxTasks)
<1> DEFINE h == onHand[b][s]
           d == Deltas(k, b, s, refused)
           Eq(g) == g = [n \in 0 .. MaxTasks |-> IF n = 0 THEN h
                                                 ELSE IF g[n - 1] + d[n] < 0 THEN g[n - 1]
                                                      ELSE g[n - 1] + d[n]]
<1>0. MaxTasks \in Nat
  BY Constants
<1>1. Level(k, b, s, refused) = CHOOSE g : Eq(g)
  BY DEF Level
<1> HIDE DEF h, d
<1>2. PICK g \in [0 .. MaxTasks -> Nat] : Books(g, d, h, MaxTasks)
  BY BooksExist DEF h, d
<1>3. Eq(g)
  <2> SUFFICES ASSUME NEW n \in 0 .. MaxTasks
               PROVE  g[n] = IF n = 0 THEN h ELSE IF g[n - 1] + d[n] < 0 THEN g[n - 1]
                                                  ELSE g[n - 1] + d[n]
    BY <1>2
  <2>1. n # 0 => n \in 1 .. MaxTasks
    BY <1>0
  <2> QED
    BY <2>1, <1>2 DEF Books, Booked
<1>4. Eq(CHOOSE f : Eq(f))
  <2> HIDE DEF Eq
  <2> QED
    BY <1>3
<1> DEFINE f == CHOOSE x : Eq(x)
<1>5. Eq(f)
  BY <1>4
<1> HIDE DEF f
<1>6. f[0] = h
  BY <1>0, <1>5
<1>7. ASSUME NEW m \in 1 .. MaxTasks PROVE f[m] = Booked(f[m - 1], d[m])
  <2>1. m \in 0 .. MaxTasks /\ m # 0
    BY <1>0
  <2>2. f[m] = IF f[m - 1] + d[m] < 0 THEN f[m - 1] ELSE f[m - 1] + d[m]
    BY <2>1, <1>5
  <2> QED
    BY <2>2 DEF Booked
<1>8. Books(f, d, h, MaxTasks)
  BY <1>6, <1>7 DEF Books
<1> QED
  BY <1>1, <1>8 DEF f, h, d

-----------------------------------------------------------------------------
(* Steps that only change what is in flight, or the stock. *)

\* A variance is named by a task and a SKU.
LEMMA RowParts == \A v \in Rows : v[1] \in Tasks /\ v[2] \in Skus /\ v = <<v[1], v[2]>>
BY DEF Rows

\* An open variance is of a task that was counted in a bin.
LEMMA OpenCompleted ==
    ASSUME IInv, NEW v \in Rows, Status(v) = "open"
    PROVE  task[v[1]] = "completed" /\ v[1] \in Tasks /\ BinOf(v) \in Bins
BY RowParts DEF IInv, TaskInv, Status, BinOf

\* The request r has read the bins B for the take k, and locked the variances V.
LEMMA RequestStep ==
    ASSUME IInv, NEW r \in Requests, NEW kind \in {"start", "recount"}, NEW k \in Takes,
           NEW B \in SUBSET Bins, NEW T \in SUBSET Tasks, NEW V \in SUBSET Rows,
           ~ TakeLocked(k),
           kind = "start" => take[k] = "none",
           kind = "recount" => take[k] = "counting" /\ \A b \in B : frozen[b] = k,
           \A v \in V : Status(v) = "open" /\ BinOf(v) \in B,
           \A b \in B : OpenOn(b) \subseteq V \/ b \in missed,
           cmd' = [cmd EXCEPT ![r] =
                      [kind |-> kind, take |-> k, bins |-> B, tasks |-> T, open |-> V]],
           UNCHANGED <<stock, frozen, tasks, queue, takes>>
    PROVE  IInv'
<1> DEFINE new == [kind |-> kind, take |-> k, bins |-> B, tasks |-> T, open |-> V]
<1>1. /\ UNCHANGED <<onHand, epoch, frozen, task, bin, of, basis, expected>>
      /\ UNCHANGED <<variance, counted, recount, take, unposted, missed>>
  BY DEF stock, tasks, queue, takes
<1>2. cmd \in [Requests -> Commands]
  BY Types DEF IInv
<1>3. cmd' \in [Requests -> Commands] /\ cmd'[r] = new /\ \A q \in Requests \ {r} : cmd'[q] = cmd[q]
  BY <1>2 DEF Commands
<1>4. TypeOK'
  BY <1>1, <1>3, Types DEF IInv, StockTypes, TaskTypes, QueueTypes, TakeTypes
<1>5. \A q \in Requests : cmd[q].take # k
  BY DEF TakeLocked
<1>6. \A v \in V : task[v[1]] # "none"
  BY OpenCompleted
<1>7. ASSUME NEW q \in Requests PROVE ReqInv(q)'
  <2>1. CASE q = r
    <3>1. \A p \in Requests : cmd'[p].take = k => p = r
      BY <1>3, <1>5
    <3> QED
      BY <2>1, <3>1, <1>1, <1>3, <1>6 DEF ReqInv, BinOf, OpenOn, Status
  <2>2. CASE q # r
    <3>1. cmd'[q] = cmd[q] /\ ReqInv(q) /\ cmd[q].take # k /\ cmd'[r].take = k
      BY <2>2, <1>3, <1>5 DEF IInv
    <3>2. \A p \in Requests : cmd'[p].take = cmd[q].take => p = q \/ cmd[q].take = None
      BY <3>1, <1>3 DEF ReqInv
    <3> QED
      BY <3>1, <3>2, <1>1 DEF ReqInv, BinOf, OpenOn, Status, Idle
  <2> QED
    BY <2>1, <2>2
<1> QED
  BY <1>1, <1>4, <1>7
     DEF IInv, Slots, TaskInv, TakeInv, BinInv, OpenOn, Status, BinOf, Pending, Latest, Completed,
         FrozenIsCounted, ClosedAccounts, OpenVariances

\* startStockTake up to the advisory lock.
LEMMA StartReadStep ==
    ASSUME IInv, NEW r \in Requests, NEW k \in Takes, NEW B \in SUBSET Bins, StartRead(r, k, B)
    PROVE  IInv'
<1> DEFINE T == Pending(B)
           V == {v \in Rows : Status(v) = "open" /\ BinOf(v) \in B}
<1>1. T \in SUBSET Tasks /\ V \in SUBSET Rows
  BY DEF Pending
<1>2. \A b \in B : OpenOn(b) \subseteq V
  BY DEF OpenOn
<1>3. /\ take[k] = "none" /\ ~ TakeLocked(k)
      /\ cmd' = [cmd EXCEPT ![r] =
                    [kind |-> "start", take |-> k, bins |-> B, tasks |-> T, open |-> V]]
      /\ UNCHANGED <<stock, frozen, tasks, queue, takes>>
  BY DEF StartRead
<1>4. \A v \in V : Status(v) = "open" /\ BinOf(v) \in B
  OBVIOUS
<1> HIDE DEF T, V
<1> QED
  BY <1>1, <1>2, <1>3, <1>4, RequestStep

\* recountStockTakeBins up to the advisory lock: the open variances of a frozen
\* bin are all of the take, so that it has locked them all, unless one was missed.
LEMMA RecountReadStep ==
    ASSUME IInv, NEW r \in Requests, NEW k \in Takes, NEW B \in SUBSET Bins, RecountRead(r, k, B)
    PROVE  IInv'
<1> DEFINE V == {v \in OpenVariances(k) : BinOf(v) \in B}
           T == {}
<1>1. V \in SUBSET Rows /\ T \in SUBSET Tasks
  BY DEF OpenVariances
<1>2. /\ take[k] = "counting" /\ ~ TakeLocked(k)
      /\ \A b \in B : \E t \in Tasks : task[t] # "none" /\ bin[t] = b /\ of[t] = k
      /\ cmd' = [cmd EXCEPT ![r] =
                    [kind |-> "recount", take |-> k, bins |-> B, tasks |-> T, open |-> V]]
      /\ UNCHANGED <<stock, frozen, tasks, queue, takes>>
  BY DEF RecountRead
<1>3. \A b \in B : frozen[b] = k
  BY <1>2, Constants DEF IInv, TakeInv
<1>4. ASSUME NEW b \in B PROVE OpenOn(b) \subseteq V \/ b \in missed
  <2>1. BinInv(b)
    BY DEF IInv
  <2>2. k # None
    BY Constants
  <2> QED
    BY <2>1, <2>2, <1>3 DEF BinInv, OpenOn, OpenVariances
<1>5. \A v \in V : Status(v) = "open" /\ BinOf(v) \in B
  BY DEF OpenVariances
<1>6. \A b \in B : OpenOn(b) \subseteq V \/ b \in missed
  BY <1>4
<1>7. "recount" \in {"start", "recount"} /\ "recount" # "start"
  OBVIOUS
<1> HIDE DEF T, V
<1> QED
  BY <1>1, <1>2, <1>3, <1>5, <1>6, <1>7, RequestStep

\* Giving up a request frees what it had, and changes nothing else.
LEMMA RequestGone ==
    ASSUME NEW r \in Requests, \A q \in Requests : ReqInv(q), cmd \in [Requests -> Commands],
           cmd' = [cmd EXCEPT ![r] = Idle]
    PROVE  /\ cmd' \in [Requests -> Commands] /\ cmd'[r] = Idle
           /\ \A q \in Requests \ {r} : cmd'[q] = cmd[q]
           /\ \A p, q \in Requests : cmd'[q].take = cmd'[p].take => q = p \/ cmd'[p].take = None
<1>1. Idle \in Commands
  BY DEF Idle, Commands
<1>2. cmd' \in [Requests -> Commands] /\ cmd'[r] = Idle /\ \A q \in Requests \ {r} : cmd'[q] = cmd[q]
  BY <1>1
<1>3. Idle.take = None
  BY DEF Idle
<1> QED
  BY <1>2, <1>3 DEF ReqInv

\* A request that is refused or lost.
LEMMA RolledBackStep ==
    ASSUME IInv, NEW r \in Requests, RolledBack(r)
    PROVE  IInv'
<1>1. /\ UNCHANGED <<onHand, epoch, frozen, task, bin, of, basis, expected>>
      /\ UNCHANGED <<variance, counted, recount, take, unposted, missed>>
  BY DEF RolledBack, stock, tasks, queue, takes
<1>2. cmd \in [Requests -> Commands]
  BY Types DEF IInv
<1>3. /\ cmd' \in [Requests -> Commands] /\ cmd'[r] = Idle
      /\ \A q \in Requests \ {r} : cmd'[q] = cmd[q]
      /\ \A p, q \in Requests : cmd'[q].take = cmd'[p].take => q = p \/ cmd'[p].take = None
  BY <1>2, RequestGone DEF RolledBack, IInv
<1>4. TypeOK'
  BY <1>1, <1>3, Types DEF IInv, StockTypes, TaskTypes, QueueTypes, TakeTypes
<1>5. ASSUME NEW q \in Requests PROVE ReqInv(q)'
  <2>1. CASE q = r
    BY <2>1, <1>3 DEF ReqInv, Idle
  <2>2. CASE q # r
    <3>1. cmd'[q] = cmd[q] /\ ReqInv(q)
      BY <2>2, <1>3 DEF IInv
    <3> QED
      BY <3>1, <1>1, <1>3 DEF ReqInv, BinOf, OpenOn, Status, Idle
  <2> QED
    BY <2>1, <2>2
<1> QED
  BY <1>1, <1>4, <1>5
     DEF IInv, Slots, TaskInv, TakeInv, BinInv, OpenOn, Status, BinOf, Pending, Latest, Completed,
         FrozenIsCounted, ClosedAccounts, OpenVariances

\* Movements of one bin.
LEMMA AppendStep ==
    ASSUME IInv, NEW b \in Bins, NEW s \in Skus, NEW q \in 0 .. MaxQty, NEW surface,
           AppendMovement(b, s, q, surface)
    PROVE  IInv'
<1>1. /\ UNCHANGED <<frozen, task, bin, of, basis, expected, cmd>>
      /\ UNCHANGED <<variance, counted, recount, take, unposted, missed>>
      /\ onHand' = [onHand EXCEPT ![b][s] = q] /\ epoch' = [epoch EXCEPT ![b] = @ + 1]
  BY DEF AppendMovement, tasks, queue, takes
<1>2. StockTypes /\ TaskTypes /\ q \in Nat
  BY Types, CountingConstants DEF IInv
<1>3. StockTypes'
  BY <1>1, <1>2 DEF StockTypes
<1>4. TypeOK'
  BY <1>1, <1>3, Types DEF IInv, TaskTypes, QueueTypes, TakeTypes
<1>5. \A c \in Bins : epoch[c] <= epoch'[c] /\ (epoch'[c] = epoch[c] => onHand'[c] = onHand[c])
  BY <1>1, <1>2 DEF StockTypes
<1>6. ASSUME NEW t \in Tasks PROVE TaskInv(t)'
  <2>1. TaskInv(t) /\ basis[t] \in Nat /\ \A c \in Bins : epoch[c] \in Nat /\ epoch'[c] \in Nat
    BY <1>2, <1>3 DEF IInv, TaskTypes, StockTypes
  <2> QED
    BY <2>1, <1>1, <1>5 DEF TaskInv
<1>7. ASSUME NEW r \in Requests PROVE ReqInv(r)'
  BY <1>1 DEF IInv, ReqInv, OpenOn, Status, BinOf, Idle
<1> QED
  BY <1>1, <1>4, <1>6, <1>7
     DEF IInv, Slots, TakeInv, BinInv, OpenOn, Status, BinOf, Pending, Latest, Completed,
         FrozenIsCounted, ClosedAccounts, OpenVariances

-----------------------------------------------------------------------------
(* Corrections. *)

\* A bin whose contents change moves its epoch forward.
EpochsMove ==
    \A c \in Bins : epoch[c] <= epoch'[c] /\ (epoch'[c] = epoch[c] => onHand'[c] = onHand[c])

\* No variance is opened.
NoneOpened ==
    \A v \in Rows : /\ Status(v)' = "open" => Status(v) = "open"
                    /\ Status(v)' # "none" => Status(v) # "none"

\* What tasks remember stays true while epochs move and variances are decided.
LEMMA TasksKept ==
    ASSUME IInv, StockTypes', EpochsMove, NoneOpened,
           UNCHANGED <<task, bin, of, basis, expected>>
    PROVE  \A t \in Tasks : TaskInv(t)'
<1> SUFFICES ASSUME NEW t \in Tasks PROVE TaskInv(t)'
  OBVIOUS
<1>1. StockTypes /\ TaskTypes
  BY Types DEF IInv
<1>2. TaskInv(t) /\ basis[t] \in Nat /\ \A c \in Bins : epoch[c] \in Nat /\ epoch'[c] \in Nat
  BY <1>1 DEF IInv, TaskTypes, StockTypes
<1>3. \A s \in Skus : variance'[t][s] # "none" => variance[t][s] # "none"
  <2> SUFFICES ASSUME NEW s \in Skus, variance'[t][s] # "none" PROVE variance[t][s] # "none"
    OBVIOUS
  <2>1. <<t, s>> \in Rows
    BY DEF Rows
  <2> QED
    BY <2>1 DEF NoneOpened, Status
<1> QED
  BY <1>2, <1>3 DEF TaskInv, EpochsMove

\* The open variances of a running take stay those of the latest counts while
\* none is opened, no task changes and no take starts.
LEMMA LatestKept ==
    ASSUME IInv, NoneOpened, UNCHANGED <<task, bin, of, missed>>,
           \A k \in Takes : take'[k] \in {"counting", "posting"} => take[k] \in {"counting", "posting"}
    PROVE  \A v \in Rows : Latest(v)'
<1> SUFFICES ASSUME NEW v \in Rows PROVE Latest(v)'
  OBVIOUS
<1>1. Latest(v) /\ (Status(v)' = "open" => Status(v) = "open")
  BY DEF IInv, NoneOpened
<1>2. of[v[1]] # None => of[v[1]] \in Takes
  BY RowParts, Types DEF IInv, TaskTypes, Owners
<1> QED
  BY <1>1, <1>2 DEF Latest, BinOf, Completed

\* While none is opened, the open variances of a bin and of a take can only shrink.
LEMMA OpenShrinks ==
    ASSUME NoneOpened, UNCHANGED <<bin, of>>
    PROVE  /\ \A b : OpenOn(b)' \subseteq OpenOn(b)
           /\ \A k : OpenVariances(k)' \subseteq OpenVariances(k)
BY DEF NoneOpened, OpenOn, OpenVariances, BinOf

\* approve_adjust.
LEMMA ApproveAdjustStep ==
    ASSUME IInv, NEW v \in Rows, ApproveAdjust(v)
    PROVE  IInv'
<1> DEFINE b == BinOf(v)
           delta == counted[v[1]][v[2]] - expected[v[1]][v[2]]
<1>1. /\ Status(v) = "open" /\ onHand[b][v[2]] + delta >= 0
      /\ onHand' = [onHand EXCEPT ![b][v[2]] = @ + delta]
      /\ epoch' = [epoch EXCEPT ![b] = @ + 1]
      /\ variance' = [variance EXCEPT ![v[1]][v[2]] = "adjusted"]
      /\ UNCHANGED <<frozen, task, bin, of, basis, expected>>
      /\ UNCHANGED <<counted, recount, take, unposted, missed, cmd>>
  BY DEF ApproveAdjust, Resolvable, tasks, takes
<1>2. b \in Bins /\ v[1] \in Tasks /\ v[2] \in Skus
  BY <1>1, OpenCompleted, RowParts
<1>3. StockTypes /\ TaskTypes /\ QueueTypes
  BY Types DEF IInv
<1>4. delta \in Int /\ onHand[b][v[2]] \in Nat
  BY <1>2, <1>3 DEF StockTypes, TaskTypes, QueueTypes
<1> HIDE DEF b, delta
<1>5. StockTypes'
  <2>1. onHand[b][v[2]] + delta \in Nat
    BY <1>1, <1>4
  <2> QED
    BY <1>1, <1>2, <1>3, <2>1 DEF StockTypes
<1>6. QueueTypes'
  BY <1>1, <1>2, <1>3 DEF QueueTypes
<1>7. TypeOK'
  BY <1>1, <1>5, <1>6, Types DEF IInv, TaskTypes, TakeTypes
<1>8. NoneOpened
  <2> SUFFICES ASSUME NEW w \in Rows
               PROVE  /\ Status(w)' = "open" => Status(w) = "open"
                      /\ Status(w)' # "none" => Status(w) # "none"
    BY DEF NoneOpened
  <2>1. w[1] \in Tasks /\ w[2] \in Skus
    BY RowParts
  <2>2. CASE w[1] = v[1] /\ w[2] = v[2]
    BY <1>1, <1>2, <1>3, <2>1, <2>2 DEF Status, QueueTypes
  <2>3. CASE w[1] # v[1] \/ w[2] # v[2]
    BY <1>1, <1>2, <1>3, <2>1, <2>3 DEF Status, QueueTypes
  <2> QED
    BY <2>2, <2>3
<1>9. EpochsMove
  BY <1>1, <1>2, <1>3 DEF EpochsMove, StockTypes
<1>10. (\A t \in Tasks : TaskInv(t)') /\ (\A w \in Rows : Latest(w)')
  BY <1>1, <1>5, <1>8, <1>9, TasksKept, LatestKept
<1>11. /\ \A c : OpenOn(c)' \subseteq OpenOn(c)
       /\ \A k : OpenVariances(k)' \subseteq OpenVariances(k)
  BY <1>1, <1>8, OpenShrinks
<1>12. \A c \in Bins : BinInv(c)'
  BY <1>1, <1>11 DEF IInv, BinInv, Pending
<1>13. \A r \in Requests : ReqInv(r)'
  BY <1>1, <1>11 DEF IInv, ReqInv, BinOf, Idle
<1>14. ClosedAccounts' /\ FrozenIsCounted'
  BY <1>1, <1>11 DEF IInv, ClosedAccounts, BinOf, FrozenIsCounted, Completed, Pending
<1> QED
  BY <1>1, <1>7, <1>10, <1>12, <1>13, <1>14 DEF IInv, Slots, TakeInv

\* What a close books in a bin is a number, and its level a stock.
LEMMA LevelType ==
    ASSUME IInv, NEW k \in Takes, NEW b \in Bins, NEW s \in Skus, NEW refused
    PROVE  /\ Deltas(k, b, s, refused) \in [Tasks -> Int] /\ onHand[b][s] \in Nat
           /\ Books(Level(k, b, s, refused), Deltas(k, b, s, refused), onHand[b][s], MaxTasks)
           /\ Level(k, b, s, refused)[MaxTasks] \in Nat
<1>1. StockTypes /\ TaskTypes /\ QueueTypes
  BY Types DEF IInv
<1>2. onHand[b][s] \in Nat
  BY <1>1 DEF StockTypes
<1>3. \A t \in Tasks : counted[t][s] - expected[t][s] \in Int
  BY <1>1 DEF TaskTypes, QueueTypes
<1>4. Deltas(k, b, s, refused) \in [Tasks -> Int]
  BY <1>3 DEF Deltas
<1>5. Books(Level(k, b, s, refused), Deltas(k, b, s, refused), onHand[b][s], MaxTasks)
  BY <1>2, <1>4, LevelBooks
<1>6. Level(k, b, s, refused)[MaxTasks] \in Nat
  <2>1. MaxTasks \in 0 .. MaxTasks
    BY Constants
  <2> QED
    BY <1>2, <1>4, <1>5, <2>1, BooksKeep
<1> QED
  BY <1>2, <1>4, <1>5, <1>6

\* postBatchInTx.
LEMMA PostBatchStep ==
    ASSUME IInv, NEW k \in Takes, NEW refused, PostBatch(k, refused)
    PROVE  IInv'
<1> DEFINE B == Batch(k)
           P == Posts(k, B, refused)
           in(c) == {v \in P : BinOf(v) = c}
<1>1. /\ take[k] = "posting"
      /\ frozen' = [c \in Bins |-> IF c \in B THEN None ELSE frozen[c]]
      /\ onHand' = [c \in Bins |-> [s \in Skus |->
                       IF \E v \in in(c) : v[2] = s
                       THEN Level(k, c, s, refused)[MaxTasks] ELSE onHand[c][s]]]
      /\ epoch' = [c \in Bins |-> epoch[c] + Cardinality(in(c))]
      /\ variance' = [t \in Tasks |-> [s \in Skus |->
                         IF <<t, s>> \in P THEN "adjusted" ELSE variance[t][s]]]
      /\ unposted' = [unposted EXCEPT ![k] =
                         @ \cup {v \in OpenVariances(k) \ P : BinOf(v) \in B}]
      /\ UNCHANGED <<task, bin, of, basis, expected, counted, recount, take, missed, cmd>>
  BY DEF PostBatch, tasks
<1>2. /\ P \subseteq OpenVariances(k) /\ OpenVariances(k) \subseteq Rows
      /\ \A v \in P : Status(v) = "open"
  BY DEF Posts, OpenVariances
<1>3. \A c \in B : c \in Bins /\ frozen[c] = k
  BY DEF Batch, FrozenFor
<1>4. \A c \in Bins : IsFiniteSet(in(c)) /\ Cardinality(in(c)) \in Nat
                      /\ (Cardinality(in(c)) = 0 => in(c) = {})
  <2> SUFFICES ASSUME NEW c \in Bins
               PROVE  IsFiniteSet(in(c)) /\ Cardinality(in(c)) \in Nat
                      /\ (Cardinality(in(c)) = 0 => in(c) = {})
    OBVIOUS
  <2>1. in(c) \in SUBSET Rows
    BY <1>2
  <2> HIDE DEF in
  <2> QED
    BY <2>1, Constants, FS_Subset, FS_CardinalityType, FS_EmptySet
<1>5. StockTypes /\ TaskTypes /\ QueueTypes /\ TakeTypes
  BY Types DEF IInv
<1>6. \A c \in Bins, s \in Skus : Level(k, c, s, refused)[MaxTasks] \in Nat
  BY LevelType
<1> HIDE DEF in, B, P
<1>7. StockTypes'
  <2>1. onHand' \in [Bins -> [Skus -> Nat]]
    BY <1>1, <1>5, <1>6 DEF StockTypes
  <2>2. epoch' \in [Bins -> Nat]
    BY <1>1, <1>4, <1>5 DEF StockTypes
  <2> QED
    BY <2>1, <2>2 DEF StockTypes
<1>8. QueueTypes'
  BY <1>1, <1>5 DEF QueueTypes
<1>9. TakeTypes'
  BY <1>1, <1>2, <1>5 DEF TakeTypes, Owners
<1>10. TypeOK'
  BY <1>1, <1>7, <1>8, <1>9, Types DEF IInv, TaskTypes
<1>11. NoneOpened
  <2> SUFFICES ASSUME NEW w \in Rows
               PROVE  /\ Status(w)' = "open" => Status(w) = "open"
                      /\ Status(w)' # "none" => Status(w) # "none"
    BY DEF NoneOpened
  <2>1. w[1] \in Tasks /\ w[2] \in Skus /\ w = <<w[1], w[2]>>
    BY RowParts
  <2> QED
    BY <1>1, <1>2, <2>1 DEF Status
<1>12. EpochsMove
  <2> SUFFICES ASSUME NEW c \in Bins
               PROVE  epoch[c] <= epoch'[c] /\ (epoch'[c] = epoch[c] => onHand'[c] = onHand[c])
    BY DEF EpochsMove
  <2>1. epoch'[c] = epoch[c] + Cardinality(in(c)) /\ epoch[c] \in Nat
    BY <1>1, <1>5 DEF StockTypes
  <2>2. in(c) = {} => onHand'[c] = onHand[c]
    BY <1>1, <1>5 DEF StockTypes
  <2> QED
    BY <2>1, <2>2, <1>4
<1>13. (\A t \in Tasks : TaskInv(t)') /\ (\A w \in Rows : Latest(w)')
  BY <1>1, <1>7, <1>11, <1>12, TasksKept, LatestKept
<1>14. /\ \A c : OpenOn(c)' \subseteq OpenOn(c)
       /\ \A j : OpenVariances(j)' \subseteq OpenVariances(j)
  BY <1>1, <1>11, OpenShrinks
<1>15. k # None /\ \A c \in Bins : /\ c \notin B => frozen'[c] = frozen[c]
                                   /\ c \in B => frozen'[c] = None
  BY <1>1, Constants
<1>16. \A t \in Tasks : TakeInv(t)'
  <2> SUFFICES ASSUME NEW t \in Tasks PROVE TakeInv(t)'
    OBVIOUS
  <2>1. TakeInv(t) /\ TaskInv(t)
    BY DEF IInv
  <2> QED
    BY <2>1, <1>1, <1>3, <1>15 DEF TakeInv, TaskInv
<1>17. \A c \in Bins : BinInv(c)'
  BY <1>1, <1>14, <1>15 DEF IInv, BinInv, Pending
<1>18. \A r \in Requests : ReqInv(r)'
  <2> SUFFICES ASSUME NEW r \in Requests PROVE ReqInv(r)'
    OBVIOUS
  <2>1. ReqInv(r) /\ cmd[r].bins \subseteq Bins
    BY Types DEF IInv, Commands
  <2> QED
    BY <2>1, <1>1, <1>3, <1>14, <1>15 DEF ReqInv, BinOf, Idle
<1>19. FrozenIsCounted'
  <2> SUFFICES ASSUME NEW c \in Bins, NEW j \in Takes, frozen'[c] = j
               PROVE  \/ take[j] = "counting"
                         /\ (Completed(j, c) # {} \/ \E t \in Pending({c}) : of[t] = j)
                      \/ take[j] = "posting" /\ Completed(j, c) # {}
    BY <1>1 DEF FrozenIsCounted, Completed, Pending
  <2>1. frozen[c] = j
    BY <1>15, Constants
  <2> QED
    BY <2>1 DEF IInv, FrozenIsCounted
<1>20. ClosedAccounts'
  <2> SUFFICES ASSUME NEW j \in Takes, take[j] = "closed", NEW v \in OpenVariances(j)'
               PROVE  v \in unposted'[j] \/ BinOf(v) \in missed
    BY <1>1 DEF ClosedAccounts, BinOf
  <2>1. j # k /\ unposted'[j] = unposted[j]
    BY <1>1, <1>5 DEF TakeTypes
  <2> QED
    BY <2>1, <1>14 DEF IInv, ClosedAccounts
<1> QED
  BY <1>1, <1>10, <1>13, <1>16, <1>17, <1>18, <1>19, <1>20 DEF IInv, Slots

-----------------------------------------------------------------------------
(* The ends of counts and takes. *)

\* A take that is not k keeps its status; no request has k.
LEMMA NotLocked ==
    ASSUME IInv, NEW k \in Takes, ~ TakeLocked(k), NEW st, take' = [take EXCEPT ![k] = st],
           st # "none"
    PROVE  /\ take'[k] = st /\ (\A j \in Takes : j # k => take'[j] = take[j])
           /\ \A r \in Requests : cmd[r].take # k
           /\ \A t \in Tasks : of[t] # None => of[t] \in Takes /\ bin[t] \in Bins
<1>1. TakeTypes /\ TaskTypes
  BY Types DEF IInv
<1>2. \A t \in Tasks : of[t] # None => of[t] \in Takes /\ bin[t] \in Bins
  BY <1>1 DEF IInv, TaskInv, TaskTypes, Owners
<1>3. take'[k] = st /\ \A j \in Takes : j # k => take'[j] = take[j]
  BY <1>1 DEF TakeTypes
<1>4. \A r \in Requests : cmd[r].take # k
  BY DEF TakeLocked
<1> QED
  BY <1>2, <1>3, <1>4

\* closeStockTake, its approval.
LEMMA CloseApproveStep ==
    ASSUME IInv, NEW k \in Takes, CloseApprove(k)
    PROVE  IInv'
<1>1. /\ take[k] = "counting" /\ ~ TakeLocked(k) /\ {t \in Pending(Bins) : of[t] = k} = {}
      /\ take' = [take EXCEPT ![k] = "posting"]
      /\ UNCHANGED <<onHand, epoch, frozen, task, bin, of, basis, expected>>
      /\ UNCHANGED <<variance, counted, recount, unposted, missed, cmd>>
  BY DEF CloseApprove, stock, tasks, queue
<1>2. /\ take'[k] = "posting" /\ (\A j \in Takes : j # k => take'[j] = take[j])
      /\ \A r \in Requests : cmd[r].take # k
      /\ \A t \in Tasks : of[t] # None => of[t] \in Takes /\ bin[t] \in Bins
  BY <1>1, NotLocked
<1>3. TypeOK'
  <2>1. TakeTypes'
    BY <1>1, Types DEF IInv, TakeTypes
  <2> QED
    BY <1>1, <2>1, Types DEF IInv, StockTypes, TaskTypes, QueueTypes
<1>4. k # None /\ \A t \in Tasks : task[t] = "pending" => of[t] # k
  BY <1>1, <1>2, Constants DEF Pending
<1>5. \A t \in Tasks : TakeInv(t)'
  BY <1>1, <1>2, <1>4 DEF IInv, TakeInv
<1>6. NoneOpened
  BY <1>1 DEF NoneOpened, Status
<1>7. \A v \in Rows : Latest(v)'
  BY <1>1, <1>2, <1>6, LatestKept
<1>8. \A r \in Requests : ReqInv(r)'
  <2> SUFFICES ASSUME NEW r \in Requests PROVE ReqInv(r)'
    OBVIOUS
  <2>1. ReqInv(r) /\ cmd[r].take # k
    BY <1>2 DEF IInv
  <2> QED
    BY <2>1, <1>1, <1>2 DEF ReqInv, BinOf, OpenOn, Status, Idle
<1>9. FrozenIsCounted'
  <2> SUFFICES ASSUME NEW b \in Bins, NEW j \in Takes, frozen[b] = j
               PROVE  \/ take'[j] = "counting"
                         /\ (Completed(j, b) # {} \/ \E t \in Pending({b}) : of[t] = j)
                      \/ take'[j] = "posting" /\ Completed(j, b) # {}
    BY <1>1 DEF FrozenIsCounted, Completed, Pending
  <2>1. \/ take[j] = "counting" /\ (Completed(j, b) # {} \/ \E t \in Pending({b}) : of[t] = j)
        \/ take[j] = "posting" /\ Completed(j, b) # {}
    BY DEF IInv, FrozenIsCounted
  <2>2. j = k => ~ \E t \in Pending({b}) : of[t] = j
    BY <1>4 DEF Pending
  <2> QED
    BY <2>1, <2>2, <1>1, <1>2
<1>10. ClosedAccounts'
  BY <1>1, <1>2 DEF IInv, ClosedAccounts, OpenVariances, Status, BinOf
<1> QED
  BY <1>1, <1>3, <1>5, <1>7, <1>8, <1>9, <1>10
     DEF IInv, Slots, TaskInv, BinInv, OpenOn, Status, BinOf, Pending

\* The last transaction of a close.
LEMMA FinishCloseStep ==
    ASSUME IInv, NEW k \in Takes, FinishClose(k)
    PROVE  IInv'
<1>1. /\ take[k] = "posting" /\ ~ TakeLocked(k) /\ FrozenFor(k) = {}
      /\ unposted' = [unposted EXCEPT ![k] = OpenVariances(k)]
      /\ take' = [take EXCEPT ![k] = "closed"]
      /\ UNCHANGED <<onHand, epoch, frozen, task, bin, of, basis, expected>>
      /\ UNCHANGED <<variance, counted, recount, missed, cmd>>
  BY DEF FinishClose, stock, tasks, queue
<1>2. /\ take'[k] = "closed" /\ (\A j \in Takes : j # k => take'[j] = take[j])
      /\ \A r \in Requests : cmd[r].take # k
      /\ \A t \in Tasks : of[t] # None => of[t] \in Takes /\ bin[t] \in Bins
  BY <1>1, NotLocked
<1>3. TakeTypes /\ OpenVariances(k) \in SUBSET Rows
  BY Types DEF IInv, OpenVariances
<1>4. /\ TypeOK' /\ unposted'[k] = OpenVariances(k)
      /\ \A j \in Takes : j # k => unposted'[j] = unposted[j]
  <2>1. TakeTypes'
    BY <1>1, <1>3 DEF TakeTypes
  <2>2. TypeOK'
    BY <1>1, <2>1, Types DEF IInv, StockTypes, TaskTypes, QueueTypes
  <2> QED
    BY <1>1, <1>3, <2>2 DEF TakeTypes
<1>5. k # None /\ \A b \in Bins : frozen[b] # k
  BY <1>1, Constants DEF FrozenFor
<1>6. \A t \in Tasks : TakeInv(t)'
  BY <1>1, <1>2, <1>5 DEF IInv, TakeInv
<1>7. NoneOpened
  BY <1>1 DEF NoneOpened, Status
<1>8. \A v \in Rows : Latest(v)'
  BY <1>1, <1>2, <1>7, LatestKept
<1>9. \A r \in Requests : ReqInv(r)'
  <2> SUFFICES ASSUME NEW r \in Requests PROVE ReqInv(r)'
    OBVIOUS
  <2>1. ReqInv(r) /\ cmd[r].take # k
    BY <1>2 DEF IInv
  <2> QED
    BY <2>1, <1>1, <1>2 DEF ReqInv, BinOf, OpenOn, Status, Idle
<1>10. FrozenIsCounted'
  <2> SUFFICES ASSUME NEW b \in Bins, NEW j \in Takes, frozen[b] = j
               PROVE  \/ take'[j] = "counting"
                         /\ (Completed(j, b) # {} \/ \E t \in Pending({b}) : of[t] = j)
                      \/ take'[j] = "posting" /\ Completed(j, b) # {}
    BY <1>1 DEF FrozenIsCounted, Completed, Pending
  <2>1. j # k /\ take'[j] = take[j]
    BY <1>2, <1>5
  <2> QED
    BY <2>1 DEF IInv, FrozenIsCounted
<1>11. ClosedAccounts'
  <2> SUFFICES ASSUME NEW j \in Takes, take'[j] = "closed", NEW v \in OpenVariances(j)
               PROVE  v \in unposted'[j] \/ BinOf(v) \in missed
    BY <1>1 DEF ClosedAccounts, BinOf, OpenVariances, Status
  <2> QED
    BY <1>2, <1>4 DEF IInv, ClosedAccounts
<1> QED
  BY <1>1, <1>4, <1>6, <1>8, <1>9, <1>10, <1>11
     DEF IInv, Slots, TaskInv, BinInv, OpenOn, Status, BinOf, Pending

\* abandonStockTake.
LEMMA AbandonStep ==
    ASSUME IInv, NEW k \in Takes, AbandonStockTake(k)
    PROVE  IInv'
<1> DEFINE pending == {t \in Pending(Bins) : of[t] = k}
           awaited == {t \in pending : \E v \in Rows : recount[v[1]][v[2]] = t}
<1>1. /\ take[k] = "counting" /\ ~ TakeLocked(k)
      /\ task' = [t \in Tasks |-> IF t \in pending \ awaited THEN "cancelled" ELSE task[t]]
      /\ of' = [t \in Tasks |-> IF t \in awaited THEN None ELSE of[t]]
      /\ frozen' = [b \in Bins |-> IF frozen[b] = k THEN None ELSE frozen[b]]
      /\ take' = [take EXCEPT ![k] = "abandoned"]
      /\ UNCHANGED <<onHand, epoch, bin, basis, expected>>
      /\ UNCHANGED <<variance, counted, recount, unposted, missed, cmd>>
  BY DEF AbandonStockTake, stock, queue
<1>2. /\ take'[k] = "abandoned" /\ (\A j \in Takes : j # k => take'[j] = take[j])
      /\ \A r \in Requests : cmd[r].take # k
      /\ \A t \in Tasks : of[t] # None => of[t] \in Takes /\ bin[t] \in Bins
  BY <1>1, NotLocked
<1>3. awaited \subseteq pending
  OBVIOUS
<1>4. \A t \in Tasks : t \in pending <=> task[t] = "pending" /\ of[t] = k
  BY <1>2, Constants DEF Pending
<1> HIDE DEF pending, awaited
<1>5. StockTypes /\ TaskTypes /\ QueueTypes /\ TakeTypes
  BY Types DEF IInv
<1>6. TypeOK'
  <2>1. TaskTypes'
    BY <1>1, <1>5 DEF TaskTypes, Statuses, Owners
  <2>2. TakeTypes'
    BY <1>1, <1>5 DEF TakeTypes, Owners
  <2> QED
    BY <1>1, <2>1, <2>2, Types DEF IInv, StockTypes, QueueTypes
\* A pending task of the take is cancelled or leaves it; the others stay.
<1>7. \A t \in Tasks :
         /\ task[t] = "pending" /\ of[t] = k =>
               \/ task'[t] = "cancelled" /\ of'[t] = k
               \/ task'[t] = "pending" /\ of'[t] = None
         /\ ~ (task[t] = "pending" /\ of[t] = k) => task'[t] = task[t] /\ of'[t] = of[t]
  BY <1>1, <1>3, <1>4
<1>8. k # None /\ \A b \in Bins : /\ frozen[b] = k => frozen'[b] = None
                                  /\ frozen[b] # k => frozen'[b] = frozen[b]
  BY <1>1, Constants
<1>9. Slots'
  <2>1. \A t \in Tasks : task'[t] # "none" <=> task[t] # "none"
    BY <1>7
  <2> QED
    BY <2>1 DEF IInv, Slots
<1>10. \A t \in Tasks : TaskInv(t)'
  <2> SUFFICES ASSUME NEW t \in Tasks PROVE TaskInv(t)'
    OBVIOUS
  <2>1. TaskInv(t)
    BY DEF IInv
  <2> QED
    BY <2>1, <1>1, <1>7 DEF TaskInv
<1>11. \A t \in Tasks : TakeInv(t)'
  <2> SUFFICES ASSUME NEW t \in Tasks PROVE TakeInv(t)'
    OBVIOUS
  <2>1. TakeInv(t) /\ TaskInv(t)
    BY DEF IInv
  <2>2. \A u \in Tasks : task'[u] # "none" => task[u] # "none"
    BY <1>7
  <2> QED
    BY <2>1, <2>2, <1>1, <1>2, <1>7, <1>8 DEF TakeInv, TaskInv
<1>12. \A v \in Rows : Status(v) = "open" =>
          /\ v[1] \in Tasks /\ BinOf(v) \in Bins
          /\ task[v[1]] = "completed" /\ of'[v[1]] = of[v[1]]
  BY <1>7, OpenCompleted
<1>13. \A b \in Bins : BinInv(b)'
  <2> SUFFICES ASSUME NEW b \in Bins, frozen'[b] # None, b \notin missed, NEW v \in OpenOn(b)
               PROVE  of'[v[1]] = frozen'[b] /\ Pending({b})' = {}
    BY <1>1 DEF BinInv, OpenOn, Status, BinOf
  <2>1. v \in Rows /\ Status(v) = "open" /\ frozen'[b] = frozen[b]
    BY <1>8 DEF OpenOn
  <2>2. of[v[1]] = frozen[b] /\ Pending({b}) = {}
    BY <2>1 DEF IInv, BinInv
  <2>3. Pending({b})' \subseteq Pending({b})
    BY <1>1, <1>7 DEF Pending
  <2> QED
    BY <2>1, <2>2, <2>3, <1>12
<1>14. \A v \in Rows : Latest(v)'
  <2> SUFFICES ASSUME NEW v \in Rows, Status(v) = "open", of'[v[1]] # None,
                      take'[of'[v[1]]] \in {"counting", "posting"}, BinOf(v) \notin missed,
                      NEW u \in Completed(of[v[1]], BinOf(v))'
               PROVE  u <= v[1]
    BY <1>1, <1>12 DEF Latest, Status, BinOf, Completed
  <2>1. of'[v[1]] = of[v[1]] /\ of[v[1]] \in Takes /\ v[1] \in Tasks
    BY <1>2, <1>12
  <2>2. take[of[v[1]]] \in {"counting", "posting"} /\ of[v[1]] # k
    BY <2>1, <1>2
  <2>3. u \in Completed(of[v[1]], BinOf(v))
    BY <2>1, <1>1, <1>7 DEF Completed, BinOf
  <2> QED
    BY <2>1, <2>2, <2>3 DEF IInv, Latest
<1>15. \A r \in Requests : ReqInv(r)'
  <2> SUFFICES ASSUME NEW r \in Requests PROVE ReqInv(r)'
    OBVIOUS
  <2>1. ReqInv(r) /\ cmd[r].take # k /\ cmd[r].bins \subseteq Bins /\ cmd[r].open \subseteq Rows
    BY <1>2, Types DEF IInv, Commands
  <2>2. \A v \in cmd[r].open : task'[v[1]] # "none"
    BY <2>1, <1>7, RowParts DEF ReqInv
  <2> QED
    BY <2>1, <2>2, <1>1, <1>2, <1>8 DEF ReqInv, BinOf, OpenOn, Status, Idle
<1>16. FrozenIsCounted'
  <2> SUFFICES ASSUME NEW b \in Bins, NEW j \in Takes, frozen'[b] = j
               PROVE  \/ take'[j] = "counting"
                         /\ (Completed(j, b)' # {} \/ \E t \in Pending({b})' : of'[t] = j)
                      \/ take'[j] = "posting" /\ Completed(j, b)' # {}
    BY DEF FrozenIsCounted
  <2>1. frozen[b] = j /\ j # k /\ take'[j] = take[j]
    BY <1>2, <1>8, Constants
  <2>2. Completed(j, b) \subseteq Completed(j, b)'
    BY <2>1, <1>1, <1>7 DEF Completed
  <2>3. \A t \in Pending({b}) : of[t] = j => t \in Pending({b})' /\ of'[t] = j
    BY <2>1, <1>1, <1>7 DEF Pending
  <2> QED
    BY <2>1, <2>2, <2>3 DEF IInv, FrozenIsCounted
<1>17. ClosedAccounts'
  <2> SUFFICES ASSUME NEW j \in Takes, take'[j] = "closed", NEW v \in OpenVariances(j)'
               PROVE  v \in unposted[j] \/ BinOf(v) \in missed
    BY <1>1 DEF ClosedAccounts, BinOf
  <2>1. v \in OpenVariances(j) /\ take[j] = "closed"
    BY <1>1, <1>2, <1>12 DEF OpenVariances, Status
  <2> QED
    BY <2>1 DEF IInv, ClosedAccounts
<1> QED
  BY <1>6, <1>9, <1>10, <1>11, <1>13, <1>14, <1>15, <1>16, <1>17 DEF IInv

\* cancelCountTask: never a task of a take.
LEMMA CancelStep ==
    ASSUME IInv, NEW c \in Tasks, CancelCountTask(c)
    PROVE  IInv'
<1>1. /\ task[c] = "pending" /\ of[c] = None
      /\ task' = [task EXCEPT ![c] = "cancelled"]
      /\ UNCHANGED <<onHand, epoch, frozen, bin, of, basis, expected, cmd>>
      /\ UNCHANGED <<variance, counted, recount, take, unposted, missed>>
  BY DEF CancelCountTask, stock, queue, takes
<1>2. StockTypes /\ TaskTypes
  BY Types DEF IInv
<1>3. TypeOK'
  <2>1. TaskTypes'
    BY <1>1, <1>2 DEF TaskTypes, Statuses
  <2> QED
    BY <1>1, <2>1, Types DEF IInv, StockTypes, QueueTypes, TakeTypes
<1>4. task'[c] = "cancelled" /\ \A t \in Tasks : t # c => task'[t] = task[t]
  BY <1>1, <1>2 DEF TaskTypes
<1>5. \A t \in Tasks : /\ task'[t] # "none" <=> task[t] # "none"
                       /\ task'[t] = "pending" => task[t] = "pending"
                       /\ task'[t] = "completed" <=> task[t] = "completed"
  BY <1>1, <1>4
<1>6. Slots'
  BY <1>5 DEF IInv, Slots
<1>7. \A t \in Tasks : TaskInv(t)' /\ TakeInv(t)'
  <2> SUFFICES ASSUME NEW t \in Tasks PROVE TaskInv(t)' /\ TakeInv(t)'
    OBVIOUS
  <2>1. TaskInv(t) /\ TakeInv(t)
    BY DEF IInv
  <2> QED
    BY <2>1, <1>1, <1>5 DEF TaskInv, TakeInv
<1>8. \A b : Pending({b})' \subseteq Pending({b}) /\ \A k : Completed(k, b)' = Completed(k, b)
  BY <1>1, <1>5 DEF Pending, Completed
<1>9. \A b \in Bins : BinInv(b)'
  <2>1. \A b : OpenOn(b)' = OpenOn(b)
    BY <1>1 DEF OpenOn, Status, BinOf
  <2> QED
    BY <2>1, <1>1, <1>8 DEF IInv, BinInv
<1>10. \A v \in Rows : Latest(v)'
  BY <1>1, <1>8 DEF IInv, Latest, Status, BinOf
<1>11. \A r \in Requests : ReqInv(r)'
  <2> SUFFICES ASSUME NEW r \in Requests PROVE ReqInv(r)'
    OBVIOUS
  <2>1. ReqInv(r) /\ cmd[r].open \subseteq Rows
    BY Types DEF IInv, Commands
  <2>2. \A v \in cmd[r].open : task'[v[1]] # "none"
    BY <2>1, <1>5, RowParts DEF ReqInv
  <2> QED
    BY <2>1, <2>2, <1>1 DEF ReqInv, BinOf, OpenOn, Status, Idle
<1>12. FrozenIsCounted'
  <2> SUFFICES ASSUME NEW b \in Bins, NEW j \in Takes, frozen[b] = j
               PROVE  \/ take[j] = "counting"
                         /\ (Completed(j, b) # {} \/ \E t \in Pending({b})' : of[t] = j)
                      \/ take[j] = "posting" /\ Completed(j, b) # {}
    BY <1>1, <1>8 DEF FrozenIsCounted
  <2>1. \A t \in Pending({b}) : of[t] = j => t \in Pending({b})'
    BY <1>1, <1>4, Constants DEF Pending
  <2> QED
    BY <2>1 DEF IInv, FrozenIsCounted
<1> QED
  BY <1>1, <1>3, <1>6, <1>7, <1>9, <1>10, <1>11, <1>12
     DEF IInv, ClosedAccounts, OpenVariances, Status, BinOf


-----------------------------------------------------------------------------
(* New tasks. *)

\* Tasks N were made for the bins B, in the takes that froze them; no bin of B
\* had a pending one; and where a take froze a bin, it still counts, and no
\* variance of the bin stays open, unless a request missed a count there.
Remade(N, B) ==
    /\ Made(N, B, frozen, task, of)
    /\ \A t \in Tasks : task[t] = "pending" => bin[t] \notin B
    /\ \A b \in B : frozen[b] # None /\ b \notin missed =>
          take[frozen[b]] = "counting" /\ \A v \in OpenOn(b) : Status(v)' # "open"

\* What stands on the tasks alone.
LEMMA RemadeTasks ==
    ASSUME IInv, NEW B \in SUBSET Bins, NEW N, Remade(N, B), NoneOpened,
           UNCHANGED <<onHand, epoch, frozen, take, missed>>
    PROVE  \A t \in Tasks : TaskInv(t)' /\ TakeInv(t)'
<1> SUFFICES ASSUME NEW t \in Tasks PROVE TaskInv(t)' /\ TakeInv(t)'
  OBVIOUS
<1>1. StockTypes /\ TaskTypes /\ TakeTypes /\ TaskInv(t) /\ TakeInv(t) /\ Tasks \subseteq Nat
  BY Types, Constants DEF IInv
<1>2. \A s \in Skus : variance'[t][s] # "none" => variance[t][s] # "none"
  <2> SUFFICES ASSUME NEW s \in Skus, variance'[t][s] # "none" PROVE variance[t][s] # "none"
    OBVIOUS
  <2>1. <<t, s>> \in Rows
    BY DEF Rows
  <2> QED
    BY <2>1 DEF NoneOpened, Status
<1>3. CASE t \in N
  <2>1. /\ task[t] = "none" /\ \A u \in Tasks : task[u] # "none" => u < t
        /\ task'[t] = "pending" /\ bin'[t] \in B /\ of'[t] = frozen[bin'[t]]
        /\ basis'[t] = epoch[bin'[t]] /\ expected'[t] = onHand[bin'[t]]
    BY <1>3 DEF Remade, Made
  <2>2. \A s \in Skus : variance'[t][s] = "none"
    BY <1>1, <1>2, <2>1 DEF TaskInv
  <2>3. bin'[t] \in Bins /\ epoch[bin'[t]] \in Nat
    BY <1>1, <2>1 DEF StockTypes
  <2>4. TaskInv(t)'
    BY <2>1, <2>2, <2>3 DEF TaskInv
  <2>5. ASSUME NEW u \in Tasks, task'[u] # "none", bin'[u] = bin'[t] PROVE u <= t
    <3>1. CASE u \in N
      BY <1>1, <1>3, <2>5, <3>1 DEF Remade, Made
    <3>2. CASE u \notin N
      <4>1. task[u] # "none"
        BY <2>5, <3>2 DEF Remade, Made
      <4> QED
        BY <1>1, <2>1, <4>1
    <3> QED
      BY <3>1, <3>2
  <2>6. frozen[bin'[t]] # None => /\ take[frozen[bin'[t]]] # "none"
                                  /\ bin'[t] \in missed \/ take[frozen[bin'[t]]] = "counting"
    <3>1. frozen[bin'[t]] # None => frozen[bin'[t]] \in Takes
      BY <1>1, <2>3 DEF TakeTypes, Owners
    <3>2. frozen[bin'[t]] # None => take[frozen[bin'[t]]] # "none"
      BY <2>3, <3>1 DEF IInv, FrozenIsCounted
    <3> QED
      BY <2>1, <3>2 DEF Remade
  <2> QED
    BY <2>1, <2>4, <2>5, <2>6 DEF TakeInv
<1>4. CASE t \notin N
  <2>1. /\ task'[t] = task[t] /\ of'[t] = of[t] /\ bin'[t] = bin[t]
        /\ basis'[t] = basis[t] /\ expected'[t] = expected[t]
    BY <1>4 DEF Remade, Made
  <2>2. TaskInv(t)'
    BY <1>1, <1>2, <2>1 DEF TaskInv
  <2>3. ASSUME NEW u \in Tasks, task[t] = "pending", task'[u] # "none", bin'[u] = bin[t]
        PROVE  u <= t
    <3>1. u \notin N
      BY <2>3 DEF Remade, Made
    <3>2. task[u] # "none" /\ bin[u] = bin[t]
      BY <2>3, <3>1 DEF Remade, Made
    <3> QED
      BY <1>1, <2>3, <3>2 DEF TakeInv
  <2> QED
    BY <1>1, <2>1, <2>2, <2>3 DEF TakeInv
<1> QED
  BY <1>3, <1>4

\* The invariant, when requests went on or were given up.
LEMMA RemadeStep ==
    ASSUME IInv, NEW B \in SUBSET Bins, NEW N, Remade(N, B), NoneOpened,
           TaskTypes', Slots', QueueTypes',
           UNCHANGED <<onHand, epoch, frozen, take, unposted, missed>>,
           cmd' \in [Requests -> Commands],
           \A q \in Requests : cmd'[q] = cmd[q] \/ cmd'[q] = Idle,
           \A p, q \in Requests : cmd'[q].take = cmd'[p].take => q = p \/ cmd'[p].take = None
    PROVE  IInv'
<1>1. TypeOK'
  BY Types DEF IInv, StockTypes, TakeTypes
<1>2. \A t \in Tasks : TaskInv(t)' /\ TakeInv(t)'
  BY RemadeTasks
<1>3. \A t \in Tasks : task[t] # "none" =>
         task'[t] = task[t] /\ of'[t] = of[t] /\ bin'[t] = bin[t] /\ t \notin N
  BY DEF Remade, Made
<1>4. \A v \in Rows : Status(v)' = "open" =>
         /\ Status(v) = "open" /\ v[1] \in Tasks /\ task[v[1]] = "completed"
         /\ of'[v[1]] = of[v[1]] /\ bin'[v[1]] = bin[v[1]]
  <2> SUFFICES ASSUME NEW v \in Rows, Status(v)' = "open"
               PROVE  /\ Status(v) = "open" /\ v[1] \in Tasks /\ task[v[1]] = "completed"
                      /\ of'[v[1]] = of[v[1]] /\ bin'[v[1]] = bin[v[1]]
    OBVIOUS
  <2>1. Status(v) = "open"
    BY DEF NoneOpened
  <2> QED
    BY <2>1, <1>3, OpenCompleted
<1>5. /\ \A b : OpenOn(b)' \subseteq OpenOn(b)
      /\ \A k : OpenVariances(k)' \subseteq OpenVariances(k)
  BY <1>4 DEF OpenOn, OpenVariances, BinOf
<1>6. \A k, b : Completed(k, b)' = Completed(k, b)
  <2>1. \A t \in Tasks : task'[t] = "completed" <=> task[t] = "completed"
    BY <1>3 DEF Remade, Made
  <2> QED
    BY <1>3, <2>1 DEF Completed
<1>7. ASSUME NEW b \in Bins PROVE BinInv(b)'
  <2> SUFFICES ASSUME frozen[b] # None, b \notin missed, NEW v \in OpenOn(b)'
               PROVE  of'[v[1]] = frozen[b] /\ Pending({b})' = {}
    BY DEF BinInv
  <2>1. v \in OpenOn(b) /\ of'[v[1]] = of[v[1]] /\ Status(v)' = "open"
    BY <1>4, <1>5 DEF OpenOn
  <2>2. of[v[1]] = frozen[b] /\ Pending({b}) = {}
    BY <2>1 DEF IInv, BinInv
  <2>3. b \notin B
    BY <2>1 DEF Remade
  <2>4. Pending({b})' \subseteq Pending({b})
    BY <2>3 DEF Pending, Remade, Made
  <2> QED
    BY <2>1, <2>2, <2>4
<1>8. ASSUME NEW v \in Rows PROVE Latest(v)'
  <2> SUFFICES ASSUME Status(v)' = "open" PROVE Latest(v)'
    BY DEF Latest
  <2> QED
    BY <1>4, <1>6 DEF IInv, Latest, BinOf
<1>9. ASSUME NEW r \in Requests PROVE ReqInv(r)'
  <2>1. CASE cmd'[r] = Idle
    BY <2>1 DEF ReqInv, Idle
  <2>2. CASE cmd'[r] = cmd[r]
    <3>1. ReqInv(r) /\ cmd[r].open \subseteq Rows
      BY Types DEF IInv, Commands
    <3>2. \A v \in cmd[r].open : task'[v[1]] # "none" /\ BinOf(v)' = BinOf(v)
      BY <3>1, <1>3, RowParts DEF ReqInv, BinOf
    <3> QED
      BY <2>2, <3>1, <3>2, <1>5 DEF ReqInv, Idle
  <2> QED
    BY <2>1, <2>2
<1>10. FrozenIsCounted'
  <2> SUFFICES ASSUME NEW b \in Bins, NEW j \in Takes, frozen[b] = j
               PROVE  \/ take[j] = "counting"
                         /\ (Completed(j, b) # {} \/ \E t \in Pending({b})' : of'[t] = j)
                      \/ take[j] = "posting" /\ Completed(j, b) # {}
    BY <1>6 DEF FrozenIsCounted
  <2>1. \A t \in Pending({b}) : of[t] = j => t \in Pending({b})' /\ of'[t] = j
    BY <1>3 DEF Pending
  <2> QED
    BY <2>1 DEF IInv, FrozenIsCounted
<1>11. ClosedAccounts'
  <2> SUFFICES ASSUME NEW j \in Takes, take[j] = "closed", NEW v \in OpenVariances(j)'
               PROVE  v \in unposted[j] \/ BinOf(v)' \in missed
    BY DEF ClosedAccounts
  <2>1. v \in OpenVariances(j) /\ BinOf(v)' = BinOf(v)
    BY <1>4, <1>5 DEF OpenVariances, BinOf
  <2> QED
    BY <2>1 DEF IInv, ClosedAccounts
<1> QED
  BY <1>1, <1>2, <1>7, <1>8, <1>9, <1>10, <1>11 DEF IInv


\* supersedeVariancesInTx opens nothing, and leaves none of V open.
LEMMA SupersededIs ==
    ASSUME QueueTypes, NEW V \in SUBSET Rows, NEW by, Superseded(V, variance, by),
           \A v \in V : Status(v) = "open" => by[BinOf(v)] \in Tasks, UNCHANGED counted
    PROVE  QueueTypes' /\ NoneOpened /\ \A v \in V : Status(v)' # "open"
<1>1. \A t \in Tasks, s \in Skus :
         /\ variance'[t][s] = IF <<t, s>> \in V /\ variance[t][s] = "open"
                              THEN "recounted" ELSE variance[t][s]
         /\ recount'[t][s] = IF <<t, s>> \in V /\ variance[t][s] = "open"
                             THEN by[bin[t]] ELSE recount[t][s]
  BY DEF Superseded
<1>2. \A t \in Tasks, s \in Skus : <<t, s>> \in V /\ variance[t][s] = "open" => by[bin[t]] \in Tasks
  BY DEF Status, BinOf
<1>3. \A t \in Tasks, s \in Skus : /\ variance'[t][s] \in {"none", "open", "adjusted", "recounted"}
                                   /\ recount'[t][s] \in Tasks \cup {None}
  BY <1>1, <1>2 DEF QueueTypes
<1>4. QueueTypes'
  <2>1. variance' \in [Tasks -> [Skus -> {"none", "open", "adjusted", "recounted"}]]
    BY <1>1, <1>3 DEF Superseded
  <2>2. recount' \in [Tasks -> [Skus -> Tasks \cup {None}]]
    BY <1>1, <1>3 DEF Superseded
  <2> QED
    BY <2>1, <2>2 DEF QueueTypes
<1>5. \A v \in Rows : /\ v[1] \in Tasks /\ v[2] \in Skus /\ v = <<v[1], v[2]>>
                      /\ Status(v)' = IF v \in V /\ Status(v) = "open" THEN "recounted" ELSE Status(v)
  BY <1>1, RowParts DEF Status
<1> QED
  BY <1>4, <1>5 DEF NoneOpened

\* Countable bins get tasks: createCount, createCountsBulk, the scheduler, the
\* review queue's recount.
LEMMA CreateStep ==
    ASSUME IInv, NEW B \in SUBSET Countable(Bins), Minted(B, NoTake, task, of),
           UNCHANGED <<stock, frozen, queue, takes, cmd>>
    PROVE  IInv'
<1>1. /\ UNCHANGED <<onHand, epoch, frozen, take, unposted, missed, cmd>>
      /\ UNCHANGED <<variance, counted, recount>>
  BY DEF stock, queue, takes
<1>2. /\ StockTypes /\ TaskTypes /\ QueueTypes /\ TakeTypes /\ TypeOK /\ Slots
      /\ cmd \in [Requests -> Commands] /\ NoTake \in [Bins -> Owners]
  BY Types DEF IInv, NoTake, Owners
<1>3. B \in SUBSET Bins /\ \A b \in B : frozen[b] = None /\ Pending({b}) = {}
  BY DEF Countable
<1>4. task \in [Tasks -> Statuses] /\ of \in [Tasks -> Owners]
  BY <1>2 DEF TaskTypes
<1>5. Made(NewTasks(B), B, NoTake, task, of) /\ Slots' /\ TaskTypes'
  BY <1>2, <1>3, <1>4, MintedMade
<1>6. Made(NewTasks(B), B, frozen, task, of)
  <2>1. \A b \in B : NoTake[b] = frozen[b]
    BY <1>3 DEF NoTake
  <2> QED
    BY <1>5, <2>1 DEF Made
<1>7. Remade(NewTasks(B), B)
  BY <1>3, <1>6 DEF Remade, Pending
<1>8. NoneOpened /\ QueueTypes'
  BY <1>1, <1>2 DEF NoneOpened, Status, QueueTypes
<1>9. \A p, q \in Requests : cmd[q].take = cmd[p].take => q = p \/ cmd[p].take = None
  BY DEF IInv, ReqInv
<1> QED
  BY <1>1, <1>2, <1>3, <1>5, <1>7, <1>8, <1>9, RemadeStep

\* recount of a variance.
LEMMA ResolveRecountStep ==
    ASSUME IInv, NEW v \in Rows, ResolveRecount(v)
    PROVE  IInv'
<1> DEFINE B == {BinOf(v)}
           by == [b \in Bins |-> NewTask({b}, b)]
<1>1. /\ UNCHANGED <<onHand, epoch, frozen, take, unposted, missed, cmd, counted>>
      /\ Resolvable(v) /\ Pending(B) = {} /\ Status(v) = "open"
      /\ Minted(B, frozen, task, of) /\ Superseded({v}, variance, by)
  BY DEF ResolveRecount, stock, takes, Resolvable
<1>2. /\ StockTypes /\ TaskTypes /\ QueueTypes /\ TakeTypes /\ TypeOK /\ Slots
      /\ cmd \in [Requests -> Commands]
  BY Types DEF IInv
<1>3. BinOf(v) \in Bins /\ B \in SUBSET Bins
  BY <1>1, OpenCompleted
<1>4. task \in [Tasks -> Statuses] /\ of \in [Tasks -> Owners] /\ frozen \in [Bins -> Owners]
  BY <1>2 DEF TaskTypes, TakeTypes
<1>5. Made(NewTasks(B), B, frozen, task, of) /\ Slots' /\ TaskTypes'
  <2> HIDE DEF B, by
  <2> QED
    BY <1>1, <1>2, <1>3, <1>4, MintedMade
<1>6. by[BinOf(v)] \in Tasks
  <2>1. NewTask(B, BinOf(v)) \in Tasks
    BY <1>5 DEF Made
  <2> QED
    BY <1>3, <2>1
<1>7. QueueTypes' /\ NoneOpened
  <2>1. {v} \in SUBSET Rows
    OBVIOUS
  <2> HIDE DEF by
  <2> QED
    BY <1>1, <1>2, <1>6, <2>1, SupersededIs
\* A variance of the take that froze its bin cannot be resolved.
<1>8. frozen[BinOf(v)] # None => BinOf(v) \in missed
  <2> SUFFICES ASSUME frozen[BinOf(v)] # None, BinOf(v) \notin missed PROVE FALSE
    OBVIOUS
  <2>1. v \in OpenOn(BinOf(v))
    BY <1>1 DEF OpenOn
  <2>2. of[v[1]] = frozen[BinOf(v)]
    BY <1>3, <2>1 DEF IInv, BinInv
  <2>3. frozen[BinOf(v)] \in Takes
    BY <1>3, <1>4 DEF Owners
  <2>4. take[frozen[BinOf(v)]] \in {"counting", "posting"}
    BY <1>3, <2>3 DEF IInv, FrozenIsCounted
  <2> QED
    BY <1>1, <2>2, <2>4 DEF Resolvable
<1>9. Remade(NewTasks(B), B)
  BY <1>1, <1>5, <1>8 DEF Remade, Pending
<1>10. \A p, q \in Requests : cmd[q].take = cmd[p].take => q = p \/ cmd[p].take = None
  BY DEF IInv, ReqInv
<1> HIDE DEF B, by
<1> QED
  BY <1>1, <1>2, <1>3, <1>5, <1>7, <1>9, <1>10, RemadeStep

\* recountStockTakeBins under the advisory lock.
LEMMA RecountFinishStep ==
    ASSUME IInv, NEW r \in Requests, RecountFinish(r)
    PROVE  IInv'
<1> DEFINE B == cmd[r].bins
           V == cmd[r].open
           by == [b \in B |-> NewTask(B, b)]
<1>1. /\ UNCHANGED <<onHand, epoch, frozen, take, unposted, missed, counted>>
      /\ cmd[r].kind = "recount" /\ Pending(B) = {}
      /\ Minted(B, frozen, task, of) /\ Superseded(V, variance, by)
      /\ cmd' = [cmd EXCEPT ![r] = Idle]
  BY DEF RecountFinish, stock, takes
<1>2. /\ StockTypes /\ TaskTypes /\ QueueTypes /\ TakeTypes /\ TypeOK /\ Slots
      /\ cmd \in [Requests -> Commands]
  BY Types DEF IInv
<1>3. B \in SUBSET Bins /\ V \in SUBSET Rows
  BY <1>2 DEF Commands
<1>4. task \in [Tasks -> Statuses] /\ of \in [Tasks -> Owners] /\ frozen \in [Bins -> Owners]
  BY <1>2 DEF TaskTypes, TakeTypes
<1>5. /\ cmd[r].take \in Takes /\ take[cmd[r].take] = "counting"
      /\ \A b \in B : frozen[b] = cmd[r].take
      /\ \A v \in V : BinOf(v) \in B
      /\ \A b \in B : OpenOn(b) \subseteq V \/ b \in missed
  BY <1>1 DEF IInv, ReqInv
<1>6. /\ cmd' \in [Requests -> Commands] /\ cmd'[r] = Idle
      /\ \A q \in Requests \ {r} : cmd'[q] = cmd[q]
      /\ \A p, q \in Requests : cmd'[q].take = cmd'[p].take => q = p \/ cmd'[p].take = None
  BY <1>1, <1>2, RequestGone DEF IInv
<1>7. Made(NewTasks(B), B, frozen, task, of) /\ Slots' /\ TaskTypes'
  <2> HIDE DEF B, V, by
  <2> QED
    BY <1>1, <1>2, <1>3, <1>4, MintedMade
<1>8. \A v \in V : by[BinOf(v)] \in Tasks
  BY <1>5, <1>7 DEF Made
<1> HIDE DEF B, V, by
<1>9. QueueTypes' /\ NoneOpened /\ \A v \in V : Status(v)' # "open"
  BY <1>1, <1>2, <1>3, <1>8, SupersededIs
<1>10. Remade(NewTasks(B), B)
  BY <1>1, <1>5, <1>7, <1>9 DEF Remade, Pending
<1>11. \A q \in Requests : cmd'[q] = cmd[q] \/ cmd'[q] = Idle
  BY <1>6
<1> QED
  BY <1>1, <1>2, <1>3, <1>6, <1>7, <1>9, <1>10, <1>11, RemadeStep


\* submitCount: the task is completed, and a bin that moved gets the next one.
LEMMA SubmitStep ==
    ASSUME IInv, NEW t \in Tasks, NEW c \in Counts, SubmitCount(t, c)
    PROVE  IInv'
<1> DEFINE b == bin[t]
           conflict == epoch[b] # basis[t]
           again == IF conflict THEN {b} ELSE {}
           found == [s \in Skus |-> IF c[s] # expected[t][s] THEN "open" ELSE "none"]
           inTake == conflict /\ frozen[b] # None
           st == [task EXCEPT ![t] = "completed"]
           V == IF inTake THEN {t} \X Skus ELSE {}
           var == [variance EXCEPT ![t] = found]
           by == [x \in again |-> NewTask(again, x)]
           N == NewTasks(again)
<1>1. /\ task[t] = "pending"
      /\ counted' = [counted EXCEPT ![t] = c]
      /\ Minted(again, frozen, st, of) /\ Superseded(V, var, by)
      /\ missed' = missed \cup IF Requested(b) THEN {b} ELSE {}
      /\ UNCHANGED <<onHand, epoch, frozen, take, unposted, cmd>>
  BY DEF SubmitCount, stock
<1>2. /\ StockTypes /\ TaskTypes /\ QueueTypes /\ TakeTypes /\ TypeOK /\ Slots
      /\ cmd \in [Requests -> Commands]
  BY Types DEF IInv
<1>3. b \in Bins /\ again \in SUBSET Bins /\ TaskInv(t) /\ TakeInv(t) /\ Tasks \subseteq Nat
  BY <1>1, Constants DEF IInv, TaskInv
<1>4. /\ st \in [Tasks -> Statuses] /\ of \in [Tasks -> Owners] /\ frozen \in [Bins -> Owners]
      /\ st[t] = "completed" /\ \A u \in Tasks : u # t => st[u] = task[u]
  BY <1>2 DEF TaskTypes, TakeTypes, Statuses
<1>5. \A u \in Tasks : st[u] = "none" <=> task[u] = "none"
  BY <1>1, <1>4
<1>6. Made(N, again, frozen, st, of) /\ Slots' /\ TaskTypes'
  <2> HIDE DEF again, st
  <2> QED
    BY <1>1, <1>2, <1>3, <1>4, <1>5, MintedMade
<1>7. /\ t \notin N /\ task'[t] = "completed"
      /\ \A u \in Tasks \ N : /\ u # t => task'[u] = task[u]
                              /\ of'[u] = of[u] /\ bin'[u] = bin[u]
                              /\ basis'[u] = basis[u] /\ expected'[u] = expected[u]
      /\ \A u \in N : /\ u \in Tasks /\ u # t /\ conflict /\ bin'[u] = b
                      /\ task[u] = "none" /\ task'[u] = "pending" /\ of'[u] = frozen[b]
                      /\ basis'[u] = epoch[b] /\ expected'[u] = onHand[b]
                      /\ \A w \in Tasks : task[w] # "none" => w < u
      /\ \A u, w \in N : u = w
  <2> HIDE DEF N, st, conflict
  <2>1. t \notin N
    BY <1>1, <1>6 DEF Made
  <2>2. \A u \in N : bin'[u] = b /\ conflict
    BY <1>6 DEF Made
  <2> QED
    BY <1>4, <1>6, <2>1, <2>2 DEF Made
\* The differences: only those of t change, and in a take that has to count
\* again none stays open.
<1>8. \A u \in Tasks, s \in Skus :
         /\ u # t => variance'[u][s] = variance[u][s] /\ recount'[u][s] = recount[u][s]
         /\ variance'[t][s] \in {"none", "open", "recounted"}
         /\ inTake => variance'[t][s] # "open"
         /\ recount'[t][s] \in Tasks \cup {None}
  <2>1. inTake => by[b] \in Tasks
    BY <1>6 DEF Made
  <2>2. var[t] = found /\ \A u \in Tasks : u # t => var[u] = variance[u]
    BY <1>2 DEF QueueTypes
  <2>3. \A s \in Skus : found[s] \in {"none", "open"}
    OBVIOUS
  <2>4. \A u \in Tasks, s \in Skus : <<u, s>> \in V <=> inTake /\ u = t
    OBVIOUS
  <2>5. \A u \in Tasks, s \in Skus :
           /\ variance'[u][s] = IF <<u, s>> \in V /\ var[u][s] = "open"
                                THEN "recounted" ELSE var[u][s]
           /\ recount'[u][s] = IF <<u, s>> \in V /\ var[u][s] = "open"
                               THEN by[bin[u]] ELSE recount[u][s]
    <3> HIDE DEF V, var, by
    <3> QED
      BY <1>1 DEF Superseded
  <2>6. \A s \in Skus : recount[t][s] \in Tasks \cup {None}
    BY <1>2 DEF QueueTypes
  <2> HIDE DEF V, var, by, found, inTake
  <2>7. ASSUME NEW u \in Tasks, NEW s \in Skus, u # t
        PROVE  variance'[u][s] = variance[u][s] /\ recount'[u][s] = recount[u][s]
    BY <2>2, <2>4, <2>5, <2>7
  <2>8. ASSUME NEW s \in Skus
        PROVE  /\ variance'[t][s] \in {"none", "open", "recounted"}
               /\ inTake => variance'[t][s] # "open"
               /\ recount'[t][s] \in Tasks \cup {None}
    <3>1. /\ variance'[t][s] = IF inTake /\ found[s] = "open" THEN "recounted" ELSE found[s]
          /\ recount'[t][s] = IF inTake /\ found[s] = "open" THEN by[b] ELSE recount[t][s]
      BY <2>2, <2>4, <2>5
    <3> QED
      BY <2>1, <2>3, <2>6, <3>1
  <2> QED
    BY <2>7, <2>8
<1> HIDE DEF V, var, by, found, st
<1>9. QueueTypes'
  <2>1. \A u \in Tasks, s \in Skus :
           /\ variance'[u][s] \in {"none", "open", "adjusted", "recounted"}
           /\ recount'[u][s] \in Tasks \cup {None}
    BY <1>2, <1>8 DEF QueueTypes
  <2>2. variance' \in [Tasks -> [Skus -> {"none", "open", "adjusted", "recounted"}]]
    BY <1>1, <2>1 DEF Superseded
  <2>3. recount' \in [Tasks -> [Skus -> Tasks \cup {None}]]
    BY <1>1, <2>1 DEF Superseded
  <2>4. counted' \in [Tasks -> [Skus -> Nat]]
    BY <1>1, <1>2, Constants, CountingConstants DEF QueueTypes, Counts
  <2> QED
    BY <2>2, <2>3, <2>4 DEF QueueTypes
<1>10. TypeOK' /\ missed \subseteq missed' /\ missed' \subseteq Bins
  <2>1. missed \subseteq missed' /\ missed' \subseteq Bins
    BY <1>1, <1>2, <1>3 DEF TakeTypes
  <2> QED
    BY <1>1, <1>2, <1>6, <1>9, <2>1, Types DEF StockTypes, TakeTypes
\* t is the only pending task of its bin, and the latest task there.
<1>11. /\ \A u \in Tasks : task[u] # "none" /\ bin[u] = b => u <= t
       /\ \A u \in Tasks : task[u] = "pending" /\ bin[u] = b => u = t
  <2>1. \A u \in Tasks : task[u] # "none" /\ bin[u] = b => u <= t
    BY <1>1, <1>3 DEF TakeInv
  <2>2. \A u \in Tasks : task[u] = "pending" /\ bin[u] = b => t <= u
    BY <1>1 DEF IInv, TakeInv
  <2> QED
    BY <1>3, <2>1, <2>2
\* Unless a count was missed there, t is in the take that froze the bin, and the
\* bin has no open variance of an earlier count.
<1>12. b \notin missed => /\ of[t] = frozen[b] /\ (of[t] # None => take[of[t]] = "counting")
                          /\ frozen[b] # None => OpenOn(b) = {}
  <2>1. t \in Pending({b})
    BY <1>1 DEF Pending
  <2> QED
    BY <1>1, <1>3, <2>1 DEF TakeInv, IInv, BinInv
<1>13. \A v \in Rows : Status(v)' = "open" =>
          /\ v[1] \in Tasks \ N /\ of'[v[1]] = of[v[1]] /\ BinOf(v)' = BinOf(v)
          /\ \/ v[1] = t /\ ~ inTake
             \/ v[1] # t /\ Status(v) = "open" /\ task[v[1]] = "completed"
  <2> SUFFICES ASSUME NEW v \in Rows, Status(v)' = "open"
               PROVE  /\ v[1] \in Tasks \ N /\ of'[v[1]] = of[v[1]] /\ BinOf(v)' = BinOf(v)
                      /\ \/ v[1] = t /\ ~ inTake
                         \/ v[1] # t /\ Status(v) = "open" /\ task[v[1]] = "completed"
    OBVIOUS
  <2>1. v[1] \in Tasks /\ v[2] \in Skus
    BY RowParts
  <2>2. v[1] # t => Status(v) = "open" /\ task[v[1]] = "completed"
    BY <1>8, <2>1, OpenCompleted DEF Status
  <2>3. v[1] = t => ~ inTake
    BY <1>8, <2>1 DEF Status
  <2>4. v[1] \notin N
    BY <1>7, <2>2
  <2> QED
    BY <1>7, <2>1, <2>2, <2>3, <2>4 DEF BinOf
<1>14. ASSUME NEW x, x # b PROVE OpenOn(x)' \subseteq OpenOn(x)
  BY <1>13, <1>14 DEF OpenOn, BinOf
<1>15. ASSUME NEW x, NEW u \in Pending({x})'
       PROVE  (u \in N /\ x = b /\ conflict) \/ (u # t /\ u \in Pending({x}) /\ x # b)
  <2>1. u \in Tasks /\ task'[u] = "pending" /\ bin'[u] = x
    BY DEF Pending
  <2>2. CASE u \in N
    BY <1>7, <2>1, <2>2
  <2>3. CASE u \notin N
    <3>1. u # t /\ task[u] = "pending" /\ bin[u] = x
      BY <1>7, <2>1, <2>3
    <3> QED
      BY <1>11, <2>1, <3>1 DEF Pending
  <2> QED
    BY <2>2, <2>3
<1> HIDE DEF again, N
<1>16. ASSUME NEW u \in Tasks PROVE TaskInv(u)' /\ TakeInv(u)'
  <2>0. TaskInv(u) /\ TakeInv(u)
    BY DEF IInv
  <2>1. CASE u \in N
    <3>1. \A s \in Skus : variance'[u][s] = "none"
      BY <1>7, <1>8, <2>0, <2>1 DEF TaskInv
    <3>2. TaskInv(u)'
      <4>1. epoch[b] \in Nat
        BY <1>2, <1>3 DEF StockTypes
      <4> HIDE DEF b
      <4> QED
        BY <1>1, <1>3, <1>7, <2>1, <3>1, <4>1 DEF TaskInv
    <3>3. ASSUME NEW w \in Tasks, task'[w] # "none", bin'[w] = bin'[u] PROVE w <= u
      <4>1. CASE w \in N
        BY <1>3, <1>7, <2>1, <4>1
      <4>2. CASE w \notin N
        <5>1. task[w] # "none"
          BY <1>1, <1>7, <3>3, <4>2
        <5> QED
          BY <1>3, <1>7, <2>1, <5>1
      <4> QED
        BY <4>1, <4>2
    <3>4. frozen[b] # None => take[frozen[b]] # "none"
      <4>1. frozen[b] # None => frozen[b] \in Takes
        BY <1>3, <1>4 DEF Owners
      <4> QED
        BY <1>3, <4>1 DEF IInv, FrozenIsCounted
    <3>5. TakeInv(u)'
      <4> HIDE DEF b
      <4> QED
        BY <1>1, <1>7, <1>10, <1>12, <2>1, <3>3, <3>4 DEF TakeInv
    <3> QED
      BY <3>2, <3>5
  <2>2. CASE u = t
    BY <1>1, <1>7, <2>0, <2>2 DEF TaskInv, TakeInv
  <2>3. CASE u \notin N /\ u # t
    <3>1. /\ task'[u] = task[u] /\ of'[u] = of[u] /\ bin'[u] = bin[u]
          /\ basis'[u] = basis[u] /\ expected'[u] = expected[u]
          /\ \A s \in Skus : variance'[u][s] = variance[u][s]
      BY <1>7, <1>8, <2>3
    <3>2. TaskInv(u)'
      BY <1>1, <2>0, <3>1 DEF TaskInv
    <3>3. ASSUME NEW w \in Tasks, task[u] = "pending", task'[w] # "none", bin'[w] = bin[u]
          PROVE  w <= u
      <4>1. bin[u] # b
        BY <1>11, <2>3, <3>3
      <4>2. w \notin N
        BY <1>7, <3>3, <4>1
      <4>3. task[w] # "none" /\ bin[w] = bin[u]
        BY <1>1, <1>7, <3>3, <4>2
      <4> QED
        BY <2>0, <3>3, <4>3 DEF TakeInv
    <3> QED
      BY <1>1, <1>10, <2>0, <3>1, <3>2, <3>3 DEF TakeInv
  <2> QED
    BY <2>1, <2>2, <2>3
<1>17. ASSUME NEW x \in Bins PROVE BinInv(x)'
  <2> SUFFICES ASSUME frozen[x] # None, x \notin missed', NEW v \in OpenOn(x)'
               PROVE  of'[v[1]] = frozen[x] /\ Pending({x})' = {}
    BY <1>1 DEF BinInv
  <2>1. v \in Rows /\ Status(v)' = "open" /\ BinOf(v)' = x /\ x \notin missed
    BY <1>10 DEF OpenOn
  <2>2. CASE x = b
    <3>1. v[1] = t /\ ~ inTake
      <4>1. OpenOn(b) = {}
        BY <1>12, <2>1, <2>2
      <4>2. BinOf(v) = b
        BY <1>13, <2>1, <2>2
      <4> HIDE DEF b
      <4> QED
        BY <1>13, <2>1, <4>1, <4>2 DEF OpenOn
    <3>2. ~ conflict
      BY <2>2, <3>1
    <3>3. Pending({x})' = {}
      BY <1>15, <2>2, <3>2
    <3> QED
      BY <1>12, <1>13, <2>1, <2>2, <3>1, <3>3
  <2>3. CASE x # b
    <3>1. v \in OpenOn(x)
      BY <1>14, <2>3
    <3>2. of[v[1]] = frozen[x] /\ Pending({x}) = {}
      BY <2>1, <3>1 DEF IInv, BinInv
    <3> QED
      BY <1>13, <1>15, <2>1, <2>3, <3>2
  <2> QED
    BY <2>2, <2>3
<1>18. ASSUME NEW v \in Rows PROVE Latest(v)'
  <2> SUFFICES ASSUME Status(v)' = "open", of'[v[1]] # None,
                      take[of'[v[1]]] \in {"counting", "posting"}, BinOf(v)' \notin missed',
                      NEW u \in Completed(of[v[1]], BinOf(v))'
               PROVE  u <= v[1]
    BY <1>1 DEF Latest, Completed
  <2>1. /\ v[1] \in Tasks \ N /\ of'[v[1]] = of[v[1]] /\ BinOf(v)' = BinOf(v)
        /\ BinOf(v) \notin missed
    BY <1>10, <1>13
  <2>2. u \in Tasks \ N /\ task'[u] = "completed" /\ bin[u] = BinOf(v) /\ of[u] = of[v[1]]
    BY <1>7, <2>1 DEF Completed
  <2>3. task[u] # "none" /\ (u # t => task[u] = "completed")
    BY <1>1, <1>7, <2>2
  <2>4. CASE v[1] = t
    BY <1>11, <2>2, <2>3, <2>4 DEF BinOf
  <2>5. CASE v[1] # t
    <3>1. Status(v) = "open"
      BY <1>13, <2>5
    <3>2. u # t
      <4> SUFFICES ASSUME u = t PROVE FALSE
        OBVIOUS
      <4>1. BinOf(v) = b /\ of[t] = of[v[1]]
        BY <2>2
      <4>2. frozen[b] # None
        BY <1>12, <2>1, <4>1
      <4>3. v \in OpenOn(b)
        BY <3>1, <4>1 DEF OpenOn
      <4> QED
        BY <1>12, <2>1, <4>1, <4>2, <4>3
    <3>3. u \in Completed(of[v[1]], BinOf(v))
      BY <2>2, <2>3, <3>2 DEF Completed
    <3> QED
      BY <2>1, <3>1, <3>3 DEF IInv, Latest
  <2> QED
    BY <2>4, <2>5
<1>19. ASSUME NEW r \in Requests PROVE ReqInv(r)'
  <2>1. ReqInv(r) /\ cmd[r].open \subseteq Rows
    BY <1>2 DEF IInv, Commands
  <2>2. \A v \in cmd[r].open : task'[v[1]] # "none" /\ BinOf(v)' = BinOf(v)
    <3> SUFFICES ASSUME NEW v \in cmd[r].open PROVE task'[v[1]] # "none" /\ BinOf(v)' = BinOf(v)
      OBVIOUS
    <3>1. v[1] \in Tasks /\ task[v[1]] # "none"
      BY <2>1, RowParts DEF ReqInv
    <3>2. v[1] \notin N
      BY <1>7, <3>1
    <3> QED
      BY <1>1, <1>7, <3>1, <3>2 DEF BinOf
  <2>3. \A x \in cmd[r].bins : OpenOn(x)' \subseteq cmd[r].open \/ x \in missed'
    <3> SUFFICES ASSUME NEW x \in cmd[r].bins
                 PROVE  OpenOn(x)' \subseteq cmd[r].open \/ x \in missed'
      OBVIOUS
    <3>1. CASE x = b
      BY <1>1, <3>1 DEF Requested
    <3>2. CASE x # b
      BY <1>10, <1>14, <2>1, <3>2 DEF ReqInv
    <3> QED
      BY <3>1, <3>2
  <2> QED
    BY <1>1, <2>1, <2>2, <2>3 DEF ReqInv, Idle
<1>20. FrozenIsCounted'
  <2> SUFFICES ASSUME NEW x \in Bins, NEW j \in Takes, frozen[x] = j
               PROVE  \/ take[j] = "counting"
                         /\ (Completed(j, x)' # {} \/ \E u \in Pending({x})' : of'[u] = j)
                      \/ take[j] = "posting" /\ Completed(j, x)' # {}
    BY <1>1 DEF FrozenIsCounted
  <2>1. Completed(j, x) \subseteq Completed(j, x)'
    <3> SUFFICES ASSUME NEW u \in Tasks, task[u] = "completed", bin[u] = x, of[u] = j
                 PROVE  task'[u] = "completed" /\ bin'[u] = x /\ of'[u] = j
      BY DEF Completed
    <3>1. u \notin N
      BY <1>7
    <3> QED
      BY <1>7, <3>1
  <2>2. ASSUME NEW u \in Pending({x}), of[u] = j
        PROVE  Completed(j, x)' # {} \/ \E w \in Pending({x})' : of'[w] = j
    <3>1. u \in Tasks /\ task[u] = "pending" /\ bin[u] = x /\ u \notin N
      BY <1>7 DEF Pending
    <3>2. CASE u = t
      <4>1. t \in Completed(j, x)'
        BY <1>7, <2>2, <3>1, <3>2 DEF Completed
      <4> QED
        BY <4>1
    <3>3. CASE u # t
      BY <1>7, <2>2, <3>1, <3>3 DEF Pending
    <3> QED
      BY <3>2, <3>3
  <2> QED
    BY <2>1, <2>2 DEF IInv, FrozenIsCounted
<1>21. ClosedAccounts'
  <2> SUFFICES ASSUME NEW j \in Takes, take[j] = "closed", NEW v \in OpenVariances(j)'
               PROVE  v \in unposted[j] \/ BinOf(v)' \in missed'
    BY <1>1 DEF ClosedAccounts
  <2>1. v \in Rows /\ Status(v)' = "open" /\ of[v[1]] = j /\ BinOf(v)' = BinOf(v)
    BY <1>13 DEF OpenVariances
  <2>2. CASE v[1] = t
    <3>1. b \in missed
      BY <1>12, <2>1, <2>2, Constants
    <3> QED
      BY <1>10, <2>1, <2>2, <3>1 DEF BinOf
  <2>3. CASE v[1] # t
    <3>1. v \in OpenVariances(j)
      BY <1>13, <2>1, <2>3 DEF OpenVariances
    <3> QED
      BY <1>10, <2>1, <3>1 DEF IInv, ClosedAccounts
  <2> QED
    BY <2>2, <2>3
<1> QED
  BY <1>6, <1>10, <1>16, <1>17, <1>18, <1>19, <1>20, <1>21 DEF IInv


\* startStockTake under the advisory lock.
LEMMA StartFinishStep ==
    ASSUME IInv, NEW r \in Requests, StartFinish(r)
    PROVE  IInv'
<1> DEFINE k == cmd[r].take
           B == cmd[r].bins
           V == cmd[r].open
           adopted == Pending(B)
           toCreate == {b \in B : Pending({b}) = {}}
           TaskOf(b) == IF b \in toCreate THEN NewTask(toCreate, b)
                        ELSE CHOOSE t \in adopted : bin[t] = b
           by == [b \in B |-> TaskOf(b)]
           inTake == [b \in Bins |-> k]
           tk == [t \in Tasks |-> IF t \in adopted THEN k ELSE of[t]]
           N == NewTasks(toCreate)
<1>1. /\ cmd[r].kind = "start" /\ \A b \in B : frozen[b] = None
      /\ take' = [take EXCEPT ![k] = "counting"]
      /\ Minted(toCreate, inTake, task, tk) /\ Superseded(V, variance, by)
      /\ frozen' = [b \in Bins |-> IF b \in B THEN k ELSE frozen[b]]
      /\ cmd' = [cmd EXCEPT ![r] = Idle]
      /\ UNCHANGED <<onHand, epoch, counted, unposted, missed>>
  BY DEF StartFinish, stock
<1>2. /\ StockTypes /\ TaskTypes /\ QueueTypes /\ TakeTypes /\ TypeOK /\ Slots
      /\ cmd \in [Requests -> Commands] /\ Tasks \subseteq Nat
  BY Types, Constants DEF IInv
<1>3. /\ B \in SUBSET Bins /\ V \in SUBSET Rows /\ toCreate \in SUBSET Bins
      /\ k \in Takes /\ take[k] = "none" /\ k # None
      /\ \A v \in V : BinOf(v) \in B
      /\ \A b \in B : OpenOn(b) \subseteq V \/ b \in missed
  <2>1. B \in SUBSET Bins /\ V \in SUBSET Rows
    BY <1>2 DEF Commands
  <2>2. /\ k \in Takes /\ take[k] = "none" /\ \A v \in V : BinOf(v) \in B
        /\ \A b \in B : OpenOn(b) \subseteq V \/ b \in missed
    BY <1>1 DEF IInv, ReqInv
  <2> QED
    BY <2>1, <2>2, Constants
<1>4. /\ cmd' \in [Requests -> Commands] /\ cmd'[r] = Idle
      /\ \A q \in Requests \ {r} : cmd'[q] = cmd[q]
      /\ \A p, q \in Requests : cmd'[q].take = cmd'[p].take => q = p \/ cmd'[p].take = None
      /\ \A q \in Requests \ {r} : cmd[q].take # k
  <2>1. \A q \in Requests \ {r} : cmd[q].take # k
    BY <1>3 DEF IInv, ReqInv
  <2> QED
    BY <1>1, <1>2, <2>1, RequestGone DEF IInv
<1>5. /\ take'[k] = "counting" /\ (\A j \in Takes : j # k => take'[j] = take[j])
      /\ \A b \in B : frozen'[b] = k
      /\ \A b \in Bins \ B : frozen'[b] = frozen[b]
  BY <1>1, <1>2, <1>3 DEF TakeTypes
<1>6. \A t \in Tasks : of[t] # k /\ (of[t] # None => of[t] \in Takes /\ bin[t] \in Bins)
  BY <1>2, <1>3 DEF IInv, TakeInv, TaskInv, TaskTypes, Owners
\* The pending tasks of the bins are adopted; a bin without one gets one.
<1>7. /\ \A t \in Tasks : t \in adopted <=> task[t] = "pending" /\ bin[t] \in B
      /\ \A b \in B \ toCreate : \E t \in Tasks : task[t] = "pending" /\ bin[t] = b
      /\ \A t \in Tasks : task[t] = "pending" => bin[t] \notin toCreate
      /\ toCreate \subseteq B
  BY DEF Pending
<1>8. Made(N, toCreate, inTake, task, tk) /\ Slots' /\ TaskTypes'
  <2>1. /\ inTake \in [Bins -> Owners] /\ task \in [Tasks -> Statuses]
        /\ tk \in [Tasks -> Owners]
    BY <1>2, <1>3 DEF TaskTypes, Owners
  <2> HIDE DEF toCreate, inTake, tk
  <2> QED
    BY <1>1, <1>2, <1>3, <2>1, MintedMade
<1>9. ASSUME NEW b \in B PROVE by[b] \in Tasks
  <2>1. CASE b \in toCreate
    <3>1. NewTask(toCreate, b) \in Tasks
      BY <1>8, <2>1 DEF Made
    <3> HIDE DEF toCreate
    <3> QED
      BY <2>1, <3>1
  <2>2. CASE b \notin toCreate
    <3>1. \E t \in adopted : bin[t] = b
      BY <1>7, <2>2
    <3>2. adopted \subseteq Tasks
      BY DEF Pending
    <3> HIDE DEF toCreate, adopted
    <3>3. (CHOOSE t \in adopted : bin[t] = b) \in adopted
      BY <3>1
    <3>4. by[b] = CHOOSE t \in adopted : bin[t] = b
      BY <2>2
    <3> QED
      BY <3>2, <3>3, <3>4
  <2> QED
    BY <2>1, <2>2
<1>10. /\ \A t \in N : /\ t \in Tasks /\ task[t] = "none" /\ t \notin adopted
                       /\ \A u \in Tasks : task[u] # "none" => u < t
                       /\ task'[t] = "pending" /\ bin'[t] \in toCreate /\ of'[t] = k
                       /\ basis'[t] = epoch[bin'[t]] /\ expected'[t] = onHand[bin'[t]]
       /\ \A t \in Tasks \ N : /\ task'[t] = task[t] /\ bin'[t] = bin[t]
                               /\ basis'[t] = basis[t] /\ expected'[t] = expected[t]
                               /\ t \in adopted => of'[t] = k
                               /\ t \notin adopted => of'[t] = of[t]
       /\ \A b \in toCreate : \E t \in N : bin'[t] = b
       /\ \A t, u \in N : bin'[t] = bin'[u] => t = u
  <2>1. /\ \A b \in toCreate : inTake[b] = k
        /\ \A t \in Tasks : tk[t] = IF t \in adopted THEN k ELSE of[t]
    BY <1>3
  <2>2. \A t \in N : t \in Tasks /\ task[t] = "none" /\ t \notin adopted
    BY <1>7, <1>8 DEF Made
  <2> HIDE DEF N, toCreate, inTake, tk, adopted
  <2> QED
    BY <1>8, <2>1, <2>2 DEF Made
<1>11. QueueTypes' /\ NoneOpened /\ \A v \in V : Status(v)' # "open"
  <2> HIDE DEF V, by, B
  <2> QED
    BY <1>1, <1>2, <1>3, <1>9, SupersededIs
<1> HIDE DEF k, B, V, adopted, toCreate, by, inTake, tk, N
<1>12. TypeOK'
  <2>1. TakeTypes'
    BY <1>1, <1>2, <1>3 DEF TakeTypes, Owners
  <2> QED
    BY <1>1, <1>2, <1>4, <1>8, <1>11, <2>1, Types DEF StockTypes
\* Completed tasks stay as they are, and so do the open variances that are left.
<1>13. \A t \in Tasks :
          /\ task'[t] = "completed" <=> task[t] = "completed"
          /\ task[t] = "completed" => of'[t] = of[t] /\ bin'[t] = bin[t] /\ t \notin N
          /\ task[t] # "none" => t \notin N /\ task'[t] = task[t] /\ bin'[t] = bin[t]
  BY <1>7, <1>10
<1>14. \A v \in Rows : Status(v)' = "open" =>
          /\ Status(v) = "open" /\ v[1] \in Tasks /\ v \notin V
          /\ task[v[1]] = "completed" /\ of'[v[1]] = of[v[1]] /\ bin'[v[1]] = bin[v[1]]
  <2> SUFFICES ASSUME NEW v \in Rows, Status(v)' = "open"
               PROVE  /\ Status(v) = "open" /\ v[1] \in Tasks /\ v \notin V
                      /\ task[v[1]] = "completed" /\ of'[v[1]] = of[v[1]] /\ bin'[v[1]] = bin[v[1]]
    OBVIOUS
  <2>1. Status(v) = "open" /\ v \notin V
    BY <1>11 DEF NoneOpened
  <2> QED
    BY <1>13, <2>1, OpenCompleted
<1>15. /\ \A b : OpenOn(b)' \subseteq OpenOn(b)
       /\ \A j : OpenVariances(j)' \subseteq OpenVariances(j)
       /\ \A j, b : Completed(j, b)' = Completed(j, b)
  BY <1>13, <1>14 DEF OpenOn, OpenVariances, BinOf, Completed
<1>16. ASSUME NEW t \in Tasks PROVE TaskInv(t)' /\ TakeInv(t)'
  <2>0. TaskInv(t) /\ TakeInv(t)
    BY DEF IInv
  <2>1. \A s \in Skus : variance'[t][s] # "none" => variance[t][s] # "none"
    <3> SUFFICES ASSUME NEW s \in Skus, variance'[t][s] # "none" PROVE variance[t][s] # "none"
      OBVIOUS
    <3>1. <<t, s>> \in Rows
      BY DEF Rows
    <3> QED
      BY <1>11, <3>1 DEF NoneOpened, Status
  <2>2. CASE t \in N
    <3>1. bin'[t] \in B /\ bin'[t] \in Bins /\ epoch[bin'[t]] \in Nat
      BY <1>2, <1>3, <1>7, <1>10, <2>2 DEF StockTypes
    <3>2. \A s \in Skus : variance'[t][s] = "none"
      BY <1>10, <2>0, <2>1, <2>2 DEF TaskInv
    <3>3. TaskInv(t)'
      BY <1>1, <1>10, <2>2, <3>1, <3>2 DEF TaskInv
    <3>4. ASSUME NEW u \in Tasks, task'[u] # "none", bin'[u] = bin'[t] PROVE u <= t
      <4>1. CASE u \in N
        BY <1>2, <1>10, <2>2, <3>4, <4>1
      <4>2. CASE u \notin N
        BY <1>2, <1>10, <2>2, <3>4, <4>2
      <4> QED
        BY <4>1, <4>2
    <3>5. of'[t] = k /\ frozen'[bin'[t]] = k
      BY <1>5, <1>10, <2>2, <3>1
    <3>6. TakeInv(t)'
      BY <1>3, <1>5, <3>4, <3>5 DEF TakeInv
    <3> QED
      BY <3>3, <3>6
  <2>3. CASE t \notin N
    <3>1. /\ task'[t] = task[t] /\ bin'[t] = bin[t]
          /\ basis'[t] = basis[t] /\ expected'[t] = expected[t]
      BY <1>10, <2>3
    <3>2. task[t] = "none" => of'[t] = of[t]
      BY <1>7, <1>10, <2>3
    <3>3. TaskInv(t)'
      BY <1>1, <2>0, <2>1, <3>1, <3>2 DEF TaskInv
    <3>4. ASSUME NEW u \in Tasks, task[t] = "pending", task'[u] # "none", bin'[u] = bin[t]
          PROVE  u <= t
      <4>1. u \notin N
        BY <1>7, <1>10, <3>4
      <4>2. task[u] # "none" /\ bin[u] = bin[t]
        BY <1>10, <3>4, <4>1
      <4> QED
        BY <2>0, <3>4, <4>2 DEF TakeInv
    <3>5. CASE t \in adopted
      <4>1. of'[t] = k /\ frozen'[bin'[t]] = k
        BY <1>5, <1>7, <1>10, <2>3, <3>1, <3>5
      <4> QED
        BY <1>3, <1>5, <3>1, <3>3, <3>4, <4>1 DEF TakeInv
    <3>6. CASE t \notin adopted
      <4>1. of'[t] = of[t] /\ of[t] # k /\ (of[t] # None => take'[of[t]] = take[of[t]])
        BY <1>5, <1>6, <1>10, <2>3, <3>6
      <4>2. task[t] = "pending" => bin[t] \in Bins \ B
        BY <1>7, <2>0, <3>6 DEF TaskInv
      <4>3. of[t] # None /\ take[of[t]] = "counting" => bin[t] \in Bins \ B
        BY <1>1, <1>6, <2>0 DEF TakeInv, B
      <4> QED
        BY <1>1, <1>5, <2>0, <3>1, <3>3, <3>4, <4>1, <4>2, <4>3 DEF TakeInv
    <3> QED
      BY <3>5, <3>6
  <2> QED
    BY <2>2, <2>3
<1>17. ASSUME NEW x \in Bins PROVE BinInv(x)'
  <2> SUFFICES ASSUME frozen'[x] # None, x \notin missed, NEW v \in OpenOn(x)'
               PROVE  of'[v[1]] = frozen'[x] /\ Pending({x})' = {}
    BY <1>1 DEF BinInv
  <2>1. v \in OpenOn(x) /\ v \notin V /\ of'[v[1]] = of[v[1]]
    BY <1>14, <1>15 DEF OpenOn
  <2>2. x \notin B
    BY <1>3, <2>1
  <2>3. frozen'[x] = frozen[x]
    BY <1>5, <2>2
  <2>4. of[v[1]] = frozen[x] /\ Pending({x}) = {}
    BY <2>1, <2>3 DEF IInv, BinInv
  <2>5. Pending({x})' \subseteq Pending({x})
    BY <1>7, <1>10, <2>2 DEF Pending
  <2> QED
    BY <2>1, <2>3, <2>4, <2>5
<1>18. ASSUME NEW v \in Rows PROVE Latest(v)'
  <2> SUFFICES ASSUME Status(v)' = "open" PROVE Latest(v)'
    BY DEF Latest
  <2>1. of'[v[1]] = of[v[1]] /\ bin'[v[1]] = bin[v[1]] /\ v[1] \in Tasks /\ Status(v) = "open"
    BY <1>14
  <2>2. of[v[1]] # None => take'[of[v[1]]] = take[of[v[1]]]
    BY <1>5, <1>6, <2>1
  <2> QED
    BY <1>1, <1>15, <2>1, <2>2 DEF IInv, Latest, BinOf
<1>19. ASSUME NEW q \in Requests PROVE ReqInv(q)'
  <2>1. CASE q = r
    BY <1>4, <2>1 DEF ReqInv, Idle
  <2>2. CASE q # r
    <3>1. /\ cmd'[q] = cmd[q] /\ cmd[q].take # k /\ ReqInv(q)
          /\ cmd[q].open \subseteq Rows /\ cmd[q].bins \subseteq Bins
      BY <1>2, <1>4, <2>2 DEF IInv, Commands
    <3>2. \A v \in cmd[q].open : task'[v[1]] # "none" /\ BinOf(v)' = BinOf(v)
      BY <1>13, <3>1, RowParts DEF ReqInv, BinOf
    <3>3. cmd[q].kind = "recount" => \A b \in cmd[q].bins : frozen'[b] = frozen[b]
      <4>1. cmd[q].kind = "recount" => \A b \in cmd[q].bins : frozen[b] # None
        BY <3>1, Constants DEF ReqInv
      <4>2. cmd[q].kind = "recount" => \A b \in cmd[q].bins : b \notin B
        BY <1>1, <4>1 DEF B
      <4> QED
        BY <1>5, <3>1, <4>2
    <3>4. cmd[q].take \in Takes => take'[cmd[q].take] = take[cmd[q].take]
      BY <1>5, <3>1
    <3> QED
      BY <1>1, <1>4, <1>15, <3>1, <3>2, <3>3, <3>4 DEF ReqInv, Idle
  <2> QED
    BY <2>1, <2>2
<1>20. FrozenIsCounted'
  <2> SUFFICES ASSUME NEW x \in Bins, NEW j \in Takes, frozen'[x] = j
               PROVE  \/ take'[j] = "counting"
                         /\ (Completed(j, x) # {} \/ \E t \in Pending({x})' : of'[t] = j)
                      \/ take'[j] = "posting" /\ Completed(j, x) # {}
    BY <1>15 DEF FrozenIsCounted
  <2>1. CASE x \in toCreate
    <3>1. PICK t \in N : bin'[t] = x
      BY <1>10, <2>1
    <3>2. t \in Pending({x})' /\ of'[t] = k
      BY <1>10, <3>1 DEF Pending
    <3> QED
      BY <1>5, <1>7, <2>1, <3>2
  <2>2. CASE x \in B \ toCreate
    <3>1. PICK t \in Tasks : task[t] = "pending" /\ bin[t] = x
      BY <1>7, <2>2
    <3>2. t \in adopted /\ t \notin N
      BY <1>7, <1>10, <2>2, <3>1
    <3>3. t \in Pending({x})' /\ of'[t] = k
      BY <1>10, <3>1, <3>2 DEF Pending
    <3> QED
      BY <1>5, <2>2, <3>3
  <2>3. CASE x \notin B
    <3>1. frozen[x] = j
      BY <1>5, <2>3
    <3>2. \/ take[j] = "counting" /\ (Completed(j, x) # {} \/ \E t \in Pending({x}) : of[t] = j)
          \/ take[j] = "posting" /\ Completed(j, x) # {}
      BY <3>1 DEF IInv, FrozenIsCounted
    <3>3. take'[j] = take[j]
      BY <1>3, <1>5, <3>2
    <3>4. \A t \in Pending({x}) : of[t] = j => t \in Pending({x})' /\ of'[t] = j
      BY <1>7, <1>10, <1>13, <2>3 DEF Pending
    <3> QED
      BY <3>2, <3>3, <3>4
  <2> QED
    BY <1>7, <2>1, <2>2, <2>3
<1>21. ClosedAccounts'
  <2> SUFFICES ASSUME NEW j \in Takes, take'[j] = "closed", NEW v \in OpenVariances(j)'
               PROVE  v \in unposted[j] \/ BinOf(v)' \in missed
    BY <1>1 DEF ClosedAccounts
  <2>1. take[j] = "closed" /\ v \in OpenVariances(j) /\ BinOf(v)' = BinOf(v)
    BY <1>5, <1>14, <1>15 DEF OpenVariances, BinOf
  <2> QED
    BY <2>1 DEF IInv, ClosedAccounts
<1> QED
  BY <1>8, <1>12, <1>16, <1>17, <1>18, <1>19, <1>20, <1>21 DEF IInv


-----------------------------------------------------------------------------
(* The invariant. *)

\* Initially nothing is counted, frozen or in flight.
LEMMA InitIInv == Init => IInv
<1> SUFFICES ASSUME Init PROVE IInv
  OBVIOUS
<1>1. Idle \in Commands
  BY DEF Idle, Commands
<1>2. TypeOK
  <2>1. StockTypes /\ TaskTypes /\ QueueTypes /\ TakeTypes /\ cmd \in [Requests -> Commands]
    BY <1>1, Constants DEF Init, StockTypes, TaskTypes, QueueTypes, TakeTypes, Statuses, Owners
  <2> QED
    BY <2>1, Types
<1>3. Slots
  <2>1. 0 \in 0 .. MaxTasks /\ \A t \in Tasks : ~ (t <= 0)
    BY Constants DEF Tasks
  <2> QED
    BY <2>1 DEF Init, Slots
<1>4. \A v \in Rows : Status(v) = "none"
  BY RowParts DEF Init, Status
<1>5. \A t \in Tasks : TaskInv(t) /\ TakeInv(t)
  BY DEF Init, TaskInv, TakeInv
<1>6. \A b \in Bins : BinInv(b)
  BY DEF Init, BinInv
<1>7. \A v \in Rows : Latest(v)
  BY <1>4 DEF Latest
<1>8. \A r \in Requests : ReqInv(r)
  BY DEF Init, ReqInv, Idle
<1>9. FrozenIsCounted
  BY Constants DEF Init, FrozenIsCounted
<1>10. ClosedAccounts
  BY DEF Init, ClosedAccounts
<1> QED
  BY <1>2, <1>3, <1>5, <1>6, <1>7, <1>8, <1>9, <1>10 DEF IInv

\* Every step keeps the invariant.
LEMMA NextIInv == IInv /\ [Next]_vars => IInv'
<1> SUFFICES ASSUME IInv, [Next]_vars PROVE IInv'
  OBVIOUS
<1>1. ASSUME NEW b \in Bins, CreateCount(b) \/ MintRecountTaskForBin(b) PROVE IInv'
  <2>1. {b} \in SUBSET Countable(Bins)
    BY <1>1 DEF CreateCount, MintRecountTaskForBin
  <2> QED
    BY <1>1, <2>1, CreateStep DEF CreateCount, MintRecountTaskForBin
<1>2. ASSUME NEW B \in SUBSET Bins, CreateCountsBulk(B) PROVE IInv'
  <2>1. Countable(B) \in SUBSET Countable(Bins)
    BY DEF Countable
  <2> QED
    BY <1>2, <2>1, CreateStep DEF CreateCountsBulk
<1>3. ASSUME NEW B \in SUBSET Bins, GenerateScheduledTasks(B) PROVE IInv'
  <2> DEFINE D == {b \in Countable(B) : \E s \in Skus : onHand[b][s] > 0}
  <2>1. D \in SUBSET Countable(Bins)
    BY DEF Countable
  <2>2. Minted(D, NoTake, task, of) /\ UNCHANGED <<stock, frozen, queue, takes, cmd>>
    BY <1>3 DEF GenerateScheduledTasks
  <2> HIDE DEF D
  <2> QED
    BY <2>1, <2>2, CreateStep
<1>4. ASSUME NEW b \in Bins, NEW s \in Skus, NEW q \in 0 .. MaxQty, NEW surface \in {"web", "device"},
             AppendMovement(b, s, q, surface)
      PROVE  IInv'
  BY <1>4, AppendStep
<1>5. ASSUME NEW t \in Tasks, CancelCountTask(t) PROVE IInv'
  BY <1>5, CancelStep
<1>6. ASSUME NEW t \in Tasks, NEW c \in Counts, SubmitCount(t, c) PROVE IInv'
  BY <1>6, SubmitStep
<1>7. ASSUME NEW v \in Rows, ApproveAdjust(v) \/ ResolveRecount(v) PROVE IInv'
  BY <1>7, ApproveAdjustStep, ResolveRecountStep
<1>8. ASSUME NEW r \in Requests, NEW k \in Takes, NEW B \in SUBSET Bins \ {{}},
             StartRead(r, k, B) \/ RecountRead(r, k, B)
      PROVE  IInv'
  BY <1>8, StartReadStep, RecountReadStep
<1>9. ASSUME NEW r \in Requests, StartFinish(r) \/ RecountFinish(r) \/ RolledBack(r) PROVE IInv'
  BY <1>9, StartFinishStep, RecountFinishStep, RolledBackStep
<1>10. ASSUME NEW k \in Takes, CloseApprove(k) \/ FinishClose(k) \/ AbandonStockTake(k) PROVE IInv'
  BY <1>10, CloseApproveStep, FinishCloseStep, AbandonStep
<1>11. ASSUME NEW k \in Takes, NEW refused \in SUBSET Refusable(k, Batch(k)), PostBatch(k, refused)
       PROVE  IInv'
  BY <1>11, PostBatchStep
<1>12. CASE UNCHANGED vars
  <2>1. /\ UNCHANGED <<onHand, epoch, frozen, task, bin, of, basis, expected>>
        /\ UNCHANGED <<variance, counted, recount, take, unposted, missed, cmd>>
    BY <1>12 DEF vars, stock, tasks, queue, takes
  <2>2. TypeOK'
    BY <2>1, Types DEF IInv, StockTypes, TaskTypes, QueueTypes, TakeTypes
  <2>3. \A r \in Requests : ReqInv(r)'
    BY <2>1 DEF IInv, ReqInv, OpenOn, Status, BinOf, Idle
  <2> QED
    BY <2>1, <2>2, <2>3
       DEF IInv, Slots, TaskInv, TakeInv, BinInv, OpenOn, Status, BinOf, Pending, Latest, Completed,
           FrozenIsCounted, ClosedAccounts, OpenVariances
<1> QED
  BY <1>1, <1>2, <1>3, <1>4, <1>5, <1>6, <1>7, <1>8, <1>9, <1>10, <1>11, <1>12 DEF Next

\* The inductive invariant holds throughout.
THEOREM IInvCorrect == Spec => []IInv
BY InitIInv, NextIInv, PTL DEF Spec

-----------------------------------------------------------------------------
(* What a step corrects. *)

\* The latest completed count of the take in the bin of an open variance is its own.
LEMMA OwnLatest ==
    ASSUME IInv, NEW k \in Takes, take[k] \in {"counting", "posting"},
           NEW v \in OpenVariances(k), BinOf(v) \notin missed
    PROVE  /\ v \in Rows /\ v[1] \in Completed(k, BinOf(v)) /\ BinOf(v) \in Bins
           /\ \A u \in Completed(k, BinOf(v)) : u <= v[1]
           /\ v[1] = Max(Completed(k, BinOf(v)))
<1>1. v \in Rows /\ Status(v) = "open" /\ of[v[1]] = k /\ k # None
  BY Constants DEF OpenVariances
<1>2. task[v[1]] = "completed" /\ v[1] \in Tasks /\ BinOf(v) \in Bins
  BY <1>1, OpenCompleted
<1>3. v[1] \in Completed(k, BinOf(v))
  BY <1>1, <1>2 DEF Completed, BinOf
<1>4. \A u \in Completed(k, BinOf(v)) : u <= v[1]
  BY <1>1 DEF IInv, Latest
<1> DEFINE S == Completed(k, BinOf(v))
<1>5. S \subseteq Nat
  BY Constants DEF Completed
<1> HIDE DEF S
<1>6. v[1] \in S /\ \A u \in S : v[1] >= u
  BY <1>3, <1>4, <1>5 DEF S
<1>7. Max(S) \in S /\ \A u \in S : Max(S) >= u
  BY <1>6 DEF Max
<1>8. v[1] = Max(S)
  <2>1. v[1] \in Nat /\ Max(S) \in Nat /\ v[1] >= Max(S) /\ Max(S) >= v[1]
    BY <1>5, <1>6, <1>7
  <2> HIDE DEF Max
  <2> QED
    BY <2>1
<1> QED
  BY <1>1, <1>2, <1>3, <1>4, <1>8 DEF S

\* Approved alone, on the state that was counted.
LEMMA ApprovedToCount ==
    ASSUME IInv, NEW w \in Rows, ApproveAdjust(w),
           NEW v \in Rows, Status(v) = "open", Status(v)' = "adjusted"
    PROVE  onHand'[BinOf(v)][v[2]] = counted[v[1]][v[2]]
<1> DEFINE b == BinOf(w)
           delta == counted[w[1]][w[2]] - expected[w[1]][w[2]]
<1>1. /\ Status(w) = "open" /\ epoch[b] = basis[w[1]]
      /\ onHand' = [onHand EXCEPT ![b][w[2]] = @ + delta]
      /\ variance' = [variance EXCEPT ![w[1]][w[2]] = "adjusted"]
  BY DEF ApproveAdjust, Resolvable
<1>2. /\ b \in Bins /\ w[1] \in Tasks /\ w[2] \in Skus /\ task[w[1]] = "completed"
      /\ v[1] \in Tasks /\ v[2] \in Skus
  BY <1>1, OpenCompleted, RowParts
<1>3. StockTypes /\ TaskTypes /\ QueueTypes
  BY Types DEF IInv
<1>4. v[1] = w[1] /\ v[2] = w[2]
  BY <1>1, <1>2, <1>3 DEF Status, QueueTypes
<1>5. expected[w[1]] = onHand[b]
  BY <1>1, <1>2 DEF IInv, TaskInv, BinOf
<1>6. counted[w[1]][w[2]] \in Nat /\ expected[w[1]][w[2]] \in Nat
  BY <1>2, <1>3 DEF TaskTypes, QueueTypes
<1>7. onHand'[b][w[2]] = onHand[b][w[2]] + delta
  <2> HIDE DEF delta, b
  <2> QED
    BY <1>1, <1>2, <1>3 DEF StockTypes
<1> QED
  BY <1>4, <1>5, <1>6, <1>7 DEF BinOf

\* Posted by a close, together with others.
LEMMA PostedToCount ==
    ASSUME IInv, NEW k \in Takes, NEW refused, PostBatch(k, refused),
           NEW v \in Rows, Status(v) = "open", Status(v)' = "adjusted", BinOf(v) \notin missed
    PROVE  onHand'[BinOf(v)][v[2]] = counted[v[1]][v[2]]
<1> DEFINE b == BinOf(v)
           n == v[1]
           s == v[2]
           P == Posts(k, Batch(k), refused)
           level == Level(k, b, s, refused)
           d == Deltas(k, b, s, refused)
<1>1. /\ take[k] = "posting"
      /\ onHand' = [c \in Bins |-> [z \in Skus |->
                       IF \E w \in {x \in P : BinOf(x) = c} : w[2] = z
                       THEN Level(k, c, z, refused)[MaxTasks] ELSE onHand[c][z]]]
      /\ variance' = [t \in Tasks |-> [z \in Skus |->
                         IF <<t, z>> \in P THEN "adjusted" ELSE variance[t][z]]]
  BY DEF PostBatch
<1>2. n \in Tasks /\ s \in Skus /\ v = <<n, s>> /\ b \in Bins /\ MaxTasks \in Nat
  BY RowParts, OpenCompleted, Constants
<1>3. v \in P
  <2> HIDE DEF P, n, s
  <2>1. variance'[n][s] = IF <<n, s>> \in P THEN "adjusted" ELSE variance[n][s]
    BY <1>1, <1>2
  <2> QED
    BY <1>2, <2>1 DEF Status, n, s
<1>4. v \in OpenVariances(k) /\ epoch[b] = LatestEpoch(k, b) /\ level[n] # level[n - 1]
  BY <1>3 DEF Posts
<1>5. /\ n \in Completed(k, b) /\ n = Max(Completed(k, b))
      /\ \A u \in Completed(k, b) : u <= n
  BY <1>1, <1>4, OwnLatest
\* The bin is as the counter saw it.
<1>6. expected[n] = onHand[b]
  <2>1. epoch[b] = basis[n]
    BY <1>4, <1>5 DEF LatestEpoch
  <2>2. task[n] = "completed" /\ bin[n] = b
    BY <1>5 DEF Completed
  <2> QED
    BY <1>2, <2>1, <2>2 DEF IInv, TaskInv
\* Nothing else is corrected there.
<1>7. ASSUME NEW i \in Tasks, i # n PROVE d[i] = 0
  <2>1. ~ (<<i, s>> \in OpenVariances(k) /\ bin[i] = b)
    <3> SUFFICES ASSUME <<i, s>> \in OpenVariances(k), bin[i] = b PROVE FALSE
      OBVIOUS
    <3>1. BinOf(<<i, s>>) = b
      BY DEF BinOf
    <3>2. i \in Completed(k, b) /\ \A u \in Completed(k, b) : u <= i
      <4> HIDE DEF b
      <4>1. BinOf(<<i, s>>) \notin missed
        BY <3>1 DEF b
      <4> QED
        BY <1>1, <3>1, <4>1, OwnLatest
    <3>3. i <= n /\ n <= i
      BY <1>5, <3>2
    <3> QED
      BY <1>2, <1>7, <3>3, Constants
  <2> QED
    BY <2>1 DEF Deltas
<1>8. /\ d \in [Tasks -> Int] /\ onHand[b][s] \in Nat
      /\ Books(level, d, onHand[b][s], MaxTasks)
  BY <1>2, LevelType
<1>9. QueueTypes /\ TaskTypes
  BY Types DEF IInv
<1>10. counted[n][s] \in Nat /\ expected[n][s] \in Nat
  BY <1>2, <1>9 DEF QueueTypes, TaskTypes
<1>11. d[n] \in {0, counted[n][s] - expected[n][s]}
  BY <1>2 DEF Deltas
<1>12. onHand'[b][s] = level[MaxTasks]
  <2>1. \E w \in {x \in P : BinOf(x) = b} : w[2] = s
    BY <1>3
  <2> HIDE DEF P, b, s, level
  <2>2. onHand'[b][s] = Level(k, b, s, refused)[MaxTasks]
    BY <1>1, <1>2, <2>1
  <2> QED
    BY <2>2 DEF level
<1> HIDE DEF b, n, s, P, level, d
<1>13. /\ n \in 1 .. MaxTasks /\ n - 1 \in 0 .. MaxTasks /\ n \in 0 .. MaxTasks
       /\ 0 \in 0 .. MaxTasks /\ MaxTasks \in 0 .. MaxTasks
       /\ 0 <= n - 1 /\ n <= MaxTasks
  BY <1>2 DEF Tasks
<1>14. \A i, j \in 0 .. MaxTasks :
          i <= j /\ (\A m \in (i + 1) .. j : d[m] = 0) => level[j] = level[i]
  BY <1>8, BooksKeep
<1>15. level[n - 1] = onHand[b][s]
  <2>1. \A m \in (0 + 1) .. (n - 1) : m \in Tasks /\ m # n
    BY <1>13 DEF Tasks
  <2>2. level[n - 1] = level[0]
    BY <1>7, <1>13, <1>14, <2>1
  <2> QED
    BY <1>8, <2>2 DEF Books
<1>16. level[MaxTasks] = level[n]
  <2>1. \A m \in (n + 1) .. MaxTasks : m \in Tasks /\ m # n
    BY <1>13 DEF Tasks
  <2> QED
    BY <1>7, <1>13, <1>14, <2>1
<1>17. level[n] = Booked(level[n - 1], d[n])
  BY <1>8, <1>13 DEF Books
<1>18. level[n] = onHand[b][s] + d[n] /\ d[n] # 0
  BY <1>4, <1>8, <1>10, <1>11, <1>15, <1>17 DEF Booked, level, n
<1>19. level[n] = counted[n][s]
  BY <1>6, <1>8, <1>10, <1>11, <1>18
<1> QED
  BY <1>12, <1>16, <1>19 DEF b, n, s


\* No other step decides that a variance is adjusted.
LEMMA OthersAdjustNone ==
    ASSUME IInv, [Next]_vars,
           NEW v \in Rows, Status(v) = "open", Status(v)' = "adjusted"
    PROVE  \/ \E w \in Rows : ApproveAdjust(w)
           \/ \E k \in Takes : \E refused \in SUBSET Refusable(k, Batch(k)) : PostBatch(k, refused)
<1>1. v[1] \in Tasks /\ v[2] \in Skus /\ QueueTypes
  BY RowParts, Types DEF IInv
<1>2. variance' # variance
  BY DEF Status
\* Superseding never adjusts.
<1>3. ASSUME NEW V, NEW var, NEW by, Superseded(V, var, by), var[v[1]][v[2]] # "adjusted"
      PROVE  FALSE
  BY <1>1, <1>3 DEF Superseded, Status
<1>4. variance[v[1]][v[2]] # "adjusted"
  BY DEF Status
<1>5. ASSUME NEW t \in Tasks, NEW c \in Counts, SubmitCount(t, c) PROVE FALSE
  <2> DEFINE found == [s \in Skus |-> IF c[s] # expected[t][s] THEN "open" ELSE "none"]
             var == [variance EXCEPT ![t] = found]
  <2>1. \E V, by : Superseded(V, var, by)
    BY <1>5 DEF SubmitCount
  <2>2. var[v[1]][v[2]] # "adjusted"
    <3>1. found[v[2]] # "adjusted"
      BY <1>1
    <3> HIDE DEF found
    <3> QED
      BY <1>1, <1>4, <3>1 DEF QueueTypes
  <2> HIDE DEF var
  <2> QED
    BY <1>3, <2>1, <2>2
<1>6. ASSUME NEW w, ResolveRecount(w) PROVE FALSE
  BY <1>3, <1>4, <1>6 DEF ResolveRecount
<1>7. ASSUME NEW r, StartFinish(r) \/ RecountFinish(r) PROVE FALSE
  <2>1. \E V, by : Superseded(V, variance, by)
    BY <1>7 DEF StartFinish, RecountFinish
  <2> QED
    BY <1>3, <1>4, <2>1
<1>8. ASSUME \/ \E b \in Bins : CreateCount(b) \/ MintRecountTaskForBin(b)
             \/ \E B \in SUBSET Bins : CreateCountsBulk(B) \/ GenerateScheduledTasks(B)
             \/ \E b \in Bins, s \in Skus, q \in 0 .. MaxQty, surface \in {"web", "device"} :
                   AppendMovement(b, s, q, surface)
             \/ \E t \in Tasks : CancelCountTask(t)
             \/ \E r \in Requests, k \in Takes, B \in SUBSET Bins \ {{}} :
                   StartRead(r, k, B) \/ RecountRead(r, k, B)
             \/ \E r \in Requests : RolledBack(r)
             \/ \E k \in Takes : CloseApprove(k) \/ FinishClose(k) \/ AbandonStockTake(k)
             \/ UNCHANGED vars
      PROVE  FALSE
  <2>1. UNCHANGED queue
    BY <1>8 DEF CreateCount, MintRecountTaskForBin, CreateCountsBulk, GenerateScheduledTasks,
                AppendMovement, CancelCountTask, StartRead, RecountRead, RolledBack, CloseApprove,
                FinishClose, AbandonStockTake, vars
  <2> QED
    BY <1>2, <2>1 DEF queue
<1> QED
  BY <1>5, <1>6, <1>7, <1>8 DEF Next

-----------------------------------------------------------------------------
(* The properties. *)

\* Type correctness: in particular no approved correction and no close ever
\* overdraws a bin, however many bins, tasks and takes there are.
THEOREM TypeCorrect == Spec => []TypeOK
<1>1. IInv => TypeOK
  BY DEF IInv
<1> QED
  BY <1>1, IInvCorrect, PTL

\* A bin has one pending count at a time, under any interleaving of counts,
\* bulks, the scheduler, conflicting submits, recounts and takes: the pending
\* task is the latest of its bin.
THEOREM PendingCorrect == Spec => []OnePending
<1>1. IInv => OnePending
  <2> SUFFICES ASSUME IInv, NEW t \in Pending(Bins), NEW u \in Pending(Bins), bin[t] = bin[u]
               PROVE  t = u
    BY DEF OnePending
  <2>1. t \in Tasks /\ u \in Tasks /\ task[t] = "pending" /\ task[u] = "pending"
    BY DEF Pending
  <2>2. t <= u /\ u <= t
    BY <2>1 DEF IInv, TakeInv
  <2>3. t \in Nat /\ u \in Nat
    BY <2>1, Constants
  <2> QED
    BY <2>2, <2>3
<1> QED
  BY <1>1, IInvCorrect, PTL

\* No freeze outlives its take, and every frozen bin is counted for it.
THEOREM FrozenCorrect == Spec => []FrozenIsCounted
<1>1. IInv => FrozenIsCounted
  BY DEF IInv
<1> QED
  BY <1>1, IInvCorrect, PTL

\* The open variances of a running take are those of its latest counts, unless a
\* request to start or to recount missed a count of the bin.
THEOREM LatestCorrect == Spec => []LatestOnly
<1>1. IInv => LatestOnly
  BY OwnLatest DEF LatestOnly
<1> QED
  BY <1>1, IInvCorrect, PTL

\* A closed take answered with every variance that still waits, but for the same bins.
THEOREM ClosedCorrect == Spec => []ClosedAccounts
<1>1. IInv => ClosedAccounts
  BY DEF IInv
<1> QED
  BY <1>1, IInvCorrect, PTL

\* A correction, approved alone or posted by a close in batches of any size and
\* with any refusals, leaves the bin with what was counted, but for the same bins.
THEOREM AdjustedCorrect == Spec => AdjustedToCount
<1> DEFINE Step == \A v \in Rows :
                      Status(v) = "open" /\ Status(v)' = "adjusted" /\ BinOf(v) \notin missed =>
                         onHand'[BinOf(v)][v[2]] = counted[v[1]][v[2]]
<1>1. IInv /\ [Next]_vars => [Step]_vars
  <2> SUFFICES ASSUME IInv, [Next]_vars, NEW v \in Rows,
                      Status(v) = "open", Status(v)' = "adjusted", BinOf(v) \notin missed
               PROVE  onHand'[BinOf(v)][v[2]] = counted[v[1]][v[2]]
    OBVIOUS
  <2>1. \/ \E w \in Rows : ApproveAdjust(w)
        \/ \E k \in Takes : \E refused \in SUBSET Refusable(k, Batch(k)) : PostBatch(k, refused)
    BY OthersAdjustNone
  <2> QED
    BY <2>1, ApprovedToCount, PostedToCount
<1> HIDE DEF Step
<1>2. Spec => [][Step]_vars
  BY <1>1, IInvCorrect, PTL DEF Spec
<1> QED
  BY <1>2 DEF AdjustedToCount, Step
=============================================================================
