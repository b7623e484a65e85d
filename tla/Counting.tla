------------------------------ MODULE Counting ------------------------------
(***************************************************************************)
(* Cycle counts and stock takes.  A count task freezes what a bin should   *)
(* hold together with the bin's state epoch; a submit turns differences    *)
(* into variances; a variance is approved (the stock is corrected) or      *)
(* recounted.  A stock take counts many bins at once behind a freeze, and  *)
(* its close posts the open variances batch by batch.                      *)
(*                                                                         *)
(* Every command that decides under the warehouse's advisory lock is one   *)
(* action.  Starting a take and requesting a recount read and lock rows    *)
(* before they reach that lock: each is two steps of a request.            *)
(***************************************************************************)
EXTENDS Integers, FiniteSets, FiniteSetsExt

CONSTANTS Bins,       \* in the order of their codes
          Skus,
          Takes,      \* ids of stock takes
          MaxTasks,   \* count tasks ever created
          Requests,   \* manager's commands that take two steps
          MaxQty,
          Stock,      \* what the bins hold at first
          MaxMoves,   \* movements and corrections after which nothing else moves
          BatchSize,  \* STOCK_TAKE_POST_BATCH
          None

Tasks == 1 .. MaxTasks

ASSUME CountingConstants ==
    /\ Bins \subseteq Nat /\ IsFiniteSet(Bins) /\ IsFiniteSet(Skus)
    /\ {MaxTasks, MaxQty, MaxMoves} \subseteq Nat /\ BatchSize \in Nat \ {0}
    /\ Stock \in [Bins -> [Skus -> Nat]]
    /\ None \notin Takes \cup Tasks

VARIABLES
    onHand,     \* units of a SKU in a bin
    epoch,      \* movements the bin has seen
    frozen,     \* stock_freeze_bins: the take that froze a bin
    task,       \* status of a count task
    bin, of,    \* its bin, its take
    basis,      \* the bin's epoch when the task was made, and
    expected,   \* what the bin held then
    variance,   \* status of the variance of a task's SKU
    counted,    \* what was found
    recount,    \* the task that supersedes a variance
    take,       \* status of a stock take
    unposted,   \* the variances its close could not post
    cmd,        \* requests in flight
    missed      \* history: the bins of which a count was submitted between the
                \* two steps of a request to start a take or to recount

stock  == <<onHand, epoch>>
tasks  == <<task, bin, of, basis, expected>>
queue  == <<variance, counted, recount>>
takes  == <<take, unposted, missed>>
vars   == <<stock, frozen, tasks, queue, takes, cmd>>

-----------------------------------------------------------------------------
(* Queries. *)

Rows == Tasks \X Skus            \* a variance is named by its task and its SKU
Status(v) == variance[v[1]][v[2]]
BinOf(v)  == bin[v[1]]

Pending(B) == {t \in Tasks : task[t] = "pending" /\ bin[t] \in B}
OpenVariances(k) == {v \in Rows : Status(v) = "open" /\ of[v[1]] = k}
FrozenFor(k) == {b \in Bins : frozen[b] = k}

\* takeBinStatesInTx: a bin's latest completed count in the take.  The tasks of
\* a bin are completed in the order they are made, one at a time.
Completed(k, b) == {t \in Tasks : task[t] = "completed" /\ bin[t] = b /\ of[t] = k}
LatestEpoch(k, b) ==
    IF Completed(k, b) = {} THEN 0 ELSE basis[Max(Completed(k, b))]

\* movedBinsInTx.
MovedBins(k) == {b \in Bins : Completed(k, b) # {} /\ epoch[b] # LatestEpoch(k, b)}

\* What another request holds FOR UPDATE.
Idle == [kind |-> "idle", take |-> None, bins |-> {}, tasks |-> {}, open |-> {}]
TaskLocked(t)     == \E r \in Requests : t \in cmd[r].tasks
VarianceLocked(v) == \E r \in Requests : v \in cmd[r].open
TakeLocked(k)     == \E r \in Requests : cmd[r].take = k
Requested(b)      == \E r \in Requests : b \in cmd[r].bins

-----------------------------------------------------------------------------
(* Making tasks.  Ids are time ordered, and grow within a transaction.     *)

Used == Cardinality({t \in Tasks : task[t] # "none"})
NewTask(B, b) == Used + Cardinality({c \in B : c <= b})
NewTasks(B)   == {NewTask(B, b) : b \in B}

\* One task for each bin of B, over the statuses st and the takes tk: what the
\* bin holds now, at its live epoch.
Minted(B, inTake, st, tk) ==
    LET for == [t \in NewTasks(B) |-> CHOOSE b \in B : NewTask(B, b) = t]
        new(old, val(_)) ==
            [t \in Tasks |-> IF t \in DOMAIN for THEN val(for[t]) ELSE old[t]]
    IN  /\ Used + Cardinality(B) <= MaxTasks
        /\ task' = new(st, LAMBDA b : "pending")
        /\ of' = new(tk, LAMBDA b : inTake[b])
        /\ bin' = new(bin, LAMBDA b : b)
        /\ basis' = new(basis, LAMBDA b : epoch[b])
        /\ expected' = new(expected, LAMBDA b : onHand[b])

NoTake == [b \in Bins |-> None]

\* Mutant: the pending task of a bin is not looked for.
Countable_Pending(B) == {b \in B : frozen[b] = None}

\* createCount, and the same for a bulk and for the scheduler's due bins: never
\* a frozen bin, never a second pending task.
Countable(B) == {b \in B : frozen[b] = None /\ Pending({b}) = {}}

CreateCount(b) ==
    /\ b \in Countable(Bins)
    /\ Minted({b}, NoTake, task, of)
    /\ UNCHANGED <<stock, frozen, queue, takes, cmd>>

\* createCountsBulk: the bins that cannot be counted are skipped (a bulk that
\* skips all of them writes nothing, and is no step).
CreateCountsBulk(B) ==
    /\ Countable(B) # {}
    /\ Minted(Countable(B), NoTake, task, of)
    /\ UNCHANGED <<stock, frozen, queue, takes, cmd>>

\* generateScheduledTasksInTx: due bins that hold something.
GenerateScheduledTasks(due) ==
    LET B == {b \in Countable(due) : \E s \in Skus : onHand[b][s] > 0}
    IN  /\ B # {}
        /\ Minted(B, NoTake, task, of)
        /\ UNCHANGED <<stock, frozen, queue, takes, cmd>>

\* mintRecountTaskForBinInTx, the review queue's recount of a bin.
MintRecountTaskForBin(b) == CreateCount(b)

CancelCountTask(t) ==
    /\ task[t] = "pending" /\ of[t] = None /\ ~TaskLocked(t)
    /\ task' = [task EXCEPT ![t] = "cancelled"]
    /\ UNCHANGED <<stock, frozen, bin, of, basis, expected, queue, takes, cmd>>

-----------------------------------------------------------------------------
(* Movements of stock. *)

Moves == MapThenSumSet(LAMBDA b : epoch[b], Bins)

\* Mutant: a unit is drawn without asking whether the bin holds one.
AppendMovement_Overdraws(b, s, q, surface) ==
    /\ Moves < MaxMoves
    /\ surface = "device" \/ frozen[b] = None
    /\ onHand' = [onHand EXCEPT ![b][s] = @ - 2]
    /\ epoch' = [epoch EXCEPT ![b] = @ + 1]
    /\ UNCHANGED <<frozen, tasks, queue, takes, cmd>>

\* appendMovement and its freeze probe: a handheld's movement is admitted, a
\* web movement of a frozen bin is not.
AppendMovement(b, s, q, surface) ==
    /\ Moves < MaxMoves /\ q # onHand[b][s]
    /\ surface = "device" \/ frozen[b] = None
    /\ onHand' = [onHand EXCEPT ![b][s] = q]
    /\ epoch' = [epoch EXCEPT ![b] = @ + 1]
    /\ UNCHANGED <<frozen, tasks, queue, takes, cmd>>

-----------------------------------------------------------------------------
(* Counting. *)

\* supersedeVariancesInTx, over the rows a submit may just have written: those
\* of V become recounted, and name the task that counts their bin again.  (The
\* expectation it rewrites for display is read by no command.)
Superseded(V, var, by) ==
    /\ variance' = [t \in Tasks |-> [s \in Skus |->
                       IF <<t, s>> \in V /\ var[t][s] = "open" THEN "recounted" ELSE var[t][s]]]
    /\ recount' = [t \in Tasks |-> [s \in Skus |->
                       IF <<t, s>> \in V /\ var[t][s] = "open" THEN by[bin[t]] ELSE recount[t][s]]]

\* submitCount.  A bin that moved since the task was made is counted again; in a
\* take the differences just found do not wait for that.
SubmitCount(t, c) ==
    LET b == bin[t]
        epochConflict == epoch[b] # basis[t]
        again == IF epochConflict THEN {b} ELSE {}
        found == [s \in Skus |-> IF c[s] # expected[t][s] THEN "open" ELSE "none"]
        inTake == epochConflict /\ frozen[b] # None
    IN  /\ task[t] = "pending" /\ ~TaskLocked(t)
        /\ counted' = [counted EXCEPT ![t] = c]
        /\ Minted(again, frozen, [task EXCEPT ![t] = "completed"], of)
        /\ Superseded(IF inTake THEN {t} \X Skus ELSE {},
                      [variance EXCEPT ![t] = found],
                      [x \in again |-> NewTask(again, x)])
        /\ missed' = missed \cup IF Requested(b) THEN {b} ELSE {}
        /\ UNCHANGED <<stock, frozen, take, unposted, cmd>>

\* resolveCountVariance: refused for a variance of a take that is not over.
Resolvable(v) ==
    /\ Status(v) = "open" /\ ~VarianceLocked(v)
    /\ of[v[1]] # None => take[of[v[1]]] \notin {"counting", "posting"}

\* Mutant: approves whatever the bin has become.
ApproveAdjust_AnyEpoch(v) ==
    /\ Resolvable(v) /\ frozen[BinOf(v)] = None
    /\ onHand[BinOf(v)][v[2]] + counted[v[1]][v[2]] >= expected[v[1]][v[2]]
    /\ onHand' = [onHand EXCEPT ![BinOf(v)][v[2]] =
                     @ + counted[v[1]][v[2]] - expected[v[1]][v[2]]]
    /\ epoch' = [epoch EXCEPT ![BinOf(v)] = @ + 1]
    /\ variance' = [variance EXCEPT ![v[1]][v[2]] = "adjusted"]
    /\ UNCHANGED <<frozen, tasks, counted, recount, takes, cmd>>

\* approve_adjust: only on the state that was counted, and through the ledger,
\* which refuses a frozen bin and an overdraft.
ApproveAdjust(v) ==
    LET b == BinOf(v)
        delta == counted[v[1]][v[2]] - expected[v[1]][v[2]]
    IN  /\ Resolvable(v)
        /\ epoch[b] = basis[v[1]]
        /\ frozen[b] = None /\ onHand[b][v[2]] + delta >= 0
        /\ onHand' = [onHand EXCEPT ![b][v[2]] = @ + delta]
        /\ epoch' = [epoch EXCEPT ![b] = @ + 1]
        /\ variance' = [variance EXCEPT ![v[1]][v[2]] = "adjusted"]
        /\ UNCHANGED <<frozen, tasks, counted, recount, takes, cmd>>

\* Mutant: the new task is of the variance's take instead of the freeze's.
ResolveRecount_OwnTake(v) ==
    /\ Resolvable(v) /\ Pending({BinOf(v)}) = {}
    /\ Minted({BinOf(v)}, [b \in Bins |-> of[v[1]]], task, of)
    /\ Superseded({v}, variance, [b \in Bins |-> NewTask({b}, b)])
    /\ UNCHANGED <<stock, frozen, counted, takes, cmd>>

\* recount.
ResolveRecount(v) ==
    /\ Resolvable(v) /\ Pending({BinOf(v)}) = {}
    /\ Minted({BinOf(v)}, frozen, task, of)
    /\ Superseded({v}, variance, [b \in Bins |-> NewTask({b}, b)])
    /\ UNCHANGED <<stock, frozen, counted, takes, cmd>>

-----------------------------------------------------------------------------
(* Stock takes. *)

\* startStockTake up to the advisory lock: the pending tasks and the open
\* variances of the bins in scope are locked.
StartRead(r, k, B) ==
    LET T == Pending(B)
        V == {v \in Rows : Status(v) = "open" /\ BinOf(v) \in B}
    IN  /\ cmd[r] = Idle /\ take[k] = "none" /\ ~TakeLocked(k)
        /\ \A t \in T : ~TaskLocked(t)
        /\ \A v \in V : ~VarianceLocked(v)
        /\ cmd' = [cmd EXCEPT ![r] =
                      [kind |-> "start", take |-> k, bins |-> B, tasks |-> T, open |-> V]]
        /\ UNCHANGED <<stock, frozen, tasks, queue, takes>>

\* Under it: a task it has not locked, or a frozen bin, refuses; otherwise the
\* pending tasks are adopted, the other bins get one, the variances it locked
\* are superseded, and the bins are frozen.
StartFinish(r) ==
    LET k == cmd[r].take
        B == cmd[r].bins
        adopted == Pending(B)
        toCreate == {b \in B : Pending({b}) = {}}
        TaskOf(b) == IF b \in toCreate THEN NewTask(toCreate, b)
                     ELSE CHOOSE t \in adopted : bin[t] = b
    IN  /\ cmd[r].kind = "start"
        /\ adopted \subseteq cmd[r].tasks
        /\ \A b \in B : frozen[b] = None
        /\ take' = [take EXCEPT ![k] = "counting"]
        /\ Minted(toCreate, [b \in Bins |-> k], task,
                  [t \in Tasks |-> IF t \in adopted THEN k ELSE of[t]])
        /\ Superseded(cmd[r].open, variance, [b \in B |-> TaskOf(b)])
        /\ frozen' = [b \in Bins |-> IF b \in B THEN k ELSE frozen[b]]
        /\ cmd' = [cmd EXCEPT ![r] = Idle]
        /\ UNCHANGED <<stock, counted, unposted, missed>>

\* recountStockTakeBins up to the advisory lock: the take, and its open
\* variances on the bins.
RecountRead(r, k, B) ==
    LET V == {v \in OpenVariances(k) : BinOf(v) \in B}
    IN  /\ cmd[r] = Idle /\ take[k] = "counting" /\ ~TakeLocked(k)
        /\ \A b \in B : \E t \in Tasks : task[t] # "none" /\ bin[t] = b /\ of[t] = k
        /\ \A v \in V : ~VarianceLocked(v)
        /\ cmd' = [cmd EXCEPT ![r] =
                      [kind |-> "recount", take |-> k, bins |-> B, tasks |-> {}, open |-> V]]
        /\ UNCHANGED <<stock, frozen, tasks, queue, takes>>

\* Mutant: the variances of the earlier count are left open.
RecountFinish_KeepsVariances(r) ==
    /\ cmd[r].kind = "recount"
    /\ Pending(cmd[r].bins) = {}
    /\ Minted(cmd[r].bins, frozen, task, of)
    /\ cmd' = [cmd EXCEPT ![r] = Idle]
    /\ UNCHANGED <<stock, frozen, queue, takes>>

\* Under it: no bin may have a pending task; each gets a recount, which
\* supersedes the variances that were locked.
RecountFinish(r) ==
    LET B == cmd[r].bins
    IN  /\ cmd[r].kind = "recount"
        /\ Pending(B) = {}
        /\ Minted(B, frozen, task, of)
        /\ Superseded(cmd[r].open, variance, [b \in B |-> NewTask(B, b)])
        /\ cmd' = [cmd EXCEPT ![r] = Idle]
        /\ UNCHANGED <<stock, frozen, counted, takes>>

\* A request that is refused, or whose connection is lost, holds nothing more.
RolledBack(r) ==
    /\ cmd[r] # Idle
    /\ cmd' = [cmd EXCEPT ![r] = Idle]
    /\ UNCHANGED <<stock, frozen, tasks, queue, takes>>

\* closeStockTake, its approval: the client signs the list of open variances.
CloseApprove(k) ==
    /\ take[k] = "counting" /\ ~TakeLocked(k)
    /\ {t \in Pending(Bins) : of[t] = k} = {}
    /\ MovedBins(k) = {}
    /\ take' = [take EXCEPT ![k] = "posting"]
    /\ UNCHANGED <<stock, frozen, tasks, queue, unposted, missed, cmd>>

\* The bins of the next batch: whole bins in the order of their codes, as long as
\* their open variances fit.
Batch(k) ==
    LET upto(b) == {c \in FrozenFor(k) : c <= b}
        load(b) == {v \in OpenVariances(k) : BinOf(v) \in upto(b)}
    IN  {b \in FrozenFor(k) :
            Cardinality(upto(b)) = 1
            \/ (Cardinality(upto(b)) <= BatchSize /\ Cardinality(load(b)) <= BatchSize)}

\* assertAdjustableInTx may refuse the correction of any variance: its SKU is
\* tracked by now, its bin retired, its client gone.
Refusable(k, B) == {v \in OpenVariances(k) : BinOf(v) \in B}

\* Posting a bin's variances of a SKU in the order of their ids: the level after
\* the first n tasks.  A correction that would overdraw the bin is refused too.
Deltas(k, b, s, refused) ==
    [t \in Tasks |-> IF <<t, s>> \in OpenVariances(k) \ refused /\ bin[t] = b
                     THEN counted[t][s] - expected[t][s] ELSE 0]

Level(k, b, s, refused) ==
    LET delta == Deltas(k, b, s, refused)
        level[n \in 0 .. MaxTasks] ==
            IF n = 0 THEN onHand[b][s]
            ELSE IF level[n - 1] + delta[n] < 0 THEN level[n - 1]
                 ELSE level[n - 1] + delta[n]
    IN  level

Posts(k, B, refused) ==
    {v \in OpenVariances(k) :
        LET level == Level(k, BinOf(v), v[2], refused)
        IN  /\ BinOf(v) \in B /\ epoch[BinOf(v)] = LatestEpoch(k, BinOf(v))
            /\ level[v[1]] # level[v[1] - 1]}

\* postBatchInTx: a closer that was interrupted is resumed by any other.
PostBatch(k, refused) ==
    LET B == Batch(k)
        P == Posts(k, B, refused)
        in(b) == {v \in P : BinOf(v) = b}
    IN  /\ take[k] = "posting" /\ ~TakeLocked(k) /\ B # {}
        /\ frozen' = [b \in Bins |-> IF b \in B THEN None ELSE frozen[b]]
        /\ onHand' = [b \in Bins |-> [s \in Skus |->
                         IF \E v \in in(b) : v[2] = s
                         THEN Level(k, b, s, refused)[MaxTasks] ELSE onHand[b][s]]]
        /\ epoch' = [b \in Bins |-> epoch[b] + Cardinality(in(b))]
        /\ variance' = [t \in Tasks |-> [s \in Skus |->
                           IF <<t, s>> \in P THEN "adjusted" ELSE variance[t][s]]]
        /\ unposted' = [unposted EXCEPT ![k] =
                           @ \cup {v \in OpenVariances(k) \ P : BinOf(v) \in B}]
        /\ UNCHANGED <<tasks, counted, recount, take, missed, cmd>>

\* The last transaction of the close.
FinishClose(k) ==
    /\ take[k] = "posting" /\ ~TakeLocked(k) /\ FrozenFor(k) = {}
    /\ unposted' = [unposted EXCEPT ![k] = OpenVariances(k)]
    /\ take' = [take EXCEPT ![k] = "closed"]
    /\ UNCHANGED <<stock, frozen, tasks, queue, missed, cmd>>

\* Mutant: the bins stay frozen.
AbandonStockTake_KeepsFreeze(k) ==
    LET pending == {t \in Pending(Bins) : of[t] = k}
    IN  /\ take[k] = "counting" /\ ~TakeLocked(k)
        /\ \A t \in pending : ~TaskLocked(t)
        /\ task' = [t \in Tasks |-> IF t \in pending THEN "cancelled" ELSE task[t]]
        /\ take' = [take EXCEPT ![k] = "abandoned"]
        /\ UNCHANGED <<stock, frozen, bin, of, basis, expected, queue, unposted, missed, cmd>>

\* abandonStockTake: a pending task that some variance waits for goes back to
\* the cycle queue, the others are cancelled.
AbandonStockTake(k) ==
    LET pending == {t \in Pending(Bins) : of[t] = k}
        awaited == {t \in pending : \E v \in Rows : recount[v[1]][v[2]] = t}
    IN  /\ take[k] = "counting" /\ ~TakeLocked(k)
        /\ \A t \in pending : ~TaskLocked(t)
        /\ task' = [t \in Tasks |-> IF t \in pending \ awaited THEN "cancelled" ELSE task[t]]
        /\ of' = [t \in Tasks |-> IF t \in awaited THEN None ELSE of[t]]
        /\ frozen' = [b \in Bins |-> IF frozen[b] = k THEN None ELSE frozen[b]]
        /\ take' = [take EXCEPT ![k] = "abandoned"]
        /\ UNCHANGED <<stock, bin, basis, expected, queue, unposted, missed, cmd>>

-----------------------------------------------------------------------------
Counts == [Skus -> 0 .. MaxQty]

Init ==
    /\ onHand = Stock /\ epoch = [b \in Bins |-> 0]
    /\ frozen = [b \in Bins |-> None]
    /\ task = [t \in Tasks |-> "none"] /\ bin = [t \in Tasks |-> None]
    /\ of = [t \in Tasks |-> None] /\ basis = [t \in Tasks |-> 0]
    /\ expected = [t \in Tasks |-> [s \in Skus |-> 0]]
    /\ variance = [t \in Tasks |-> [s \in Skus |-> "none"]]
    /\ counted = [t \in Tasks |-> [s \in Skus |-> 0]]
    /\ recount = [t \in Tasks |-> [s \in Skus |-> None]]
    /\ take = [k \in Takes |-> "none"] /\ unposted = [k \in Takes |-> {}]
    /\ cmd = [r \in Requests |-> Idle] /\ missed = {}

Next ==
    \/ \E b \in Bins : CreateCount(b) \/ MintRecountTaskForBin(b)
    \/ \E B \in SUBSET Bins : CreateCountsBulk(B) \/ GenerateScheduledTasks(B)
    \/ \E b \in Bins, s \in Skus, q \in 0 .. MaxQty, surface \in {"web", "device"} :
            AppendMovement(b, s, q, surface)
    \/ \E t \in Tasks : CancelCountTask(t) \/ \E c \in Counts : SubmitCount(t, c)
    \/ \E v \in Rows : ApproveAdjust(v) \/ ResolveRecount(v)
    \/ \E r \in Requests, k \in Takes, B \in SUBSET Bins \ {{}} :
            StartRead(r, k, B) \/ RecountRead(r, k, B)
    \/ \E r \in Requests : StartFinish(r) \/ RecountFinish(r) \/ RolledBack(r)
    \/ \E k \in Takes : CloseApprove(k) \/ FinishClose(k) \/ AbandonStockTake(k)
    \/ \E k \in Takes : \E refused \in SUBSET Refusable(k, Batch(k)) : PostBatch(k, refused)

Spec == Init /\ [][Next]_vars

-----------------------------------------------------------------------------
(* Properties. *)

\* Type invariant.  In particular no correction overdraws a bin.
TypeOK ==
    /\ onHand \in [Bins -> [Skus -> Nat]] /\ epoch \in [Bins -> Nat]
    /\ frozen \in [Bins -> Takes \cup {None}]
    /\ task \in [Tasks -> {"none", "pending", "completed", "cancelled"}]
    /\ bin \in [Tasks -> Bins \cup {None}] /\ of \in [Tasks -> Takes \cup {None}]
    /\ basis \in [Tasks -> Nat] /\ expected \in [Tasks -> [Skus -> Nat]]
    /\ variance \in [Tasks -> [Skus -> {"none", "open", "adjusted", "recounted"}]]
    /\ counted \in [Tasks -> [Skus -> Nat]]
    /\ recount \in [Tasks -> [Skus -> Tasks \cup {None}]]
    /\ take \in [Takes -> {"none", "counting", "posting", "closed", "abandoned"}]
    /\ unposted \in [Takes -> SUBSET Rows]
    /\ cmd \in [Requests -> [kind : {"idle", "start", "recount"}, take : Takes \cup {None},
                             bins : SUBSET Bins, tasks : SUBSET Tasks, open : SUBSET Rows]]
    /\ missed \subseteq Bins

\* A bin has one pending count at a time, whoever asked for it: a person, a bulk,
\* the scheduler, a submit that conflicted, a recount, or a stock take that
\* adopts what it finds.
OnePending == \A t, u \in Pending(Bins) : bin[t] = bin[u] => t = u

\* A freeze never outlives its take, and no bin goes uncounted: while the take
\* counts, each frozen bin has a count of the take done or to do, and once the
\* take posts, one that is done.
FrozenIsCounted ==
    \A b \in Bins, k \in Takes : frozen[b] = k =>
       \/ take[k] = "counting" /\ (Completed(k, b) # {} \/ \E t \in Pending({b}) : of[t] = k)
       \/ take[k] = "posting" /\ Completed(k, b) # {}

\* The correction of a variance, approved alone or posted by a close, leaves the
\* bin with what was counted: no movement, recount, earlier correction or
\* resumed close in between makes it apply to another state than the counter saw,
\* but for a bin of which a request missed a count.
AdjustedToCount ==
    [][\A v \in Rows :
          Status(v) = "open" /\ Status(v)' = "adjusted" /\ BinOf(v) \notin missed =>
             onHand'[BinOf(v)][v[2]] = counted[v[1]][v[2]]]_vars

\* Every variance of a closed take that still waits for a decision is on the list
\* the close answered with, but for a bin of which a request missed a count.
ClosedAccounts ==
    \A k \in Takes : take[k] = "closed" =>
       \A v \in OpenVariances(k) : v \in unposted[k] \/ BinOf(v) \in missed

\* The open variances of a running take are those of each bin's latest count,
\* but for a bin of which a count was submitted in the middle of a request:
\* startStockTake and recountStockTakeBins lock the variances they supersede
\* before they lock the warehouse, and miss that count's.
LatestOnly ==
    \A k \in Takes : take[k] \in {"counting", "posting"} =>
       \A v \in OpenVariances(k) : BinOf(v) \in missed \/ v[1] = Max(Completed(k, BinOf(v)))
=============================================================================
