# Verification of the WMS back end

TLA+ models of the parts of the warehouse management back end where state is
shared between two stores, several processes or several transactions, checked
with TLC and, for the safety properties, proved with TLAPS.  Everything is
translated from the TypeScript under `src/src`; `PROJECT.json` maps every
definition to the lines it stands for.

## 1. The system

One NestJS application, run as one or more identical processes over PostgreSQL
(through Drizzle, one tenant per transaction under row-level security) and
Valkey.  `api/` holds controllers and DTOs, `modules/` the domain, `jobs/`
seventeen polling workers, `shared/` the database, event, idempotency and
lifecycle plumbing.  Commands run in one transaction, write domain events to an
outbox in that transaction, and workers act on them later.

| Component | State it keeps | Operations | Talks to | What makes it correct |
|---|---|---|---|---|
| **Reservation engine** (`inventory/reservation.service.ts`, `reservation.scripts.ts`, `shared/valkey`) | `reservations` journal rows (PostgreSQL); per-scope reserved counter and per-warehouse ready marker (Valkey) | grant, release, commit, expire, retire, pick and short pick, heal on a read, warehouse rebuild, parity pass | reads and locks the ledger's stock rows; called by orders, waves, channels; workers run the reaper and parity | the counter accounts for journal and in-flight units; no hold beyond the stock; a wrong counter is repaired |
| **Outbox and event bus** (`shared/events`) | `outbox_messages`, an advisory lock | append, drain, back off, quarantine, operator replay | every publisher and every subscriber | at least once to every handler; a poison row neither blocks others nor is dropped unseen |
| **Stock ledger** (`inventory/ledger.service.ts`) | `ledger_events`, projections `stock_on_hand` and `batch_on_hand`, `bin_state_epochs` | append a movement, rebuild | everything that moves stock | a projection is the fold of the events; equal epochs mean equal contents |
| **Replay reconciliation** (`inventory/reconcile.ts`) | `reconciliation_checkpoints`, quarantines, alerts | pick a partition, detect, repair, discard a checkpoint | ledger, alerts | divergence is repaired and never silently; only a relapse quarantines a bin |
| **Serials and event ids** (`ledger.service.ts`, `shared/primitives/ids.ts`) | the last event of a serial; per-process UUIDv7 state | intake, draw, relocate | ledger | a unit is in one place |
| **Client webhooks** (`client-webhooks/`) | endpoints, frozen events, deliveries | enqueue, claim, send, write an outcome, sweep, staff commands | outbox (subscriber, quarantine reconcile), clients (departure) | bounded, capped, eventually settled deliveries |
| Mail, client e-mails, push | outgoing rows with claim stamps | enqueue, claim, send, sweep | outbox | at most once (mail), bounded retries |
| **Order lifecycle** (`outbound/`) | orders, lines, waves, pick lines, packs, shipments | place, allocate, wave, pick, pack, dispatch, cancel, restock, hand over | reservation, ledger, outbox | a line's promise is a hold of its own; what was ordered is shipped once or still asked for |
| **Receiving, QC, put-away** (`inbound/`, `putaway/`) | POs, GRNs, QC holds, bin blocks | receive, hold, release, inspect, put away | ledger, outbox, bins | quarantine is what open holds say; no bin overfilled; no unit twice |
| **Bins, moves, adjustments** (`tenancy/bin.command.ts`, `movements/move.command.ts`, `inventory/inventory.command.ts`) | bins, capacity, retirement | merge, retire, block, move, adjust | ledger, QC | nothing is stranded in a bin that is gone |
| **Counts and stock takes** (`movements/`) | count tasks, variances, freezes, takes | create, count, approve, recount, start, close, abandon | ledger, adjustments | a correction applies to the state that was counted; a freeze ends with its take |
| Transfers | documents in transit | dispatch, receive | ledger | nothing is lost in transit |
| Returns, recalls, replenishment | returns, holds, blocks, tasks | settle, block, generate | ledger, reservation, outbox | settlement is idempotent |
| Invoicing and e-way bills | invoices, number series | issue, cancel | outbox | gapless numbers |
| Sessions, second factor, idempotency guard | sessions, tokens, keys | sign in, revoke, replay a request | all commands | a replay answers as the first call did |
| Master data, layout, catalog, carriers, compliance, billing, reporting, audit export, attachments | rows | create, read, update, archive | – | transactional checks |

What is hard in this code: a grant, a release or a short pick changes two
stores with no common transaction, and repairs race it; relays, senders and
reconcilers run in every process and overlap when a session or a claim is lost;
handlers are called again after a crash; detection and repair are different
transactions with appends in between; decisions are taken from unlocked reads;
retry budgets are counted by several writers; ids order events only within a
process; commands on the floor read first and lock later, or lock rows of
different kinds in different transactions.  `PROJECT.json` lists these as hazards at their lines.

## 2. Modules

| Module | What it is |
|---|---|
| `UnitSums`, `UnitSumsProofs` | sums of quantities over finite sets, as the cardinality of a set of units, so that lemmas about them can be proved without induction |
| `Reservation`, `MCReservation`, `ReservationProofs` | the reservation engine over both stores |
| `EventDelivery` | what publishers and subscribers may rely on (abstract) |
| `Outbox`, `MCOutbox`, `OutboxProofs` | relays, rows, backoff, quarantine; implements `EventDelivery` |
| `Ledger`, `MCLedger` | appends, projections, reconciliation workers, operator rebuilds |
| `Serial`, `MCSerial` | the serial guards over the UUIDv7 generator |
| `LedgerProofs` | the theorems about both (it extends both, so `Serial` has names of its own: `SerialSpec`, `TenantBins`, `Nowhere`) |
| `Webhook`, `MCWebhook`, `WebhookProofs` | webhook deliveries from enqueue to outcome |
| `OrderFlow`, `MCOrderFlow`, `OrderFlowProofs` | an order from placement to dispatch or cancellation, with its holds, waves and pick lines |
| `Counting`, `MCCounting`, `CountingProofs` | count tasks, variances and stock takes |
| `Floor`, `MCFloor`, `FloorProofs` | receipt, QC holds, put-away, moves, adjustments, and the bins they meet in |

### Reservation

One scope (tenant, warehouse, SKU, client).  `state`, `quantity`, `owner` are
the live journal rows, `counter` and `ready` the Valkey keys, `stock` and
`blocked` what the ceiling is computed from.  A request is a process with a
`pc`: `GrantStart` (ceiling probe), the reserve script (`GrantWins`,
`GrantLoses`, `GrantMissing`, `GrantNotReady`), the heal (`HealSum`,
`HealSet`), the locked ceiling re-read (`GrantCheck`), the insert or the
conflict (`GrantInsert`, `GrantDuplicate`), and the counter restore (`Mirror`)
that releases, expiries, retirements and short picks end with.  A rebuild is
disarm, sum, set, sum again, compare, fix, arm; a parity pass reads the journal
and compares the counter later.  Each Lua script is one step (Valkey runs it
atomically), each transaction one step, except that the insert keeps the stock
rows locked from the re-read on.  Faults: a failed journal write, a COMMIT
whose answer is lost, a request that dies between the stores (`Abandon`), an
evicted key, a Valkey restart.  The ghost `drift` records what is still known
of counter against journal; `clean` whether some request straddled a sum.

Abstracted: amounts beyond the bounds, time (an expiry may happen whenever a
held row exists), the owner's identity beyond one open hold per owner; the ATP
read takes the marker and the counter in one step, the code in two GETs.
Assumed: a scope has a stock row, so that a rebuild visits it.

### Outbox and EventDelivery

`status`, `attempts`, `due` are the row; an acked row is deleted and has status
`acked` here.  A relay is a process: take the advisory lock and discover tenants
by their oldest due row (`Discover`), walk the tenants (`NextTenant`), select at
most `Limit` rows (counting what it has published), call the handlers in
subscription order (`Handle`, `HandlerThrows`), ack, or write the failure with
the attempts it read at selection (`MarkFailed`), go on, unlock (`Finish`).
Faults: a crash, a failed row write, a failed tenant, a lock session that is
lost while its cycle goes on, so that two cycles overlap.  An operator replays a
quarantined row.  `seen`, `throws` and `publishes` are history: who has seen a
message, and how often a publish of it failed or began.  `EventDelivery` has
three stages of an event (open, parked, settled) and the set of handlers that
saw it.

### Ledger

One warehouse, one SKU.  `event` is the ledger, `onHand` the projection rows
(plain and batch buckets), `epoch` the bin epochs, `last`, `invalid`, `count`,
`memory` the checkpoint.  A writer takes the warehouse lock and reads its seq
(`AppendBegin`), then commits or aborts.  A worker picks the partition, detects
(skip, discard a checkpoint beyond the head, clean, divergent), takes the lock
and folds (`RepairFold`), and commits rebuild, quarantine, memory, epoch and
alert together (`RepairCommit`) or is refused by the CHECK (`RepairRefused`);
`CycleFails` is the failure path.  An operator rebuilds everything.  Faults: an
out-of-band write to a row, a checkpoint that disagrees with the ledger, failed
cycles.

Abstracted: a transaction appends one movement; the freeze probe and the serial
guard are reasons for an append not to happen; a detection is one step, since it
is one repeatable-read transaction whose write conflicts make it fail; the order
in which partitions are picked (`updated_at`) is not modelled.  The ledger and
its fold start at seq 1 and `MaxSeq` ends it.

### Serial

The events of one serial with their arms and ids, and each process's generator
state: embedded millisecond, last reading, 12-bit sequence (`Span` ids per
millisecond; a wrap moves the millisecond ahead).  `Append` reads the latest
event by id, applies the guard, mints and commits, under the serial's advisory
lock; `MintOther` is any other id the process mints.  A fresh millisecond starts
the sequence at random below the last value.  Every process has its own clock,
which may be set back.  `handed` is history: the events that followed one of
another process, or of a clock that was set back in between.

### Webhook

One client, one event type.  `row`, `attempts`, `due`, `old`, `code`, `claim`
are a delivery (whether `next_attempt_at` has passed, whether `pending_since` is
72 hours old, as much of the error code as some query asks for, whose claim
stamp it carries); `standing` is an endpoint's status with its disable reason.
The enqueue reads the endpoints (`EnqueueRead`) and inserts (`EnqueueInsert`).
A claim locks due rows and reads the endpoints (`ClaimRead`), then judges each
row by what it read (`ClaimWrite`).  A send re-reads (`SendRead`), settles a row
whose endpoint is not active (`SendSettle`), gives back a row whose secret does
not open (`SendConfig`), or POSTs (`Post`) and writes the outcome if the stamp
still holds (`WriteOutcome`), which may disable the endpoint and hold or fail its
siblings.  `Crash` ends a process anywhere.  The sweep's arms (`SweepStale`,
`SweepExpire`, `SweepHeld`, `SweepDeparted`) are actions of their own: each only
touches rows past its own age, no row is touched by two arms of one sweep, so
one sweep is a sequence of them.  Staff: `Enable` with release or discard,
`Disable`, `Subscribe`, `ChangeUrl`, `Remove`, `Redeliver`, `BulkRedeliver`;
`Depart` is the clients module's.  An `update` that changes several fields at
once is a sequence of these.  The endpoint may start with failures of earlier
deliveries, or already disabled for them.  `posts` is history: every POST ever
made of a delivery, less the attempts it had counted whenever the count was
reset.

Not modelled: creating endpoints, secrets and their rotation (an unopenable
secret is a choice of `SendRead`), the rate limiter's window (a refusal changes
nothing), the test send, the purge after 30 days, signatures, the HTTP guard.  A
tenant whose endpoints are all deleted is not swept until the 30 days are over;
`DeliveriesSettle` says that its deliveries settle, not when.

### OrderFlow

One warehouse, one SKU, one line per order: an order id is its line's id and the
owner of its holds.  `order`, `qty`, `named`, `reserved` are the order and its
line (`named` is the reservation the line points at), `root` the customer's order
a follow-on descends from; `state`, `owner`, `amount` the reservations; `slice`
and the functions after it the pick lines, which the code calls slices, with
their bin, their plan and what was short; `onHand` the bins.  A command that is
one transaction under the order's row lock is one action (`GenerateWave`,
`ReleaseWave`, `CancelWave`, `PackOrder`, `DispatchOrder`, `CancelWithRestock`).
The others are requests with a program counter: intake grants before it writes
(`PlaceGrant`, `PlaceWrite`, `PlaceRefused`), the allocator plans, grants or
adopts, and writes (`AllocatePlan`, `AllocateGrant`, `AllocateWrite`,
`AllocateFails`), a pick reads without a lock and writes (`PickRead`,
`PickWhole`, `PickShort`, `PickRefused`), a cancellation checks, flips and
releases (`CancelCheck`, `CancelFlip`, `CancelRelease`).  `Crash` ends a request
between its transactions, `Expire` is the reaper.  A short pick is one action
with all the code does there: it releases the line's hold, re-grants what is
still owed, repoints the open stops and plans new ones in other bins.

A grant here takes what `Atp` says, less than asked or nothing; how the counter
comes to say so is `Reservation`'s.  Left out: kits, several lines and SKUs,
batches and serials, zones, pick methods, the hand-over after dispatch; the
licence that the allocator's write checks again (`allocation.command.ts:673`),
which only adds a refusal.  The three reads of a cancellation before its flip are
one step, since the flip checks again under the lock.  A COMMIT of the intake
write whose answer is lost (`order.command.ts:1671-1675`) is left out too: the
handler then releases the hold that the written line names, so `LineBacked` is
about intakes whose answer arrives.

### Counting

`task` with `bin`, `of` (its stock take), `basis` (the bin's epoch) and
`expected` are a count task; a variance is named by its task and SKU; `frozen`
says which take froze a bin.  Every command that decides under the warehouse's
advisory lock is one action: the four ways of making tasks, `CancelCountTask`,
`SubmitCount` with its conflict path, `ApproveAdjust`, `ResolveRecount`, the
three transactions of a close (`CloseApprove`, `PostBatch`, `FinishClose`; any
closer may run the next one), `AbandonStockTake`.  Starting a take and
requesting a recount lock tasks and variances before they reach that lock, and
are two steps of a request; `RolledBack` is a request that is refused.
`AppendMovement` is any other movement of the bin: refused by a freeze from the
web, admitted from a handheld.  Which corrections the adjustment guards refuse
(tracked SKU, departed client, retired bin) is a choice of `PostBatch`.

`missed` is history: the bins of which a count was submitted between the two
steps of a request.  `LatestOnly`, `ClosedAccounts` and `AdjustedToCount` except
those bins, because there they do not hold (see below).  Left out: thresholds and
who may approve, the blindness of a count, scheduling rules (any set of bins may
be due), bins that change their zone (so `StartFinish` keeps the scope that
`StartRead` derived).  `LatestEpoch` takes the count with the highest task id where
the code takes the last completed: a bin has one pending task at a time
(`OnePending`), so its tasks are completed in the order they are made.

### Floor

One SKU in one warehouse.  `onHand` over storage bins and the three system bins,
`retired`, `blocked`, `frozen` of the storage bins, `hold` the open QC holds with
their origin and quantity (a closed hold is forgotten), `applied` and `failed` of
the receipt lines.  A command that fills or empties a bin is a request in `cmd`
which keeps the row locks it took: `PutawayRead` (before any lock), `PutawayGate`
(row locked, gates passed), `PutawayAppend`; `MoveGate`, `MoveAppend`;
`HoldGate`, `HoldAppend`; `MergeGate`, `MergeAppend`; `AdjustCheck` and
`AdjustAppend`, which lock nothing.  `Fail` is a refusal or a crash.  `Receive`,
`ReleaseHold`, `ReleaseReceiptHolds`, `InspectHold`, `Block`, `Unblock`,
`RetireBin` and the freeze and thaw of a stock take are one step each.
`adjusted`, `slipped` and a request's `late` are history: what adjustments added,
how much of it to a bin that was being merged or had retired, and how much to
each bin a request has locked since it locked it.  An adjustment may write units
off the damaged bin but not into it.

Left out: weight, volume and storage-class gates and edits of the capacity (the
unit capacity stands for them), LPNs, the other kinds of quarantine, claims on
damaged units.  Freezes of different takes are not told apart.

## 3. Runs

| Run | Instance | Checks | Distinct states |
|---|---|---|---|
| `reservation` | 2 requests, 2 rows, holds of 1–2 units | `TypeOK`, `MirrorAgrees`, `NeverOversells` | 1.2 M |
| `reservation_parity` | 1 request, a standing owner, a blocked unit, 1 fault | `MirrorAgrees`, `ParityRepairs` (liveness) | 0.2 M |
| `outbox` | 2 relays, 2 tenants, 2 handlers, 1 fault, 1 replay | `AckedSeenByAll`, `QuarantineEarned`, `RepeatsExplained`, `ImplementsDelivery` (refinement), `Settles` (liveness) | 0.8 M |
| `ledger_projections` | 2 bins, 1 batch, writer, 2 workers, operator, 2 faults | `TypeOK`, `ProjectionAgrees`, `QuarantineIsRelapse`, `ContentsMoveEpoch` | 0.6 M |
| `ledger_repairs` | 2 bins, 1 worker, operator, bounded passes | `TouchedRepaired` (liveness) | 84 K |
| `serial_handovers` | 2 processes, clocks that differ and are set back, 2 bins, span 2, 3 events | `SerialChain` | 1.9 M |
| `webhook` | 2 events, 1 endpoint, 2 processes, 2 attempts, 1 staff command | `TypeOK`, `InFlightCapped`, `PostsBounded` | 3.7 M |
| `webhook_settles` | 1 event, 2 processes, 2 staff commands | `DeliveriesSettle` (liveness) | 0.17 M |
| `order_flow` | 1 order of up to 3 units and its follow-on, 2 waves, 3 pick lines, 2 bins, 3 holds, 2 requests | `TypeOK`, `LineBacked`, `PlannedWithinLine`, `FamilyAccounts`, `UnitsAccounted` | 3.0 M |
| `short_twice` | 1 order, 1 wave, 4 bins, 1 request | violates `StopsBehindHold` | – |
| `counting` | 2 bins, 1 take, 3 tasks, 1 request, 2 movements | `TypeOK`, `OnePending`, `FrozenIsCounted`, `LatestOnly`, `ClosedAccounts`, `AdjustedToCount` | 1.3 M |
| `floor` | 2 bins of capacity 1, 1 receipt line, 2 holds, 2 requests | `TypeOK`, `QuarantineBacked`, `WithinCapacity`, `RetiredEmpty`, `HoldsReturnable`, `LandsInOpenBin` | 0.8 M |

What they show:

* **MirrorAgrees** – as long as nothing leaked, the counter is the live journal
  sum plus the units of requests between the stores; leaks only leave it too
  high; only a straddled sum or a lost COMMIT answer ends the guarantee, and the
  next clean rebuild restores it.
* **NeverOversells** – under that guarantee, only a grant's insert raises the
  reserved total, within the ceiling it re-read under locks.
* **ParityRepairs** – a scope with live rows that requests leave alone ends with
  the right counter.  For a scope without live rows it does not hold:
  `parityPass` compares only scopes that have some.
* **AckedSeenByAll, QuarantineEarned, Settles, ImplementsDelivery** – a deleted
  row was seen by every handler even when cycles overlap; a quarantine is backed
  by `MaxAttempts` failed publishes; every committed row is acked or quarantined.
  **RepeatsExplained** – a handler that is called again for a message owes it to
  a publish that failed or to a fault, never to a second relay or the walk over
  tenants.
* **ProjectionAgrees** – appends and rebuilds never lose or double a unit, also
  when a rebuild was decided long before.  **QuarantineIsRelapse** – stale
  detections and discarded checkpoints do not add up to a quarantine.
  **ContentsMoveEpoch**, **TouchedRepaired** – as named.
* **SerialChain** – whatever the clocks do and whatever else is minted, the guard
  is misled only where a serial passes to an id that is behind: from one process
  to another, or over a clock that was set back.
* **InFlightCapped, PostsBounded** – the cap holds across processes; every POST
  is paid for by a counted attempt, or by the send in force, and a row never
  counts more than `MaxAttempts`.  A slow process may POST what another has
  claimed, or after a redelivery has reset the count: its attempt was counted
  when its claim was taken back, before the reset, so such POSTs too are within
  the attempts ever counted.
  **DeliveriesSettle** – even if no receiver ever answers and no secret opens.

* **LineBacked** – until a pick touches an order, the hold its line names is its
  own, for the quantity it says, held or reaped: allocators that race, crash or
  are refused never release what the other wrote.  **PlannedWithinLine** – over
  cancelled waves, short picks and replanned stops the floor is never sent for
  more than the line.  **FamilyAccounts** – along a chain of short shipments
  nothing is lost or shipped twice.  **UnitsAccounted** – every unit is in a bin
  or out under one draw; a restock returns each draw once.
* **OnePending, FrozenIsCounted** – whoever makes tasks, a bin has one pending
  count; a freeze ends with its take and no frozen bin goes uncounted.
  **LatestOnly, AdjustedToCount, ClosedAccounts** – superseded counts are not
  posted, a correction leaves the bin with what was counted, and what a close
  could not post is on its list, with closes interrupted and resumed.
* **QuarantineBacked** – the QC-hold bin is exactly the open holds.
  **WithinCapacity, LandsInOpenBin** – what passed the gates still fits, in a bin
  that is still open, when it is booked.  **RetiredEmpty, HoldsReturnable** – no
  stock and no hold is left behind in a retired bin, except through an
  adjustment, which takes no row lock.

### Disagreements between code and comments

`short_twice` (`findings`): a short pick re-grants a hold for the remainder,
already net of what was drawn.  A second short pick of the same line subtracts
the earlier draws again (`pick.command.ts:1350`) and re-grants too little, while
the stops planned before it stay: the floor walks for units no hold covers.  The
comments say that a hold is never shrunk and that a stop has a live hold behind
it.

Behaviours of the models that a reader of the code should know, each with the
actions that lead to it; the properties above are stated so as to except them:

* *Release against rebuild* (`reservation.service.ts:1238`; `Reservation`): a
  rebuild that sums the journal between a release's UPDATE and its counter
  restore gives the units back twice.  The source documents the grant side of
  that window only.  `MirrorAgrees` and `NeverOversells` end with such a sum.
* *A negative fold* (`ledger.service.ts:1868`; `Ledger`): a row written too high
  out of band and then drawn on makes the fold negative; the CHECK refuses every
  rebuild (`RepairRefused`) and the rollback takes the alert with it, although
  `reconcile.ts:192` says that silence is never an outcome.
* *Two processes* (`ledger.service.ts:493-497`; `Serial` with two processes):
  ids of different processes need not follow commit order, so the guard may take
  an older event of a serial for its latest, although the comment there has every
  append order by it.  `Chained` by itself fails; `SerialChain` states it for a
  serial all of whose handovers went to a later id.
* *Held on an active endpoint* (`webhook.enqueue.ts:128`, `webhook.sender.ts:607`;
  `Webhook`): enqueue, claim and send decide `held` from an unlocked read; across
  an `Enable` the row is held where nothing releases it for thirty days.
* *Allocator against short pick* (`allocation.command.ts:844-857`; `OrderFlow`):
  `unreferencedInTx` asks order lines only, so an allocator that adopted the hold
  a short pick re-granted, and whose write is refused, releases it from under a
  planned stop.  `LineBacked` speaks of orders no pick has touched.
* *Count against recount or start* (`stock-take.command.ts:476` and `:685`;
  `Counting`): variances are locked before the warehouse; a count submitted in
  between is missed, stays open beside the recount, and both differences are
  posted.  A variance that a start missed is still of no running take and can be
  sent to recount alone (`ResolveRecount`): the new task joins the take that froze
  its bin, even one that is already posting, and is submitted when that take has
  closed.  This is why `ClosedAccounts` excepts the bin too.
* *Merge of an empty frozen bin* (`bin.command.ts:1138`; `Floor`): a merge relies
  on its movements being refused by the freeze; an empty source has none and
  retires while its take counts it.  `retireBin` refuses it.
* *Adjustment into a merged bin* (`inventory.command.ts:1068`; `Floor`): checked
  without the row lock, it lands in a bin that has retired; the comment at
  `bin.command.ts:660` calls a merged bin empty by construction.

Hazards outside the models: the Valkey client resends a script whose reply was
lost (`valkey.client.ts:121`), which is the library's policy; a webhook sweep's
expiry and a manual disable lock rows and endpoint in opposite orders
(`webhook.sender.ts:244`), and a transfer's receipt locks its bins in no order
(`transfer.command.ts:1264`): PostgreSQL fails one of the two and the caller
retries, while a transaction of these models takes its locks in one step.

### Bounds

Every bound is a CONSTANT: `MaxQty`, `MaxStock`, `MaxBlocked`, `MaxFaults`,
`MaxReplays`, `MaxSeq`, `MaxMs`, `MaxEvents`, `MaxCommands`, `MaxSlices`,
`MaxTasks`, `MaxMoves`, `MaxReceived`, `MaxAdjusted` and the sets of ids (`Holds`,
`Orders`, `Waves`, `Takes`) cap what could grow;
`MaxAttempts`, `Limit`, `FullPassEvery`, `MaxInFlight`, `MaxHeld`,
`DisableAfter`, `Span`, `BatchSize`, `Capacity` are the code's own limits made small, each passed in some
behaviour.  Two of every actor that meets itself (requests, relays, workers,
senders) make every pairwise interleaving happen; two units let a short pick
split a hold; two faults let a bin relapse or a checkpoint break after a row
did; two attempts tell a retry from the last one; three units over two bins let a
line be cut, picked short and replanned; three tasks let a bin be counted,
recounted and counted once more after the take, in a close of two batches; two
movements let a bin move away and back; bins of one unit let any two placements
collide.  `short_twice` has four bins, so that a replanned stop can itself be
short.  `ledger_repairs` leaves out
corrupted checkpoints, which may jump past the divergent event; that event is
then no longer beyond the checkpoint and only a full pass finds it.  For the
safety properties of every module the theorems below remove the bounds.  Deadlock is checked except in the webhook runs, where a
deleted endpoint and spent commands leave nothing to do, and in `order_flow`,
`counting` and `floor`, where orders are shipped, ids are spent and bins retire:
a warehouse with nothing left to do may stop.

### Fairness

* `Reservation`: a request that has started takes its next step, rebuilds and
  the reaper's parity pass go on.  No request need arrive.
* `Outbox`: the worker ticks in every process, handlers return or throw, backoffs
  elapse.  No fault, replay or publisher is fair.
* `Ledger`: transactions end, workers tick, the advisory lock is granted in
  turn (PostgreSQL queues waiters), hence strong fairness of `RepairFold`.
* `Webhook`: the sweeps run in every tick, with the gateway off too; the clock
  runs; a claim's transaction ends.  Expiry is strongly fair: each tick sweeps
  before it claims, and a row given back by a config fault is not due for a
  minute, so a sweep meets it pending.  Sends, receivers and processes are not
  assumed to go on.

## 4. Proofs

Each theorem is for every value of the constants that satisfies the module's
ASSUME.

* `ReservationProofs`: `TypeCorrect`, `MirrorCorrect`, `NoOversell`.  Inductive
  invariant: `TypeOK`, `MirrorAgrees`, `SnapExact` (a sum no request straddled
  is still the journal's) and `InsertSafe` (a grant past its locked re-read fits
  the ceiling together with everything reserved).  `MirrorAgrees` alone is not
  inductive: a rebuild writes a sum read steps before.  Three kinds of step are
  treated once: outside the stores, from one store to the other, and repairs.
  The sums rest on `UnitSumsProofs`.
* `OutboxProofs`: `AckedCorrect`, `QuarantineCorrect`, `RepeatsCorrect`,
  `DeliveryImplemented`.  Inductive invariant: `TypeOK`, `RowsWritten` (what a
  relay works on has been written), `PrefixSeen` (the handlers before `at` have
  seen the row), `ReadsEarned` (the attempts a relay read are backed by
  failures), and the two properties.  The refinement is a step-by-step argument
  from it.  `RepeatsExplained` needs a second invariant on top: `Walk` (a cycle
  visits a tenant once and takes each row from its batch once) and `Account` (the
  publishes of a message, and the relays that hold it in a batch without the lock
  or after it was settled, are within its failures, the faults, its ack, and the
  publish of a pending row by the relay that holds the lock).
* `LedgerProofs`: `TypeCorrect`, `ProjectionCorrect`, `QuarantineCorrect`,
  `EpochCorrect`.  Inductive invariant: `TypeOK`, `LockHeld` (an appender or a
  folded repair holds the warehouse lock), `MoveCovered` (the movement an
  appender prepared is covered by the rows), `ProjectionAgrees`, `HitsCounted`
  (a remembered or flagged bin was hit) and `QuarantineIsRelapse`.  `FoldStep`
  is the lemma that adding an event to the ledger adds its arms to the fold.
  For `Serial`, in the same module, `SerialCorrect`, for any processes and clocks.
  Inductive invariant: the last event's id is behind the generator of the process
  that appended it, unless that clock was set back since (`LastBehind`); and as
  long as the handovers are ordered, all ids increase in commit order, so that the
  latest by id is the last by commit.
* `FloorProofs`: `TypeCorrect`, `QuarantineCorrect`, `CapacityCorrect`,
  `LandingCorrect`, `RetiredCorrect`, `ReturnableCorrect`.  Inductive invariant:
  `TypeOK` with the shape of a request by its kind (`Shapes`) and of a hold
  (`HoldShapes`), `Locks` (no bin row is locked by two requests), `Sources` (what
  a merge read of its source is still true when it is booked, but for what
  adjustments added) and the four properties about bins.  They are not inductive
  alone: that a placement fits is decided when it is gated, and only the lock its
  request keeps stops another one from filling the bin before it is booked.
  `Kept` is what a step leaves a request that it does not end; each action is
  shown to leave it to all the others.  `QuarantineBacked` needs the types only,
  and the lemmas about sums.
* `WebhookProofs`: `TypeCorrect`, `InFlightCorrect`, `PostsCorrect`.  Inductive
  invariant: `TypeOK`; for each delivery `Budget` (the POSTs made, and the
  processes that may still make one, whenever they claimed it, are within the
  attempts counted, and one more while the row is being sent), `Claims` (a row
  carries a stamp exactly while it is being sent), `Live` (a row that is not final
  has an attempt left), `Unread` (what an enqueue will insert does not exist
  yet); for the claims `OneClaim`, `PickedPending` and `PickedFit` (what a claim
  has locked stays pending and fits with the sends in flight).  `PostsBounded`
  alone says nothing of the slow processes, whose late POSTs are what a stale
  return must have counted.  Events and senders are assumed finite, since they
  are counted.
* `OrderFlowProofs`: `TypeCorrect`, `BackedCorrect`, `PlannedCorrect`,
  `FamilyCorrect`, `UnitsCorrect`.  Inductive invariant: `TypeOK`, the four
  properties, and `Links`: pick lines take their slots in order, a line belongs to
  an order and a wave that exist and to a hold of that order, a hold has one owner
  for good and never more than the owner asked for, an order that is being placed
  is known to no other request, a stop being picked is on a released wave.
  Without `Links` a refused allocator might release a hold of someone else.  The
  greedy cut of a need over bins is treated as disjoint intervals of units
  (`CutShape`, `ShareWithin`), so that a cut's stops together are within the need
  without induction over bins; a restock is a sum grouped by bin (`RestockUnits`
  on `TotalGroup`).
* `CountingProofs`: `TypeCorrect`, `PendingCorrect`, `FrozenCorrect`,
  `LatestCorrect`, `ClosedCorrect`, `AdjustedCorrect`.  Inductive invariant:
  `TypeOK`; `Slots` (tasks take their ids in order); for each task `TaskInv`
  (what it remembers of its bin is what the bin holds, as long as the epoch has
  not moved) and `TakeInv` (a pending task is the latest of its bin, and of the
  take that froze the bin and still counts); for each bin `BinInv` (its open
  variances are of the take that froze it, and none is open while it waits for a
  count); `Latest`; for each request `ReqInv` (its take is as it read it, and it
  has locked every open variance of its bins); `FrozenIsCounted` and
  `ClosedAccounts`.  What `BinInv`, `TakeInv`, `Latest` and `ReqInv` say of counts
  is excepted for the bins in `missed`, and only there.  `OnePending` alone says
  nothing of the order of tasks and `LatestOnly` nothing of what a request will
  supersede, so neither is inductive.
  `Ranks` and `NewIds` number the bins of a set from 1 on, so that the ids a
  command makes are the next ones, one for each bin (`MintedMade`).
  `AdjustedToCount` needs what `Level` computes: `BooksExist` shows that the
  recursive function exists, `BooksKeep` that it never goes below zero and stays
  put along tasks with nothing to correct; by `Latest` only one task of a bin
  has something to correct for a SKU, and its epoch is the bin's.

`UnitSumsProofs` states what happens to a sum when a term changes, when sets are
joined, split or grouped, and when terms are compared; `Reservation`, `Floor` and
`OrderFlow` rest on it.  Induction is used in the library's cardinality theorems
and in `BooksExist` and `BooksKeep`, there as the least element of a set of
counterexamples (`Least`, from the library's theorem that the naturals are well
founded).

Only model-checked: the liveness properties (`ParityRepairs`, `Settles`,
`TouchedRepaired`, `DeliveriesSettle`), which need fairness and ENABLED, out of
the provers' reach, and the violation.

## 5. Plan

Order: what can lose stock or events first.

1. Done: `Reservation`, `Outbox` under `EventDelivery`, `Ledger`, `Serial`,
   `Webhook`, `OrderFlow`, `Counting`, `Floor`.
2. Proofs: done for the safety properties of every module.
3. A module `Sender` that states claim, stale bound and bounded retries once,
   implemented by `Webhook` and by a new `Mail` (at most once: a stale claim is
   never sent again) and `Push`.
4. The receiving documents: purchase order, notice, receipt and approval, with
   expected against received quantities and over-receipt; transfers in transit.
5. Channel buffers (`applyStandingBuffer`) as further actions of `Reservation`.
6. `LedgerChain`: the hash chain, its anchors and break acknowledgements, with
   hashing as an injective function.
7. `Idempotency`, `Sessions`, `InvoiceNumbers`, returns settlement,
   replenishment and the attachment sweep.

Compositions worth stating: `Outbox` with `Webhook`'s enqueue (a quarantined row
is reconciled into a delivery), `Reservation` with `Ledger` (the stock the
ceiling reads is the fold), `Counting` with `Floor` (the freeze a merge meets).

## 6. Not modelled

HTTP API, DTOs and validation (no state); reporting (read-only); master data,
users, zones, catalog, carriers, compliance, dock scheduling, billing arithmetic and
audit export (single locked transactions or external adapters); row-level
security, deadlines and shutdown (primitives of the models); templates, seals,
signatures and transports (formatting, cryptography, I/O).  `PROJECT.json` gives
the reason for each component.
