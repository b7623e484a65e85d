------------------------------- MODULE Floor --------------------------------
(***************************************************************************)
(* One SKU on the floor of one warehouse: receipt, QC holds, put-away,     *)
(* moves, adjustments, and the bins themselves, which are blocked, merged, *)
(* retired and frozen while stock is on its way to them.                   *)
(*                                                                         *)
(* A command that fills or empties a storage bin locks the bin's row, reads*)
(* what the bin holds, and appends its movements later, under the          *)
(* warehouse's advisory lock: two or three steps of a request, which keeps *)
(* its row locks in between.  An adjustment takes no row lock at all.      *)
(***************************************************************************)
EXTENDS Integers, FiniteSets, UnitSums

CONSTANTS Bins,        \* storage bins
          Receiving, QC, Damaged,   \* the system bins
          Capacity,    \* units a storage bin takes
          Lines,       \* lines of goods receipts
          Holds,       \* ids of QC holds
          Requests,    \* commands in flight
          MaxReceived, \* units ever received
          MaxAdjusted, \* units adjustments ever add
          None

System == {Receiving, QC, Damaged}
Places == Bins \cup System

ASSUME FloorConstants ==
    /\ Bins \cap System = {} /\ Cardinality(System) = 3
    /\ IsFiniteSet(Bins) /\ IsFiniteSet(Lines) /\ IsFiniteSet(Holds)
    /\ Capacity \in Nat /\ MaxReceived \in Nat /\ MaxAdjusted \in Nat
    /\ None \notin Places \cup Lines

VARIABLES
    onHand,    \* stock_on_hand: units in a bin
    retired,   \* bins.retired_at
    blocked,   \* bins.blocked
    frozen,    \* stock_freeze_bins
    hold,      \* open qc_holds, with the quantity of their qc.held movements
    applied,   \* units booked on a receipt line,
    failed,    \* and those of them that failed an inspection
    cmd,       \* requests in flight
    adjusted,  \* history: units adjustments have added,
    slipped    \* and those added to a bin as, or after, it retired

layout == <<retired, blocked, frozen>>
ghosts == <<adjusted, slipped>>
lines  == <<applied, failed>>
vars   == <<onHand, layout, hold, lines, cmd, ghosts>>

-----------------------------------------------------------------------------
(* Queries. *)

\* A hold that was released or inspected leaves nothing behind but the failed
\* units of its receipt line: its id is free again.
Closed == [line |-> None, origin |-> None, qty |-> 0]
Open(h) == hold[h] # Closed
HoldsOf(b) == {h \in Holds : hold[h].origin = b}
ReceiptHolds(L) == {h \in Holds : hold[h].line \in L}
HeldQty(H) == Total(H, [h \in H |-> hold[h].qty])

\* openReceiptHoldQtyOfLineInTx, failedReceiptQtyOfLineInTx: what of a receipt
\* line may be put away.  What was put away already is not subtracted.
PutawayQty(l) == applied[l] - HeldQty(ReceiptHolds({l})) - failed[l]

\* `late' is history: units adjusted into each bin the request has locked, since.
OnTime == [b \in Bins |-> 0]
Idle == [kind |-> "idle", from |-> None, to |-> None, qty |-> 0, late |-> OnTime]

\* The bin rows a request holds FOR UPDATE.
Rows(c) ==
    CASE c.kind = "placing" -> {c.to}
      [] c.kind \in {"moving", "handheld", "merging"} -> {c.from, c.to}
      [] c.kind = "holding" -> {c.from}
      [] OTHER -> {}
Free(b) == \A r \in Requests : b \notin Rows(cmd[r])

\* The gates every placement passes under the row lock of its bin.
Gates(b, n) == b \notin retired \cup blocked /\ onHand[b] + n <= Capacity

\* Mutant: the insufficiency check is left to the earlier read.
Shift_Unchecked(from, to, n) ==
    onHand' = [onHand EXCEPT ![from] = @ - n, ![to] = @ + n]

\* appendMovement: never below zero.
Shift(from, to, n) ==
    /\ onHand[from] >= n
    /\ onHand' = [onHand EXCEPT ![from] = @ - n, ![to] = @ + n]

Start(r, kind, from, to, n) ==
    /\ cmd[r] = Idle
    /\ cmd' = [cmd EXCEPT ![r] = [kind |-> kind, from |-> from, to |-> to, qty |-> n, late |-> OnTime]]
    /\ UNCHANGED <<onHand, layout, hold, lines, ghosts>>
Finish(r) == cmd' = [cmd EXCEPT ![r] = Idle]

\* A refusal, an abort or a crash: the transaction and its locks are gone.
Fail(r) ==
    /\ cmd[r] # Idle
    /\ Finish(r)
    /\ UNCHANGED <<onHand, layout, hold, lines, ghosts>>

-----------------------------------------------------------------------------
(* Receipt and put-away. *)

\* The receipt's booking, with the hold of a client whose receipts are
\* inspected; an approved over-receipt books its excess the same way.
Receive(l, n, h) ==
    /\ Total(Lines, applied) + n <= MaxReceived
    /\ applied' = [applied EXCEPT ![l] = @ + n]
    /\ \/ /\ h = None
          /\ onHand' = [onHand EXCEPT ![Receiving] = @ + n]
          /\ UNCHANGED hold
       \/ /\ h # None /\ ~Open(h)
          /\ onHand' = [onHand EXCEPT ![QC] = @ + n]
          /\ hold' = [hold EXCEPT ![h] = [line |-> l, origin |-> Receiving, qty |-> n]]
    /\ UNCHANGED <<failed, layout, cmd, ghosts>>

\* placePutaway reads the line and the Receiving bin before any lock.
PutawayRead(r, l, b, n) ==
    /\ b \in Bins /\ n <= PutawayQty(l) /\ n <= onHand[Receiving]
    /\ Start(r, "putaway", Receiving, b, n)

\* Mutant: the capacity and the block are read before the row is locked.
PutawayGate_ReadFirst(r) ==
    /\ cmd[r].kind = "putaway" /\ Gates(cmd[r].to, cmd[r].qty)
    /\ cmd' = [cmd EXCEPT ![r].kind = "placing"]
    /\ UNCHANGED <<onHand, layout, hold, lines, ghosts>>

\* Then it locks the target's row and passes the gates.
PutawayGate(r) ==
    /\ cmd[r].kind = "putaway"
    /\ Free(cmd[r].to) /\ Gates(cmd[r].to, cmd[r].qty)
    /\ cmd' = [cmd EXCEPT ![r].kind = "placing"]
    /\ UNCHANGED <<onHand, layout, hold, lines, ghosts>>

\* The handheld's movement; a freeze admits it.
PutawayAppend(r) ==
    /\ cmd[r].kind = "placing"
    /\ Shift(Receiving, cmd[r].to, cmd[r].qty)
    /\ Finish(r)
    /\ UNCHANGED <<layout, hold, lines, ghosts>>

-----------------------------------------------------------------------------
(* Moves and adjustments. *)

\* moveStock, on the web or on a handheld: both rows locked, the target gated.
MoveGate(r, a, b, n, kind) ==
    /\ a # b /\ Free(a) /\ Free(b)
    /\ a \notin retired /\ Gates(b, n) /\ onHand[a] >= n
    /\ Start(r, kind, a, b, n)

MoveAppend(r) ==
    /\ \/ cmd[r].kind = "handheld"
       \/ cmd[r].kind = "moving" /\ {cmd[r].from, cmd[r].to} \cap frozen = {}
    /\ Shift(cmd[r].from, cmd[r].to, cmd[r].qty)
    /\ Finish(r)
    /\ UNCHANGED <<layout, hold, lines, ghosts>>

\* Mutant: the QC-hold bin may be adjusted.
Adjustable_QC(b, n) == b \notin retired

\* assertBinInWarehouse, and the DAMAGED bin takes write-offs only.
Adjustable(b, n) ==
    /\ b \notin retired /\ b # QC
    /\ b = Damaged => n < 0

AdjustCheck(r, b, n) ==
    /\ Adjustable(b, n)
    /\ adjusted + n <= MaxAdjusted
    /\ Start(r, "adjusting", None, b, n)

\* adjustToSnapshot: no row lock, no capacity; a retirement since the check is
\* not seen.  A freeze refuses it from the web and admits it from a handheld.
AdjustAppend(r) ==
    LET b == cmd[r].to
        n == cmd[r].qty
        added == IF n > 0 THEN n ELSE 0
    IN  /\ cmd[r].kind = "adjusting"
        /\ onHand[b] + n >= 0 /\ adjusted + added <= MaxAdjusted
        /\ onHand' = [onHand EXCEPT ![b] = @ + n]
        /\ adjusted' = adjusted + added
        /\ slipped' = [c \in Bins |-> slipped[c] + IF c = b /\ b \in retired THEN added ELSE 0]
        /\ cmd' = [q \in Requests |->
                     IF q = r THEN Idle
                     ELSE [cmd[q] EXCEPT !.late = [c \in Bins |->
                             @[c] + IF c = b /\ b \in Rows(cmd[q]) THEN added ELSE 0]]]
        /\ UNCHANGED <<layout, hold, lines>>

-----------------------------------------------------------------------------
(* QC holds. *)

\* holdScopeInTx: all a bin holds, one manual hold open on it at a time.  The
\* bin may be retired.
HoldGate(r, b) ==
    /\ b \in Bins \cup {Receiving}
    /\ Free(b)
    /\ ~\E h \in HoldsOf(b) : hold[h].line = None
    /\ onHand[b] > 0
    /\ Start(r, "holding", b, QC, onHand[b])

\* qc.held is the one movement a freeze never refuses.
HoldAppend(r, h) ==
    /\ cmd[r].kind = "holding" /\ ~Open(h)
    /\ Shift(cmd[r].from, QC, cmd[r].qty)
    /\ hold' = [hold EXCEPT ![h] = [line |-> None, origin |-> cmd[r].from, qty |-> cmd[r].qty]]
    /\ Finish(r)
    /\ UNCHANGED <<layout, lines, ghosts>>

\* Mutant: the origin is read without its row lock.
Returned_NoLock(b, held, passed) ==
    /\ passed > 0 => b \notin retired \cup frozen
    /\ onHand[QC] >= held
    /\ onHand' = [onHand EXCEPT ![QC] = @ - held, ![b] = @ + passed, ![Damaged] = @ + (held - passed)]
    /\ UNCHANGED <<layout, applied, cmd, ghosts>>

\* lockOriginBinInTx and the movements out of the QC bin: of the units of a
\* hold, some go back to a bin that is live under its row lock.
Returned(b, held, passed) ==
    /\ passed > 0 => Free(b) /\ b \notin retired \cup frozen
    /\ onHand[QC] >= held
    /\ onHand' = [onHand EXCEPT ![QC] = @ - held, ![b] = @ + passed, ![Damaged] = @ + (held - passed)]
    /\ UNCHANGED <<layout, applied, cmd, ghosts>>

ReleaseHold(h) ==
    /\ Open(h)
    /\ Returned(hold[h].origin, hold[h].qty, hold[h].qty)
    /\ hold' = [hold EXCEPT ![h] = Closed]
    /\ UNCHANGED failed

\* All the open receipt holds of a goods receipt.
ReleaseReceiptHolds(L) ==
    LET H == ReceiptHolds(L)
    IN  /\ H # {}
        /\ Returned(Receiving, HeldQty(H), HeldQty(H))
        /\ hold' = [h \in Holds |-> IF h \in H THEN Closed ELSE hold[h]]
        /\ UNCHANGED failed

\* What passed goes back, what failed is damaged; together all that was held.
InspectHold(h, passed) ==
    /\ Open(h) /\ passed <= hold[h].qty
    /\ Returned(hold[h].origin, hold[h].qty, passed)
    /\ hold' = [hold EXCEPT ![h] = Closed]
    /\ failed' = [l \in Lines |-> failed[l] + IF l = hold[h].line THEN hold[h].qty - passed ELSE 0]

-----------------------------------------------------------------------------
(* The bins. *)

Block(b) ==
    /\ Free(b) /\ b \notin retired \cup blocked
    /\ blocked' = blocked \cup {b}
    /\ UNCHANGED <<onHand, retired, frozen, hold, lines, cmd, ghosts>>

Unblock(b) ==
    /\ Free(b) /\ b \in blocked \ retired
    /\ blocked' = blocked \ {b}
    /\ UNCHANGED <<onHand, retired, frozen, hold, lines, cmd, ghosts>>

\* Mutant: open QC holds are not looked for.
RetireBin_Held(b) ==
    /\ Free(b) /\ b \notin retired \cup frozen /\ onHand[b] = 0
    /\ retired' = retired \cup {b}
    /\ UNCHANGED <<onHand, blocked, frozen, hold, lines, cmd, ghosts>>

\* Mutant: the bin's row is not locked.
RetireBin_NoLock(b) ==
    /\ b \notin retired \cup frozen
    /\ HoldsOf(b) = {} /\ onHand[b] = 0
    /\ retired' = retired \cup {b}
    /\ UNCHANGED <<onHand, blocked, frozen, hold, lines, cmd, ghosts>>

\* retireBin decides under the advisory lock, where no movement is in flight.
RetireBin(b) ==
    /\ Free(b) /\ b \notin retired \cup frozen
    /\ HoldsOf(b) = {} /\ onHand[b] = 0
    /\ retired' = retired \cup {b}
    /\ UNCHANGED <<onHand, blocked, frozen, hold, lines, cmd, ghosts>>

\* mergeBin: both rows are locked before the source is read.
MergeGate(r, a, b) ==
    /\ a # b /\ Free(a) /\ Free(b)
    /\ a \notin retired /\ HoldsOf(a) \cup HoldsOf(b) = {}
    /\ Gates(b, onHand[a])
    /\ Start(r, "merging", a, b, onHand[a])

\* The source's movements, and its retirement in the same commit.  The
\* movements are what a freeze refuses: an empty source has none.
MergeAppend(r) ==
    /\ cmd[r].kind = "merging"
    /\ cmd[r].qty = 0 \/ {cmd[r].from, cmd[r].to} \cap frozen = {}
    /\ Shift(cmd[r].from, cmd[r].to, cmd[r].qty)
    /\ retired' = retired \cup {cmd[r].from}
    /\ slipped' = [slipped EXCEPT ![cmd[r].from] = cmd[r].late[cmd[r].from]]
    /\ Finish(r)
    /\ UNCHANGED <<blocked, frozen, hold, lines, adjusted>>

\* startStockTake freezes the live bins of its scope; the freezes of different
\* takes are not told apart.
StartStockTake(B) ==
    /\ B # {} /\ B \cap (retired \cup frozen) = {}
    /\ frozen' = frozen \cup B
    /\ UNCHANGED <<onHand, retired, blocked, hold, lines, cmd, ghosts>>

EndStockTake(B) ==
    /\ B # {} /\ B \subseteq frozen
    /\ frozen' = frozen \ B
    /\ UNCHANGED <<onHand, retired, blocked, hold, lines, cmd, ghosts>>

-----------------------------------------------------------------------------

Init ==
    /\ onHand = [b \in Places |-> 0]
    /\ retired = {} /\ blocked = {} /\ frozen = {}
    /\ hold = [h \in Holds |-> Closed]
    /\ applied = [l \in Lines |-> 0] /\ failed = [l \in Lines |-> 0]
    /\ cmd = [r \in Requests |-> Idle]
    /\ adjusted = 0
    /\ slipped = [b \in Bins |-> 0]

Amounts == 1 .. MaxReceived

Receipts ==
    \/ \E l \in Lines, n \in Amounts, h \in Holds \cup {None} : Receive(l, n, h)
    \/ \E r \in Requests, l \in Lines, b \in Bins, n \in Amounts : PutawayRead(r, l, b, n)
    \/ \E r \in Requests : PutawayGate(r) \/ PutawayAppend(r)

Stock ==
    \/ \E r \in Requests, a, b \in Bins, n \in Amounts, kind \in {"moving", "handheld"} :
          MoveGate(r, a, b, n, kind)
    \/ \E r \in Requests, b \in Places, n \in {-1, 1} : AdjustCheck(r, b, n)
    \/ \E r \in Requests : MoveAppend(r) \/ AdjustAppend(r)

Quality ==
    \/ \E r \in Requests, b \in Bins \cup {Receiving} : HoldGate(r, b)
    \/ \E r \in Requests, h \in Holds : HoldAppend(r, h)
    \/ \E h \in Holds : ReleaseHold(h) \/ \E n \in 0 .. MaxReceived : InspectHold(h, n)
    \/ ReleaseReceiptHolds(Lines)

Layout ==
    \/ \E b \in Bins : Block(b) \/ Unblock(b) \/ RetireBin(b)
    \/ \E r \in Requests, a, b \in Bins : MergeGate(r, a, b)
    \/ \E r \in Requests : MergeAppend(r)
    \/ \E B \in SUBSET Bins : StartStockTake(B) \/ EndStockTake(B)

Next == Receipts \/ Stock \/ Quality \/ Layout \/ \E r \in Requests : Fail(r)

Spec == Init /\ [][Next]_vars

-----------------------------------------------------------------------------
(* Properties. *)

\* No bin is ever below zero, a put-away or a move names a storage bin.
TypeOK ==
    /\ onHand \in [Places -> Nat]
    /\ {retired, blocked, frozen} \subseteq SUBSET Bins
    /\ hold \in [Holds -> [line : Lines \cup {None}, origin : Bins \cup {Receiving, None}, qty : Nat]]
    /\ applied \in [Lines -> 0 .. MaxReceived] /\ failed \in [Lines -> Nat]
    /\ cmd \in [Requests -> [kind : {"idle", "putaway", "placing", "moving", "handheld",
                                    "adjusting", "holding", "merging"},
                            from : Places \cup {None}, to : Places \cup {None}, qty : Int,
                            late : [Bins -> Nat]]]
    /\ adjusted \in 0 .. MaxAdjusted /\ slipped \in [Bins -> Nat]

\* The QC-hold bin holds exactly the units of the open holds: no unit enters
\* quarantine without a hold that can release it, none leaves it twice
\* (holdScopeInTx, releaseHoldCoreInTx, inspectHold, assertBinInWarehouse).
QuarantineBacked ==
    onHand[QC] = HeldQty(Holds)

\* A placement, a move or a merge that passed the gates still fits its bin when
\* it is booked, whatever else fills the bin meanwhile, but for what adjustments
\* added to that bin since: no interleaving of them overfills a bin (placePutaway's
\* row lock, assertPlacementGatesInTx, lockOriginBinInTx).
Landing(r) == cmd[r].kind \in {"placing", "moving", "handheld", "merging"}
WithinCapacity ==
    \A r \in Requests :
        Landing(r) => onHand[cmd[r].to] + cmd[r].qty <= Capacity + cmd[r].late[cmd[r].to]

\* A retired bin holds nothing but what an adjustment that had checked it
\* before booked while it was being merged, or after it retired (mergeBin,
\* retireBin and the row locks of whatever fills a bin).
RetiredEmpty ==
    \A b \in retired : onHand[b] <= slipped[b]

\* An open hold can go back to where it came from: its bin is not retired,
\* unless it was placed on units an adjustment left in a retired bin.
HoldsReturnable ==
    \A h \in Holds : Open(h) /\ hold[h].origin \in retired => slipped[hold[h].origin] > 0

\* What passed the gates never lands in a bin that closed meanwhile: blocking,
\* merging away and retiring a bin wait for its row lock (bin-state.command
\* block, mergeBin, retireBin).
LandsInOpenBin ==
    \A r \in Requests : Landing(r) => cmd[r].to \notin blocked \cup retired
=============================================================================
