---------------------------- MODULE FloorProofs -----------------------------
(***************************************************************************)
(* The floor of a warehouse, for any bins, holds, receipt lines and         *)
(* requests: the row locks keep what passed a gate true until it is booked. *)
(***************************************************************************)
EXTENDS Floor, UnitSumsProofs, TLAPS

\* What a request may carry, by its kind.
Shape(c) ==
    \/ c = Idle
    \/ c.kind \in {"putaway", "placing"} /\ c.from = Receiving /\ c.to \in Bins /\ c.qty \in Nat
    \/ /\ c.kind \in {"moving", "handheld", "merging"}
       /\ c.from \in Bins /\ c.to \in Bins /\ c.from # c.to /\ c.qty \in Nat
    \/ c.kind = "adjusting" /\ c.from = None /\ c.to \in Places \ {QC}
    \/ c.kind = "holding" /\ c.from \in Bins \cup {Receiving} /\ c.to = QC /\ c.qty \in Nat

Shapes == \A r \in Requests : Shape(cmd[r])

\* An open hold has a bin to go back to, a receipt's hold the Receiving bin.
HoldShapes ==
    \A h \in Holds :
        \/ hold[h] = Closed
        \/ /\ hold[h].origin \in Bins \cup {Receiving}
           /\ hold[h].line # None => hold[h].origin = Receiving

\* No bin row is locked by two requests.
Locks == \A r, q \in Requests : r # q => Rows(cmd[r]) \cap Rows(cmd[q]) = {}

\* What a merge read of its source stays true but for adjustments: it is live,
\* no hold can go back to it, it has no more units than the merge will move.
\* What a hold read of a retired bin came from an adjustment.
Sources ==
    \A r \in Requests :
        /\ cmd[r].kind = "merging" =>
              /\ cmd[r].from \notin retired
              /\ HoldsOf(cmd[r].from) = {}
              /\ onHand[cmd[r].from] <= cmd[r].qty + cmd[r].late[cmd[r].from]
        /\ cmd[r].kind = "holding" /\ cmd[r].from \in retired => slipped[cmd[r].from] > 0

-----------------------------------------------------------------------------
(* Constants and typing. *)

\* The system bins are three, and none of them is a storage bin.
LEMMA Distinct ==
    /\ Receiving # QC /\ Receiving # Damaged /\ QC # Damaged
    /\ Receiving \notin Bins /\ QC \notin Bins /\ Damaged \notin Bins
    /\ None \notin Places /\ None \notin Lines
    /\ Bins \subseteq Places /\ {Receiving, QC, Damaged} \subseteq Places
<1>1. ASSUME NEW x, NEW y PROVE Cardinality({x, y}) # 3
  <2>1. IsFiniteSet({x}) /\ Cardinality({x}) = 1
    BY FS_Singleton
  <2>2. Cardinality({x} \cup {y}) \in {1, 2}
    BY <2>1, FS_AddElement
  <2>3. {x, y} = {x} \cup {y}
    OBVIOUS
  <2> QED
    BY <2>2, <2>3
<1>2. Cardinality({Receiving, QC, Damaged}) = 3
  BY FloorConstants DEF System
<1>3. Receiving # QC
  <2>1. Receiving = QC => {Receiving, QC, Damaged} = {QC, Damaged}
    OBVIOUS
  <2> QED
    BY <1>1, <1>2, <2>1
<1>4. Receiving # Damaged
  <2>1. Receiving = Damaged => {Receiving, QC, Damaged} = {QC, Damaged}
    OBVIOUS
  <2> QED
    BY <1>1, <1>2, <2>1
<1>5. QC # Damaged
  <2>1. QC = Damaged => {Receiving, QC, Damaged} = {Receiving, Damaged}
    OBVIOUS
  <2> QED
    BY <1>1, <1>2, <2>1
<1> QED
  BY <1>3, <1>4, <1>5, FloorConstants DEF Places, System

\* The rows of a request, by its kind.
LEMMA RowsOf ==
    ASSUME NEW c
    PROVE  /\ c.kind = "placing" => Rows(c) = {c.to}
           /\ c.kind \in {"moving", "handheld", "merging"} => Rows(c) = {c.from, c.to}
           /\ c.kind = "holding" => Rows(c) = {c.from}
           /\ c.kind \in {"idle", "putaway", "adjusting"} => Rows(c) = {}
BY DEF Rows

\* The sum over the open holds is a number of units.
LEMMA HeldType ==
    ASSUME TypeOK, NEW H \in SUBSET Holds
    PROVE  HeldQty(H) \in Nat
<1>1. IsFiniteSet(H)
  BY FloorConstants, FS_Subset
<1>2. \A h \in H : [x \in H |-> hold[x].qty][h] \in Nat
  BY DEF TypeOK
<1> QED
  BY <1>1, <1>2, TotalType DEF HeldQty

\* Types and shapes together are inductive.
Typed == TypeOK /\ Shapes /\ HoldShapes

Kinds == {"idle", "putaway", "placing", "moving", "handheld", "adjusting", "holding", "merging"}
Commands == [kind : Kinds, from : Places \cup {None}, to : Places \cup {None}, qty : Int,
             late : [Bins -> Nat]]
HoldRecords == [line : Lines \cup {None}, origin : Bins \cup {Receiving, None}, qty : Nat]

\* The types, variable by variable.
LEMMA TypeParts ==
    TypeOK <=> /\ onHand \in [Places -> Nat]
               /\ retired \in SUBSET Bins /\ blocked \in SUBSET Bins /\ frozen \in SUBSET Bins
               /\ hold \in [Holds -> HoldRecords]
               /\ applied \in [Lines -> 0 .. MaxReceived] /\ failed \in [Lines -> Nat]
               /\ cmd \in [Requests -> Commands]
               /\ adjusted \in 0 .. MaxAdjusted /\ slipped \in [Bins -> Nat]
BY DEF TypeOK, Commands, HoldRecords, Kinds

\* The same in the next state.
LEMMA NextTypeParts ==
    TypeOK' <=> /\ onHand' \in [Places -> Nat]
                /\ retired' \in SUBSET Bins /\ blocked' \in SUBSET Bins /\ frozen' \in SUBSET Bins
                /\ hold' \in [Holds -> HoldRecords]
                /\ applied' \in [Lines -> 0 .. MaxReceived] /\ failed' \in [Lines -> Nat]
                /\ cmd' \in [Requests -> Commands]
                /\ adjusted' \in 0 .. MaxAdjusted /\ slipped' \in [Bins -> Nat]
BY DEF TypeOK, Commands, HoldRecords, Kinds

\* The initial state has the types.
LEMMA InitTyped == Init => Typed
<1>1. Init => TypeOK
  BY FloorConstants DEF Init, TypeOK, Closed, Idle, OnTime, Places
<1>2. Init => Shapes /\ HoldShapes
  BY DEF Init, Shapes, HoldShapes, Shape
<1> QED
  BY <1>1, <1>2 DEF Typed

\* A request that starts has the shape of its kind.
LEMMA StartTyped ==
    ASSUME Typed, NEW r \in Requests, NEW kind \in Kinds, NEW from \in Places \cup {None},
           NEW to \in Places \cup {None}, NEW n \in Int, Start(r, kind, from, to, n),
           Shape([kind |-> kind, from |-> from, to |-> to, qty |-> n, late |-> OnTime])
    PROVE  Typed'
<1> DEFINE c == [kind |-> kind, from |-> from, to |-> to, qty |-> n, late |-> OnTime]
<1>1. c \in Commands /\ Shape(c)
  BY DEF Commands, OnTime
<1>2. cmd' = [cmd EXCEPT ![r] = c] /\ UNCHANGED <<onHand, layout, hold, lines, ghosts>>
  BY DEF Start
<1> HIDE DEF c
<1>3. TypeOK'
  BY <1>1, <1>2, TypeParts, NextTypeParts DEF Typed, layout, lines, ghosts
<1>4. Shapes'
  BY <1>1, <1>2, TypeParts DEF Typed, Shapes, Shape, Idle
<1>5. HoldShapes'
  BY <1>2 DEF Typed, HoldShapes, Closed
<1> QED
  BY <1>3, <1>4, <1>5 DEF Typed

\* A request that ends leaves the shapes alone.
LEMMA FinishTyped ==
    ASSUME Typed, NEW r \in Requests, Finish(r)
    PROVE  cmd' \in [Requests -> Commands] /\ Shapes'
<1>1. Idle \in Commands
  BY DEF Idle, OnTime, Commands, Kinds
<1> QED
  BY <1>1, TypeParts DEF Typed, Finish, Shapes, Shape

\* A movement between two bins keeps every bin at or above zero.
LEMMA ShiftTyped ==
    ASSUME Typed, NEW from \in Places, NEW to \in Places, from # to, NEW n \in Nat,
           Shift(from, to, n)
    PROVE  /\ onHand' \in [Places -> Nat]
           /\ onHand'[from] = onHand[from] - n /\ onHand'[to] = onHand[to] + n
           /\ \A b \in Places \ {from, to} : onHand'[b] = onHand[b]
BY TypeParts DEF Typed, Shift

\* The booking of a receipt keeps the types.
LEMMA ReceiveTyped ==
    ASSUME Typed, NEW l \in Lines, NEW n \in Amounts, NEW h \in Holds \cup {None},
           Receive(l, n, h)
    PROVE  Typed'
<1>0. n \in Nat
  BY FloorConstants DEF Amounts
<1>1. applied \in [Lines -> Nat] /\ applied[l] <= Total(Lines, applied)
      /\ Total(Lines, applied) \in Nat
  <2>1. \A x \in Lines : applied[x] \in Nat
    BY FloorConstants, TypeParts DEF Typed
  <2> QED
    BY <2>1, FloorConstants, TypeParts, TotalBounds, TotalType DEF Typed
<1>2. applied' \in [Lines -> 0 .. MaxReceived]
  BY <1>0, <1>1, FloorConstants, TypeParts DEF Typed, Receive
<1>3. onHand' \in [Places -> Nat]
  BY <1>0, TypeParts, Distinct DEF Typed, Receive
<1>4. hold' \in [Holds -> HoldRecords] /\ HoldShapes'
  <2>1. CASE UNCHANGED hold
    BY <2>1, TypeParts DEF Typed, HoldShapes, Closed
  <2>2. CASE h \in Holds
             /\ hold' = [hold EXCEPT ![h] = [line |-> l, origin |-> Receiving, qty |-> n]]
    BY <2>2, <1>0, TypeParts DEF Typed, HoldShapes, Closed, HoldRecords
  <2> QED
    BY <2>1, <2>2 DEF Receive
<1>5. TypeOK'
  BY <1>2, <1>3, <1>4, TypeParts, NextTypeParts DEF Typed, Receive, layout, ghosts
<1>6. Shapes'
  BY DEF Typed, Receive, Shapes, Shape, Idle
<1> QED
  BY <1>4, <1>5, <1>6 DEF Typed

\* Put-away keeps the types.
LEMMA PutawayTyped ==
    ASSUME Typed, NEW r \in Requests,
           \/ \E l \in Lines, b \in Bins, n \in Amounts : PutawayRead(r, l, b, n)
           \/ PutawayGate(r) \/ PutawayAppend(r)
    PROVE  Typed'
<1>1. ASSUME NEW l \in Lines, NEW b \in Bins, NEW n \in Amounts, PutawayRead(r, l, b, n)
      PROVE  Typed'
  <2>1. n \in Nat /\ Receiving \in Places \cup {None} /\ b \in Places \cup {None}
    BY FloorConstants, Distinct DEF Amounts
  <2>2. Shape([kind |-> "putaway", from |-> Receiving, to |-> b, qty |-> n, late |-> OnTime])
    BY <2>1 DEF Shape
  <2>3. Start(r, "putaway", Receiving, b, n)
    BY <1>1 DEF PutawayRead
  <2> QED
    BY <2>1, <2>2, <2>3, StartTyped DEF Kinds
<1>2. CASE PutawayGate(r)
  <2>1. /\ cmd' = [cmd EXCEPT ![r].kind = "placing"] /\ cmd[r].kind = "putaway"
        /\ UNCHANGED <<onHand, layout, hold, lines, ghosts>>
    BY <1>2 DEF PutawayGate
  <2>2. cmd[r] \in Commands /\ Shape(cmd[r])
    BY TypeParts DEF Typed, Shapes
  <2>3. [cmd[r] EXCEPT !.kind = "placing"] \in Commands
        /\ Shape([cmd[r] EXCEPT !.kind = "placing"])
    BY <2>1, <2>2 DEF Commands, Shape, Idle, Kinds
  <2>4. cmd' \in [Requests -> Commands] /\ Shapes'
    BY <2>1, <2>3, TypeParts DEF Typed, Shapes, Shape, Idle
  <2>5. TypeOK' /\ HoldShapes'
    BY <2>1, <2>4, TypeParts, NextTypeParts DEF Typed, layout, lines, ghosts, HoldShapes, Closed
  <2> QED
    BY <2>4, <2>5 DEF Typed
<1>3. CASE PutawayAppend(r)
  <2>1. cmd[r].to \in Bins /\ cmd[r].qty \in Nat
    BY <1>3 DEF Typed, Shapes, Shape, PutawayAppend, Idle
  <2>2. Shift(Receiving, cmd[r].to, cmd[r].qty) /\ Finish(r)
        /\ UNCHANGED <<layout, hold, lines, ghosts>>
    BY <1>3 DEF PutawayAppend
  <2>3. onHand' \in [Places -> Nat]
    BY <2>1, <2>2, ShiftTyped, Distinct
  <2>4. cmd' \in [Requests -> Commands] /\ Shapes'
    BY <2>2, FinishTyped
  <2>5. TypeOK' /\ HoldShapes'
    BY <2>2, <2>3, <2>4, TypeParts, NextTypeParts
    DEF Typed, layout, lines, ghosts, HoldShapes, Closed
  <2> QED
    BY <2>4, <2>5 DEF Typed
<1> QED
  BY <1>1, <1>2, <1>3

\* Moves and adjustments keep the types.
LEMMA StockTyped ==
    ASSUME Typed, Stock
    PROVE  Typed'
<1>1. ASSUME NEW r \in Requests, NEW a \in Bins, NEW b \in Bins, NEW n \in Amounts,
             NEW kind \in {"moving", "handheld"}, MoveGate(r, a, b, n, kind)
      PROVE  Typed'
  <2>1. n \in Nat /\ a \in Places \cup {None} /\ b \in Places \cup {None} /\ a # b
    BY <1>1, FloorConstants, Distinct DEF Amounts, MoveGate
  <2>2. Shape([kind |-> kind, from |-> a, to |-> b, qty |-> n, late |-> OnTime])
    BY <2>1 DEF Shape
  <2>3. Start(r, kind, a, b, n)
    BY <1>1 DEF MoveGate
  <2> QED
    BY <2>1, <2>2, <2>3, StartTyped DEF Kinds
<1>2. ASSUME NEW r \in Requests, NEW b \in Places, NEW n \in {-1, 1}, AdjustCheck(r, b, n)
      PROVE  Typed'
  <2>1. Shape([kind |-> "adjusting", from |-> None, to |-> b, qty |-> n, late |-> OnTime])
    BY <1>2 DEF Shape, AdjustCheck, Adjustable
  <2>2. Start(r, "adjusting", None, b, n)
    BY <1>2 DEF AdjustCheck
  <2> QED
    BY <2>1, <2>2, StartTyped DEF Kinds
<1>3. ASSUME NEW r \in Requests, MoveAppend(r)
      PROVE  Typed'
  <2>1. cmd[r].from \in Bins /\ cmd[r].to \in Bins /\ cmd[r].from # cmd[r].to
        /\ cmd[r].qty \in Nat
    BY <1>3 DEF Typed, Shapes, Shape, MoveAppend, Idle
  <2>2. Shift(cmd[r].from, cmd[r].to, cmd[r].qty) /\ Finish(r)
        /\ UNCHANGED <<layout, hold, lines, ghosts>>
    BY <1>3 DEF MoveAppend
  <2>3. onHand' \in [Places -> Nat]
    BY <2>1, <2>2, ShiftTyped, Distinct
  <2>4. cmd' \in [Requests -> Commands] /\ Shapes'
    BY <2>2, FinishTyped
  <2>5. TypeOK' /\ HoldShapes'
    BY <2>2, <2>3, <2>4, TypeParts, NextTypeParts
    DEF Typed, layout, lines, ghosts, HoldShapes, Closed
  <2> QED
    BY <2>4, <2>5 DEF Typed
<1>4. ASSUME NEW r \in Requests, AdjustAppend(r)
      PROVE  Typed'
  <2> DEFINE b == cmd[r].to
             n == cmd[r].qty
             added == IF n > 0 THEN n ELSE 0
  <2>1. b \in Places /\ n \in Int /\ added \in Nat
    BY <1>4, TypeParts DEF Typed, Shapes, Shape, AdjustAppend, Idle, Commands
  <2>2. onHand' \in [Places -> Nat]
    BY <1>4, <2>1, TypeParts DEF Typed, AdjustAppend
  <2>3. adjusted' \in 0 .. MaxAdjusted
    BY <1>4, <2>1, TypeParts, FloorConstants DEF Typed, AdjustAppend
  <2>4. slipped' \in [Bins -> Nat]
    BY <1>4, <2>1, TypeParts DEF Typed, AdjustAppend
  <2>5. ASSUME NEW q \in Requests
        PROVE  cmd'[q] \in Commands /\ Shape(cmd'[q])
    <3>1. CASE q = r
      BY <1>4, <3>1 DEF AdjustAppend, Idle, OnTime, Commands, Shape, Kinds
    <3>2. CASE q # r
      <4> DEFINE m == [c \in Bins |->
                          cmd[q].late[c] + IF c = b /\ b \in Rows(cmd[q]) THEN added ELSE 0]
      <4>1. cmd'[q] = [cmd[q] EXCEPT !.late = m]
        BY <1>4, <3>2 DEF AdjustAppend
      <4>a. cmd[q] \in Commands /\ Shape(cmd[q])
        BY TypeParts DEF Typed, Shapes
      <4>b. cmd[q].late \in [Bins -> Nat]
        BY <4>a DEF Commands
      <4>2. cmd[q] \in Commands /\ Shape(cmd[q]) /\ m \in [Bins -> Nat]
        BY <2>1, <4>a, <4>b
      <4>3. cmd[q] = Idle => m = OnTime
        BY RowsOf DEF Idle, OnTime
      <4> HIDE DEF m
      <4> QED
        BY <4>1, <4>2, <4>3 DEF Commands, Shape, Idle
    <3> QED
      BY <3>1, <3>2
  <2>6. cmd' \in [Requests -> Commands] /\ Shapes'
    <3>1. cmd' = [q \in Requests |-> cmd'[q]]
      BY <1>4 DEF AdjustAppend
    <3> QED
      BY <2>5, <3>1 DEF Shapes, Shape, Idle
  <2>7. UNCHANGED <<layout, hold, lines>>
    BY <1>4 DEF AdjustAppend
  <2>8. TypeOK' /\ HoldShapes'
    BY <2>2, <2>3, <2>4, <2>6, <2>7, TypeParts, NextTypeParts
    DEF Typed, layout, lines, HoldShapes, Closed
  <2> QED
    BY <2>6, <2>8 DEF Typed
<1> QED
  BY <1>1, <1>2, <1>3, <1>4 DEF Stock

\* Units that leave quarantine keep every bin at or above zero.
LEMMA ReturnedTyped ==
    ASSUME Typed, NEW b \in Bins \cup {Receiving}, NEW held \in Nat, NEW passed \in Nat,
           passed <= held, Returned(b, held, passed)
    PROVE  /\ onHand' \in [Places -> Nat]
           /\ onHand'[QC] = onHand[QC] - held
           /\ onHand'[b] = onHand[b] + passed
           /\ \A c \in Bins \ {b} : onHand'[c] = onHand[c]
BY TypeParts, Distinct DEF Typed, Returned

\* Closing one hold keeps the shapes of the others.
LEMMA CloseTyped ==
    ASSUME Typed, NEW H \in SUBSET Holds,
           hold' = [h \in Holds |-> IF h \in H THEN Closed ELSE hold[h]]
    PROVE  hold' \in [Holds -> HoldRecords] /\ HoldShapes'
BY TypeParts DEF Typed, Closed, HoldRecords, HoldShapes

\* QC holds, releases and inspections keep the types.
LEMMA QualityTyped ==
    ASSUME Typed, Quality
    PROVE  Typed'
<1>1. ASSUME NEW r \in Requests, NEW b \in Bins \cup {Receiving}, HoldGate(r, b)
      PROVE  Typed'
  <2>1. onHand[b] \in Nat /\ b \in Places \cup {None} /\ QC \in Places \cup {None}
    BY TypeParts, Distinct DEF Typed
  <2>2. Shape([kind |-> "holding", from |-> b, to |-> QC, qty |-> onHand[b], late |-> OnTime])
    BY <2>1 DEF Shape
  <2>3. Start(r, "holding", b, QC, onHand[b])
    BY <1>1 DEF HoldGate
  <2> QED
    BY <2>1, <2>2, <2>3, StartTyped DEF Kinds
<1>2. ASSUME NEW r \in Requests, NEW h \in Holds, HoldAppend(r, h)
      PROVE  Typed'
  <2>1. cmd[r].from \in Bins \cup {Receiving} /\ cmd[r].qty \in Nat
    BY <1>2 DEF Typed, Shapes, Shape, HoldAppend, Idle
  <2>2. Shift(cmd[r].from, QC, cmd[r].qty) /\ Finish(r) /\ UNCHANGED <<layout, lines, ghosts>>
    BY <1>2 DEF HoldAppend
  <2>3. onHand' \in [Places -> Nat]
    BY <2>1, <2>2, ShiftTyped, Distinct
  <2>4. cmd' \in [Requests -> Commands] /\ Shapes'
    BY <2>2, FinishTyped
  <2>5. hold' \in [Holds -> HoldRecords] /\ HoldShapes'
    BY <1>2, <2>1, TypeParts DEF Typed, HoldAppend, HoldRecords, HoldShapes, Closed
  <2>6. TypeOK'
    BY <2>2, <2>3, <2>4, <2>5, TypeParts, NextTypeParts DEF Typed, layout, lines, ghosts
  <2> QED
    BY <2>4, <2>5, <2>6 DEF Typed
<1>3. ASSUME NEW H \in SUBSET Holds, NEW b \in Bins \cup {Receiving}, NEW held \in Nat,
             NEW passed \in Nat, passed <= held, Returned(b, held, passed),
             hold' = [h \in Holds |-> IF h \in H THEN Closed ELSE hold[h]],
             failed' \in [Lines -> Nat]
      PROVE  Typed'
  <2>1. onHand' \in [Places -> Nat]
    BY <1>3, ReturnedTyped
  <2>2. hold' \in [Holds -> HoldRecords] /\ HoldShapes'
    BY <1>3, CloseTyped
  <2>3. UNCHANGED <<layout, applied, cmd, ghosts>>
    BY <1>3 DEF Returned
  <2>4. TypeOK' /\ Shapes'
    BY <1>3, <2>1, <2>2, <2>3, TypeParts, NextTypeParts
    DEF Typed, layout, lines, ghosts, Shapes, Shape, Idle
  <2> QED
    BY <2>2, <2>4 DEF Typed
<1>4. ASSUME NEW h \in Holds, Open(h), hold' = [hold EXCEPT ![h] = Closed]
      PROVE  /\ hold[h].origin \in Bins \cup {Receiving} /\ hold[h].qty \in Nat
             /\ hold' = [x \in Holds |-> IF x \in {h} THEN Closed ELSE hold[x]]
  BY <1>4, TypeParts DEF Typed, HoldShapes, Open, HoldRecords
<1>5. ASSUME NEW h \in Holds, ReleaseHold(h)
      PROVE  Typed'
  <2>1. /\ Open(h) /\ Returned(hold[h].origin, hold[h].qty, hold[h].qty)
        /\ hold' = [hold EXCEPT ![h] = Closed] /\ UNCHANGED failed
    BY <1>5 DEF ReleaseHold
  <2>2. failed' \in [Lines -> Nat]
    BY <2>1, TypeParts DEF Typed
  <2>3. /\ hold[h].origin \in Bins \cup {Receiving} /\ hold[h].qty \in Nat
        /\ hold' = [x \in Holds |-> IF x \in {h} THEN Closed ELSE hold[x]]
    BY <1>4, <2>1
  <2>4. hold[h].qty <= hold[h].qty
    BY <2>3
  <2> QED
    BY <1>3, <2>1, <2>2, <2>3, <2>4
<1>6. ASSUME NEW h \in Holds, NEW n \in 0 .. MaxReceived, InspectHold(h, n)
      PROVE  Typed'
  <2>0. n \in Nat
    BY FloorConstants
  <2>1. /\ Open(h) /\ n <= hold[h].qty /\ Returned(hold[h].origin, hold[h].qty, n)
        /\ hold' = [hold EXCEPT ![h] = Closed]
    BY <1>6 DEF InspectHold
  <2>2. /\ hold[h].origin \in Bins \cup {Receiving} /\ hold[h].qty \in Nat
        /\ hold' = [x \in Holds |-> IF x \in {h} THEN Closed ELSE hold[x]]
    BY <1>4, <2>1
  <2>3. hold[h].qty - n \in Nat
    BY <2>0, <2>1, <2>2
  <2>4. failed' \in [Lines -> Nat]
    BY <1>6, <2>3, TypeParts DEF Typed, InspectHold
  <2> QED
    BY <1>3, <2>0, <2>1, <2>2, <2>4
<1>7. CASE ReleaseReceiptHolds(Lines)
  <2>1. ReceiptHolds(Lines) \in SUBSET Holds
    BY DEF ReceiptHolds
  <2>2. HeldQty(ReceiptHolds(Lines)) \in Nat
    BY <2>1, HeldType DEF Typed
  <2>3. failed' \in [Lines -> Nat]
    BY <1>7, TypeParts DEF Typed, ReleaseReceiptHolds
  <2> QED
    BY <1>3, <1>7, <2>1, <2>2, <2>3 DEF ReleaseReceiptHolds
<1> QED
  BY <1>1, <1>2, <1>5, <1>6, <1>7 DEF Quality

\* Blocking, retiring, merging and freezing bins keep the types.
LEMMA LayoutTyped ==
    ASSUME Typed, Layout
    PROVE  Typed'
<1>1. ASSUME UNCHANGED <<onHand, hold, lines, cmd, ghosts>>,
             retired' \in SUBSET Bins, blocked' \in SUBSET Bins, frozen' \in SUBSET Bins
      PROVE  Typed'
  BY <1>1, TypeParts, NextTypeParts
  DEF Typed, lines, ghosts, Shapes, Shape, Idle, HoldShapes, Closed
<1>2. ASSUME NEW b \in Bins, Block(b) \/ Unblock(b) \/ RetireBin(b)
      PROVE  Typed'
  BY <1>1, <1>2, TypeParts DEF Typed, Block, Unblock, RetireBin
<1>3. ASSUME NEW r \in Requests, NEW a \in Bins, NEW b \in Bins, MergeGate(r, a, b)
      PROVE  Typed'
  <2>1. onHand[a] \in Nat /\ a \in Places \cup {None} /\ b \in Places \cup {None}
    BY TypeParts, Distinct DEF Typed
  <2>2. Shape([kind |-> "merging", from |-> a, to |-> b, qty |-> onHand[a], late |-> OnTime])
    BY <1>3, <2>1 DEF Shape, MergeGate
  <2>3. Start(r, "merging", a, b, onHand[a])
    BY <1>3 DEF MergeGate
  <2> QED
    BY <2>1, <2>2, <2>3, StartTyped DEF Kinds
<1>4. ASSUME NEW r \in Requests, MergeAppend(r)
      PROVE  Typed'
  <2>1. /\ cmd[r].from \in Bins /\ cmd[r].to \in Bins /\ cmd[r].from # cmd[r].to
        /\ cmd[r].qty \in Nat /\ cmd[r].late \in [Bins -> Nat]
    BY <1>4, TypeParts DEF Typed, Shapes, Shape, MergeAppend, Idle, Commands
  <2>2. Shift(cmd[r].from, cmd[r].to, cmd[r].qty) /\ Finish(r)
        /\ UNCHANGED <<blocked, frozen, hold, lines, adjusted>>
    BY <1>4 DEF MergeAppend
  <2>3. onHand' \in [Places -> Nat]
    BY <2>1, <2>2, ShiftTyped, Distinct
  <2>4. cmd' \in [Requests -> Commands] /\ Shapes'
    BY <2>2, FinishTyped
  <2>5. retired' \in SUBSET Bins /\ slipped' \in [Bins -> Nat]
    BY <1>4, <2>1, TypeParts DEF Typed, MergeAppend
  <2>6. TypeOK' /\ HoldShapes'
    BY <2>2, <2>3, <2>4, <2>5, TypeParts, NextTypeParts DEF Typed, lines, HoldShapes, Closed
  <2> QED
    BY <2>4, <2>6 DEF Typed
<1>5. ASSUME NEW B \in SUBSET Bins, StartStockTake(B) \/ EndStockTake(B)
      PROVE  Typed'
  BY <1>1, <1>5, TypeParts DEF Typed, StartStockTake, EndStockTake
<1> QED
  BY <1>2, <1>3, <1>4, <1>5 DEF Layout

\* Every step keeps the types.
LEMMA NextTyped ==
    ASSUME Typed, [Next]_vars
    PROVE  Typed'
<1>1. CASE Receipts
  BY <1>1, ReceiveTyped, PutawayTyped DEF Receipts
<1>2. CASE Stock
  BY <1>2, StockTyped
<1>3. CASE Quality
  BY <1>3, QualityTyped
<1>4. CASE Layout
  BY <1>4, LayoutTyped
<1>5. ASSUME NEW r \in Requests, Fail(r)
      PROVE  Typed'
  <2>1. Finish(r) /\ UNCHANGED <<onHand, layout, hold, lines, ghosts>>
    BY <1>5 DEF Fail
  <2>2. cmd' \in [Requests -> Commands] /\ Shapes'
    BY <2>1, FinishTyped
  <2> QED
    BY <2>1, <2>2, TypeParts, NextTypeParts
    DEF Typed, layout, lines, ghosts, HoldShapes, Closed
<1>6. CASE UNCHANGED vars
  BY <1>6, TypeParts, NextTypeParts
  DEF Typed, vars, layout, lines, ghosts, HoldShapes, Closed, Shapes, Shape, Idle
<1> QED
  BY <1>1, <1>2, <1>3, <1>4, <1>5, <1>6 DEF Next

\* Whatever the warehouse's bins, lines and requests, no bin is ever below
\* zero, and put-aways, moves and holds name the bins they may name
\* (appendMovement's insufficiency check, assertBinInWarehouse).
THEOREM TypeCorrect == Spec => []TypeOK
<1>1. Init => Typed
  BY InitTyped
<1>2. Typed /\ [Next]_vars => Typed'
  BY NextTyped
<1>3. Typed => TypeOK
  BY DEF Typed
<1> QED
  BY <1>1, <1>2, <1>3, PTL DEF Spec

-----------------------------------------------------------------------------
(* Row locks. *)


\* What the requests in flight rely on: their row locks, and what they read
\* under them.
InFlight == Locks /\ Sources /\ WithinCapacity /\ LandsInOpenBin

\* What is true of the bins whatever is in flight.
Settled == RetiredEmpty /\ HoldsReturnable

\* The inductive invariant of the bins and the requests.
IInv == Typed /\ InFlight /\ Settled

\* The step leaves request q without rows, or as it was, with nothing
\* new in the storage bins it has locked but what its `late' counts.
Kept(q) ==
    \/ cmd'[q].kind \in {"idle", "putaway", "adjusting"}
    \/ /\ cmd'[q].kind = cmd[q].kind /\ cmd'[q].qty = cmd[q].qty
       /\ cmd'[q].from = cmd[q].from /\ cmd'[q].to = cmd[q].to
       /\ \A b \in Rows(cmd[q]) \cap Bins :
             /\ onHand'[b] + cmd[q].late[b] <= onHand[b] + cmd'[q].late[b]
             /\ b \in retired' => b \in retired
             /\ b \in blocked' => b \in blocked
             /\ HoldsOf(b)' \subseteq HoldsOf(b)
             /\ slipped'[b] >= slipped[b]

\* The bins of a request, by its kind.
LEMMA BinsOf ==
    ASSUME Typed, NEW q \in Requests
    PROVE  /\ Landing(q) => cmd[q].to \in Rows(cmd[q]) \cap Bins
           /\ cmd[q].kind = "merging" => cmd[q].from \in Rows(cmd[q]) \cap Bins
           /\ cmd[q].kind = "holding" => cmd[q].from \in Rows(cmd[q])
           /\ cmd[q].qty \in Int /\ cmd[q].late \in [Bins -> Nat]
           /\ cmd[q] \in Commands /\ Shape(cmd[q])
<1>1. cmd[q] \in Commands /\ Shape(cmd[q])
  BY TypeParts DEF Typed, Shapes
<1>2. /\ cmd[q].kind = "placing" => Rows(cmd[q]) = {cmd[q].to}
      /\ cmd[q].kind \in {"moving", "handheld", "merging"} => Rows(cmd[q]) = {cmd[q].from, cmd[q].to}
      /\ cmd[q].kind = "holding" => Rows(cmd[q]) = {cmd[q].from}
  BY RowsOf
<1> QED
  BY <1>1, <1>2 DEF Landing, Shape, Idle, Commands

\* A step that keeps every request keeps what requests rely on.
LEMMA AllKept ==
    ASSUME IInv, Typed', \A q \in Requests : Kept(q)
    PROVE  InFlight'
<1>1. ASSUME NEW q \in Requests
      PROVE  /\ Rows(cmd'[q]) \subseteq Rows(cmd[q])
             /\ Landing(q)' => /\ onHand'[cmd'[q].to] + cmd'[q].qty <= Capacity + cmd'[q].late[cmd'[q].to]
                               /\ cmd'[q].to \notin blocked' \cup retired'
             /\ cmd'[q].kind = "merging" =>
                   /\ cmd'[q].from \notin retired' /\ HoldsOf(cmd[q].from)' = {}
                   /\ onHand'[cmd'[q].from] <= cmd'[q].qty + cmd'[q].late[cmd'[q].from]
             /\ cmd'[q].kind = "holding" /\ cmd'[q].from \in retired' => slipped'[cmd'[q].from] > 0
  <2>1. CASE cmd'[q].kind \in {"idle", "putaway", "adjusting"}
    <3>1. Rows(cmd'[q]) = {}
      BY <2>1, RowsOf
    <3> QED
      BY <2>1, <3>1 DEF Landing
  <2>2. CASE /\ cmd'[q].kind = cmd[q].kind /\ cmd'[q].qty = cmd[q].qty
             /\ cmd'[q].from = cmd[q].from /\ cmd'[q].to = cmd[q].to
             /\ \A b \in Rows(cmd[q]) \cap Bins :
                   /\ onHand'[b] + cmd[q].late[b] <= onHand[b] + cmd'[q].late[b]
                   /\ b \in retired' => b \in retired
                   /\ b \in blocked' => b \in blocked
                   /\ HoldsOf(b)' \subseteq HoldsOf(b)
                   /\ slipped'[b] >= slipped[b]
    <3>1. Rows(cmd'[q]) = Rows(cmd[q])
      BY <2>2 DEF Rows
    <3>2. cmd[q].qty \in Int /\ cmd[q].late \in [Bins -> Nat] /\ cmd'[q].late \in [Bins -> Nat]
      BY BinsOf, NextTypeParts DEF IInv, Typed, Commands
    <3>3. \A b \in Bins : onHand[b] \in Nat /\ onHand'[b] \in Nat
                          /\ slipped[b] \in Nat /\ slipped'[b] \in Nat
      BY Distinct, TypeParts, NextTypeParts DEF IInv, Typed
    <3>4. Landing(q)' => /\ onHand'[cmd'[q].to] + cmd'[q].qty <= Capacity + cmd'[q].late[cmd'[q].to]
                         /\ cmd'[q].to \notin blocked' \cup retired'
      <4> SUFFICES ASSUME Landing(q)
                   PROVE  /\ onHand'[cmd[q].to] + cmd[q].qty <= Capacity + cmd'[q].late[cmd[q].to]
                          /\ cmd[q].to \notin blocked' \cup retired'
        BY <2>2 DEF Landing
      <4>1. cmd[q].to \in Rows(cmd[q]) \cap Bins
        BY BinsOf DEF IInv
      <4>2. onHand[cmd[q].to] + cmd[q].qty <= Capacity + cmd[q].late[cmd[q].to]
        BY DEF IInv, InFlight, WithinCapacity
      <4>3. cmd[q].to \notin blocked \cup retired
        BY DEF IInv, InFlight, LandsInOpenBin
      <4> QED
        BY <2>2, <3>2, <3>3, <4>1, <4>2, <4>3, FloorConstants
    <3>5. cmd'[q].kind = "merging" =>
             /\ cmd'[q].from \notin retired' /\ HoldsOf(cmd[q].from)' = {}
             /\ onHand'[cmd'[q].from] <= cmd'[q].qty + cmd'[q].late[cmd'[q].from]
      <4> SUFFICES ASSUME cmd[q].kind = "merging"
                   PROVE  /\ cmd[q].from \notin retired' /\ HoldsOf(cmd[q].from)' = {}
                          /\ onHand'[cmd[q].from] <= cmd[q].qty + cmd'[q].late[cmd[q].from]
        BY <2>2
      <4>1. cmd[q].from \in Rows(cmd[q]) \cap Bins
        BY BinsOf DEF IInv
      <4>2. /\ cmd[q].from \notin retired /\ HoldsOf(cmd[q].from) = {}
            /\ onHand[cmd[q].from] <= cmd[q].qty + cmd[q].late[cmd[q].from]
        BY DEF IInv, InFlight, Sources
      <4>3. HoldsOf(cmd[q].from)' = {}
        BY <2>2, <4>1, <4>2 DEF HoldsOf
      <4> QED
        BY <2>2, <3>2, <3>3, <4>1, <4>2, <4>3
    <3>6. cmd'[q].kind = "holding" /\ cmd'[q].from \in retired' => slipped'[cmd'[q].from] > 0
      <4> SUFFICES ASSUME cmd[q].kind = "holding", cmd[q].from \in retired'
                   PROVE  slipped'[cmd[q].from] > 0
        BY <2>2
      <4>1. cmd[q].from \in Rows(cmd[q]) \cap Bins
        BY BinsOf, NextTypeParts DEF IInv, Typed
      <4>2. cmd[q].from \in retired => slipped[cmd[q].from] > 0
        BY DEF IInv, InFlight, Sources
      <4> QED
        BY <2>2, <3>3, <4>1, <4>2
    <3> QED
      BY <3>1, <3>4, <3>5, <3>6
  <2> QED
    BY <2>1, <2>2 DEF Kept
<1>2. Locks'
  BY <1>1 DEF IInv, InFlight, Locks
<1>3. Sources'
  BY <1>1 DEF Sources
<1>4. WithinCapacity'
  BY <1>1 DEF WithinCapacity
<1>5. LandsInOpenBin'
  BY <1>1 DEF LandsInOpenBin
<1> QED
  BY <1>2, <1>3, <1>4, <1>5 DEF InFlight

\* A gate: a request takes rows nobody has, and reads what it relies on.
LEMMA GateKept ==
    ASSUME IInv, Typed', NEW r \in Requests, NEW c,
           cmd' = [cmd EXCEPT ![r] = c],
           UNCHANGED <<onHand, layout, hold, lines, ghosts>>,
           \A b \in Rows(c) : Free(b),
           c.kind \in {"placing", "moving", "handheld", "merging"} =>
               Gates(c.to, c.qty),
           c.kind = "merging" =>
               c.from \notin retired /\ HoldsOf(c.from) = {} /\ onHand[c.from] = c.qty,
           c.kind = "holding" => onHand[c.from] > 0
    PROVE  IInv'
<1>0. /\ cmd'[r] = c /\ c \in Commands /\ Shape(c)
      /\ \A q \in Requests \ {r} : cmd'[q] = cmd[q]
  BY TypeParts, NextTypeParts DEF IInv, Typed, Shapes, Shape, Idle
<1>1. UNCHANGED <<onHand, retired, blocked, frozen, hold, slipped>>
  BY DEF layout, ghosts
<1>2. Locks'
  BY <1>0 DEF IInv, InFlight, Locks, Free
<1>3. c.qty \in Int /\ c.late \in [Bins -> Nat]
  BY <1>0 DEF Commands
<1>4. ASSUME NEW q \in Requests \ {r}
      PROVE  /\ Landing(q)' => /\ onHand'[cmd'[q].to] + cmd'[q].qty <= Capacity + cmd'[q].late[cmd'[q].to]
                               /\ cmd'[q].to \notin blocked' \cup retired'
             /\ cmd'[q].kind = "merging" =>
                   /\ cmd'[q].from \notin retired' /\ HoldsOf(cmd[q].from)' = {}
                   /\ onHand'[cmd'[q].from] <= cmd'[q].qty + cmd'[q].late[cmd'[q].from]
             /\ cmd'[q].kind = "holding" /\ cmd'[q].from \in retired' => slipped'[cmd'[q].from] > 0
  BY <1>0, <1>1 DEF IInv, InFlight, Landing, WithinCapacity, LandsInOpenBin, Sources, HoldsOf
<1>5. Landing(r)' => /\ onHand'[cmd'[r].to] + cmd'[r].qty <= Capacity + cmd'[r].late[cmd'[r].to]
                     /\ cmd'[r].to \notin blocked' \cup retired'
  <2> SUFFICES ASSUME c.kind \in {"placing", "moving", "handheld", "merging"}
               PROVE  /\ onHand[c.to] + c.qty <= Capacity + c.late[c.to]
                      /\ c.to \notin blocked \cup retired
    BY <1>0, <1>1 DEF Landing
  <2>1. Gates(c.to, c.qty)
    OBVIOUS
  <2>2. c.to \in Bins
    BY <1>0 DEF Shape, Idle
  <2>3. onHand[c.to] \in Nat
    BY <2>2, TypeParts, Distinct DEF IInv, Typed
  <2>4. c.late[c.to] \in Nat
    BY <1>3, <2>2
  <2> QED
    BY <1>3, <2>1, <2>3, <2>4, FloorConstants DEF Gates
<1>6. cmd'[r].kind = "merging" =>
         /\ cmd'[r].from \notin retired' /\ HoldsOf(cmd[r].from)' = {}
         /\ onHand'[cmd'[r].from] <= cmd'[r].qty + cmd'[r].late[cmd'[r].from]
  <2> SUFFICES ASSUME c.kind = "merging"
               PROVE  /\ c.from \notin retired /\ HoldsOf(c.from) = {}
                      /\ onHand[c.from] <= c.qty + c.late[c.from]
    BY <1>0, <1>1 DEF HoldsOf
  <2>1. c.late[c.from] \in Nat
    BY <1>0, <1>3 DEF Shape, Idle
  <2> QED
    BY <1>3, <2>1
<1>7. cmd'[r].kind = "holding" /\ cmd'[r].from \in retired' => slipped'[cmd'[r].from] > 0
  <2> SUFFICES ASSUME c.kind = "holding", c.from \in retired
               PROVE  slipped[c.from] > 0
    BY <1>0, <1>1
  <2>1. onHand[c.from] > 0 /\ onHand[c.from] <= slipped[c.from]
    BY DEF IInv, Settled, RetiredEmpty
  <2>2. onHand[c.from] \in Nat /\ slipped[c.from] \in Nat
    BY TypeParts, Distinct DEF IInv, Typed
  <2> QED
    BY <2>1, <2>2
<1>8. Sources' /\ WithinCapacity' /\ LandsInOpenBin'
  BY <1>4, <1>5, <1>6, <1>7 DEF Sources, WithinCapacity, LandsInOpenBin
<1>9. Settled'
  BY <1>1 DEF IInv, Settled, RetiredEmpty, HoldsReturnable, Open, Closed
<1> QED
  BY <1>2, <1>8, <1>9 DEF IInv, InFlight

\* A gate that starts a request.
LEMMA StartKept ==
    ASSUME IInv, Typed', NEW r \in Requests, NEW kind, NEW from, NEW to, NEW n,
           Start(r, kind, from, to, n),
           \A b \in Rows([kind |-> kind, from |-> from, to |-> to, qty |-> n, late |-> OnTime]) : Free(b),
           kind \in {"placing", "moving", "handheld", "merging"} => Gates(to, n),
           kind = "merging" => from \notin retired /\ HoldsOf(from) = {} /\ onHand[from] = n,
           kind = "holding" => onHand[from] > 0
    PROVE  IInv'
<1> DEFINE c == [kind |-> kind, from |-> from, to |-> to, qty |-> n, late |-> OnTime]
<1>1. /\ cmd' = [cmd EXCEPT ![r] = c]
      /\ UNCHANGED <<onHand, layout, hold, lines, ghosts>>
  BY DEF Start
<1>2. c.kind = kind /\ c.from = from /\ c.to = to /\ c.qty = n
  OBVIOUS
<1>3. \A b \in Rows(c) : Free(b)
  OBVIOUS
<1> HIDE DEF c
<1> QED
  BY <1>1, <1>2, <1>3, GateKept

\* Every gate keeps the invariant.
LEMMA GatesKeep ==
    ASSUME IInv, Typed', NEW r \in Requests,
           \/ \E l \in Lines, b \in Bins, n \in Amounts : PutawayRead(r, l, b, n)
           \/ PutawayGate(r)
           \/ \E a, b \in Bins, n \in Amounts, kind \in {"moving", "handheld"} :
                 MoveGate(r, a, b, n, kind)
           \/ \E b \in Places, n \in {-1, 1} : AdjustCheck(r, b, n)
           \/ \E b \in Bins \cup {Receiving} : HoldGate(r, b)
           \/ \E a, b \in Bins : MergeGate(r, a, b)
    PROVE  IInv'
<1>1. ASSUME NEW l \in Lines, NEW b \in Bins, NEW n \in Amounts, PutawayRead(r, l, b, n)
      PROVE  IInv'
  <2>1. Rows([kind |-> "putaway", from |-> Receiving, to |-> b, qty |-> n, late |-> OnTime]) = {}
    BY DEF Rows
  <2> QED
    BY <1>1, <2>1, StartKept DEF PutawayRead
<1>2. CASE PutawayGate(r)
  <2> DEFINE c == [cmd[r] EXCEPT !.kind = "placing"]
  <2>1. cmd[r] \in Commands
    BY TypeParts DEF IInv, Typed
  <2>2. c.kind = "placing" /\ c.to = cmd[r].to /\ c.qty = cmd[r].qty
    BY <2>1 DEF Commands
  <2>3. Rows(c) = {cmd[r].to}
    BY <2>2, RowsOf
  <2>4. cmd' = [cmd EXCEPT ![r] = c] /\ UNCHANGED <<onHand, layout, hold, lines, ghosts>>
    BY <1>2 DEF PutawayGate
  <2>5. Free(cmd[r].to) /\ Gates(cmd[r].to, cmd[r].qty)
    BY <1>2 DEF PutawayGate
  <2> HIDE DEF c
  <2> QED
    BY <2>2, <2>3, <2>4, <2>5, GateKept
<1>3. ASSUME NEW a \in Bins, NEW b \in Bins, NEW n \in Amounts, NEW kind \in {"moving", "handheld"},
             MoveGate(r, a, b, n, kind)
      PROVE  IInv'
  <2>1. Rows([kind |-> kind, from |-> a, to |-> b, qty |-> n, late |-> OnTime]) = {a, b}
    BY DEF Rows
  <2>2. Free(a) /\ Free(b) /\ Gates(b, n) /\ Start(r, kind, a, b, n)
    BY <1>3 DEF MoveGate
  <2> QED
    BY <2>1, <2>2, StartKept
<1>4. ASSUME NEW b \in Places, NEW n \in {-1, 1}, AdjustCheck(r, b, n)
      PROVE  IInv'
  <2>1. Rows([kind |-> "adjusting", from |-> None, to |-> b, qty |-> n, late |-> OnTime]) = {}
    BY DEF Rows
  <2> QED
    BY <1>4, <2>1, StartKept DEF AdjustCheck
<1>5. ASSUME NEW b \in Bins \cup {Receiving}, HoldGate(r, b)
      PROVE  IInv'
  <2>1. Rows([kind |-> "holding", from |-> b, to |-> QC, qty |-> onHand[b], late |-> OnTime]) = {b}
    BY DEF Rows
  <2>2. Free(b) /\ onHand[b] > 0 /\ Start(r, "holding", b, QC, onHand[b])
    BY <1>5 DEF HoldGate
  <2> QED
    BY <2>1, <2>2, StartKept
<1>6. ASSUME NEW a \in Bins, NEW b \in Bins, MergeGate(r, a, b)
      PROVE  IInv'
  <2>1. Rows([kind |-> "merging", from |-> a, to |-> b, qty |-> onHand[a], late |-> OnTime]) = {a, b}
    BY DEF Rows
  <2>2. /\ Free(a) /\ Free(b) /\ Gates(b, onHand[a]) /\ Start(r, "merging", a, b, onHand[a])
        /\ a \notin retired /\ HoldsOf(a) = {}
    BY <1>6 DEF MergeGate
  <2> QED
    BY <2>1, <2>2, StartKept
<1> QED
  BY <1>1, <1>2, <1>3, <1>4, <1>5, <1>6

-----------------------------------------------------------------------------
(* Bookings. *)

\* A request that books its movement and ends disturbs no other one: what it
\* touched was locked by it alone.
LEMMA BookingKept ==
    ASSUME IInv, Typed', NEW r \in Requests, Finish(r),
           \A b \in Bins \ Rows(cmd[r]) :
               /\ onHand'[b] = onHand[b] /\ slipped'[b] = slipped[b]
               /\ b \in retired' => b \in retired
               /\ HoldsOf(b)' \subseteq HoldsOf(b),
           UNCHANGED blocked
    PROVE  InFlight'
<1>1. cmd'[r] = Idle /\ \A q \in Requests \ {r} : cmd'[q] = cmd[q]
  BY TypeParts DEF IInv, Typed, Finish
<1>2. Kept(r)
  BY <1>1 DEF Kept, Idle
<1>3. ASSUME NEW q \in Requests \ {r}
      PROVE  Kept(q)
  <2>1. cmd'[q] = cmd[q]
    BY <1>1
  <2>2. Rows(cmd[q]) \cap Rows(cmd[r]) = {}
    BY DEF IInv, InFlight, Locks
  <2>3. \A b \in Bins : onHand[b] \in Nat /\ slipped[b] \in Nat
    BY TypeParts, Distinct DEF IInv, Typed
  <2>4. cmd[q].late \in [Bins -> Nat]
    BY BinsOf DEF IInv
  <2> QED
    BY <2>1, <2>2, <2>3, <2>4 DEF Kept
<1> QED
  BY <1>2, <1>3, AllKept

\* Put-away and moves: the bin they fill is live.
LEMMA LandingKept ==
    ASSUME IInv, Typed', NEW r \in Requests, PutawayAppend(r) \/ MoveAppend(r)
    PROVE  IInv'
<1> DEFINE a == cmd[r].from
           b == cmd[r].to
           n == cmd[r].qty
<1>1. /\ a \in Places /\ b \in Bins /\ a # b /\ n \in Nat /\ Landing(r)
      /\ Shift(a, b, n) /\ Finish(r) /\ UNCHANGED <<layout, hold, lines, ghosts>>
      /\ Rows(cmd[r]) = {a, b} \cap Bins
  <2>1. CASE PutawayAppend(r)
    <3>1. cmd[r].kind = "placing" /\ a = Receiving /\ b \in Bins /\ n \in Nat
      BY <2>1, BinsOf DEF IInv, PutawayAppend, Shape, Idle
    <3>2. Rows(cmd[r]) = {b}
      BY <3>1, RowsOf
    <3> QED
      BY <2>1, <3>1, <3>2, Distinct DEF PutawayAppend, Landing
  <2>2. CASE MoveAppend(r)
    <3>1. cmd[r].kind \in {"moving", "handheld"} /\ a \in Bins /\ b \in Bins /\ a # b /\ n \in Nat
      BY <2>2, BinsOf DEF IInv, MoveAppend, Shape, Idle
    <3>2. Rows(cmd[r]) = {a, b}
      BY <3>1, RowsOf
    <3> QED
      BY <2>2, <3>1, <3>2, Distinct DEF MoveAppend, Landing
  <2> QED
    BY <2>1, <2>2
<1>2. /\ onHand'[a] = onHand[a] - n /\ onHand'[b] = onHand[b] + n
      /\ \A c \in Places \ {a, b} : onHand'[c] = onHand[c]
  BY <1>1, ShiftTyped, Distinct DEF IInv
<1>3. UNCHANGED <<retired, blocked, hold, slipped>>
  BY <1>1 DEF layout, ghosts
<1>4. b \notin retired
  BY <1>1 DEF IInv, InFlight, LandsInOpenBin
<1> HIDE DEF a, b, n
<1>5. InFlight'
  BY <1>1, <1>2, <1>3, BookingKept, Distinct DEF HoldsOf
<1>6. RetiredEmpty'
  <2> SUFFICES ASSUME NEW c \in retired
               PROVE  onHand'[c] <= slipped[c]
    BY <1>3 DEF RetiredEmpty
  <2>1. c \in Bins /\ onHand[c] \in Nat /\ slipped[c] \in Nat /\ c \in Places
    BY TypeParts, Distinct DEF IInv, Typed
  <2>2. onHand[c] <= slipped[c]
    BY DEF IInv, Settled, RetiredEmpty
  <2>3. onHand'[c] <= onHand[c]
    BY <1>1, <1>2, <1>4, <2>1
  <2>4. onHand'[c] \in Nat
    BY <2>1, NextTypeParts DEF Typed
  <2> QED
    BY <2>1, <2>2, <2>3, <2>4
<1>7. HoldsReturnable'
  BY <1>3 DEF IInv, Settled, HoldsReturnable, Open, Closed
<1> QED
  BY <1>5, <1>6, <1>7 DEF IInv, Settled

\* A hold takes what it read out of its bin; if the bin is retired, the units
\* came from an adjustment.
LEMMA HoldKept ==
    ASSUME IInv, Typed', NEW r \in Requests, NEW h \in Holds, HoldAppend(r, h)
    PROVE  IInv'
<1> DEFINE a == cmd[r].from
           n == cmd[r].qty
<1>1. /\ a \in Bins \cup {Receiving} /\ n \in Nat /\ Rows(cmd[r]) = {a}
      /\ cmd[r].kind = "holding"
  <2>1. cmd[r].kind = "holding" /\ Shape(cmd[r])
    BY BinsOf DEF IInv, HoldAppend
  <2> QED
    BY <2>1, RowsOf DEF Shape, Idle
<1>2. /\ Shift(a, QC, n) /\ Finish(r) /\ UNCHANGED <<retired, blocked, slipped>>
      /\ hold' = [hold EXCEPT ![h] = [line |-> None, origin |-> a, qty |-> n]]
  BY DEF HoldAppend, layout, ghosts
<1>3. a \in retired => slipped[a] > 0
  BY <1>1 DEF IInv, InFlight, Sources
<1> HIDE DEF a, n
<1>4. /\ onHand'[a] = onHand[a] - n
      /\ \A c \in Places \ {a, QC} : onHand'[c] = onHand[c]
  BY <1>1, <1>2, ShiftTyped, Distinct DEF IInv
<1>5. hold'[h].origin = a /\ \A x \in Holds \ {h} : hold'[x] = hold[x]
  BY <1>2, TypeParts DEF IInv, Typed
<1>6. InFlight'
  <2>1. \A b \in Bins \ Rows(cmd[r]) : HoldsOf(b)' \subseteq HoldsOf(b)
    BY <1>1, <1>5 DEF HoldsOf
  <2> QED
    BY <1>1, <1>2, <1>4, <2>1, BookingKept, Distinct
<1>7. RetiredEmpty'
  <2> SUFFICES ASSUME NEW c \in retired
               PROVE  onHand'[c] <= slipped[c]
    BY <1>2 DEF RetiredEmpty
  <2>1. /\ c \in Bins /\ onHand[c] \in Nat /\ slipped[c] \in Nat /\ c \in Places /\ c # QC
        /\ onHand'[c] \in Nat
    BY TypeParts, NextTypeParts, Distinct DEF IInv, Typed
  <2>2. onHand[c] <= slipped[c]
    BY DEF IInv, Settled, RetiredEmpty
  <2> QED
    BY <1>1, <1>4, <2>1, <2>2
<1>8. HoldsReturnable'
  BY <1>2, <1>3, <1>5 DEF IInv, Settled, HoldsReturnable, Open, Closed
<1> QED
  BY <1>6, <1>7, <1>8 DEF IInv, Settled

\* A merge empties its source but for what adjustments put there since it was
\* read, and nothing is held from it.
LEMMA MergeKept ==
    ASSUME IInv, Typed', NEW r \in Requests, MergeAppend(r)
    PROVE  IInv'
<1> DEFINE a == cmd[r].from
           b == cmd[r].to
           n == cmd[r].qty
           late == cmd[r].late[a]
<1>1. /\ a \in Bins /\ b \in Bins /\ a # b /\ n \in Nat /\ late \in Nat
      /\ Rows(cmd[r]) = {a, b} /\ cmd[r].kind = "merging" /\ Landing(r)
  <2>1. cmd[r].kind = "merging" /\ Shape(cmd[r]) /\ late \in Nat
    BY BinsOf DEF IInv, MergeAppend
  <2> QED
    BY <2>1, RowsOf DEF Shape, Idle, Landing
<1>2. /\ Shift(a, b, n) /\ Finish(r) /\ UNCHANGED <<blocked, hold>>
      /\ retired' = retired \cup {a} /\ slipped' = [slipped EXCEPT ![a] = late]
  BY DEF MergeAppend
<1>3. a \notin retired /\ HoldsOf(a) = {} /\ onHand[a] <= n + late
  BY <1>1 DEF IInv, InFlight, Sources
<1>4. b \notin retired
  BY <1>1 DEF IInv, InFlight, LandsInOpenBin
<1> HIDE DEF a, b, n, late
<1>5. /\ onHand'[a] = onHand[a] - n /\ onHand'[b] = onHand[b] + n
      /\ \A c \in Places \ {a, b} : onHand'[c] = onHand[c]
  BY <1>1, <1>2, ShiftTyped, Distinct DEF IInv
<1>6. slipped'[a] = late /\ \A c \in Bins \ {a} : slipped'[c] = slipped[c]
  BY <1>1, <1>2, TypeParts DEF IInv, Typed
<1>7. InFlight'
  <2>1. \A c \in Bins \ Rows(cmd[r]) : HoldsOf(c)' \subseteq HoldsOf(c)
    BY <1>2 DEF HoldsOf
  <2> QED
    BY <1>1, <1>2, <1>5, <1>6, <2>1, BookingKept, Distinct
<1>8. RetiredEmpty'
  <2> SUFFICES ASSUME NEW c \in retired \cup {a}
               PROVE  onHand'[c] <= slipped'[c]
    BY <1>2 DEF RetiredEmpty
  <2>1. c \in Bins /\ onHand[c] \in Nat /\ slipped[c] \in Nat /\ c \in Places
    BY <1>1, TypeParts, Distinct DEF IInv, Typed
  <2>2. c # a => c \in retired /\ onHand[c] <= slipped[c]
    BY DEF IInv, Settled, RetiredEmpty
  <2> QED
    BY <1>1, <1>3, <1>4, <1>5, <1>6, <2>1, <2>2
<1>9. HoldsReturnable'
  <2> SUFFICES ASSUME NEW h \in Holds, Open(h), hold[h].origin \in retired \cup {a}
               PROVE  slipped'[hold[h].origin] > 0
    BY <1>2 DEF HoldsReturnable, Open, Closed
  <2>1. hold[h].origin # a
    BY <1>3 DEF HoldsOf
  <2>2. slipped[hold[h].origin] > 0 /\ hold[h].origin \in Bins
    BY <2>1, TypeParts DEF IInv, Typed, Settled, HoldsReturnable
  <2> QED
    BY <1>6, <2>1, <2>2
<1> QED
  BY <1>7, <1>8, <1>9 DEF IInv, Settled

\* A step that leaves the requests alone, and every bin a request has locked.
LEMMA IdleKept ==
    ASSUME IInv, Typed', UNCHANGED <<cmd, slipped>>,
           \A b \in Bins : ~ Free(b) =>
               /\ onHand'[b] = onHand[b]
               /\ b \in retired' => b \in retired
               /\ b \in blocked' => b \in blocked
               /\ HoldsOf(b)' \subseteq HoldsOf(b)
    PROVE  InFlight'
<1>1. ASSUME NEW q \in Requests
      PROVE  Kept(q)
  <2>1. \A b \in Bins : onHand[b] \in Nat /\ slipped[b] \in Nat
    BY TypeParts, Distinct DEF IInv, Typed
  <2>2. cmd[q].late \in [Bins -> Nat]
    BY BinsOf DEF IInv
  <2>3. \A b \in Rows(cmd[q]) \cap Bins : ~ Free(b)
    BY DEF Free
  <2> QED
    BY <2>1, <2>2, <2>3 DEF Kept
<1> QED
  BY <1>1, AllKept

\* A receipt fills no storage bin.
LEMMA ReceiveKept ==
    ASSUME IInv, Typed', NEW l \in Lines, NEW n \in Amounts, NEW h \in Holds \cup {None},
           Receive(l, n, h)
    PROVE  IInv'
<1>1. UNCHANGED <<retired, blocked, cmd, slipped>>
  BY DEF Receive, layout, ghosts
<1>2. \A b \in Bins : onHand'[b] = onHand[b]
  BY TypeParts, Distinct DEF IInv, Typed, Receive
<1>3. \A x \in Holds : hold'[x] = hold[x] \/ hold'[x].origin = Receiving
  BY TypeParts DEF IInv, Typed, Receive
<1>4. InFlight'
  <2>1. \A b \in Bins : HoldsOf(b)' \subseteq HoldsOf(b)
    BY <1>3, Distinct DEF HoldsOf
  <2> QED
    BY <1>1, <1>2, <2>1, IdleKept
<1>5. RetiredEmpty'
  BY <1>1, <1>2, TypeParts DEF IInv, Typed, Settled, RetiredEmpty
<1>6. HoldsReturnable'
  BY <1>1, <1>3, TypeParts, Distinct DEF IInv, Typed, Settled, HoldsReturnable, Open, Closed
<1> QED
  BY <1>4, <1>5, <1>6 DEF IInv, Settled

\* Units return only to a bin that is live and that nobody has locked.
LEMMA ReturnedKept ==
    ASSUME IInv, Typed', NEW H \in SUBSET Holds, NEW b \in Bins \cup {Receiving},
           NEW held \in Nat, NEW passed \in Nat, passed <= held, Returned(b, held, passed),
           hold' = [h \in Holds |-> IF h \in H THEN Closed ELSE hold[h]]
    PROVE  IInv'
<1>1. UNCHANGED <<retired, blocked, cmd, slipped>>
  BY DEF Returned, layout, ghosts
<1>2. onHand'[b] = onHand[b] + passed /\ \A c \in Bins \ {b} : onHand'[c] = onHand[c]
  BY ReturnedTyped DEF IInv
<1>3. passed > 0 => Free(b) /\ b \notin retired
  BY DEF Returned
<1>4. \A x \in Holds : hold'[x] = hold[x] \/ hold'[x] = Closed
  OBVIOUS
<1>5. \A c \in Bins : onHand[c] \in Nat
  BY TypeParts, Distinct DEF IInv, Typed
<1>6. \A c \in Bins : onHand'[c] # onHand[c] => Free(c) /\ c \notin retired
  BY <1>2, <1>3, <1>5
<1>7. InFlight'
  <2>1. \A c \in Bins : HoldsOf(c)' \subseteq HoldsOf(c)
    BY <1>4, Distinct DEF HoldsOf, Closed
  <2> QED
    BY <1>1, <1>6, <2>1, IdleKept
<1>8. RetiredEmpty'
  BY <1>1, <1>6, TypeParts DEF IInv, Typed, Settled, RetiredEmpty
<1>9. HoldsReturnable'
  BY <1>1, <1>4 DEF IInv, Settled, HoldsReturnable, Open, Closed
<1> QED
  BY <1>7, <1>8, <1>9 DEF IInv, Settled

\* What ends holds is such a return, of one hold or of a receipt's.
LEMMA EndsHolds ==
    ASSUME Typed,
           \/ \E h \in Holds : ReleaseHold(h) \/ \E n \in 0 .. MaxReceived : InspectHold(h, n)
           \/ ReleaseReceiptHolds(Lines)
    PROVE  \E H \in SUBSET Holds, b \in Bins \cup {Receiving}, passed \in Nat :
              /\ HeldQty(H) \in Nat /\ passed <= HeldQty(H)
              /\ Returned(b, HeldQty(H), passed)
              /\ hold' = [h \in Holds |-> IF h \in H THEN Closed ELSE hold[h]]
<1>1. ASSUME NEW h \in Holds, NEW n \in Nat, Open(h), n <= hold[h].qty,
             Returned(hold[h].origin, hold[h].qty, n), hold' = [hold EXCEPT ![h] = Closed]
      PROVE  \E H \in SUBSET Holds, b \in Bins \cup {Receiving}, passed \in Nat :
                /\ HeldQty(H) \in Nat /\ passed <= HeldQty(H)
                /\ Returned(b, HeldQty(H), passed)
                /\ hold' = [x \in Holds |-> IF x \in H THEN Closed ELSE hold[x]]
  <2> DEFINE f == [x \in {h} |-> hold[x].qty]
  <2>1. hold[h].origin \in Bins \cup {Receiving} /\ hold[h].qty \in Nat
    BY <1>1, TypeParts DEF Typed, HoldShapes, Open, HoldRecords
  <2>2. HeldQty({h}) = hold[h].qty
    <3>1. IsFiniteSet({h}) /\ {h} \ {h} = {}
      BY FS_Singleton
    <3>2. \A x \in {h} : f[x] \in Nat
      BY <2>1
    <3>3. f[h] = hold[h].qty
      OBVIOUS
    <3> HIDE DEF f
    <3>4. Total({h}, f) = Total({}, f) + f[h]
      BY <3>1, <3>2, TotalRemove
    <3>5. Total({h}, f) = hold[h].qty
      BY <2>1, <3>3, <3>4, TotalEmpty
    <3> QED
      BY <3>5 DEF HeldQty, f
  <2>3. hold' = [x \in Holds |-> IF x \in {h} THEN Closed ELSE hold[x]]
    BY <1>1, TypeParts DEF Typed
  <2>4. {h} \in SUBSET Holds
    OBVIOUS
  <2>5. /\ HeldQty({h}) \in Nat /\ n <= HeldQty({h})
        /\ Returned(hold[h].origin, HeldQty({h}), n)
    BY <1>1, <2>1, <2>2
  <2> HIDE DEF f
  <2> USE <2>1, <2>4
  <2> WITNESS {h} \in SUBSET Holds, hold[h].origin \in Bins \cup {Receiving}, n \in Nat
  <2> QED
    BY <2>3, <2>5
<1>2. ASSUME NEW h \in Holds, ReleaseHold(h)
      PROVE  /\ hold[h].qty \in Nat /\ hold[h].qty <= hold[h].qty /\ Open(h)
             /\ Returned(hold[h].origin, hold[h].qty, hold[h].qty)
             /\ hold' = [hold EXCEPT ![h] = Closed]
  <2>1. hold[h].qty \in Nat
    BY TypeParts DEF Typed, HoldRecords
  <2> QED
    BY <1>2, <2>1 DEF ReleaseHold
<1>3. ASSUME NEW h \in Holds, NEW n \in 0 .. MaxReceived, InspectHold(h, n)
      PROVE  /\ n \in Nat /\ n <= hold[h].qty /\ Open(h)
             /\ Returned(hold[h].origin, hold[h].qty, n)
             /\ hold' = [hold EXCEPT ![h] = Closed]
  BY <1>3, FloorConstants DEF InspectHold
<1>4. CASE ReleaseReceiptHolds(Lines)
  <2>1. ReceiptHolds(Lines) \in SUBSET Holds
    BY DEF ReceiptHolds
  <2>2. HeldQty(ReceiptHolds(Lines)) \in Nat
    BY <2>1, HeldType DEF Typed
  <2> QED
    BY <1>4, <2>1, <2>2 DEF ReleaseReceiptHolds
<1> QED
  BY <1>1, <1>2, <1>3, <1>4

\* An adjustment takes no lock, and is counted by every request it disturbs.
LEMMA AdjustKept ==
    ASSUME IInv, Typed', NEW r \in Requests, AdjustAppend(r)
    PROVE  IInv'
<1> DEFINE b == cmd[r].to
           n == cmd[r].qty
           added == IF n > 0 THEN n ELSE 0
<1>1. b \in Places /\ n \in Int /\ added \in Nat /\ n <= added
  <2>1. Shape(cmd[r]) /\ cmd[r].kind = "adjusting" /\ n \in Int
    BY BinsOf DEF IInv, AdjustAppend
  <2> QED
    BY <2>1 DEF Shape, Idle
<1>2. onHand'[b] = onHand[b] + n /\ \A c \in Places \ {b} : onHand'[c] = onHand[c]
  BY <1>1, TypeParts DEF IInv, Typed, AdjustAppend
<1>3. /\ \A c \in Bins \ {b} : slipped'[c] = slipped[c]
      /\ b \in Bins => slipped'[b] = slipped[b] + IF b \in retired THEN added ELSE 0
  BY <1>1, TypeParts DEF IInv, Typed, AdjustAppend
<1>4. cmd'[r] = Idle
  BY DEF AdjustAppend
<1>5. ASSUME NEW q \in Requests \ {r}
      PROVE  /\ cmd'[q].kind = cmd[q].kind /\ cmd'[q].qty = cmd[q].qty
             /\ cmd'[q].from = cmd[q].from /\ cmd'[q].to = cmd[q].to
             /\ \A c \in Bins : cmd'[q].late[c] =
                   cmd[q].late[c] + IF c = b /\ b \in Rows(cmd[q]) THEN added ELSE 0
  <2>1. cmd[q] \in Commands
    BY TypeParts DEF IInv, Typed
  <2>2. cmd'[q] = [cmd[q] EXCEPT !.late = [c \in Bins |->
             cmd[q].late[c] + IF c = b /\ b \in Rows(cmd[q]) THEN added ELSE 0]]
    BY DEF AdjustAppend
  <2> HIDE DEF b, added
  <2> QED
    BY <2>1, <2>2 DEF Commands
<1>6. UNCHANGED <<retired, blocked, hold>>
  BY DEF AdjustAppend, layout
<1>7. \A c \in Bins : /\ onHand[c] \in Nat /\ slipped[c] \in Nat /\ onHand'[c] \in Nat /\ c \in Places
  BY TypeParts, NextTypeParts, Distinct DEF IInv, Typed
<1> HIDE DEF b, n, added
<1>8. ASSUME NEW q \in Requests
      PROVE  Kept(q)
  <2>1. CASE q = r
    BY <1>4, <2>1 DEF Kept, Idle
  <2>2. CASE q # r
    <3>1. cmd[q].late \in [Bins -> Nat]
      BY BinsOf DEF IInv
    <3>2. \A c \in Rows(cmd[q]) \cap Bins :
             /\ onHand'[c] + cmd[q].late[c] <= onHand[c] + cmd'[q].late[c]
             /\ slipped'[c] >= slipped[c]
      BY <1>1, <1>2, <1>3, <1>5, <1>7, <2>2, <3>1
    <3>3. \A c \in Bins : HoldsOf(c)' \subseteq HoldsOf(c)
      BY <1>6 DEF HoldsOf
    <3> QED
      BY <1>5, <1>6, <2>2, <3>2, <3>3 DEF Kept
  <2> QED
    BY <2>1, <2>2
<1>9. InFlight'
  BY <1>8, AllKept
<1>10. RetiredEmpty'
  <2> SUFFICES ASSUME NEW c \in retired
               PROVE  onHand'[c] <= slipped'[c]
    BY <1>6 DEF RetiredEmpty
  <2>1. c \in Bins /\ onHand[c] <= slipped[c]
    BY TypeParts DEF IInv, Typed, Settled, RetiredEmpty
  <2> QED
    BY <1>1, <1>2, <1>3, <1>7, <2>1
<1>11. HoldsReturnable'
  <2> SUFFICES ASSUME NEW h \in Holds, Open(h), hold[h].origin \in retired
               PROVE  slipped'[hold[h].origin] > 0
    BY <1>6 DEF HoldsReturnable, Open, Closed
  <2>1. slipped[hold[h].origin] > 0 /\ hold[h].origin \in Bins
    BY TypeParts DEF IInv, Typed, Settled, HoldsReturnable
  <2> QED
    BY <1>1, <1>3, <1>7, <2>1
<1> QED
  BY <1>9, <1>10, <1>11 DEF IInv, Settled

\* Blocking and retiring a bin wait for its row.
LEMMA BinKept ==
    ASSUME IInv, Typed',
           \/ \E b \in Bins : Block(b) \/ Unblock(b) \/ RetireBin(b)
           \/ \E B \in SUBSET Bins : StartStockTake(B) \/ EndStockTake(B)
    PROVE  IInv'
<1>1. UNCHANGED <<onHand, hold, cmd, slipped>>
  BY DEF Block, Unblock, RetireBin, StartStockTake, EndStockTake, ghosts
<1>2. ASSUME NEW b \in Bins
      PROVE  /\ b \in retired' \ retired => Free(b) /\ onHand[b] = 0 /\ HoldsOf(b) = {}
             /\ b \in blocked' \ blocked => Free(b)
  BY DEF Block, Unblock, RetireBin, StartStockTake, EndStockTake
<1>3. retired' \subseteq Bins /\ \A b \in Bins : slipped[b] \in Nat
  BY TypeParts, NextTypeParts DEF IInv, Typed
<1>4. InFlight'
  <2>1. \A b \in Bins : HoldsOf(b)' \subseteq HoldsOf(b)
    BY <1>1 DEF HoldsOf
  <2> QED
    BY <1>1, <1>2, <2>1, IdleKept
<1>5. RetiredEmpty'
  BY <1>1, <1>2, <1>3 DEF IInv, Settled, RetiredEmpty
<1>6. HoldsReturnable'
  BY <1>1, <1>2, <1>3 DEF IInv, Settled, HoldsReturnable, Open, Closed, HoldsOf
<1> QED
  BY <1>4, <1>5, <1>6 DEF IInv, Settled

\* A request that fails gives its rows back.
LEMMA FailKept ==
    ASSUME IInv, Typed', NEW r \in Requests, Fail(r)
    PROVE  IInv'
<1>1. Finish(r) /\ UNCHANGED <<onHand, retired, blocked, hold, slipped>>
  BY DEF Fail, layout, ghosts
<1>2. InFlight'
  BY <1>1, BookingKept DEF HoldsOf
<1>3. Settled'
  BY <1>1 DEF IInv, Settled, RetiredEmpty, HoldsReturnable, Open, Closed
<1> QED
  BY <1>2, <1>3 DEF IInv

\* Every step keeps the invariant.
LEMMA NextKept ==
    ASSUME IInv, [Next]_vars
    PROVE  IInv'
<1>0. Typed'
  BY NextTyped DEF IInv
<1>1. CASE Receipts
  BY <1>0, <1>1, ReceiveKept, GatesKeep, LandingKept DEF Receipts
<1>2. CASE Stock
  BY <1>0, <1>2, GatesKeep, LandingKept, AdjustKept DEF Stock
<1>3. CASE Quality
  <2>1. ASSUME \/ \E h \in Holds : ReleaseHold(h) \/ \E n \in 0 .. MaxReceived : InspectHold(h, n)
               \/ ReleaseReceiptHolds(Lines)
        PROVE  IInv'
    <3>1. PICK H \in SUBSET Holds, b \in Bins \cup {Receiving}, passed \in Nat :
             /\ HeldQty(H) \in Nat /\ passed <= HeldQty(H)
             /\ Returned(b, HeldQty(H), passed)
             /\ hold' = [h \in Holds |-> IF h \in H THEN Closed ELSE hold[h]]
      BY <2>1, EndsHolds DEF IInv
    <3> QED
      BY <1>0, <3>1, ReturnedKept
  <2> QED
    BY <1>0, <1>3, <2>1, GatesKeep, HoldKept DEF Quality
<1>4. CASE Layout
  BY <1>0, <1>4, GatesKeep, MergeKept, BinKept DEF Layout
<1>5. CASE \E r \in Requests : Fail(r)
  BY <1>0, <1>5, FailKept
<1>6. CASE UNCHANGED vars
  <2>1. UNCHANGED <<onHand, retired, blocked, hold, cmd, slipped>>
    BY <1>6 DEF vars, layout, ghosts
  <2>2. InFlight'
    BY <1>0, <2>1, IdleKept DEF HoldsOf
  <2> QED
    BY <1>0, <2>1, <2>2 DEF IInv, Settled, RetiredEmpty, HoldsReturnable, Open, Closed
<1> QED
  BY <1>1, <1>2, <1>3, <1>4, <1>5, <1>6 DEF Next

\* The initial state satisfies the invariant.
LEMMA InitKept == Init => IInv
<1> SUFFICES ASSUME Init PROVE IInv
  OBVIOUS
<1>1. Typed
  BY InitTyped
<1>2. \A r \in Requests : cmd[r].kind = "idle" /\ Rows(cmd[r]) = {}
  BY RowsOf DEF Init, Idle
<1>3. InFlight
  BY <1>2 DEF InFlight, Locks, Sources, WithinCapacity, LandsInOpenBin, Landing
<1>4. Settled
  BY DEF Init, Settled, RetiredEmpty, HoldsReturnable
<1> QED
  BY <1>1, <1>3, <1>4 DEF IInv

\* The invariant holds throughout.
THEOREM IInvCorrect == Spec => []IInv
<1>1. Init => IInv
  BY InitKept
<1>2. IInv /\ [Next]_vars => IInv'
  BY NextKept
<1> QED
  BY <1>1, <1>2, PTL DEF Spec

\* No interleaving of put-aways, moves, merges and returns overfills a bin,
\* whatever its capacity and however many requests race for it (placePutaway's
\* row lock, assertPlacementGatesInTx, lockOriginBinInTx).
THEOREM CapacityCorrect == Spec => []WithinCapacity
<1>1. IInv => WithinCapacity
  BY DEF IInv, InFlight
<1> QED
  BY <1>1, IInvCorrect, PTL

\* What passed the gates lands in a bin that is neither blocked nor retired
\* (bin-state.command block, mergeBin, retireBin).
THEOREM LandingCorrect == Spec => []LandsInOpenBin
<1>1. IInv => LandsInOpenBin
  BY DEF IInv, InFlight
<1> QED
  BY <1>1, IInvCorrect, PTL

\* A retired bin holds only what late adjustments put there (mergeBin,
\* retireBin).
THEOREM RetiredCorrect == Spec => []RetiredEmpty
<1>1. IInv => RetiredEmpty
  BY DEF IInv, Settled
<1> QED
  BY <1>1, IInvCorrect, PTL

\* An open hold's bin is live, but for holds of what late adjustments left
\* (retireBin, mergeBin, holdScopeInTx).
THEOREM ReturnableCorrect == Spec => []HoldsReturnable
<1>1. IInv => HoldsReturnable
  BY DEF IInv, Settled
<1> QED
  BY <1>1, IInvCorrect, PTL

-----------------------------------------------------------------------------
(* Quarantine. *)

\* A sum over holds is taken over the quantities of them all.
LEMMA HeldIs ==
    ASSUME NEW H \in SUBSET Holds
    PROVE  HeldQty(H) = Total(H, [h \in Holds |-> hold[h].qty])
<1> DEFINE f == [h \in Holds |-> hold[h].qty]
           g == [h \in H |-> hold[h].qty]
<1>1. \A h \in H : g[h] = f[h]
  OBVIOUS
<1> HIDE DEF f, g
<1>2. Total(H, g) = Total(H, f)
  BY <1>1, TotalSame
<1> QED
  BY <1>2 DEF HeldQty, f, g

\* A hold that opens adds its quantity.
LEMMA HeldOpened ==
    ASSUME Typed, NEW h \in Holds, ~ Open(h), NEW c \in HoldRecords,
           hold' = [hold EXCEPT ![h] = c]
    PROVE  HeldQty(Holds)' = HeldQty(Holds) + c.qty
<1> DEFINE f == [x \in Holds |-> hold[x].qty]
           g == [x \in Holds |-> hold'[x].qty]
<1>1. \A x \in Holds : f[x] \in Nat
  BY TypeParts DEF Typed, HoldRecords
<1>2. \A x \in Holds : g[x] \in Nat
  BY TypeParts DEF Typed, HoldRecords
<1>3. \A x \in Holds \ {h} : g[x] = f[x]
  BY TypeParts DEF Typed
<1>4. f[h] = 0 /\ g[h] = c.qty
  BY TypeParts DEF Typed, Open, Closed
<1>5. HeldQty(Holds) = Total(Holds, f) /\ HeldQty(Holds)' = Total(Holds, g)
  BY DEF HeldQty
<1> HIDE DEF f, g
<1>6. Total(Holds, g) = Total(Holds, f) - f[h] + g[h]
  BY <1>1, <1>2, <1>3, FloorConstants, TotalChange
<1>7. Total(Holds, f) \in Nat /\ g[h] \in Nat
  BY <1>1, <1>2, FloorConstants, TotalType
<1> QED
  BY <1>4, <1>5, <1>6, <1>7

\* Holds that close take theirs away.
LEMMA HeldClosed ==
    ASSUME Typed, NEW H \in SUBSET Holds,
           hold' = [h \in Holds |-> IF h \in H THEN Closed ELSE hold[h]]
    PROVE  HeldQty(Holds)' = HeldQty(Holds) - HeldQty(H)
<1> DEFINE f == [x \in Holds |-> hold[x].qty]
           g == [x \in Holds |-> hold'[x].qty]
<1>1. \A x \in Holds : f[x] \in Nat
  BY TypeParts DEF Typed, HoldRecords
<1>2. \A x \in H : g[x] = 0
  BY DEF Closed
<1>3. \A x \in Holds \ H : g[x] = f[x]
  OBVIOUS
<1>4. \A x \in Holds : g[x] \in Nat
  BY TypeParts DEF Typed, HoldRecords, Closed
<1>5. HeldQty(Holds) = Total(Holds, f) /\ HeldQty(Holds)' = Total(Holds, g)
  BY DEF HeldQty
<1>6. HeldQty(H) = Total(H, f)
  BY HeldIs
<1> HIDE DEF f, g
<1>7. /\ Total(H, f) \in Nat /\ Total(Holds \ H, f) \in Nat
      /\ Total(Holds, f) = Total(H, f) + Total(Holds \ H, f)
  BY <1>1, FloorConstants, TotalSplit
<1>8. Total(Holds, g) = Total(H, g) + Total(Holds \ H, g)
  BY <1>4, FloorConstants, TotalSplit
<1>9. Total(H, g) = 0 /\ Total(Holds \ H, g) = Total(Holds \ H, f)
  BY <1>2, <1>3, TotalZero, TotalSame
<1> QED
  BY <1>5, <1>6, <1>7, <1>8, <1>9

\* A step that leaves quarantine and its holds alone.
LEMMA QuarantineUntouched ==
    ASSUME QuarantineBacked, onHand'[QC] = onHand[QC], UNCHANGED hold
    PROVE  QuarantineBacked'
BY DEF QuarantineBacked, HeldQty

\* Every step keeps quarantine backed by its holds.
LEMMA NextQuarantine ==
    ASSUME Typed, QuarantineBacked, [Next]_vars
    PROVE  QuarantineBacked'
<1>0. onHand[QC] \in Nat /\ HeldQty(Holds) = onHand[QC]
  BY TypeParts, Distinct DEF Typed, QuarantineBacked
<1>1. CASE Receipts
  <2>1. ASSUME NEW l \in Lines, NEW n \in Amounts, NEW h \in Holds \cup {None}, Receive(l, n, h)
        PROVE  QuarantineBacked'
    <3>1. n \in Nat
      BY FloorConstants DEF Amounts
    <3>2. CASE UNCHANGED hold /\ onHand' = [onHand EXCEPT ![Receiving] = @ + n]
      BY <3>2, QuarantineUntouched, TypeParts, Distinct DEF Typed
    <3>3. CASE /\ h \in Holds /\ ~ Open(h) /\ onHand' = [onHand EXCEPT ![QC] = @ + n]
               /\ hold' = [hold EXCEPT ![h] = [line |-> l, origin |-> Receiving, qty |-> n]]
      <4> DEFINE c == [line |-> l, origin |-> Receiving, qty |-> n]
      <4>1. c \in HoldRecords /\ c.qty = n
        BY <3>1 DEF HoldRecords
      <4>2. hold' = [hold EXCEPT ![h] = c] /\ onHand'[QC] = onHand[QC] + n
        BY <3>3, TypeParts, Distinct DEF Typed
      <4> HIDE DEF c
      <4>3. HeldQty(Holds)' = HeldQty(Holds) + n
        BY <3>3, <4>1, <4>2, HeldOpened
      <4> QED
        BY <1>0, <4>2, <4>3 DEF QuarantineBacked
    <3> QED
      BY <2>1, <3>2, <3>3 DEF Receive
  <2>2. ASSUME NEW r \in Requests, PutawayAppend(r)
        PROVE  QuarantineBacked'
    <3>1. cmd[r].to \in Bins /\ cmd[r].qty \in Nat
      BY <2>2, BinsOf DEF PutawayAppend, Shape, Idle
    <3>2. Shift(Receiving, cmd[r].to, cmd[r].qty) /\ UNCHANGED hold
      BY <2>2 DEF PutawayAppend
    <3>3. onHand'[QC] = onHand[QC]
      BY <3>1, <3>2, ShiftTyped, Distinct
    <3> QED
      BY <3>2, <3>3, QuarantineUntouched
  <2>3. ASSUME NEW r \in Requests,
               \/ \E l \in Lines, b \in Bins, n \in Amounts : PutawayRead(r, l, b, n)
               \/ PutawayGate(r)
        PROVE  QuarantineBacked'
    BY <2>3, QuarantineUntouched DEF PutawayRead, PutawayGate, Start
  <2> QED
    BY <1>1, <2>1, <2>2, <2>3 DEF Receipts
<1>2. CASE Stock
  <2>1. ASSUME NEW r \in Requests, MoveAppend(r)
        PROVE  QuarantineBacked'
    <3>1. /\ cmd[r].from \in Bins /\ cmd[r].to \in Bins /\ cmd[r].qty \in Nat
          /\ cmd[r].from # cmd[r].to
      BY <2>1, BinsOf DEF MoveAppend, Shape, Idle
    <3>2. Shift(cmd[r].from, cmd[r].to, cmd[r].qty) /\ UNCHANGED hold
      BY <2>1 DEF MoveAppend
    <3>3. onHand'[QC] = onHand[QC]
      BY <3>1, <3>2, ShiftTyped, Distinct
    <3> QED
      BY <3>2, <3>3, QuarantineUntouched
  <2>2. ASSUME NEW r \in Requests, AdjustAppend(r)
        PROVE  QuarantineBacked'
    <3>1. cmd[r].to \in Places \ {QC}
      BY <2>2, BinsOf DEF AdjustAppend, Shape, Idle
    <3>2. onHand'[QC] = onHand[QC] /\ UNCHANGED hold
      BY <2>2, <3>1, TypeParts, Distinct DEF Typed, AdjustAppend
    <3> QED
      BY <3>2, QuarantineUntouched
  <2> QED
    BY <1>2, <2>1, <2>2, QuarantineUntouched DEF Stock, MoveGate, AdjustCheck, Start
<1>3. CASE Quality
  <2>1. ASSUME NEW r \in Requests, NEW h \in Holds, HoldAppend(r, h)
        PROVE  QuarantineBacked'
    <3> DEFINE a == cmd[r].from
               n == cmd[r].qty
               c == [line |-> None, origin |-> a, qty |-> n]
    <3>1. a \in Bins \cup {Receiving} /\ n \in Nat
      BY <2>1, BinsOf DEF HoldAppend, Shape, Idle
    <3>2. Shift(a, QC, n) /\ ~ Open(h) /\ hold' = [hold EXCEPT ![h] = c]
      BY <2>1 DEF HoldAppend
    <3>3. c \in HoldRecords /\ c.qty = n
      BY <3>1 DEF HoldRecords
    <3> HIDE DEF a, n, c
    <3>4. onHand'[QC] = onHand[QC] + n
      BY <3>1, <3>2, ShiftTyped, Distinct
    <3>5. HeldQty(Holds)' = HeldQty(Holds) + n
      BY <3>2, <3>3, HeldOpened
    <3> QED
      BY <1>0, <3>4, <3>5 DEF QuarantineBacked
  <2>2. ASSUME \/ \E h \in Holds : ReleaseHold(h) \/ \E n \in 0 .. MaxReceived : InspectHold(h, n)
               \/ ReleaseReceiptHolds(Lines)
        PROVE  QuarantineBacked'
    <3>1. PICK H \in SUBSET Holds, b \in Bins \cup {Receiving}, passed \in Nat :
             /\ HeldQty(H) \in Nat /\ passed <= HeldQty(H)
             /\ Returned(b, HeldQty(H), passed)
             /\ hold' = [h \in Holds |-> IF h \in H THEN Closed ELSE hold[h]]
      BY <2>2, EndsHolds
    <3>2. onHand'[QC] = onHand[QC] - HeldQty(H)
      BY <3>1, ReturnedTyped
    <3>3. HeldQty(Holds)' = HeldQty(Holds) - HeldQty(H)
      BY <3>1, HeldClosed
    <3> QED
      BY <1>0, <3>2, <3>3 DEF QuarantineBacked
  <2> QED
    BY <1>3, <2>1, <2>2, QuarantineUntouched DEF Quality, HoldGate, Start
<1>4. CASE Layout
  <2>1. ASSUME NEW r \in Requests, MergeAppend(r)
        PROVE  QuarantineBacked'
    <3>1. /\ cmd[r].from \in Bins /\ cmd[r].to \in Bins /\ cmd[r].qty \in Nat
          /\ cmd[r].from # cmd[r].to
      BY <2>1, BinsOf DEF MergeAppend, Shape, Idle
    <3>2. Shift(cmd[r].from, cmd[r].to, cmd[r].qty) /\ UNCHANGED hold
      BY <2>1 DEF MergeAppend
    <3>3. onHand'[QC] = onHand[QC]
      BY <3>1, <3>2, ShiftTyped, Distinct
    <3> QED
      BY <3>2, <3>3, QuarantineUntouched
  <2> QED
    BY <1>4, <2>1, QuarantineUntouched
    DEF Layout, Block, Unblock, RetireBin, MergeGate, Start, StartStockTake, EndStockTake
<1>5. CASE \E r \in Requests : Fail(r)
  BY <1>5, QuarantineUntouched DEF Fail
<1>6. CASE UNCHANGED vars
  BY <1>6, QuarantineUntouched DEF vars
<1> QED
  BY <1>1, <1>2, <1>3, <1>4, <1>5, <1>6 DEF Next

\* The QC-hold bin holds exactly the units of the open holds, for any number
\* of holds and lines (holdScopeInTx, releaseHoldCoreInTx, inspectHold,
\* assertBinInWarehouse).
THEOREM QuarantineCorrect == Spec => []QuarantineBacked
<1>1. Init => Typed /\ QuarantineBacked
  <2> SUFFICES ASSUME Init PROVE Typed /\ QuarantineBacked
    OBVIOUS
  <2> DEFINE f == [h \in Holds |-> hold[h].qty]
  <2>1. \A h \in Holds : f[h] = 0
    BY DEF Init, Closed
  <2>2. HeldQty(Holds) = Total(Holds, f)
    BY DEF HeldQty
  <2>3. onHand[QC] = 0
    BY Distinct DEF Init
  <2> HIDE DEF f
  <2> QED
    BY <2>1, <2>2, <2>3, TotalZero, InitTyped DEF QuarantineBacked
<1>2. Typed /\ QuarantineBacked /\ [Next]_vars => (Typed /\ QuarantineBacked)'
  BY NextTyped, NextQuarantine
<1> QED
  BY <1>1, <1>2, PTL DEF Spec
=============================================================================
