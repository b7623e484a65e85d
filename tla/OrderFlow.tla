----------------------------- MODULE OrderFlow -----------------------------
(***************************************************************************)
(* An order from placement to dispatch: the holds it is granted before it  *)
(* is written, the allocation of back-ordered lines, waves and their pick  *)
(* slices, short picks that release and re-grant, packing, dispatch with a *)
(* follow-on for what is still owed, cancellation before and after the     *)
(* pick.  One warehouse, one SKU, one line per order, so that an order id   *)
(* is also its line id and the owner of its holds.                          *)
(*                                                                         *)
(* A command that is one transaction under the order's row lock is one     *)
(* action.  Placement, allocation, cancellation and the pick read or write *)
(* in several transactions, or read rows they do not lock: each is a       *)
(* request with a program counter.                                         *)
(***************************************************************************)
EXTENDS UnitSums

CONSTANTS Orders,      \* ids of orders
          Roots,       \* those a client's order takes; the others are for follow-ons
          Holds,       \* ids of reservations
          Waves,
          MaxSlices,   \* pick lines ever inserted
          Bins,        \* bins in walk order, the order of their codes
          Requests,    \* commands in flight
          None,
          MaxQty,      \* an order asks for 1 .. MaxQty units
          Stock        \* units each bin starts with

Slices == 1 .. MaxSlices

ASSUME FlowConstants ==
    /\ IsFiniteSet(Orders) /\ IsFiniteSet(Holds) /\ IsFiniteSet(Bins)
    /\ Bins \subseteq Nat /\ Roots \subseteq Orders
    /\ MaxSlices \in Nat /\ MaxQty \in Nat \ {0} /\ Stock \in [Bins -> Nat]
    /\ None \notin Orders \cup Holds \cup Waves \cup Slices \cup Bins

VARIABLES
    order,     \* status of an order
    qty,       \* units its line asks for
    named,     \* the reservation its line names, and
    reserved,  \* how many units the line says it has
    root,      \* the order a follow-on descends from
    state,     \* of a reservation
    owner, amount,
    wave,      \* status of a wave
    slice,     \* status of a pick line
    of, on,    \* its order and its wave
    under,     \* the reservation it names
    bin, plan, short,  \* where, how many, how many of them were not there
    back,      \* whether the units it drew were restocked
    onHand,    \* units in a bin
    pc, at,    \* a request: where it is, which order it is about
    has,       \* the holds it was granted or is about to release
    read       \* what it read: the line, or the slice to be picked

rows   == <<order, qty, named, reserved, root>>
holds  == <<state, owner, amount>>
plans  == <<wave, slice, of, on, under, bin, plan, short, back>>
reqs   == <<pc, at, has, read>>
vars   == <<rows, holds, plans, onHand, reqs>>

-----------------------------------------------------------------------------
(* Queries. *)

Open  == {"planned", "unfulfillable", "picked", "short"}
Live  == {h \in Holds : state[h] \in {"held", "committed"}}
Held(o)      == {h \in Holds : state[h] = "held" /\ owner[h] = o}
Committed(o) == {h \in Holds : state[h] = "committed" /\ owner[h] = o}

\* openClaimInTx, openClaims: an order with a pick line that is not cancelled.
SlicesOf(o) == {s \in Slices : of[s] = o}
OpenClaim(o) == \E s \in SlicesOf(o) : slice[s] \in Open

\* picklistLineDrewUnits, and the units it drew.
Drew(s)  == slice[s] = "picked" \/ (slice[s] = "short" /\ short[s] < plan[s])
Draws    == [s \in Slices |-> IF Drew(s) THEN plan[s] - short[s] ELSE 0]
Drawn(o) == Total(SlicesOf(o), Draws)

\* What the reservation engine lets a request have: on hand less reserved.
\* (Reservation models how the counter comes to say so.)
Least(m, n) == IF m < n THEN m ELSE n
Atp == Total(Bins, onHand) - Total(Live, amount)

Unreferenced(h) == \A o \in Orders : named[o] # h

Idle(r) == pc[r] = "idle"
\* What a request remembers of its reads: the order's line, or the stop to pick.
Nothing == <<None, 0, None>>
Line(o) == <<named[o], reserved[o], None>>
Stop(s) == <<None, 0, s>>

-----------------------------------------------------------------------------
(* Pieces of transactions. *)

Rest(r) == /\ pc' = [pc EXCEPT ![r] = "idle"]
           /\ at' = [at EXCEPT ![r] = None]
           /\ has' = [has EXCEPT ![r] = {}]
           /\ read' = [read EXCEPT ![r] = Nothing]

Go(r, where, o, H, seen) ==
    /\ pc' = [pc EXCEPT ![r] = where]
    /\ at' = [at EXCEPT ![r] = o]
    /\ has' = [has EXCEPT ![r] = H]
    /\ read' = [read EXCEPT ![r] = seen]

\* grantLineHold: the lesser of what is asked and what is available, as a new
\* row of the journal.
Target(n) == Least(n, Atp)

NewHold == CHOOSE h \in Holds : state[h] = "free"

Granted(o, n) ==
    /\ n > 0 /\ \E h \in Holds : state[h] = "free"
    /\ state' = [state EXCEPT ![NewHold] = "held"]
    /\ owner' = [owner EXCEPT ![NewHold] = o]
    /\ amount' = [amount EXCEPT ![NewHold] = n]

\* releaseReservationInTx of each: a row that is no longer held is left alone.
Released(H) ==
    /\ state' = [h \in Holds |->
                    IF h \in H /\ state[h] = "held" THEN "released" ELSE state[h]]
    /\ UNCHANGED <<owner, amount>>

-----------------------------------------------------------------------------
(* Placement: the hold first, the order after it. *)

\* grantPhase.  The order's id is fresh; a request that finds nothing, or loses
\* every race for it, goes on without a hold.
Fresh(o) == /\ order[o] = "none" /\ \A r \in Requests : at[r] # o
            /\ \A h \in Holds : owner[h] # o

PlaceGrant(r, o, n) ==
    /\ Idle(r) /\ Fresh(o)
    /\ qty' = [qty EXCEPT ![o] = n]
    /\ \/ Granted(o, Target(n)) /\ Go(r, "place", o, {NewHold}, Nothing)
       \/ Go(r, "place", o, {}, Nothing) /\ UNCHANGED holds
    /\ UNCHANGED <<order, named, reserved, root, plans, onHand>>

\* writePhase.
PlaceWrite(r) ==
    LET o == at[r]
        h == IF has[r] = {} THEN None ELSE CHOOSE x \in has[r] : TRUE
    IN  /\ pc[r] = "place"
        /\ order' = [order EXCEPT ![o] = "accepted"]
        /\ named' = [named EXCEPT ![o] = h]
        /\ reserved' = [reserved EXCEPT ![o] = IF h = None THEN 0 ELSE amount[h]]
        /\ root' = [root EXCEPT ![o] = o]
        /\ Rest(r)
        /\ UNCHANGED <<qty, holds, plans, onHand>>

\* A refusal after the grant, or a write that rolled back: releaseAll.
PlaceRefused(r) ==
    /\ pc[r] = "place"
    /\ Released(has[r])
    /\ Rest(r)
    /\ UNCHANGED <<rows, plans, onHand>>

-----------------------------------------------------------------------------
(* Allocation of a line that has no stock yet. *)

\* Mutant: an order on a picklist is eligible.
Eligible_Waved(o) == order[o] = "accepted"

Eligible(o) == order[o] = "accepted" /\ ~OpenClaim(o)

\* planInTx, with fateOf the line: what is held and named is no business of
\* the allocator's; a held row the line does not name is adopted.
AllocatePlan(r, o) ==
    /\ Idle(r) /\ Eligible(o) /\ Committed(o) = {}
    /\ \A h \in Held(o) : ~(named[o] = h /\ reserved[o] > 0)
    /\ IF Held(o) = {}
       THEN Go(r, "grant", o, {}, Line(o))
       ELSE Go(r, "adopted", o, Held(o), Line(o))
    /\ UNCHANGED <<rows, holds, plans, onHand>>

\* grantPhase: a new hold; or the owner's held row, as the repeat of a grant when
\* the quantities agree and as an adoption when they do not; or nothing.
AllocateGrant(r) ==
    LET o == at[r]
    IN  /\ pc[r] = "grant"
        /\ \/ /\ Held(o) = {} /\ Granted(o, Target(qty[o]))
              /\ Go(r, "granted", o, {NewHold}, read[r])
           \/ \E h \in Held(o) :
                 /\ Go(r, IF amount[h] = Target(qty[o]) THEN "granted" ELSE "adopted",
                       o, {h}, read[r])
                 /\ UNCHANGED holds
           \/ Go(r, "granted", o, {}, read[r]) /\ UNCHANGED holds
        /\ UNCHANGED <<rows, plans, onHand>>

\* writePhase under the order's lock.  What it may write: a hold it carries, or
\* when it carries none one that appeared since, still held; and only into the
\* line it read.
Writable(r) ==
    LET o == at[r]
    IN  IF has[r] # {} THEN has[r] ELSE Held(o) \ {read[r][1]}

\* Mutant: what was not written is released, whoever names it.
AllocateWrite_ReleasesAll(r) ==
    LET o == at[r]
    IN  /\ pc[r] \in {"granted", "adopted"}
        /\ \/ \E h \in Writable(r) :
                  /\ Eligible(o) /\ state[h] = "held" /\ Line(o) = read[r]
                  /\ named' = [named EXCEPT ![o] = h]
                  /\ reserved' = [reserved EXCEPT ![o] = amount[h]]
                  /\ Released({})
           \/ /\ ~\E h \in Writable(r) :
                     Eligible(o) /\ state[h] = "held" /\ Line(o) = read[r]
              /\ Released(has[r])
              /\ UNCHANGED <<named, reserved>>
        /\ Rest(r)
        /\ UNCHANGED <<order, qty, root, plans, onHand>>

AllocateWrite(r) ==
    LET o == at[r]
    IN  /\ pc[r] \in {"granted", "adopted"}
        /\ \/ \E h \in Writable(r) :
                  /\ Eligible(o) /\ state[h] = "held" /\ Line(o) = read[r]
                  /\ named' = [named EXCEPT ![o] = h]
                  /\ reserved' = [reserved EXCEPT ![o] = amount[h]]
                  /\ Released({})
           \/ /\ ~\E h \in Writable(r) :
                     Eligible(o) /\ state[h] = "held" /\ Line(o) = read[r]
              /\ Released({h \in has[r] : Unreferenced(h)})
              /\ UNCHANGED <<named, reserved>>
        /\ Rest(r)
        /\ UNCHANGED <<order, qty, root, plans, onHand>>

\* The write failed: releaseUnreferencedUnderLock, of fresh grants only.
AllocateFails(r) ==
    /\ pc[r] \in {"granted", "adopted"}
    /\ Released(IF pc[r] = "granted" THEN {h \in has[r] : Unreferenced(h)} ELSE {})
    /\ Rest(r)
    /\ UNCHANGED <<rows, plans, onHand>>

-----------------------------------------------------------------------------
(* Waves. *)

Pickable(o) == named[o] # None /\ reserved[o] > 0 /\ state[named[o]] = "held"

\* planSlices and findReplanSlices: bins are drained in walk order until the need
\* is covered; Cut(need, free) is the pick lines that come of it, on the slots
\* after the last one used.
Share(need, free, b) ==
    Least(free[b], need - Least(need, Total({c \in Bins : c < b}, free)))

Cut(need, free) ==
    LET B    == {b \in Bins : Share(need, free, b) > 0}
        used == Cardinality({s \in Slices : slice[s] # "none"})
        Nth(i) == CHOOSE b \in B : Cardinality({c \in B : c <= b}) = i
    IN  [s \in used + 1 .. used + Cardinality(B) |->
            [bin |-> Nth(s - used), plan |-> Share(need, free, Nth(s - used))]]

\* What no bin covers is a line without a bin.
WithShortfall(P) ==
    LET last == Cardinality({s \in Slices : slice[s] # "none"}) + Cardinality(DOMAIN P) + 1
    IN  [s \in DOMAIN P \cup {last} |->
            IF s = last THEN [bin |-> None, plan |-> 0] ELSE P[s]]

\* Insert of the lines P under hold h; stays and kept are the statuses and holds
\* of the other lines.
Insert(P, o, w, h, stays, kept) ==
    /\ DOMAIN P \subseteq Slices
    /\ slice' = [s \in Slices |->
                    IF s \notin DOMAIN P THEN stays[s]
                    ELSE IF P[s].bin = None THEN "unfulfillable" ELSE "planned"]
    /\ of' = [s \in Slices |-> IF s \in DOMAIN P THEN o ELSE of[s]]
    /\ on' = [s \in Slices |-> IF s \in DOMAIN P THEN w ELSE on[s]]
    /\ under' = [s \in Slices |-> IF s \in DOMAIN P THEN h ELSE kept[s]]
    /\ plan' = [s \in Slices |-> IF s \in DOMAIN P THEN P[s].plan ELSE plan[s]]

Places(P, drawn) == [s \in Slices |-> IF s \in DOMAIN P THEN P[s].bin ELSE drawn[s]]

\* generateWave over one order, locked; its pool is all the stock, what other
\* waves have planned included.
GenerateWave(w, o) ==
    LET C == Cut(reserved[o], onHand)
        P == IF Total(Bins, onHand) < reserved[o] THEN WithShortfall(C) ELSE C
    IN  /\ wave[w] = "none" /\ Eligible(o) /\ Pickable(o)
        /\ wave' = [wave EXCEPT ![w] = "planned"]
        /\ Insert(P, o, w, named[o], slice, under)
        /\ bin' = Places(P, bin)
        /\ UNCHANGED <<rows, holds, short, back, onHand, reqs>>

\* releaseWave drops the lines of orders cancelled since.
ReleaseWave(w) ==
    /\ wave[w] = "planned"
    /\ wave' = [wave EXCEPT ![w] = "released"]
    /\ slice' = [s \in Slices |->
                    IF on[s] = w /\ order[of[s]] = "cancelled" THEN "cancelled"
                    ELSE slice[s]]
    /\ UNCHANGED <<rows, holds, of, on, under, bin, plan, short, back, onHand, reqs>>

\* cancelWave frees every line that drew nothing.
CancelWave(w) ==
    /\ wave[w] \in {"planned", "released"}
    /\ wave' = [wave EXCEPT ![w] = "cancelled"]
    /\ slice' = [s \in Slices |->
                    IF on[s] = w /\ ~Drew(s) /\ order[of[s]] \in {"accepted", "cancelled"}
                    THEN "cancelled" ELSE slice[s]]
    /\ UNCHANGED <<rows, holds, of, on, under, bin, plan, short, back, onHand, reqs>>

-----------------------------------------------------------------------------
(* Picking. *)

\* The reads of recordPick: wave, line, order and hold, none of them locked.
PickRead(r, s) ==
    /\ Idle(r) /\ slice[s] = "planned" /\ wave[on[s]] = "released"
    /\ order[of[s]] = "accepted"
    /\ under[s] # None => state[under[s]] = "held"
    /\ Go(r, "pick", of[s], {}, Stop(s))
    /\ UNCHANGED <<rows, holds, plans, onHand>>

Siblings(s) == {t \in SlicesOf(of[s]) : t # s}
OpenSiblings(s) == {t \in Siblings(s) : slice[t] = "planned"}

\* Mutant: the bin's stock is not checked.
PickWhole_Unchecked(r, b) ==
    LET s == read[r][3]
        last == OpenSiblings(s) = {}
    IN  /\ pc[r] = "pick" /\ slice[s] = "planned"
        /\ onHand' = [onHand EXCEPT ![b] = @ - plan[s]]
        /\ slice' = [slice EXCEPT ![s] = "picked"]
        /\ IF under[s] # None /\ last
           THEN /\ state[under[s]] = "held"
                /\ state' = [state EXCEPT ![under[s]] = "committed"]
                /\ UNCHANGED <<owner, amount>>
           ELSE UNCHANGED holds
        /\ bin' = [bin EXCEPT ![s] = b]
        /\ Rest(r)
        /\ UNCHANGED <<rows, wave, of, on, under, plan, short, back>>

\* The whole line is drawn.  The last open line of the order line settles the
\* hold, which must still be held.
PickWhole(r, b) ==
    LET s == read[r][3]
        last == OpenSiblings(s) = {}
    IN  /\ pc[r] = "pick" /\ slice[s] = "planned" /\ onHand[b] >= plan[s]
        /\ onHand' = [onHand EXCEPT ![b] = @ - plan[s]]
        /\ slice' = [slice EXCEPT ![s] = "picked"]
        /\ IF under[s] # None /\ last
           THEN /\ state[under[s]] = "held"
                /\ state' = [state EXCEPT ![under[s]] = "committed"]
                /\ UNCHANGED <<owner, amount>>
           ELSE UNCHANGED holds
        /\ bin' = [bin EXCEPT ![s] = b]
        /\ Rest(r)
        /\ UNCHANGED <<rows, wave, of, on, under, plan, short, back>>

\* Fewer than planned, none included: the hold is released and what the order
\* line is still owed under it granted again, to which the open siblings and
\* the replanned lines move.
Owed(s, n) == amount[under[s]] - Total(Siblings(s), Draws) - n

\* The pool of a replan: a bin's units less what the other open lines claim
\* there, and never the bin that came up short.
Claimed(s, b) == Total({t \in Slices \ {s} : slice[t] = "planned" /\ bin[t] = b}, plan)
Elsewhere(s, b) ==
    [x \in Bins |-> IF x = b THEN 0 ELSE onHand[x] - Least(onHand[x], Claimed(s, x))]

PickShort(r, b, n) ==
    LET s     == read[r][3]
        h     == under[s]
        owed  == Owed(s, n)
        again == owed > 0 /\ owed <= Atp - n + amount[h]
        after == [slice EXCEPT ![s] = "short"]
        drawn == [bin EXCEPT ![s] = b]
        moved(g) == [t \in Slices |-> IF t \in OpenSiblings(s) THEN g ELSE under[t]]
        P == Cut(plan[s] - n, Elsewhere(s, b))
    IN  /\ pc[r] = "pick" /\ slice[s] = "planned"
        /\ n < plan[s] /\ n <= onHand[b]
        /\ onHand' = [onHand EXCEPT ![b] = @ - n]
        /\ short' = [short EXCEPT ![s] = plan[s] - n]
        /\ \/ /\ h = None
              /\ slice' = after /\ bin' = drawn
              /\ UNCHANGED <<holds, of, on, under, plan>>
           \/ /\ h # None /\ state[h] = "held" /\ again
              /\ \E g \in Holds : state[g] = "free"
              /\ state' = [state EXCEPT ![h] = "released", ![NewHold] = "held"]
              /\ owner' = [owner EXCEPT ![NewHold] = of[s]]
              /\ amount' = [amount EXCEPT ![NewHold] = owed]
              /\ Insert(P, of[s], on[s], NewHold, after, moved(NewHold))
              /\ bin' = Places(P, drawn)
           \/ /\ h # None /\ state[h] = "held" /\ ~again
              /\ state' = [state EXCEPT ![h] = "released"]
              /\ slice' = after /\ bin' = drawn /\ under' = moved(None)
              /\ UNCHANGED <<owner, amount, of, on, plan>>
        /\ Rest(r)
        /\ UNCHANGED <<rows, wave, back>>

\* The line was picked or withdrawn, the hold ended or the bin came up short
\* between the reads and the writes.
PickRefused(r) == pc[r] = "pick" /\ Rest(r) /\ UNCHANGED <<rows, holds, plans, onHand>>

-----------------------------------------------------------------------------
(* Packing and dispatch, each one transaction under the order's lock. *)

PackOrder(o) ==
    /\ order[o] = "accepted" /\ OpenClaim(o)
    /\ \A s \in SlicesOf(o) : slice[s] # "planned"
    /\ Drawn(o) > 0
    /\ order' = [order EXCEPT ![o] = "ready_to_dispatch"]
    /\ Released(Held(o))
    /\ UNCHANGED <<qty, named, reserved, root, plans, onHand, reqs>>

\* Mutant: the follow-on asks for the shortfalls of the pick lines, replanned or not.
DispatchOrder_OfShortfalls(o, f) ==
    LET owed == Total(SlicesOf(o), short)
    IN  /\ order[o] = "ready_to_dispatch"
        /\ owed > 0 <=> f # None
        /\ f # None => Fresh(f)
        /\ order' = [x \in Orders |-> IF x = o THEN "dispatched"
                                      ELSE IF x = f THEN "accepted" ELSE order[x]]
        /\ qty' = [x \in Orders |-> IF x = f THEN owed ELSE qty[x]]
        /\ root' = [x \in Orders |-> IF x = f THEN root[o] ELSE root[x]]
        /\ state' = [h \in Holds |-> IF h \in Committed(o) THEN "retired" ELSE state[h]]
        /\ UNCHANGED <<named, reserved, owner, amount, plans, onHand, reqs>>

\* What was not shipped becomes a follow-on order without a hold.
DispatchOrder(o, f) ==
    LET owed == qty[o] - Drawn(o)
    IN  /\ order[o] = "ready_to_dispatch"
        /\ owed > 0 <=> f # None
        /\ f # None => Fresh(f)
        /\ order' = [x \in Orders |-> IF x = o THEN "dispatched"
                                      ELSE IF x = f THEN "accepted" ELSE order[x]]
        /\ qty' = [x \in Orders |-> IF x = f THEN owed ELSE qty[x]]
        /\ root' = [x \in Orders |-> IF x = f THEN root[o] ELSE root[x]]
        /\ state' = [h \in Holds |-> IF h \in Committed(o) THEN "retired" ELSE state[h]]
        /\ UNCHANGED <<named, reserved, owner, amount, plans, onHand, reqs>>

-----------------------------------------------------------------------------
(* Cancellation. *)

\* cancelOrder, phases 1 and 2: the status, the holds and the pick lines are
\* read in transactions of their own.
CancelCheck(r, o) ==
    /\ Idle(r) /\ order[o] = "accepted"
    /\ named[o] # None => state[named[o]] # "committed"
    /\ Drawn(o) = 0
    /\ Go(r, "cancel", o, {h \in Holds : h = named[o] /\ state[h] = "held"}, Nothing)
    /\ UNCHANGED <<rows, holds, plans, onHand>>

\* Phase 3: the flip, with the holds re-read by owner under its row lock.
CancelFlip(r) ==
    LET o == at[r]
    IN  /\ pc[r] = "cancel"
        /\ \/ /\ order[o] = "accepted"
              /\ order' = [order EXCEPT ![o] = "cancelled"]
              /\ named' = [named EXCEPT ![o] = None]
              /\ reserved' = [reserved EXCEPT ![o] = 0]
              /\ Go(r, "unhold", o, has[r] \cup Held(o), Nothing)
           \/ order[o] # "accepted" /\ Rest(r) /\ UNCHANGED <<order, named, reserved>>
        /\ UNCHANGED <<qty, root, holds, plans, onHand>>

\* Phase 4: each hold released if it is still held; a failure leaves it to its TTL.
CancelRelease(r) ==
    /\ pc[r] = "unhold"
    /\ \/ Released(has[r])
       \/ UNCHANGED holds
    /\ Rest(r)
    /\ UNCHANGED <<rows, plans, onHand>>

\* cancelOrderWithRestock: one transaction under the order's and the
\* warehouse's lock; every draw not yet restocked returns to its bin, or all of
\* them to the bin the command names.
Outstanding(o) == {s \in SlicesOf(o) : Drew(s) /\ ~back[s]}

\* Mutant: what the lines planned comes back, not what they drew.
CancelWithRestock_WholeLines(o, dest) ==
    LET S == Outstanding(o)
        InBin(b) == {s \in S : (IF dest = None THEN bin[s] ELSE dest) = b}
    IN  /\ order[o] \in {"accepted", "ready_to_dispatch"}
        /\ order' = [order EXCEPT ![o] = "cancelled"]
        /\ named' = [named EXCEPT ![o] = None]
        /\ reserved' = [reserved EXCEPT ![o] = 0]
        /\ slice' = [s \in Slices |->
                        IF s \in SlicesOf(o) /\ slice[s] \in {"planned", "unfulfillable"}
                        THEN "cancelled" ELSE slice[s]]
        /\ back' = [s \in Slices |-> back[s] \/ s \in S]
        /\ onHand' = [b \in Bins |-> onHand[b] + Total(InBin(b), plan)]
        /\ state' = [h \in Holds |-> IF h \in Held(o) THEN "released"
                                     ELSE IF h \in Committed(o) THEN "retired" ELSE state[h]]
        /\ UNCHANGED <<qty, root, owner, amount, wave, of, on, under, bin, plan, short, reqs>>

CancelWithRestock(o, dest) ==
    LET S == Outstanding(o)
        InBin(b) == {s \in S : (IF dest = None THEN bin[s] ELSE dest) = b}
    IN  /\ order[o] \in {"accepted", "ready_to_dispatch"}
        /\ order' = [order EXCEPT ![o] = "cancelled"]
        /\ named' = [named EXCEPT ![o] = None]
        /\ reserved' = [reserved EXCEPT ![o] = 0]
        /\ slice' = [s \in Slices |->
                        IF s \in SlicesOf(o) /\ slice[s] \in {"planned", "unfulfillable"}
                        THEN "cancelled" ELSE slice[s]]
        /\ back' = [s \in Slices |-> back[s] \/ s \in S]
        /\ onHand' = [b \in Bins |-> onHand[b] + Total(InBin(b), Draws)]
        /\ state' = [h \in Holds |-> IF h \in Held(o) THEN "released"
                                     ELSE IF h \in Committed(o) THEN "retired" ELSE state[h]]
        /\ UNCHANGED <<qty, root, owner, amount, wave, of, on, under, bin, plan, short, reqs>>

-----------------------------------------------------------------------------
(* The environment. *)

\* A process dies with its request.
Crash(r) == pc[r] # "idle" /\ Rest(r) /\ UNCHANGED <<rows, holds, plans, onHand>>

\* The reaper: a live hold past its TTL.
Expire(h) ==
    /\ h \in Live
    /\ state' = [state EXCEPT ![h] = "expired"]
    /\ UNCHANGED <<rows, owner, amount, plans, onHand, reqs>>

Init ==
    /\ order = [o \in Orders |-> "none"]
    /\ qty = [o \in Orders |-> 0] /\ reserved = [o \in Orders |-> 0]
    /\ named = [o \in Orders |-> None] /\ root = [o \in Orders |-> None]
    /\ state = [h \in Holds |-> "free"]
    /\ owner = [h \in Holds |-> None] /\ amount = [h \in Holds |-> 0]
    /\ wave = [w \in Waves |-> "none"]
    /\ slice = [s \in Slices |-> "none"]
    /\ of = [s \in Slices |-> None] /\ on = [s \in Slices |-> None]
    /\ under = [s \in Slices |-> None] /\ bin = [s \in Slices |-> None]
    /\ plan = [s \in Slices |-> 0] /\ short = [s \in Slices |-> 0]
    /\ back = [s \in Slices |-> FALSE]
    /\ onHand = Stock
    /\ pc = [r \in Requests |-> "idle"] /\ at = [r \in Requests |-> None]
    /\ has = [r \in Requests |-> {}] /\ read = [r \in Requests |-> Nothing]

Request(r) ==
    \/ \E o \in Roots, n \in 1 .. MaxQty : PlaceGrant(r, o, n)
    \/ PlaceWrite(r) \/ PlaceRefused(r)
    \/ \E o \in Orders : AllocatePlan(r, o) \/ CancelCheck(r, o)
    \/ AllocateGrant(r) \/ AllocateWrite(r) \/ AllocateFails(r)
    \/ \E s \in Slices : PickRead(r, s)
    \/ \E b \in Bins : PickWhole(r, b) \/ \E n \in 0 .. MaxQty : PickShort(r, b, n)
    \/ PickRefused(r)
    \/ CancelFlip(r) \/ CancelRelease(r)
    \/ Crash(r)

Next ==
    \/ \E r \in Requests : Request(r)
    \/ \E w \in Waves : \/ \E o \in Orders : GenerateWave(w, o)
                        \/ ReleaseWave(w) \/ CancelWave(w)
    \/ \E o \in Orders : \/ PackOrder(o)
                         \/ \E f \in (Orders \ Roots) \cup {None} : DispatchOrder(o, f)
                         \/ \E d \in Bins \cup {None} : CancelWithRestock(o, d)
    \/ \E h \in Holds : Expire(h)

Spec == Init /\ [][Next]_vars

-----------------------------------------------------------------------------
(* Properties. *)

TypeOK ==
    /\ order \in [Orders -> {"none", "accepted", "ready_to_dispatch", "dispatched",
                             "cancelled"}]
    /\ qty \in [Orders -> 0 .. MaxQty] /\ reserved \in [Orders -> 0 .. MaxQty]
    /\ named \in [Orders -> Holds \cup {None}]
    /\ root \in [Orders -> Orders \cup {None}]
    /\ state \in [Holds -> {"free", "held", "committed", "released", "expired", "retired"}]
    /\ owner \in [Holds -> Orders \cup {None}] /\ amount \in [Holds -> 0 .. MaxQty]
    /\ wave \in [Waves -> {"none", "planned", "released", "cancelled"}]
    /\ slice \in [Slices -> Open \cup {"none", "cancelled"}]
    /\ of \in [Slices -> Orders \cup {None}] /\ on \in [Slices -> Waves \cup {None}]
    /\ under \in [Slices -> Holds \cup {None}] /\ bin \in [Slices -> Bins \cup {None}]
    /\ plan \in [Slices -> 0 .. MaxQty] /\ short \in [Slices -> 0 .. MaxQty]
    /\ back \in [Slices -> BOOLEAN]
    /\ onHand \in [Bins -> Nat]
    /\ pc \in [Requests -> {"idle", "place", "grant", "granted", "adopted", "pick",
                            "cancel", "unhold"}]
    /\ at \in [Requests -> Orders \cup {None}] /\ has \in [Requests -> SUBSET Holds]
    /\ read \in [Requests -> (Holds \cup {None}) \X (0 .. MaxQty) \X (Slices \cup {None})]

\* The promise on an accepted order's line is a real one: until a pick touches
\* the order, the hold the line names is the line's own, for the quantity it
\* says, and it is still held or was reaped.  Two allocators, or one that crashed
\* between its grant and its write, never release what the other wrote.
LineBacked ==
    \A o \in Orders :
        order[o] = "accepted" /\ named[o] # None
            /\ (\A s \in SlicesOf(o) : slice[s] \notin {"picked", "short", "cancelled"})
        => /\ owner[named[o]] = o /\ amount[named[o]] = reserved[o]
           /\ state[named[o]] \in {"held", "expired"}

\* Over cancelled and repeated waves, short picks and replanned stops, what an
\* order drew and what the floor may still draw for it never exceed its line.
PlannedWithinLine ==
    \A o \in Orders :
        Drawn(o) + Total({s \in SlicesOf(o) : slice[s] = "planned"}, plan) <= qty[o]

\* What a customer ordered is never lost and never shipped twice along a chain of
\* short shipments: the dispatched units of an order and its follow-ons, with
\* what the last of them still asks for, are the units of the first order.
FamilyAccounts ==
    \A o \in Orders :
        root[o] = o =>
            LET kin  == {x \in Orders : root[x] = o}
                sent == {x \in kin : order[x] = "dispatched"}
                last == kin \ sent
            IN  /\ Cardinality(last) <= 1
                /\ qty[o] = Total(sent, [x \in kin |-> Drawn(x)]) + Total(last, qty)

\* Every unit is in a bin or out under exactly one draw that was not restocked:
\* a cancellation with restock returns each draw once and no more than it took.
UnitsAccounted ==
    Total(Bins, onHand) + Total({s \in Slices : ~back[s]}, Draws)
        = Total(Bins, Stock)

-----------------------------------------------------------------------------
(* What the comments say and the code does not do. *)

\* "Only with a live hold behind it": the stops planned under a hold, with what
\* was drawn under it, are within the hold.
StopsBehindHold ==
    \A h \in Holds : state[h] = "held" =>
        LET S == {s \in Slices : under[s] = h}
        IN  Total({s \in S : slice[s] = "planned"}, plan) + Total(S, Draws) <= amount[h]
=============================================================================
