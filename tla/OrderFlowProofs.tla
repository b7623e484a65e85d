-------------------------- MODULE OrderFlowProofs ---------------------------
(***************************************************************************)
(* Orders, holds and pick lines, for any number of them: the promise on a  *)
(* line, the units planned and drawn for it, the units of a chain of        *)
(* follow-ons and the units of the warehouse.                               *)
(***************************************************************************)
EXTENDS OrderFlow, UnitSumsProofs, TLAPS

\* Pick lines take their slots in order.
Slots == \E k \in 0 .. MaxSlices : \A s \in Slices : slice[s] # "none" <=> s <= k

\* A pick line belongs to an order and a wave that exist and to a hold of that
\* order; only a line of a wave that was released drew anything, and an order
\* that is packed has none left to draw.
SliceInv(s) ==
    /\ slice[s] = "none" => of[s] = None /\ on[s] = None /\ short[s] = 0 /\ ~back[s]
    /\ slice[s] # "none" => /\ of[s] \in Orders /\ order[of[s]] # "none"
                            /\ on[s] \in Waves /\ wave[on[s]] # "none"
    /\ slice[s] \in {"planned", "unfulfillable"} => short[s] = 0 /\ ~back[s]
    /\ short[s] <= plan[s]
    /\ slice[s] \in {"picked", "short"} =>
          bin[s] \in Bins /\ wave[on[s]] \in {"released", "cancelled"}
    /\ slice[s] = "planned" => order[of[s]] \in {"accepted", "cancelled"}
    /\ under[s] # None => of[s] \in Orders /\ owner[under[s]] = of[s]

\* A hold has one owner for good, and never more than the owner asked for.
HoldInv(h) ==
    /\ state[h] = "free" <=> owner[h] = None
    /\ owner[h] # None => amount[h] <= qty[owner[h]]

\* A line names a hold of its own order; an order's root exists.
OrderInv(o) ==
    /\ order[o] = "none" => named[o] = None /\ reserved[o] = 0 /\ root[o] = None
    /\ order[o] # "none" => root[o] \in Orders /\ order[root[o]] # "none"
    /\ named[o] # None => owner[named[o]] = o
    /\ reserved[o] <= qty[o]

\* A request carries holds of its own order.  An order that is being placed is
\* known to nobody else, so its hold is only ever reaped; a stop being picked is
\* on a wave that was released; what an unholding releases is cancelled.
ReqInv(r) ==
    /\ pc[r] = "idle" => has[r] = {}
    /\ pc[r] # "idle" => at[r] \in Orders
    /\ \A h \in has[r] : owner[h] = at[r]
    /\ pc[r] = "place" =>
          /\ order[at[r]] = "none"
          /\ \A h \in has[r] : state[h] \in {"held", "expired"}
          /\ \A q \in Requests : at[q] = at[r] => q = r
    /\ pc[r] = "pick" => /\ read[r][3] \in Slices /\ slice[read[r][3]] # "none"
                         /\ wave[on[read[r][3]]] \in {"released", "cancelled"}
    /\ pc[r] \in {"grant", "granted", "adopted", "cancel"} => order[at[r]] # "none"
    /\ pc[r] = "unhold" => order[at[r]] = "cancelled"

Links == /\ Slots
         /\ \A s \in Slices : SliceInv(s)
         /\ \A h \in Holds : HoldInv(h)
         /\ \A o \in Orders : OrderInv(o)
         /\ \A r \in Requests : ReqInv(r)

-----------------------------------------------------------------------------
(* Cutting a need into pick lines. *)

\* The constants are finite sets and None is none of the ids.
LEMMA Finite ==
    /\ IsFiniteSet(Slices) /\ Slices \subseteq Nat
    /\ \A S \in SUBSET Slices : IsFiniteSet(S)
    /\ \A S \in SUBSET Bins : IsFiniteSet(S)
    /\ \A S \in SUBSET Orders : IsFiniteSet(S)
    /\ \A S \in SUBSET Holds : IsFiniteSet(S)
    /\ None \notin Orders /\ None \notin Holds /\ None \notin Waves
    /\ None \notin Slices /\ None \notin Bins
<1>1. IsFiniteSet(Slices) /\ Slices \subseteq Nat
  BY FlowConstants, FS_Interval DEF Slices
<1> QED
  BY <1>1, FlowConstants, FS_Subset

\* The bins give what is asked of them and no more: the shares, laid end to end
\* in walk order, lie within the need.
LEMMA ShareWithin ==
    ASSUME NEW need \in Nat, NEW free \in [Bins -> Nat],
           NEW f, f = [b \in Bins |-> Share(need, free, b)]
    PROVE  /\ \A b \in Bins : f[b] \in Nat /\ f[b] <= need
           /\ Total(Bins, f) <= need
<1> DEFINE Before(b) == {c \in Bins : c < b}
           start == [b \in Bins |-> Least(need, Total(Before(b), free))]
<1>1. \A b \in Bins : /\ b \in Nat /\ free[b] \in Nat
                      /\ IsFiniteSet(Before(b)) /\ Total(Before(b), free) \in Nat
  <2> SUFFICES ASSUME NEW b \in Bins
               PROVE  /\ b \in Nat /\ free[b] \in Nat
                      /\ IsFiniteSet(Before(b)) /\ Total(Before(b), free) \in Nat
    OBVIOUS
  <2>1. Before(b) \in SUBSET Bins
    OBVIOUS
  <2>2. IsFiniteSet(Before(b)) /\ \A c \in Before(b) : free[c] \in Nat
    BY <2>1, Finite
  <2> HIDE DEF Before
  <2> QED
    BY <2>2, FlowConstants, TotalType
<1>2. \A b \in Bins : /\ start[b] \in Nat /\ start[b] <= need
                      /\ start[b] <= Total(Before(b), free)
                      /\ start[b] < need => start[b] = Total(Before(b), free)
                      /\ f[b] = Least(free[b], need - start[b])
  <2> HIDE DEF Before
  <2>1. \A b \in Bins : start[b] = Least(need, Total(Before(b), free))
    OBVIOUS
  <2>2. \A b \in Bins : f[b] = Least(free[b], need - start[b])
    BY <2>1 DEF Share, Before
  <2> HIDE DEF start
  <2> QED
    BY <1>1, <2>1, <2>2 DEF Least
<1>3. \A b \in Bins : /\ f[b] \in Nat /\ f[b] <= free[b]
                      /\ start[b] + f[b] <= need /\ (f[b] > 0 => start[b] < need)
  <2> HIDE DEF start
  <2> SUFFICES ASSUME NEW b \in Bins
               PROVE  /\ f[b] \in Nat /\ f[b] <= free[b]
                      /\ start[b] + f[b] <= need /\ (f[b] > 0 => start[b] < need)
    OBVIOUS
  <2>1. free[b] \in Nat /\ start[b] \in Nat /\ start[b] <= need
    BY <1>1, <1>2
  <2>2. f[b] = Least(free[b], need - start[b])
    BY <1>2
  <2> QED
    BY <2>1, <2>2 DEF Least
<1>4. ASSUME NEW a \in Bins, NEW b \in Bins, a < b
      PROVE  Total(Before(a), free) + free[a] <= Total(Before(b), free)
  <2> DEFINE T == Before(a) \cup {a}
  <2>1. a \notin Before(a) /\ T \in SUBSET Before(b)
    <3>1. ASSUME NEW c \in Bins PROVE c < a => c < b
      <4>1. a \in Nat /\ b \in Nat /\ c \in Nat
        BY <1>1
      <4> QED
        BY <1>4, <4>1
    <3>2. ~(a < a)
      <4>1. a \in Nat
        BY <1>1
      <4> QED
        BY <4>1
    <3> QED
      BY <1>4, <3>1, <3>2, Zenon
  <2>2. \A c \in Before(b) : free[c] \in Nat
    OBVIOUS
  <2>3. \A c \in Before(a) \cup {a} : free[c] \in Nat
    OBVIOUS
  <2> HIDE DEF Before
  <2>4. Total(T, free) = Total(Before(a), free) + free[a]
    BY <1>1, <2>1, <2>3, TotalAdd
  <2>6. T \in SUBSET Before(b)
    BY <2>1
  <2> HIDE DEF T
  <2>5. /\ Total(T, free) \in Nat /\ Total(Before(b) \ T, free) \in Nat
        /\ Total(Before(b), free) = Total(T, free) + Total(Before(b) \ T, free)
    <3>1. IsFiniteSet(Before(b)) /\ T \in SUBSET Before(b)
      BY <1>1, <2>6
    <3> QED
      BY <2>2, <3>1, TotalSplit
  <2> QED
    BY <2>4, <2>5
<1>5. \A a, b \in Bins : a # b /\ f[a] > 0 /\ f[b] > 0 =>
         start[a] + f[a] <= start[b] \/ start[b] + f[b] <= start[a]
  <2>1. ASSUME NEW a \in Bins, NEW b \in Bins, a < b, f[b] > 0
        PROVE  start[a] + f[a] <= start[b]
    <3>1. start[b] = Total(Before(b), free)
      BY <1>2, <1>3, <2>1
    <3>2. start[a] + f[a] <= Total(Before(a), free) + free[a]
      <4> HIDE DEF start, Before
      <4> QED
        BY <1>1, <1>2, <1>3
    <3> HIDE DEF start, Before
    <3> QED
      BY <1>1, <1>2, <1>3, <1>4, <2>1, <3>1, <3>2
  <2>2. ASSUME NEW a \in Bins, NEW b \in Bins PROVE a < b \/ b < a \/ a = b
    <3>1. a \in Nat /\ b \in Nat
      BY <1>1
    <3> QED
      BY <3>1
  <2> HIDE DEF start
  <2> QED
    BY <2>1, <2>2
<1>6. start \in [Bins -> Nat]
  BY <1>2
<1> HIDE DEF start
<1>7. Total(Bins, f) <= need
  BY <1>3, <1>5, <1>6, FlowConstants, TotalWithin
<1>8. ASSUME NEW b \in Bins PROVE f[b] <= need
  <2>1. f[b] \in Nat /\ start[b] \in Nat /\ start[b] + f[b] <= need
    BY <1>2, <1>3
  <2> QED
    BY <2>1
<1> QED
  BY <1>3, <1>7, <1>8

\* The slots in use.
UsedSlots == Cardinality({s \in Slices : slice[s] # "none"})

\* Pick lines on the next slots that plan n units between them at most.
CutOf(P, n) ==
    /\ \E k \in Nat : DOMAIN P = UsedSlots + 1 .. UsedSlots + k
    /\ \A s \in DOMAIN P : P[s].bin \in Bins \cup {None} /\ P[s].plan \in 0 .. n
    /\ Total(DOMAIN P, [s \in DOMAIN P |-> P[s].plan]) <= n

\* The slots in use are a number.
LEMMA UsedType == UsedSlots \in Nat
<1>1. {s \in Slices : slice[s] # "none"} \in SUBSET Slices
  OBVIOUS
<1> QED
  BY <1>1, Finite, FS_CardinalityType DEF UsedSlots

\* planSlices and findReplanSlices: the lines of a cut.
LEMMA CutShape ==
    ASSUME NEW need \in Nat, NEW free \in [Bins -> Nat]
    PROVE  CutOf(Cut(need, free), need)
<1> DEFINE f == [b \in Bins |-> Share(need, free, b)]
           B == {b \in Bins : Share(need, free, b) > 0}
           rank == [b \in B |-> Cardinality({c \in B : c <= b})]
           N == Cardinality(B)
           Nth(i) == CHOOSE b \in B : Cardinality({c \in B : c <= b}) = i
           D == UsedSlots + 1 .. UsedSlots + N
           P == [s \in D |-> [bin |-> Nth(s - UsedSlots),
                              plan |-> Share(need, free, Nth(s - UsedSlots))]]
           p == [s \in D |-> Nth(s - UsedSlots)]
           g == [s \in D |-> P[s].plan]
<1>1. Cut(need, free) = P
  BY DEF Cut, UsedSlots
<1>2. (\A b \in Bins : f[b] \in Nat /\ f[b] <= need) /\ Total(Bins, f) <= need
  <2> HIDE DEF f
  <2>1. f = [b \in Bins |-> Share(need, free, b)]
    BY DEF f
  <2> QED
    BY <2>1, ShareWithin
<1>3. B \in SUBSET Bins /\ B \subseteq Nat /\ IsFiniteSet(B)
  <2>1. B \in SUBSET Bins
    OBVIOUS
  <2> QED
    BY <2>1, Finite, FlowConstants
<1>4. \A b \in B : Share(need, free, b) = f[b]
  OBVIOUS
<1> HIDE DEF f, B
<1>5. N \in Nat /\ rank \in Bijection(B, 1 .. N)
  BY <1>3, Ranks
<1>6. /\ \A b \in B : rank[b] \in 1 .. N
      /\ \A a, b \in B : rank[a] = rank[b] => a = b
      /\ \A i \in 1 .. N : \E b \in B : rank[b] = i
  <2> DEFINE I == 1 .. N
  <2>1. rank \in Bijection(B, I)
    BY <1>5
  <2> HIDE DEF rank, I
  <2>2. /\ rank \in [B -> I] /\ \A a, b \in B : rank[a] = rank[b] => a = b
        /\ \A i \in I : \E b \in B : rank[b] = i
    BY <2>1, Fun_BijectionProperties, Fun_SurjectionProperties
  <2> QED
    BY <2>2 DEF I
<1>7. \A i \in 1 .. N : Nth(i) \in B /\ rank[Nth(i)] = i
  <2> HIDE DEF N
  <2> QED
    BY <1>6
<1>8. \A b \in B : Nth(rank[b]) = b
  <2>1. \A b \in B : Nth(rank[b]) \in B /\ rank[Nth(rank[b])] = rank[b]
    <3> HIDE DEF Nth, rank, N
    <3> QED
      BY <1>6, <1>7
  <2> HIDE DEF Nth, rank, N
  <2> QED
    BY <1>6, <2>1
<1> HIDE DEF Nth, rank, N
<1>9. IsFiniteSet(D) /\ \A s \in D : s - UsedSlots \in 1 .. N
  BY <1>5, UsedType, FS_Interval
<1>10. \A i \in 1 .. N : UsedSlots + i \in D /\ (UsedSlots + i) - UsedSlots = i
  BY <1>5, UsedType
<1>11. \A s, t \in D : s - UsedSlots = t - UsedSlots => s = t
  BY UsedType
<1> HIDE DEF D
<1>12. p \in Bijection(D, B)
  <2>1. p \in [D -> B]
    BY <1>7, <1>9
  <2>2. \A s, t \in D : p[s] = p[t] => s = t
    <3> SUFFICES ASSUME NEW s \in D, NEW t \in D, p[s] = p[t] PROVE s = t
      OBVIOUS
    <3>1. Nth(s - UsedSlots) = Nth(t - UsedSlots)
      OBVIOUS
    <3>2. s - UsedSlots = t - UsedSlots
      BY <1>7, <1>9, <3>1
    <3> QED
      BY <1>11, <3>2
  <2>3. \A b \in B : \E s \in D : p[s] = b
    <3> SUFFICES ASSUME NEW b \in B PROVE \E s \in D : p[s] = b
      OBVIOUS
    <3>1. rank[b] \in 1 .. N
      BY <1>6
    <3>2. UsedSlots + rank[b] \in D /\ (UsedSlots + rank[b]) - UsedSlots = rank[b]
      BY <1>10, <3>1
    <3>3. p[UsedSlots + rank[b]] = b
      BY <1>8, <3>2
    <3> QED
      BY <3>2, <3>3
  <2> HIDE DEF p
  <2> QED
    BY <2>1, <2>2, <2>3, Fun_IsBij
<1>13. \A s \in D : p[s] \in B /\ P[s].bin = p[s] /\ P[s].plan = f[p[s]] /\ g[s] = f[p[s]]
  BY <1>4, <1>7, <1>9
<1> HIDE DEF p, P
<1>14. \A s \in D : P[s].bin \in Bins \cup {None} /\ P[s].plan \in 0 .. need /\ g[s] \in Nat
  <2> SUFFICES ASSUME NEW s \in D
               PROVE  P[s].bin \in Bins \cup {None} /\ P[s].plan \in 0 .. need /\ g[s] \in Nat
    OBVIOUS
  <2>1. p[s] \in Bins /\ P[s].bin = p[s] /\ P[s].plan = f[p[s]] /\ g[s] = f[p[s]]
    BY <1>3, <1>13
  <2>2. f[p[s]] \in Nat /\ f[p[s]] <= need
    BY <1>2, <2>1
  <2> QED
    BY <2>1, <2>2
<1> HIDE DEF g
<1>15. Total(D, g) = Total(B, f)
  BY <1>9, <1>12, <1>13, <1>14, TotalReindex
<1>16. \A b \in Bins : f[b] \in Nat
  BY <1>2
<1>17. Total(D, g) <= need
  <2>1. B \in SUBSET Bins
    BY <1>3
  <2>2. Total(B, f) \in Nat /\ Total(Bins, f) \in Nat /\ Total(B, f) <= Total(Bins, f)
    BY <1>16, <2>1, FlowConstants, TotalSubset
  <2> QED
    BY <1>2, <1>15, <2>2
<1>18. DOMAIN P = D
  BY DEF P
<1> QED
  BY <1>1, <1>5, <1>14, <1>17, <1>18 DEF CutOf, D, g


\* A line for what no bin covers plans nothing.
LEMMA ShortfallShape ==
    ASSUME NEW P, NEW n \in Nat, CutOf(P, n)
    PROVE  CutOf(WithShortfall(P), n)
<1> DEFINE D == DOMAIN P
           last == UsedSlots + Cardinality(D) + 1
           Q == [s \in D \cup {last} |-> IF s = last THEN [bin |-> None, plan |-> 0] ELSE P[s]]
           g == [s \in D |-> P[s].plan]
           h == [s \in D \cup {last} |-> Q[s].plan]
<1>1. WithShortfall(P) = Q
  BY DEF WithShortfall, UsedSlots
<1>2. PICK k \in Nat : D = UsedSlots + 1 .. UsedSlots + k
  BY DEF CutOf
<1>3. IsFiniteSet(D) /\ last = UsedSlots + k + 1 /\ last \notin D
  <2>1. IsFiniteSet(D) /\ Cardinality(D) = k
    <3> HIDE DEF D
    <3> QED
      BY <1>2, UsedType, FS_Interval
  <2>2. last \notin D
    <3> HIDE DEF D
    <3> QED
      BY <1>2, <2>1, UsedType
  <2> QED
    BY <2>1, <2>2
<1>4. D \cup {last} = UsedSlots + 1 .. UsedSlots + (k + 1)
  <2> HIDE DEF D, last
  <2> QED
    BY <1>2, <1>3, UsedType
<1>5. /\ \A s \in D : P[s].bin \in Bins \cup {None} /\ P[s].plan \in 0 .. n
      /\ Total(D, g) <= n
  BY DEF CutOf
<1> HIDE DEF D, last
<1>6. /\ \A s \in D : Q[s] = P[s] /\ h[s] = g[s] /\ g[s] = P[s].plan
      /\ Q[last] = [bin |-> None, plan |-> 0] /\ h[last] = 0
  BY <1>3
<1>7. DOMAIN Q = D \cup {last} /\ h = [s \in DOMAIN Q |-> Q[s].plan]
  OBVIOUS
<1> HIDE DEF Q, g, h
<1>8. \A s \in D : g[s] \in Nat /\ h[s] \in Nat
  BY <1>5, <1>6
<1>9. Total(D \cup {last}, h) = Total(D, h) + h[last]
  <2>1. \A s \in D \cup {last} : h[s] \in Nat
    BY <1>6, <1>8
  <2> QED
    BY <1>3, <2>1, TotalAdd
<1>10. Total(D, h) = Total(D, g) /\ Total(D, g) \in Nat
  BY <1>3, <1>6, <1>8, TotalSame, TotalType
<1>11. \A s \in D \cup {last} : Q[s].bin \in Bins \cup {None} /\ Q[s].plan \in 0 .. n
  BY <1>5, <1>6
<1>12. Total(DOMAIN Q, [s \in DOMAIN Q |-> Q[s].plan]) <= n
  BY <1>5, <1>6, <1>7, <1>9, <1>10
<1>13. \E j \in Nat : DOMAIN Q = UsedSlots + 1 .. UsedSlots + j
  BY <1>4, <1>7
<1> QED
  BY <1>1, <1>7, <1>11, <1>12, <1>13 DEF CutOf

\* An insert takes free slots, and leaves the used ones a prefix.
LEMMA InsertSlots ==
    ASSUME Slots, NEW P, NEW n, CutOf(P, n), DOMAIN P \subseteq Slices,
           NEW sl, \A s \in Slices : sl[s] # "none" <=> (slice[s] # "none" \/ s \in DOMAIN P)
    PROVE  /\ \A s \in DOMAIN P : slice[s] = "none"
           /\ \E k \in 0 .. MaxSlices : \A s \in Slices : sl[s] # "none" <=> s <= k
<1> DEFINE D == DOMAIN P
<1>1. PICK k \in 0 .. MaxSlices : \A s \in Slices : slice[s] # "none" <=> s <= k
  BY DEF Slots
<1>2. UsedSlots = k
  <2>1. k \in Nat /\ k <= MaxSlices /\ MaxSlices \in Nat
    BY FlowConstants
  <2>2. 1 .. k = {s \in Slices : s <= k}
    BY <2>1 DEF Slices
  <2>3. {s \in Slices : slice[s] # "none"} = {s \in Slices : s <= k}
    BY <1>1
  <2>4. Cardinality(1 .. k) = k
    BY <2>1, FS_Interval
  <2> QED
    BY <2>2, <2>3, <2>4 DEF UsedSlots
<1>3. PICK j \in Nat : D = k + 1 .. k + j
  BY <1>2 DEF CutOf
<1>4. \A s \in D : s \in Slices /\ ~(s <= k)
  <2> HIDE DEF D
  <2>1. \A s \in D : ~(s <= k)
    BY <1>3
  <2> QED
    BY <2>1 DEF D
<1>5. \A s \in D : slice[s] = "none"
  BY <1>1, <1>4
<1>6. k + j <= MaxSlices
  <2>1. CASE j = 0
    BY <2>1
  <2>2. CASE j # 0
    <3>1. k + j \in D
      <4> HIDE DEF D
      <4> QED
        BY <1>3, <2>2
    <3>2. k + j \in Slices
      BY <1>4, <3>1
    <3> QED
      BY <3>2, FlowConstants DEF Slices
  <2> QED
    BY <2>1, <2>2
<1>7. \A s \in Slices : s \in Nat /\ s >= 1
  BY FlowConstants DEF Slices
<1>8. ASSUME NEW s \in Slices PROVE (s <= k \/ s \in D) <=> s <= k + j
  <2> HIDE DEF D
  <2>1. s \in Nat /\ s >= 1
    BY <1>7
  <2> QED
    BY <1>3, <2>1
<1>9. \A s \in Slices : sl[s] # "none" <=> s <= k + j
  BY <1>1, <1>8
<1>10. k + j \in 0 .. MaxSlices
  BY <1>6, FlowConstants
<1> QED
  BY <1>5, <1>9, <1>10

-----------------------------------------------------------------------------
(* Types, table by table. *)

Seen == (Holds \cup {None}) \X (0 .. MaxQty) \X (Slices \cup {None})
Phases == {"idle", "place", "grant", "granted", "adopted", "pick", "cancel", "unhold"}

RowTypes ==
    /\ order \in [Orders -> {"none", "accepted", "ready_to_dispatch", "dispatched", "cancelled"}]
    /\ qty \in [Orders -> 0 .. MaxQty] /\ reserved \in [Orders -> 0 .. MaxQty]
    /\ named \in [Orders -> Holds \cup {None}] /\ root \in [Orders -> Orders \cup {None}]

HoldTypes ==
    /\ state \in [Holds -> {"free", "held", "committed", "released", "expired", "retired"}]
    /\ owner \in [Holds -> Orders \cup {None}] /\ amount \in [Holds -> 0 .. MaxQty]

PlanTypes ==
    /\ wave \in [Waves -> {"none", "planned", "released", "cancelled"}]
    /\ slice \in [Slices -> Open \cup {"none", "cancelled"}]
    /\ of \in [Slices -> Orders \cup {None}] /\ on \in [Slices -> Waves \cup {None}]
    /\ under \in [Slices -> Holds \cup {None}] /\ bin \in [Slices -> Bins \cup {None}]
    /\ plan \in [Slices -> 0 .. MaxQty] /\ short \in [Slices -> 0 .. MaxQty]
    /\ back \in [Slices -> BOOLEAN]

ReqTypes ==
    /\ pc \in [Requests -> Phases] /\ at \in [Requests -> Orders \cup {None}]
    /\ has \in [Requests -> SUBSET Holds] /\ read \in [Requests -> Seen]

\* The types, in both states.
LEMMA TypeParts ==
    /\ TypeOK <=> RowTypes /\ HoldTypes /\ PlanTypes /\ onHand \in [Bins -> Nat] /\ ReqTypes
    /\ TypeOK' <=> RowTypes' /\ HoldTypes' /\ PlanTypes' /\ onHand' \in [Bins -> Nat] /\ ReqTypes'
BY DEF TypeOK, RowTypes, HoldTypes, PlanTypes, ReqTypes, Seen, Phases

\* What a step leaves alone keeps its types.
LEMMA TypesKept ==
    /\ RowTypes /\ UNCHANGED rows => RowTypes'
    /\ HoldTypes /\ UNCHANGED holds => HoldTypes'
    /\ PlanTypes /\ UNCHANGED plans => PlanTypes'
    /\ ReqTypes /\ UNCHANGED reqs => ReqTypes'
BY DEF RowTypes, HoldTypes, PlanTypes, ReqTypes, rows, holds, plans, reqs

\* The requests outside R do nothing.
Others(R) ==
    \A q \in Requests \ R :
        pc'[q] = pc[q] /\ at'[q] = at[q] /\ has'[q] = has[q] /\ read'[q] = read[q]

\* A request that ends.
LEMMA RestStep ==
    ASSUME ReqTypes, NEW r \in Requests, Rest(r)
    PROVE  /\ ReqTypes' /\ Others({r})
           /\ pc'[r] = "idle" /\ at'[r] = None /\ has'[r] = {}
<1>1. Nothing \in Seen
  BY FlowConstants DEF Nothing, Seen
<1> QED
  BY <1>1 DEF Rest, ReqTypes, Others, Phases

\* A request that goes on.
LEMMA GoStep ==
    ASSUME ReqTypes, NEW r \in Requests, NEW where \in Phases, NEW o \in Orders,
           NEW H \in SUBSET Holds, NEW seen \in Seen, Go(r, where, o, H, seen)
    PROVE  /\ ReqTypes' /\ Others({r})
           /\ pc'[r] = where /\ at'[r] = o /\ has'[r] = H /\ read'[r] = seen
BY DEF Go, ReqTypes, Others

\* What a request may have seen.
LEMMA SeenTypes ==
    ASSUME RowTypes
    PROVE  /\ Nothing \in Seen
           /\ \A o \in Orders : Line(o) \in Seen
           /\ \A s \in Slices : Stop(s) \in Seen
BY FlowConstants DEF RowTypes, Nothing, Seen, Line, Stop


-----------------------------------------------------------------------------
(* What a step may do to the tables, and what that keeps. *)

\* A hold keeps its owner and its amount for good; a new one is within what its
\* order asks for.
HoldsStep ==
    \A h \in Holds :
        \/ /\ owner'[h] = owner[h] /\ amount'[h] = amount[h]
           /\ state'[h] = "free" <=> state[h] = "free"
        \/ /\ state[h] = "free" /\ state'[h] = "held"
           /\ owner'[h] \in Orders /\ amount'[h] <= qty'[owner'[h]]

\* An order is not forgotten nor cancelled twice; its quantity is set before
\* anything is held for it, its root when it is written; its line comes to name
\* nothing, or one of its own holds.
OrderStep(o) ==
    /\ order[o] = "cancelled" => order'[o] = "cancelled"
    /\ qty'[o] = qty[o] \/ (order[o] = "none" /\ \A h \in Holds : owner[h] # o)
    /\ \/ root'[o] = root[o] /\ (order'[o] = "none" <=> order[o] = "none")
       \/ /\ order[o] = "none" /\ order'[o] # "none"
          /\ root'[o] \in Orders /\ order'[root'[o]] # "none"
    /\ \/ named'[o] = named[o] /\ reserved'[o] = reserved[o]
       \/ named'[o] = None /\ reserved'[o] = 0
       \/ /\ named'[o] \in Holds /\ order'[o] # "none"
          /\ owner[named'[o]] = o /\ reserved'[o] = amount[named'[o]]

\* A pick line keeps its order and its wave; a wave that was released stays so.
PlansStep ==
    /\ \A s \in Slices : slice[s] # "none" =>
          slice'[s] # "none" /\ of'[s] = of[s] /\ on'[s] = on[s]
    /\ \A w \in Waves : wave[w] \in {"released", "cancelled"} =>
          wave'[w] \in {"released", "cancelled"}

\* An order that a request outside R is placing: not written by anybody else,
\* its holds left alone but for the reaper, and taken up by nobody of R.
PlacingStep(R) ==
    \A q \in Requests \ R : pc[q] = "place" =>
        /\ order'[at[q]] = "none"
        /\ \A h \in Holds : owner[h] = at[q] => state'[h] \in {state[h], "expired"}
        /\ \A r \in R : at'[r] # at[q]

\* Holds.
LEMMA HoldsKept ==
    ASSUME TypeOK, TypeOK', Links, HoldsStep, \A o \in Orders : OrderStep(o)
    PROVE  \A h \in Holds : HoldInv(h)'
<1> SUFFICES ASSUME NEW h \in Holds PROVE HoldInv(h)'
  OBVIOUS
<1>1. /\ owner[h] \in Orders \cup {None}
      /\ state[h] = "free" <=> owner[h] = None
      /\ owner[h] # None => amount[h] <= qty[owner[h]]
  BY DEF TypeOK, Links, HoldInv
<1>2. owner[h] \in Orders => qty'[owner[h]] = qty[owner[h]]
  BY DEF OrderStep
<1>3. CASE /\ owner'[h] = owner[h] /\ amount'[h] = amount[h]
           /\ state'[h] = "free" <=> state[h] = "free"
  BY <1>1, <1>2, <1>3 DEF HoldInv
<1>4. CASE /\ state[h] = "free" /\ state'[h] = "held"
           /\ owner'[h] \in Orders /\ amount'[h] <= qty'[owner'[h]]
  BY <1>4, Finite DEF HoldInv
<1> QED
  BY <1>3, <1>4 DEF HoldsStep

\* A hold that is owned keeps its owner and its amount.
LEMMA OwnedKept ==
    ASSUME TypeOK, Links, HoldsStep, NEW h \in Holds, owner[h] # None
    PROVE  owner'[h] = owner[h] /\ amount'[h] = amount[h]
BY DEF Links, HoldInv, HoldsStep

\* Orders.
LEMMA OrdersKept ==
    ASSUME TypeOK, TypeOK', Links, HoldsStep, \A o \in Orders : OrderStep(o)
    PROVE  \A o \in Orders : OrderInv(o)'
<1> SUFFICES ASSUME NEW o \in Orders PROVE OrderInv(o)'
  OBVIOUS
<1>1. OrderInv(o) /\ OrderStep(o)
  BY DEF Links
<1>2. /\ order[o] # "none" => root[o] \in Orders /\ order'[root[o]] # "none"
  <2>1. \A x \in Orders : order[x] # "none" => order'[x] # "none"
    BY DEF OrderStep
  <2> QED
    BY <1>1, <2>1 DEF OrderInv
<1>3. /\ qty[o] \in Nat /\ qty'[o] \in Nat /\ reserved[o] \in Nat
      /\ named[o] \in Holds \cup {None} /\ reserved[o] <= qty[o]
  BY <1>1 DEF TypeOK, OrderInv
<1>4. ASSUME NEW h \in Holds, owner[h] = o
      PROVE  owner'[h] = o /\ amount[h] <= qty'[o]
  <2>1. o # None
    BY Finite
  <2>2. amount[h] <= qty[o] /\ qty'[o] = qty[o]
    BY <1>1, <1>4, <2>1 DEF Links, HoldInv, OrderStep
  <2> QED
    BY <1>4, <2>1, <2>2, OwnedKept
<1>5. /\ order'[o] = "none" => named'[o] = None /\ reserved'[o] = 0 /\ root'[o] = None
      /\ order'[o] # "none" => root'[o] \in Orders /\ order'[root'[o]] # "none"
  BY <1>1, <1>2 DEF OrderInv, OrderStep
<1>6. /\ named'[o] # None => owner'[named'[o]] = o
      /\ reserved'[o] <= qty'[o]
  <2>1. CASE named'[o] = named[o] /\ reserved'[o] = reserved[o]
    BY <1>1, <1>3, <1>4, <2>1 DEF OrderInv, OrderStep
  <2>2. CASE named'[o] = None /\ reserved'[o] = 0
    BY <1>3, <2>2
  <2>3. CASE /\ named'[o] \in Holds /\ owner[named'[o]] = o /\ reserved'[o] = amount[named'[o]]
    BY <1>4, <2>3
  <2> QED
    BY <1>1, <2>1, <2>2, <2>3 DEF OrderStep
<1> QED
  BY <1>5, <1>6 DEF OrderInv

\* The requests that do nothing.
LEMMA ReqsKept ==
    ASSUME TypeOK, TypeOK', Links, HoldsStep, \A o \in Orders : OrderStep(o), PlansStep,
           NEW R \in SUBSET Requests, Others(R), PlacingStep(R)
    PROVE  \A q \in Requests \ R : ReqInv(q)'
<1> SUFFICES ASSUME NEW q \in Requests \ R PROVE ReqInv(q)'
  OBVIOUS
<1>1. ReqInv(q) /\ has[q] \subseteq Holds /\ at[q] \in Orders \cup {None}
  BY DEF Links, TypeOK
<1>2. pc'[q] = pc[q] /\ at'[q] = at[q] /\ has'[q] = has[q] /\ read'[q] = read[q]
  BY DEF Others
<1>3. \A h \in has'[q] : owner'[h] = at'[q]
  <2> SUFFICES ASSUME NEW h \in has[q] PROVE owner'[h] = at[q]
    BY <1>2
  <2>1. pc[q] # "idle" /\ at[q] \in Orders /\ owner[h] = at[q] /\ h \in Holds
    BY <1>1 DEF ReqInv
  <2> QED
    BY <2>1, OwnedKept, Finite
<1>4. pc[q] = "place" =>
         /\ order'[at[q]] = "none"
         /\ \A h \in has[q] : state'[h] \in {"held", "expired"}
         /\ \A p \in Requests : at'[p] = at[q] => p = q
  <2> SUFFICES ASSUME pc[q] = "place"
               PROVE  /\ order'[at[q]] = "none"
                      /\ \A h \in has[q] : state'[h] \in {"held", "expired"}
                      /\ \A p \in Requests : at'[p] = at[q] => p = q
    OBVIOUS
  <2>1. /\ order'[at[q]] = "none"
        /\ \A h \in Holds : owner[h] = at[q] => state'[h] \in {state[h], "expired"}
        /\ \A r \in R : at'[r] # at[q]
    BY DEF PlacingStep
  <2>2. \A h \in has[q] : h \in Holds /\ owner[h] = at[q] /\ state[h] \in {"held", "expired"}
    BY <1>1 DEF ReqInv
  <2>3. \A p \in Requests : at[p] = at[q] => p = q
    BY <1>1 DEF ReqInv
  <2>4. \A p \in Requests \ R : at'[p] = at[p]
    BY DEF Others
  <2> QED
    BY <2>1, <2>2, <2>3, <2>4
<1>5. pc[q] = "pick" => /\ read[q][3] \in Slices /\ slice'[read[q][3]] # "none"
                        /\ wave'[on'[read[q][3]]] \in {"released", "cancelled"}
  <2> SUFFICES ASSUME pc[q] = "pick"
               PROVE  /\ read[q][3] \in Slices /\ slice'[read[q][3]] # "none"
                      /\ wave'[on'[read[q][3]]] \in {"released", "cancelled"}
    OBVIOUS
  <2> DEFINE s == read[q][3]
  <2>1. s \in Slices /\ slice[s] # "none" /\ wave[on[s]] \in {"released", "cancelled"}
    BY <1>1 DEF ReqInv
  <2> HIDE DEF s
  <2>2. on[s] \in Waves
    BY <2>1 DEF Links, SliceInv
  <2>3. slice'[s] # "none" /\ on'[s] = on[s] /\ wave'[on[s]] \in {"released", "cancelled"}
    BY <2>1, <2>2 DEF PlansStep
  <2> QED
    BY <2>1, <2>3 DEF s
<1>6. \A o \in Orders : /\ order[o] # "none" => order'[o] # "none"
                        /\ order[o] = "cancelled" => order'[o] = "cancelled"
  BY DEF OrderStep
<1>7. /\ pc[q] \in {"grant", "granted", "adopted", "cancel"} => order'[at[q]] # "none"
      /\ pc[q] = "unhold" => order'[at[q]] = "cancelled"
      /\ pc[q] = "idle" => has[q] = {}
      /\ pc[q] # "idle" => at[q] \in Orders
  BY <1>1, <1>6 DEF ReqInv
<1> QED
  BY <1>2, <1>3, <1>4, <1>5, <1>7 DEF ReqInv

\* Pick lines that a step does not touch.
LEMMA SlicesKept ==
    ASSUME TypeOK, Links, HoldsStep, \A o \in Orders : OrderStep(o), UNCHANGED plans,
           \A s \in Slices : slice[s] = "planned" => order'[of[s]] \in {"accepted", "cancelled"}
    PROVE  Slots' /\ (\A s \in Slices : SliceInv(s)') /\ PlansStep
<1>1. UNCHANGED <<wave, slice, of, on, under, bin, plan, short, back>>
  BY DEF plans
<1>2. Slots' /\ PlansStep
  BY <1>1 DEF Links, Slots, PlansStep
<1>3. ASSUME NEW s \in Slices PROVE SliceInv(s)'
  <2>1. SliceInv(s) /\ under[s] \in Holds \cup {None}
    BY DEF Links, TypeOK
  <2>2. of[s] \in Orders /\ order[of[s]] # "none" => order'[of[s]] # "none"
    BY DEF OrderStep
  <2>3. under[s] # None => of[s] \in Orders /\ owner'[under[s]] = of[s]
    BY <2>1, OwnedKept, Finite DEF SliceInv
  <2>4. slice[s] = "planned" => order'[of[s]] \in {"accepted", "cancelled"}
    OBVIOUS
  <2> QED
    BY <1>1, <2>1, <2>2, <2>3, <2>4 DEF SliceInv
<1> QED
  BY <1>2, <1>3

\* All of it together.
LEMMA LinksKept ==
    ASSUME TypeOK, TypeOK', Links, HoldsStep, \A o \in Orders : OrderStep(o), PlansStep,
           Slots', \A s \in Slices : SliceInv(s)',
           NEW R \in SUBSET Requests, Others(R), PlacingStep(R), \A r \in R : ReqInv(r)'
    PROVE  Links'
<1>1. \A r \in Requests : ReqInv(r)'
  BY ReqsKept
<1>2. (\A h \in Holds : HoldInv(h)') /\ (\A o \in Orders : OrderInv(o)')
  BY HoldsKept, OrdersKept
<1> QED
  BY <1>1, <1>2 DEF Links


-----------------------------------------------------------------------------
(* What was drawn, and what may still be. *)

\* The units a pick line drew.
LEMMA DrawsAre ==
    ASSUME TypeOK, NEW s \in Slices, SliceInv(s)
    PROVE  /\ Draws[s] = IF slice[s] \in {"picked", "short"} THEN plan[s] - short[s] ELSE 0
           /\ Draws[s] \in Nat /\ Draws[s] <= plan[s]
<1>1. plan[s] \in Nat /\ short[s] \in Nat /\ short[s] <= plan[s]
  BY DEF TypeOK, SliceInv
<1>2. slice[s] = "picked" => short[s] <= plan[s]
  BY <1>1
<1>3. Draws[s] = IF Drew(s) THEN plan[s] - short[s] ELSE 0
  BY DEF Draws
<1> QED
  BY <1>1, <1>3 DEF Drew

\* The same after a step.
LEMMA NextDrawsAre ==
    ASSUME TypeOK', NEW s \in Slices, SliceInv(s)'
    PROVE  /\ Draws'[s] = IF slice'[s] \in {"picked", "short"} THEN plan'[s] - short'[s] ELSE 0
           /\ Draws'[s] \in Nat /\ Draws'[s] <= plan'[s]
<1>1. plan'[s] \in Nat /\ short'[s] \in Nat /\ short'[s] <= plan'[s]
  BY DEF TypeOK, SliceInv
<1>3. Draws'[s] = IF Drew(s)' THEN plan'[s] - short'[s] ELSE 0
  BY DEF Draws
<1> QED
  BY <1>1, <1>3 DEF Drew

\* Drawn, or planned to be.
Weights == [s \in Slices |-> IF slice[s] = "planned" THEN plan[s] ELSE Draws[s]]

Fits(o) == Total(SlicesOf(o), Weights) <= qty[o]

\* A sum of draws is a number, and the load of an order is one sum.
LEMMA LoadIs ==
    ASSUME TypeOK, \A s \in Slices : SliceInv(s), NEW o
    PROVE  /\ Drawn(o) \in Nat /\ Total(SlicesOf(o), Weights) \in Nat
           /\ Drawn(o) <= Total(SlicesOf(o), Weights)
           /\ Drawn(o) + Total({s \in SlicesOf(o) : slice[s] = "planned"}, plan)
                = Total(SlicesOf(o), Weights)
<1> DEFINE S == SlicesOf(o)
           T == {s \in S : slice[s] = "planned"}
<1>1. S \subseteq Slices /\ IsFiniteSet(S) /\ T \in SUBSET S
  BY Finite DEF SlicesOf
<1>2. \A s \in Slices : /\ Draws[s] \in Nat /\ (slice[s] = "planned" => Draws[s] = 0)
                        /\ plan[s] \in Nat
  BY DrawsAre DEF TypeOK
<1>3. \A s \in S : /\ Draws[s] \in Nat /\ (s \in T => Draws[s] = 0) /\ plan[s] \in Nat
                   /\ Weights[s] = IF s \in T THEN plan[s] ELSE Draws[s]
  BY <1>1, <1>2 DEF Weights
<1> HIDE DEF S, T
<1>4. /\ Total(S, Draws) \in Nat /\ Total(T, plan) \in Nat
      /\ Total(S, Weights) = Total(S, Draws) + Total(T, plan)
  <2>1. \A s \in S : Draws[s] \in Nat /\ (s \in T => Draws[s] = 0)
    BY <1>3
  <2>2. \A s \in S : plan[s] \in Nat
    BY <1>3
  <2>3. \A s \in S : Weights[s] = IF s \in T THEN plan[s] ELSE Draws[s]
    BY <1>3
  <2>4. IsFiniteSet(S) /\ T \in SUBSET S
    BY <1>1
  <2> QED
    BY <2>1, <2>2, <2>3, <2>4, TotalMix, SMTT(30)
<1> QED
  BY <1>4 DEF S, T, Drawn

\* The same after a step.
LEMMA NextLoadIs ==
    ASSUME TypeOK', \A s \in Slices : SliceInv(s)', NEW o
    PROVE  /\ Drawn(o)' + Total({s \in SlicesOf(o)' : slice'[s] = "planned"}, plan')
                = Total(SlicesOf(o)', Weights')
           /\ \A s \in Slices : Weights'[s] \in Nat
<1> DEFINE S == SlicesOf(o)'
           T == {s \in S : slice'[s] = "planned"}
<1>1. S \subseteq Slices /\ IsFiniteSet(S) /\ T \in SUBSET S
  BY Finite DEF SlicesOf
<1>2. \A s \in Slices : /\ Draws'[s] \in Nat /\ (slice'[s] = "planned" => Draws'[s] = 0)
                        /\ plan'[s] \in Nat
  BY NextDrawsAre DEF TypeOK
<1>3. \A s \in Slices : Weights'[s] = IF slice'[s] = "planned" THEN plan'[s] ELSE Draws'[s]
  BY DEF Weights
<1>4. \A s \in S : /\ Draws'[s] \in Nat /\ (s \in T => Draws'[s] = 0) /\ plan'[s] \in Nat
                   /\ Weights'[s] = IF s \in T THEN plan'[s] ELSE Draws'[s]
  BY <1>1, <1>2, <1>3
<1> HIDE DEF S, T
<1>5. /\ Total(S, Draws') \in Nat /\ Total(T, plan') \in Nat
      /\ Total(S, Weights') = Total(S, Draws') + Total(T, plan')
  <2>1. \A s \in S : Draws'[s] \in Nat /\ (s \in T => Draws'[s] = 0)
    BY <1>4
  <2>2. \A s \in S : plan'[s] \in Nat
    BY <1>4
  <2>3. \A s \in S : Weights'[s] = IF s \in T THEN plan'[s] ELSE Draws'[s]
    BY <1>4
  <2>4. IsFiniteSet(S) /\ T \in SUBSET S
    BY <1>1
  <2> QED
    BY <2>1, <2>2, <2>3, <2>4, TotalMix, SMTT(30)
<1>6. \A s \in Slices : Weights'[s] \in Nat
  BY <1>2, <1>3
<1> QED
  BY <1>5, <1>6 DEF S, T, Drawn

\* A pick line weighs what it drew or what it plans.
LEMMA WeightsAre ==
    ASSUME TypeOK, NEW s \in Slices, SliceInv(s)
    PROVE  /\ Weights[s] = IF slice[s] = "planned" THEN plan[s]
                           ELSE IF slice[s] \in {"picked", "short"} THEN plan[s] - short[s]
                           ELSE 0
           /\ Weights[s] \in Nat
<1>1. plan[s] \in Nat
  BY DEF TypeOK
<1> QED
  BY <1>1, DrawsAre DEF Weights

\* The same after a step.
LEMMA NextWeightsAre ==
    ASSUME TypeOK', NEW s \in Slices, SliceInv(s)'
    PROVE  /\ Weights'[s] = IF slice'[s] = "planned" THEN plan'[s]
                            ELSE IF slice'[s] \in {"picked", "short"} THEN plan'[s] - short'[s]
                            ELSE 0
           /\ Weights'[s] \in Nat
<1>1. plan'[s] \in Nat
  BY DEF TypeOK
<1> QED
  BY <1>1, NextDrawsAre DEF Weights

\* PlannedWithinLine, as one sum for each order.
LEMMA FitsIs ==
    /\ TypeOK /\ (\A s \in Slices : SliceInv(s)) =>
          (PlannedWithinLine <=> \A o \in Orders : Fits(o))
    /\ TypeOK' /\ (\A s \in Slices : SliceInv(s)') =>
          (PlannedWithinLine' <=> \A o \in Orders : Fits(o)')
<1>1. ASSUME TypeOK, \A s \in Slices : SliceInv(s), NEW o \in Orders
      PROVE  Fits(o) <=> Drawn(o) + Total({s \in SlicesOf(o) : slice[s] = "planned"}, plan) <= qty[o]
  BY <1>1, LoadIs DEF Fits
<1>2. ASSUME TypeOK', \A s \in Slices : SliceInv(s)', NEW o \in Orders
      PROVE  Fits(o)' <=>
                Drawn(o)' + Total({s \in SlicesOf(o)' : slice'[s] = "planned"}, plan') <= qty'[o]
  BY <1>2, NextLoadIs DEF Fits
<1> QED
  BY <1>1, <1>2 DEF PlannedWithinLine

\* An order whose pick lines weigh no more than they did still fits.
LEMMA LighterFits ==
    ASSUME TypeOK, TypeOK', \A s \in Slices : SliceInv(s), \A s \in Slices : SliceInv(s)',
           NEW o \in Orders, Fits(o), qty'[o] = qty[o], SlicesOf(o)' = SlicesOf(o),
           \A s \in SlicesOf(o) : Weights'[s] <= Weights[s]
    PROVE  Fits(o)'
<1> DEFINE S == SlicesOf(o)
<1>1. IsFiniteSet(S) /\ S \subseteq Slices
  BY Finite DEF SlicesOf
<1>2. \A s \in S : Weights[s] \in Nat
  BY <1>1, WeightsAre
<1>3. \A s \in S : Weights'[s] \in Nat /\ Weights'[s] <= Weights[s]
  BY <1>1, NextWeightsAre
<1> HIDE DEF S
<1>4. Total(S, Weights') <= Total(S, Weights)
  BY <1>1, <1>2, <1>3, TotalLess
<1>5. /\ Total(S, Weights) \in Nat /\ Total(S, Weights') \in Nat
      /\ qty[o] \in Nat
  BY <1>1, <1>2, <1>3, TotalType DEF TypeOK
<1> QED
  BY <1>4, <1>5 DEF Fits, S


-----------------------------------------------------------------------------
(* The invariant, and what keeps its accounts. *)

Touched == {"picked", "short", "cancelled"}

Backed(o) ==
    order[o] = "accepted" /\ named[o] # None
        /\ (\A s \in SlicesOf(o) : slice[s] \notin Touched)
    => /\ owner[named[o]] = o /\ amount[named[o]] = reserved[o]
       /\ state[named[o]] \in {"held", "expired"}

IInv == /\ TypeOK
        /\ Links
        /\ LineBacked
        /\ PlannedWithinLine
        /\ FamilyAccounts
        /\ UnitsAccounted

\* LineBacked, order by order.
LEMMA BackedIs ==
    /\ LineBacked <=> \A o \in Orders : Backed(o)
    /\ LineBacked' <=> \A o \in Orders : Backed(o)'
BY DEF LineBacked, Backed, Touched

\* A promise that a step does not write is kept while its hold is not ended and
\* what touched the order stays touched.
LEMMA BackedKept ==
    ASSUME TypeOK, Links, HoldsStep, NEW o \in Orders, Backed(o),
           named'[o] = named[o], reserved'[o] = reserved[o],
           order'[o] = "accepted" => order[o] = "accepted",
           \A s \in Slices : of[s] = o /\ slice[s] \in Touched => of'[s] = o /\ slice'[s] \in Touched,
           order'[o] = "accepted" /\ named[o] # None =>
               state'[named[o]] \in {state[named[o]], "expired"}
    PROVE  Backed(o)'
<1> SUFFICES ASSUME order'[o] = "accepted" /\ named'[o] # None,
                    \A s \in SlicesOf(o)' : slice'[s] \notin Touched
             PROVE  /\ owner'[named'[o]] = o /\ amount'[named'[o]] = reserved'[o]
                    /\ state'[named'[o]] \in {"held", "expired"}
  BY DEF Backed
<1>1. \A s \in SlicesOf(o) : slice[s] \notin Touched
  BY DEF SlicesOf
<1>2. /\ owner[named[o]] = o /\ amount[named[o]] = reserved[o]
      /\ state[named[o]] \in {"held", "expired"} /\ named[o] \in Holds
  BY <1>1 DEF Backed, TypeOK
<1>3. owner'[named[o]] = o /\ amount'[named[o]] = reserved[o]
  BY <1>2, OwnedKept, Finite
<1> QED
  BY <1>2, <1>3

\* The family an order belongs to: its members, what they sent, who is left.
Kin(o)  == {x \in Orders : root[x] = o}
Sent(o) == {x \in Kin(o) : order[x] = "dispatched"}
Left(o) == Kin(o) \ Sent(o)

Family(o) ==
    root[o] = o =>
        /\ Cardinality(Left(o)) <= 1
        /\ qty[o] = Total(Sent(o), [x \in Kin(o) |-> Drawn(x)]) + Total(Left(o), qty)

\* FamilyAccounts, root by root.
LEMMA FamilyIs ==
    /\ FamilyAccounts <=> \A o \in Orders : Family(o)
    /\ FamilyAccounts' <=> \A o \in Orders : Family(o)'
BY DEF FamilyAccounts, Family, Kin, Sent, Left

\* A family keeps its accounts while nobody of it is sent, none joins, and the
\* units of those that left stand.
LEMMA FamilyKept ==
    ASSUME NEW o \in Orders, Family(o), root'[o] = o => root[o] = o,
           \A x \in Orders : /\ root'[x] = o <=> root[x] = o
                             /\ root[x] = o => /\ order'[x] = "dispatched" <=> order[x] = "dispatched"
                                               /\ qty'[x] = qty[x]
                                               /\ order[x] = "dispatched" => Drawn(x)' = Drawn(x)
    PROVE  Family(o)'
<1> SUFFICES ASSUME root'[o] = o PROVE
        /\ Cardinality(Left(o)') <= 1
        /\ qty'[o] = Total(Sent(o)', [x \in Kin(o)' |-> Drawn(x)']) + Total(Left(o)', qty')
  BY DEF Family
<1>1. Kin(o)' = Kin(o)
  BY DEF Kin
<1>2. Sent(o)' = Sent(o) /\ Left(o)' = Left(o)
  BY <1>1 DEF Sent, Left, Kin
<1>3. /\ Cardinality(Left(o)) <= 1 /\ qty'[o] = qty[o]
      /\ qty[o] = Total(Sent(o), [x \in Kin(o) |-> Drawn(x)]) + Total(Left(o), qty)
  BY DEF Family
<1>4. Total(Left(o), qty') = Total(Left(o), qty)
  <2>1. \A x \in Left(o) : qty'[x] = qty[x]
    BY DEF Left, Kin
  <2> QED
    BY <2>1, TotalSame
<1>5. Total(Sent(o), [x \in Kin(o) |-> Drawn(x)']) = Total(Sent(o), [x \in Kin(o) |-> Drawn(x)])
  <2> DEFINE f == [x \in Kin(o) |-> Drawn(x)]
             g == [x \in Kin(o) |-> Drawn(x)']
  <2>1. \A x \in Sent(o) : f[x] = g[x]
    BY DEF Sent, Kin
  <2> HIDE DEF f, g
  <2>2. Total(Sent(o), f) = Total(Sent(o), g)
    BY <2>1, TotalSame
  <2> QED
    BY <2>2 DEF f, g
<1> QED
  BY <1>1, <1>2, <1>3, <1>4, <1>5

\* Every unit in a bin or out, as a sum over all pick lines.
Out == [s \in Slices |-> IF back[s] THEN 0 ELSE Draws[s]]

\* UnitsAccounted, with that sum.
LEMMA UnitsIs ==
    /\ (\A s \in Slices : Draws[s] \in Nat) =>
          (UnitsAccounted <=> Total(Bins, onHand) + Total(Slices, Out) = Total(Bins, Stock))
    /\ (\A s \in Slices : Draws'[s] \in Nat) =>
          (UnitsAccounted' <=> Total(Bins, onHand') + Total(Slices, Out') = Total(Bins, Stock))
<1>1. ASSUME \A s \in Slices : Draws[s] \in Nat
      PROVE  Total(Slices, Out) = Total({s \in Slices : ~back[s]}, Draws)
  <2> DEFINE T == {s \in Slices : ~back[s]}
  <2>1. T \in SUBSET Slices /\ \A s \in T : Draws[s] \in Nat
    BY <1>1
  <2>2. \A s \in Slices : Out[s] = IF s \in T THEN Draws[s] ELSE 0
    BY DEF Out
  <2> HIDE DEF T
  <2>3. Total(Slices, Out) = Total(T, Draws)
    <3>1. IsFiniteSet(Slices)
      BY Finite
    <3> QED
      BY <2>1, <2>2, <3>1, TotalMasked, SMTT(30)
  <2> QED
    BY <2>3 DEF T
<1>2. ASSUME \A s \in Slices : Draws'[s] \in Nat
      PROVE  Total(Slices, Out') = Total({s \in Slices : ~back'[s]}, Draws')
  <2> DEFINE T == {s \in Slices : ~back'[s]}
  <2>1. T \in SUBSET Slices /\ \A s \in T : Draws'[s] \in Nat
    BY <1>2
  <2>2. \A s \in Slices : Out'[s] = IF s \in T THEN Draws'[s] ELSE 0
    BY DEF Out
  <2> HIDE DEF T
  <2>3. Total(Slices, Out') = Total(T, Draws')
    <3>1. IsFiniteSet(Slices)
      BY Finite
    <3> QED
      BY <2>1, <2>2, <3>1, TotalMasked, SMTT(30)
  <2> QED
    BY <2>3 DEF T
<1> QED
  BY <1>1, <1>2 DEF UnitsAccounted

\* An order that does not exist has no pick lines.
LEMMA NoSlices ==
    ASSUME Links, NEW o \in Orders, order[o] = "none"
    PROVE  SlicesOf(o) = {}
<1> SUFFICES ASSUME NEW s \in Slices, of[s] = o PROVE FALSE
  BY DEF SlicesOf
<1>1. SliceInv(s) /\ o # None
  BY Finite DEF Links
<1> QED
  BY <1>1 DEF SliceInv

\* A step that touches neither plans nor stock, and writes no root.
LEMMA QuietKept ==
    ASSUME IInv, TypeOK', HoldsStep, \A o \in Orders : OrderStep(o),
           UNCHANGED plans, UNCHANGED onHand,
           \A s \in Slices : slice[s] = "planned" => order'[of[s]] \in {"accepted", "cancelled"},
           NEW R \in SUBSET Requests, Others(R), PlacingStep(R), \A r \in R : ReqInv(r)',
           \A o \in Orders : Backed(o)',
           FamilyAccounts'
    PROVE  IInv'
<1>1. TypeOK /\ Links /\ UNCHANGED <<wave, slice, of, on, under, bin, plan, short, back>>
  BY DEF IInv, plans
<1>2. Slots' /\ (\A s \in Slices : SliceInv(s)') /\ PlansStep
  BY <1>1, SlicesKept
<1>3. Links'
  BY <1>1, <1>2, LinksKept
<1>4. Weights' = Weights /\ Draws' = Draws
  BY <1>1 DEF Weights, Draws, Drew
<1>5. \A o \in Orders : Fits(o)'
  <2> SUFFICES ASSUME NEW o \in Orders PROVE Fits(o)'
    OBVIOUS
  <2>1. SlicesOf(o)' = SlicesOf(o)
    BY <1>1 DEF SlicesOf
  <2>2. CASE qty'[o] = qty[o]
    <3>1. Fits(o)
      BY FitsIs DEF IInv, Links
    <3>2. Total(SlicesOf(o), Weights) <= qty[o]
      BY <3>1 DEF Fits
    <3> QED
      BY <1>4, <2>1, <2>2, <3>2 DEF Fits
  <2>3. CASE qty'[o] # qty[o]
    <3>1. SlicesOf(o) = {}
      BY <1>1, <2>3, NoSlices DEF OrderStep
    <3>2. Total({}, Weights') = 0 /\ qty'[o] \in Nat
      BY TotalEmpty DEF TypeOK
    <3> QED
      BY <2>1, <3>1, <3>2 DEF Fits
  <2> QED
    BY <2>2, <2>3
<1>6. PlannedWithinLine'
  BY <1>2, <1>5, FitsIs
<1>7. UnitsAccounted'
  BY <1>1, <1>4 DEF IInv, UnitsAccounted
<1>8. LineBacked'
  BY BackedIs
<1> QED
  BY <1>3, <1>6, <1>7, <1>8 DEF IInv

\* Plans that a step does not touch: the draws of every order stand.
LEMMA DrawnKept ==
    ASSUME UNCHANGED plans, NEW o
    PROVE  Drawn(o)' = Drawn(o)
<1>1. UNCHANGED <<slice, of, plan, short>>
  BY DEF plans
<1>2. Draws' = Draws
  BY <1>1 DEF Draws, Drew
<1>3. SlicesOf(o)' = SlicesOf(o)
  BY <1>1 DEF SlicesOf
<1> QED
  BY <1>2, <1>3 DEF Drawn

\* A step that also writes no order.
LEMMA RowsQuiet ==
    ASSUME IInv, TypeOK', HoldsStep, UNCHANGED rows, UNCHANGED plans, UNCHANGED onHand,
           NEW R \in SUBSET Requests, Others(R), PlacingStep(R), \A r \in R : ReqInv(r)',
           \A o \in Orders : order[o] = "accepted" /\ named[o] # None =>
               state'[named[o]] \in {state[named[o]], "expired"}
    PROVE  IInv'
<1>1. /\ UNCHANGED <<order, qty, named, reserved, root>>
      /\ UNCHANGED <<wave, slice, of, on, under, bin, plan, short, back>>
  BY DEF rows, plans
<1>2. \A o \in Orders : OrderStep(o)
  BY <1>1 DEF OrderStep
<1>3. \A s \in Slices : slice[s] = "planned" => order'[of[s]] \in {"accepted", "cancelled"}
  BY <1>1 DEF IInv, Links, SliceInv
<1>4. \A o \in Orders : Backed(o)'
  <2> SUFFICES ASSUME NEW o \in Orders PROVE Backed(o)'
    OBVIOUS
  <2>1. TypeOK /\ Links /\ Backed(o)
    BY BackedIs DEF IInv
  <2> QED
    BY <1>1, <2>1, BackedKept
<1>5. FamilyAccounts'
  <2> SUFFICES ASSUME NEW o \in Orders PROVE Family(o)'
    BY FamilyIs
  <2>1. Family(o)
    BY FamilyIs DEF IInv
  <2>2. \A x \in Orders : Drawn(x)' = Drawn(x)
    BY DrawnKept
  <2> QED
    BY <1>1, <2>1, <2>2, FamilyKept
<1> QED
  BY <1>2, <1>3, <1>4, <1>5, QuietKept


-----------------------------------------------------------------------------
(* Steps of requests that write no order. *)

\* A request that ended is in order.
LEMMA IdleInv ==
    ASSUME NEW r \in Requests, pc'[r] = "idle", has'[r] = {}
    PROVE  ReqInv(r)'
BY DEF ReqInv

\* Who places an order is alone with it.
LEMMA PlacingAlone ==
    ASSUME Links, NEW q \in Requests, pc[q] = "place", NEW r \in Requests, r # q
    PROVE  at[q] \in Orders /\ order[at[q]] = "none" /\ at[r] # at[q]
BY DEF Links, ReqInv

\* Holds that a step leaves alone.
LEMMA HoldsSame ==
    ASSUME UNCHANGED holds
    PROVE  HoldsStep /\ UNCHANGED <<state, owner, amount>>
BY DEF holds, HoldsStep

\* grantLineHold inserts one row.
LEMMA GrantedStep ==
    ASSUME TypeOK, Links, NEW o \in Orders, NEW n \in Int, n <= MaxQty, n <= qty'[o], Granted(o, n)
    PROVE  /\ HoldTypes' /\ HoldsStep
           /\ NewHold \in Holds /\ state[NewHold] = "free" /\ owner[NewHold] = None
           /\ state'[NewHold] = "held" /\ owner'[NewHold] = o /\ amount'[NewHold] = n
           /\ \A h \in Holds \ {NewHold} :
                 state'[h] = state[h] /\ owner'[h] = owner[h] /\ amount'[h] = amount[h]
<1> DEFINE g == NewHold
<1>1. g \in Holds /\ state[g] = "free"
  BY DEF Granted, NewHold
<1>2. owner[g] = None
  BY <1>1 DEF Links, HoldInv
<1>3. /\ n > 0 /\ state' = [state EXCEPT ![g] = "held"]
      /\ owner' = [owner EXCEPT ![g] = o] /\ amount' = [amount EXCEPT ![g] = n]
  BY DEF Granted
<1> HIDE DEF g
<1>4. n \in 0 .. MaxQty
  BY <1>3, FlowConstants
<1>5. HoldTypes
  BY TypeParts
<1>6. HoldTypes'
  BY <1>1, <1>3, <1>4, <1>5 DEF HoldTypes
<1>7. /\ state'[g] = "held" /\ owner'[g] = o /\ amount'[g] = n
      /\ \A h \in Holds \ {g} :
            state'[h] = state[h] /\ owner'[h] = owner[h] /\ amount'[h] = amount[h]
  BY <1>1, <1>3, <1>5 DEF HoldTypes
<1>8. HoldsStep
  BY <1>1, <1>7 DEF HoldsStep
<1> QED
  BY <1>1, <1>2, <1>6, <1>7, <1>8 DEF g

\* releaseReservationInTx ends holds and writes nothing else.
LEMMA ReleasedStep ==
    ASSUME TypeOK, NEW H, Released(H)
    PROVE  /\ HoldTypes' /\ HoldsStep /\ UNCHANGED <<owner, amount>>
           /\ \A h \in Holds : h \notin H \/ state[h] # "held" => state'[h] = state[h]
<1>1. HoldTypes
  BY TypeParts
<1>2. /\ \A h \in Holds : state'[h] = IF h \in H /\ state[h] = "held" THEN "released" ELSE state[h]
      /\ UNCHANGED <<owner, amount>>
  BY DEF Released
<1>3. HoldTypes'
  BY <1>1 DEF HoldTypes, Released
<1> QED
  BY <1>2, <1>3 DEF HoldsStep

\* What is granted is a number of units, at most what was asked for.
LEMMA TargetType ==
    ASSUME TypeOK, NEW n \in Nat
    PROVE  Target(n) \in Int /\ Target(n) <= n /\ Atp \in Int
<1>1. Total(Bins, onHand) \in Nat
  BY FlowConstants, TotalType DEF TypeOK
<1>2. Total(Live, amount) \in Nat
  <2>1. Live \in SUBSET Holds
    BY DEF Live
  <2>2. IsFiniteSet(Live) /\ \A h \in Live : amount[h] \in Nat
    BY <2>1, Finite DEF TypeOK
  <2> QED
    BY <2>2, TotalType
<1>3. Atp \in Int
  BY <1>1, <1>2 DEF Atp
<1> QED
  BY <1>3 DEF Target, Least

\* A step of one request over holds of its own order that no accepted line names.
LEMMA HoldsOnly ==
    ASSUME IInv, NEW r \in Requests, ReqTypes', HoldTypes', HoldsStep,
           UNCHANGED rows, UNCHANGED plans, UNCHANGED onHand,
           Others({r}), ReqInv(r)', at'[r] \in {None, at[r]},
           \A h \in Holds : owner[h] # None =>
               \/ state'[h] \in {state[h], "expired"}
               \/ owner[h] = at[r] /\ \A o \in Orders : order[o] = "accepted" => named[o] # h
    PROVE  IInv'
<1>1. TypeOK /\ Links /\ TypeOK'
  BY TypeParts, TypesKept DEF IInv
<1>2. PlacingStep({r})
  <2> SUFFICES ASSUME NEW q \in Requests \ {r}, pc[q] = "place"
               PROVE  /\ order'[at[q]] = "none"
                      /\ \A h \in Holds : owner[h] = at[q] => state'[h] \in {state[h], "expired"}
                      /\ at'[r] # at[q]
    BY DEF PlacingStep
  <2>1. at[q] \in Orders /\ order[at[q]] = "none" /\ at[r] # at[q]
    BY <1>1, PlacingAlone
  <2>2. order' = order
    BY DEF rows
  <2> QED
    BY <2>1, <2>2, Finite
<1>3. ASSUME NEW o \in Orders, order[o] = "accepted", named[o] # None
      PROVE  state'[named[o]] \in {state[named[o]], "expired"}
  <2>1. named[o] \in Holds /\ owner[named[o]] = o
    BY <1>1, <1>3 DEF TypeOK, Links, OrderInv
  <2> QED
    BY <1>3, <2>1, Finite
<1>4. \A x \in {r} : ReqInv(x)'
  OBVIOUS
<1> QED
  BY <1>1, <1>2, <1>3, <1>4, RowsQuiet

\* A step that only reads.
LEMMA ReadsOnly ==
    ASSUME IInv, NEW r \in Requests, ReqTypes',
           UNCHANGED rows, UNCHANGED holds, UNCHANGED plans, UNCHANGED onHand,
           Others({r}), ReqInv(r)',
           at'[r] = None \/ (at'[r] \in Orders /\ order[at'[r]] # "none")
    PROVE  IInv'
<1>1. TypeOK /\ Links /\ TypeOK'
  BY TypeParts, TypesKept DEF IInv
<1>2. HoldsStep /\ UNCHANGED <<state, owner, amount>>
  BY HoldsSame
<1>3. PlacingStep({r})
  <2> SUFFICES ASSUME NEW q \in Requests \ {r}, pc[q] = "place"
               PROVE  /\ order'[at[q]] = "none"
                      /\ \A h \in Holds : owner[h] = at[q] => state'[h] \in {state[h], "expired"}
                      /\ at'[r] # at[q]
    BY DEF PlacingStep
  <2>1. at[q] \in Orders /\ order[at[q]] = "none" /\ at[r] # at[q]
    BY <1>1, PlacingAlone
  <2>2. order' = order
    BY DEF rows
  <2> QED
    BY <1>2, <2>1, <2>2, Finite
<1>4. \A x \in {r} : ReqInv(x)'
  OBVIOUS
<1> QED
  BY <1>1, <1>2, <1>3, <1>4, RowsQuiet

\* A request that ends without having written.
LEMMA EndsKept ==
    ASSUME IInv, NEW r \in Requests, Rest(r),
           UNCHANGED rows, UNCHANGED holds, UNCHANGED plans, UNCHANGED onHand
    PROVE  IInv'
<1>1. ReqTypes
  BY TypeParts DEF IInv
<1>2. ReqTypes' /\ Others({r}) /\ pc'[r] = "idle" /\ at'[r] = None /\ has'[r] = {}
  BY <1>1, RestStep
<1>3. ReqInv(r)'
  BY <1>2, IdleInv
<1> QED
  BY <1>2, <1>3, ReadsOnly

\* PickRefused, Crash.
LEMMA GivesUpKept ==
    ASSUME IInv, NEW r \in Requests, PickRefused(r) \/ Crash(r)
    PROVE  IInv'
<1>1. Rest(r) /\ UNCHANGED rows /\ UNCHANGED holds /\ UNCHANGED plans /\ UNCHANGED onHand
  BY DEF PickRefused, Crash
<1> QED
  BY <1>1, EndsKept

\* planInTx of the allocator.
LEMMA AllocatePlanKept ==
    ASSUME IInv, NEW r \in Requests, NEW o \in Orders, AllocatePlan(r, o)
    PROVE  IInv'
<1>1. /\ order[o] = "accepted"
      /\ UNCHANGED rows /\ UNCHANGED holds /\ UNCHANGED plans /\ UNCHANGED onHand
      /\ Go(r, "grant", o, {}, Line(o)) \/ Go(r, "adopted", o, Held(o), Line(o))
  BY DEF AllocatePlan, Eligible
<1>2. ReqTypes /\ Line(o) \in Seen /\ Held(o) \in SUBSET Holds
  BY TypeParts, SeenTypes DEF IInv, Held
<1>3. /\ ReqTypes' /\ Others({r}) /\ at'[r] = o
      /\ pc'[r] \in {"grant", "adopted"} /\ has'[r] \subseteq Held(o)
  <2>0. {} \in SUBSET Holds /\ "grant" \in Phases /\ "adopted" \in Phases
    BY DEF Phases
  <2>1. CASE Go(r, "grant", o, {}, Line(o))
    BY <1>2, <2>0, <2>1, GoStep
  <2>2. CASE Go(r, "adopted", o, Held(o), Line(o))
    BY <1>2, <2>0, <2>2, GoStep
  <2> QED
    BY <1>1, <2>1, <2>2
<1>4. order' = order /\ owner' = owner
  BY <1>1 DEF rows, holds
<1>5. ReqInv(r)'
  BY <1>1, <1>3, <1>4 DEF ReqInv, Held
<1> QED
  BY <1>1, <1>3, <1>5, ReadsOnly

\* The checks of cancelOrder.
LEMMA CancelCheckKept ==
    ASSUME IInv, NEW r \in Requests, NEW o \in Orders, CancelCheck(r, o)
    PROVE  IInv'
<1> DEFINE H == {h \in Holds : h = named[o] /\ state[h] = "held"}
<1>1. /\ order[o] = "accepted"
      /\ UNCHANGED rows /\ UNCHANGED holds /\ UNCHANGED plans /\ UNCHANGED onHand
      /\ Go(r, "cancel", o, H, Nothing)
  BY DEF CancelCheck
<1>2. ReqTypes /\ Nothing \in Seen /\ H \in SUBSET Holds
  BY TypeParts, SeenTypes DEF IInv
<1>3. \A h \in H : owner[h] = o
  BY Finite DEF IInv, Links, OrderInv
<1> HIDE DEF H
<1>4. ReqTypes' /\ Others({r}) /\ at'[r] = o /\ pc'[r] = "cancel" /\ has'[r] = H
  BY <1>1, <1>2, GoStep DEF Phases
<1>5. order' = order /\ owner' = owner
  BY <1>1 DEF rows, holds
<1>6. ReqInv(r)'
  BY <1>1, <1>3, <1>4, <1>5 DEF ReqInv
<1> QED
  BY <1>1, <1>4, <1>6, ReadsOnly

\* The reads of recordPick.
LEMMA PickReadKept ==
    ASSUME IInv, NEW r \in Requests, NEW s \in Slices, PickRead(r, s)
    PROVE  IInv'
<1>1. /\ slice[s] = "planned" /\ wave[on[s]] = "released" /\ order[of[s]] = "accepted"
      /\ UNCHANGED rows /\ UNCHANGED holds /\ UNCHANGED plans /\ UNCHANGED onHand
      /\ Go(r, "pick", of[s], {}, Stop(s))
  BY DEF PickRead
<1>2. ReqTypes /\ Stop(s) \in Seen /\ of[s] \in Orders
  BY <1>1, TypeParts, SeenTypes DEF IInv, Links, SliceInv
<1>3. /\ ReqTypes' /\ Others({r}) /\ at'[r] = of[s] /\ pc'[r] = "pick" /\ has'[r] = {}
      /\ read'[r] = Stop(s)
  <2>1. {} \in SUBSET Holds /\ "pick" \in Phases
    BY DEF Phases
  <2> QED
    BY <1>1, <1>2, <2>1, GoStep
<1>4. slice' = slice /\ on' = on /\ wave' = wave
  BY <1>1 DEF plans
<1>5. read'[r][3] = s
  BY <1>3 DEF Stop
<1>6. ReqInv(r)'
  BY <1>1, <1>2, <1>3, <1>4, <1>5 DEF ReqInv
<1> QED
  BY <1>1, <1>2, <1>3, <1>6, ReadsOnly


-----------------------------------------------------------------------------
(* Steps that grant, release or reap. *)

\* releaseAll after a refusal: nobody knows the order but who placed it.
LEMMA PlaceRefusedKept ==
    ASSUME IInv, NEW r \in Requests, PlaceRefused(r)
    PROVE  IInv'
<1>1. /\ pc[r] = "place" /\ Released(has[r]) /\ Rest(r)
      /\ UNCHANGED rows /\ UNCHANGED plans /\ UNCHANGED onHand
  BY DEF PlaceRefused
<1>2. TypeOK /\ Links /\ ReqTypes
  BY TypeParts DEF IInv
<1>3. ReqTypes' /\ Others({r}) /\ pc'[r] = "idle" /\ at'[r] = None /\ has'[r] = {}
  BY <1>1, <1>2, RestStep
<1>4. ReqInv(r)'
  BY <1>3, IdleInv
<1>5. /\ HoldTypes' /\ HoldsStep
      /\ \A h \in Holds : h \notin has[r] \/ state[h] # "held" => state'[h] = state[h]
  BY <1>1, <1>2, ReleasedStep
<1>6. order[at[r]] = "none" /\ \A h \in has[r] : owner[h] = at[r]
  BY <1>1, <1>2 DEF Links, ReqInv
<1>7. ASSUME NEW h \in has[r], NEW o \in Orders, order[o] = "accepted"
      PROVE  named[o] # h
  <2>1. named[o] = h => owner[h] = o
    BY <1>2, Finite DEF Links, OrderInv, TypeOK
  <2> QED
    BY <1>6, <1>7, <2>1
<1>8. \A h \in Holds : owner[h] # None =>
         \/ state'[h] \in {state[h], "expired"}
         \/ owner[h] = at[r] /\ \A o \in Orders : order[o] = "accepted" => named[o] # h
  BY <1>5, <1>6, <1>7
<1> QED
  BY <1>1, <1>3, <1>4, <1>5, <1>8, HoldsOnly

\* releaseUnreferencedUnderLock, and the release after a write that was refused.
LEMMA UnreferencedKept ==
    ASSUME IInv, NEW r \in Requests, NEW H \in SUBSET has[r], \A h \in H : Unreferenced(h),
           Released(H), Rest(r), UNCHANGED rows, UNCHANGED plans, UNCHANGED onHand
    PROVE  IInv'
<1>1. TypeOK /\ Links /\ ReqTypes
  BY TypeParts DEF IInv
<1>2. ReqTypes' /\ Others({r}) /\ pc'[r] = "idle" /\ at'[r] = None /\ has'[r] = {}
  BY <1>1, RestStep
<1>3. ReqInv(r)'
  BY <1>2, IdleInv
<1>4. /\ HoldTypes' /\ HoldsStep
      /\ \A h \in Holds : h \notin H \/ state[h] # "held" => state'[h] = state[h]
  BY <1>1, ReleasedStep
<1>5. \A h \in H : owner[h] = at[r] /\ \A o \in Orders : named[o] # h
  BY <1>1 DEF Links, ReqInv, Unreferenced
<1>6. \A h \in Holds : owner[h] # None =>
         \/ state'[h] \in {state[h], "expired"}
         \/ owner[h] = at[r] /\ \A o \in Orders : order[o] = "accepted" => named[o] # h
  BY <1>4, <1>5
<1> QED
  BY <1>2, <1>3, <1>4, <1>6, HoldsOnly

\* The allocator's write failed.
LEMMA AllocateFailsKept ==
    ASSUME IInv, NEW r \in Requests, AllocateFails(r)
    PROVE  IInv'
<1> DEFINE H == IF pc[r] = "granted" THEN {h \in has[r] : Unreferenced(h)} ELSE {}
<1>1. Released(H) /\ Rest(r) /\ UNCHANGED rows /\ UNCHANGED plans /\ UNCHANGED onHand
  BY DEF AllocateFails
<1>2. H \in SUBSET has[r] /\ \A h \in H : Unreferenced(h)
  OBVIOUS
<1> HIDE DEF H
<1> QED
  BY <1>1, <1>2, UnreferencedKept

\* The last phase of a cancellation: the holds of a cancelled order.
LEMMA CancelReleaseKept ==
    ASSUME IInv, NEW r \in Requests, CancelRelease(r)
    PROVE  IInv'
<1>1. /\ pc[r] = "unhold" /\ Rest(r)
      /\ UNCHANGED rows /\ UNCHANGED plans /\ UNCHANGED onHand
  BY DEF CancelRelease
<1>2. TypeOK /\ Links /\ ReqTypes /\ Rest(r) /\ pc[r] = "unhold"
  BY TypeParts DEF IInv, CancelRelease
<1>3. ReqTypes' /\ Others({r}) /\ pc'[r] = "idle" /\ at'[r] = None /\ has'[r] = {}
  BY <1>2, RestStep
<1>4. ReqInv(r)'
  BY <1>3, IdleInv
<1>5. CASE Released(has[r])
  <2>1. /\ HoldTypes' /\ HoldsStep
        /\ \A h \in Holds : h \notin has[r] \/ state[h] # "held" => state'[h] = state[h]
    BY <1>2, <1>5, ReleasedStep
  <2>2. order[at[r]] = "cancelled" /\ \A h \in has[r] : owner[h] = at[r]
    BY <1>2 DEF Links, ReqInv
  <2>3. ASSUME NEW h \in has[r], NEW o \in Orders, order[o] = "accepted"
        PROVE  named[o] # h
    <3>1. named[o] = h => owner[h] = o
      BY <1>2, Finite DEF Links, OrderInv, TypeOK
    <3> QED
      BY <2>2, <2>3, <3>1
  <2>4. \A h \in Holds : owner[h] # None =>
           \/ state'[h] \in {state[h], "expired"}
           \/ owner[h] = at[r] /\ \A o \in Orders : order[o] = "accepted" => named[o] # h
    BY <2>1, <2>2, <2>3
  <2> QED
    BY <1>1, <1>3, <1>4, <2>1, <2>4, HoldsOnly
<1>6. CASE UNCHANGED holds
  BY <1>1, <1>2, <1>6, EndsKept
<1> QED
  BY <1>5, <1>6 DEF CancelRelease

\* The allocator's grant.
LEMMA AllocateGrantKept ==
    ASSUME IInv, NEW r \in Requests, AllocateGrant(r)
    PROVE  IInv'
<1> DEFINE o == at[r]
<1>1. /\ pc[r] = "grant" /\ UNCHANGED rows /\ UNCHANGED plans /\ UNCHANGED onHand
      /\ \/ Granted(o, Target(qty[o])) /\ Go(r, "granted", o, {NewHold}, read[r])
         \/ \E h \in Held(o) :
               /\ Go(r, IF amount[h] = Target(qty[o]) THEN "granted" ELSE "adopted", o, {h}, read[r])
               /\ UNCHANGED holds
         \/ Go(r, "granted", o, {}, read[r]) /\ UNCHANGED holds
  BY DEF AllocateGrant
<1>2. TypeOK /\ Links /\ ReqTypes /\ HoldTypes
  BY TypeParts DEF IInv
<1>3. o \in Orders /\ order[o] # "none" /\ read[r] \in Seen /\ qty[o] \in 0 .. MaxQty
  BY <1>1, <1>2 DEF Links, ReqInv, ReqTypes, TypeOK
<1>4. order' = order /\ qty' = qty
  BY <1>1 DEF rows
<1>5. "granted" \in Phases /\ "adopted" \in Phases /\ {} \in SUBSET Holds
  BY DEF Phases
<1> HIDE DEF o
<1>6. ASSUME pc'[r] \in {"granted", "adopted"}, at'[r] = o, \A h \in has'[r] : owner'[h] = o
      PROVE  ReqInv(r)'
  BY <1>3, <1>4, <1>6 DEF ReqInv
<1>7. CASE Granted(o, Target(qty[o])) /\ Go(r, "granted", o, {NewHold}, read[r])
  <2> DEFINE n == Target(qty[o])
  <2>1. n \in Int /\ n <= qty[o] /\ n <= MaxQty
    <3>1. qty[o] \in Nat /\ qty[o] <= MaxQty /\ MaxQty \in Nat
      BY <1>3, FlowConstants
    <3>2. n \in Int /\ n <= qty[o]
      BY <1>2, <3>1, TargetType
    <3> HIDE DEF n
    <3> QED
      BY <3>1, <3>2
  <2>2. Granted(o, n)
    BY <1>7
  <2> HIDE DEF n
  <2>3. /\ HoldTypes' /\ HoldsStep /\ NewHold \in Holds /\ owner[NewHold] = None
        /\ owner'[NewHold] = o
        /\ \A h \in Holds \ {NewHold} : state'[h] = state[h]
    BY <1>2, <1>3, <1>4, <2>1, <2>2, GrantedStep
  <2>4. ReqTypes' /\ Others({r}) /\ pc'[r] = "granted" /\ at'[r] = o /\ has'[r] = {NewHold}
    <3>1. {NewHold} \in SUBSET Holds
      BY <2>3
    <3> QED
      BY <1>2, <1>3, <1>5, <1>7, <3>1, GoStep
  <2>5. ReqInv(r)'
    BY <1>6, <2>3, <2>4
  <2>6. \A h \in Holds : owner[h] # None => state'[h] \in {state[h], "expired"}
    BY <2>3
  <2>7. at'[r] \in {None, at[r]}
    BY <2>4 DEF o
  <2> QED
    BY <1>1, <2>3, <2>4, <2>5, <2>6, <2>7, HoldsOnly
<1>8. ASSUME NEW H \in SUBSET Held(o), NEW where \in {"granted", "adopted"},
             Go(r, where, o, H, read[r]), UNCHANGED holds
      PROVE  IInv'
  <2>1. H \in SUBSET Holds /\ where \in Phases /\ \A h \in H : owner[h] = o
    BY <1>8 DEF Held, Phases
  <2>2. ReqTypes' /\ Others({r}) /\ pc'[r] = where /\ at'[r] = o /\ has'[r] = H
    BY <1>2, <1>3, <1>8, <2>1, GoStep
  <2>3. owner' = owner
    BY <1>8 DEF holds
  <2>4. ReqInv(r)'
    BY <1>6, <2>1, <2>2, <2>3
  <2> QED
    BY <1>1, <1>3, <1>8, <2>2, <2>4, ReadsOnly
<1>9. CASE \E h \in Held(o) :
              /\ Go(r, IF amount[h] = Target(qty[o]) THEN "granted" ELSE "adopted", o, {h}, read[r])
              /\ UNCHANGED holds
  <2>1. PICK h \in Held(o) :
              /\ Go(r, IF amount[h] = Target(qty[o]) THEN "granted" ELSE "adopted", o, {h}, read[r])
              /\ UNCHANGED holds
    BY <1>9
  <2>2. {h} \in SUBSET Held(o)
    BY <2>1
  <2>3. CASE amount[h] = Target(qty[o])
    BY <1>8, <2>1, <2>2, <2>3
  <2>4. CASE amount[h] # Target(qty[o])
    BY <1>8, <2>1, <2>2, <2>4
  <2> QED
    BY <2>3, <2>4
<1>10. CASE Go(r, "granted", o, {}, read[r]) /\ UNCHANGED holds
  <2>1. {} \in SUBSET Held(o)
    OBVIOUS
  <2> QED
    BY <1>8, <1>10, <2>1
<1> QED
  BY <1>1, <1>7, <1>9, <1>10 DEF o

\* The reaper.
LEMMA ExpireKept ==
    ASSUME IInv, NEW h \in Holds, Expire(h)
    PROVE  IInv'
<1>1. /\ state[h] \in {"held", "committed"} /\ state' = [state EXCEPT ![h] = "expired"]
      /\ UNCHANGED <<owner, amount>> /\ UNCHANGED rows /\ UNCHANGED plans
      /\ UNCHANGED onHand /\ UNCHANGED reqs
  BY DEF Expire, Live
<1>2. TypeOK /\ Links /\ HoldTypes
  BY TypeParts DEF IInv
<1>3. HoldTypes'
  BY <1>1, <1>2 DEF HoldTypes
<1>4. \A g \in Holds : state'[g] = IF g = h THEN "expired" ELSE state[g]
  BY <1>1, <1>2 DEF HoldTypes
<1>5. HoldsStep
  BY <1>1, <1>4 DEF HoldsStep
<1>6. TypeOK'
  BY <1>1, <1>3, TypeParts, TypesKept DEF IInv
<1>7. UNCHANGED <<pc, at, has, read>> /\ order' = order
  BY <1>1 DEF reqs, rows
<1>8. Others({}) /\ PlacingStep({})
  <2>1. Others({})
    BY <1>7 DEF Others
  <2>2. \A q \in Requests : pc[q] = "place" => order[at[q]] = "none"
    BY <1>2 DEF Links, ReqInv
  <2> QED
    BY <1>4, <1>7, <2>1, <2>2 DEF PlacingStep
<1>9. \A o \in Orders : order[o] = "accepted" /\ named[o] # None =>
         state'[named[o]] \in {state[named[o]], "expired"}
  BY <1>2, <1>4 DEF TypeOK
<1>10. {} \in SUBSET Requests /\ \A r \in {} : ReqInv(r)'
  OBVIOUS
<1> QED
  BY <1>1, <1>5, <1>6, <1>8, <1>9, <1>10, RowsQuiet


-----------------------------------------------------------------------------
(* Steps that write an order. *)

\* Placement: the hold before the order.
LEMMA PlaceGrantKept ==
    ASSUME IInv, NEW r \in Requests, NEW o \in Roots, NEW n \in 1 .. MaxQty, PlaceGrant(r, o, n)
    PROVE  IInv'
<1>1. /\ o \in Orders /\ n \in Nat /\ n <= MaxQty
      /\ order[o] = "none" /\ (\A q \in Requests : at[q] # o) /\ (\A h \in Holds : owner[h] # o)
      /\ qty' = [qty EXCEPT ![o] = n]
      /\ UNCHANGED <<order, named, reserved, root>> /\ UNCHANGED plans /\ UNCHANGED onHand
  BY FlowConstants DEF PlaceGrant, Fresh
<1>2. TypeOK /\ Links /\ RowTypes /\ HoldTypes /\ ReqTypes /\ Nothing \in Seen
  BY TypeParts, SeenTypes DEF IInv
<1>3. RowTypes' /\ qty'[o] = n /\ \A x \in Orders \ {o} : qty'[x] = qty[x]
  BY <1>1, <1>2 DEF RowTypes
<1>4. \E H \in SUBSET Holds :
         /\ Go(r, "place", o, H, Nothing) /\ HoldTypes' /\ HoldsStep
         /\ \A h \in H : owner'[h] = o /\ state'[h] = "held"
         /\ \A h \in Holds : owner[h] # None => state'[h] = state[h]
  <2>1. CASE Granted(o, Target(n)) /\ Go(r, "place", o, {NewHold}, Nothing)
    <3> DEFINE m == Target(n)
    <3>1. m \in Int /\ m <= n
      BY <1>1, <1>2, TargetType
    <3>2. Granted(o, m)
      BY <2>1
    <3> HIDE DEF m
    <3>3. m <= MaxQty /\ m <= qty'[o]
      BY <1>1, <1>3, <3>1, FlowConstants
    <3>4. /\ HoldTypes' /\ HoldsStep /\ NewHold \in Holds /\ owner[NewHold] = None
          /\ state'[NewHold] = "held" /\ owner'[NewHold] = o
          /\ \A h \in Holds \ {NewHold} : state'[h] = state[h]
      BY <1>1, <1>2, <3>1, <3>2, <3>3, GrantedStep
    <3>5. {NewHold} \in SUBSET Holds
      BY <3>4
    <3> QED
      BY <2>1, <3>4, <3>5
  <2>2. CASE Go(r, "place", o, {}, Nothing) /\ UNCHANGED holds
    <3>1. HoldTypes' /\ HoldsStep /\ state' = state
      BY <1>2, <2>2, HoldsSame, TypesKept
    <3> QED
      BY <2>2, <3>1
  <2> QED
    BY <2>1, <2>2 DEF PlaceGrant
<1>5. PICK H \in SUBSET Holds :
         /\ Go(r, "place", o, H, Nothing) /\ HoldTypes' /\ HoldsStep
         /\ \A h \in H : owner'[h] = o /\ state'[h] = "held"
         /\ \A h \in Holds : owner[h] # None => state'[h] = state[h]
  BY <1>4
<1>6. ReqTypes' /\ Others({r}) /\ pc'[r] = "place" /\ at'[r] = o /\ has'[r] = H
  <2>1. "place" \in Phases
    BY DEF Phases
  <2> QED
    BY <1>1, <1>2, <1>5, <2>1, GoStep
<1>7. TypeOK'
  BY <1>1, <1>2, <1>3, <1>5, <1>6, TypeParts, TypesKept
<1>8. \A x \in Orders : OrderStep(x)
  BY <1>1, <1>3 DEF OrderStep
<1>9. PlacingStep({r})
  <2>1. ASSUME NEW q \in Requests \ {r}, pc[q] = "place"
        PROVE  at[q] \in Orders /\ order[at[q]] = "none"
    BY <1>2, <2>1, PlacingAlone
  <2> QED
    BY <1>1, <1>5, <1>6, <2>1, Finite DEF PlacingStep
<1>10. ReqInv(r)'
  <2>1. \A q \in Requests : at'[q] = o => q = r
    BY <1>1, <1>6 DEF Others
  <2> QED
    BY <1>1, <1>5, <1>6, <2>1 DEF ReqInv
<1>11. \A x \in Orders : Backed(x)'
  <2> SUFFICES ASSUME NEW x \in Orders PROVE Backed(x)'
    OBVIOUS
  <2>1. Backed(x)
    BY BackedIs DEF IInv
  <2>2. UNCHANGED <<slice, of>>
    BY <1>1 DEF plans
  <2>3. named[x] # None => state'[named[x]] = state[named[x]]
    BY <1>2, <1>5, Finite DEF TypeOK, Links, OrderInv
  <2> QED
    BY <1>1, <1>2, <1>5, <2>1, <2>2, <2>3, BackedKept
<1>12. FamilyAccounts'
  <2> SUFFICES ASSUME NEW y \in Orders PROVE Family(y)'
    BY FamilyIs
  <2>1. Family(y)
    BY FamilyIs DEF IInv
  <2>2. \A x \in Orders : Drawn(x)' = Drawn(x)
    BY <1>1, DrawnKept
  <2>3. root[o] # y
    BY <1>1, <1>2, Finite DEF Links, OrderInv
  <2>4. \A x \in Orders : root[x] = y => qty'[x] = qty[x]
    BY <1>3, <2>3
  <2> QED
    BY <1>1, <2>1, <2>2, <2>4, FamilyKept
<1>13. \A s \in Slices : slice[s] = "planned" => order'[of[s]] \in {"accepted", "cancelled"}
  BY <1>1, <1>2 DEF Links, SliceInv
<1>14. {r} \in SUBSET Requests /\ \A x \in {r} : ReqInv(x)'
  BY <1>10
<1> QED
  BY <1>1, <1>5, <1>6, <1>7, <1>8, <1>9, <1>11, <1>12, <1>13, <1>14, QuietKept

\* The order is written with the hold it was granted.
LEMMA PlaceWriteKept ==
    ASSUME IInv, NEW r \in Requests, PlaceWrite(r)
    PROVE  IInv'
<1> DEFINE o == at[r]
           h == IF has[r] = {} THEN None ELSE CHOOSE x \in has[r] : TRUE
<1>1. /\ pc[r] = "place" /\ order' = [order EXCEPT ![o] = "accepted"]
      /\ named' = [named EXCEPT ![o] = h]
      /\ reserved' = [reserved EXCEPT ![o] = IF h = None THEN 0 ELSE amount[h]]
      /\ root' = [root EXCEPT ![o] = o] /\ Rest(r)
      /\ UNCHANGED qty /\ UNCHANGED holds /\ UNCHANGED plans /\ UNCHANGED onHand
  BY DEF PlaceWrite
<1>2. TypeOK /\ Links /\ RowTypes /\ HoldTypes /\ ReqTypes
  BY TypeParts DEF IInv
<1>3. /\ o \in Orders /\ order[o] = "none" /\ root[o] = None
      /\ \A q \in Requests : at[q] = o => q = r
  BY <1>1, <1>2 DEF Links, ReqInv, OrderInv
<1>4. h = None \/ (h \in Holds /\ owner[h] = o /\ state[h] \in {"held", "expired"})
  <2>1. has[r] # {} => h \in has[r]
    OBVIOUS
  <2> QED
    BY <1>1, <1>2, <2>1 DEF Links, ReqInv, ReqTypes
<1> HIDE DEF o, h
<1> DEFINE m == IF h = None THEN 0 ELSE amount[h]
<1>5. m \in 0 .. MaxQty
  BY <1>2, <1>4, FlowConstants DEF HoldTypes
<1>6. RowTypes'
  <2>1. named' \in [Orders -> Holds \cup {None}]
    BY <1>1, <1>2, <1>4 DEF RowTypes
  <2>2. reserved' \in [Orders -> 0 .. MaxQty]
    BY <1>1, <1>2, <1>5 DEF RowTypes
  <2> QED
    BY <1>1, <1>2, <1>3, <2>1, <2>2 DEF RowTypes
<1>7. /\ order'[o] = "accepted" /\ named'[o] = h /\ reserved'[o] = m /\ root'[o] = o
      /\ \A x \in Orders \ {o} : /\ order'[x] = order[x] /\ named'[x] = named[x]
                                 /\ reserved'[x] = reserved[x] /\ root'[x] = root[x]
  BY <1>1, <1>2, <1>3 DEF RowTypes
<1>8. ReqTypes' /\ Others({r}) /\ pc'[r] = "idle" /\ at'[r] = None /\ has'[r] = {}
  BY <1>1, <1>2, RestStep
<1>9. HoldsStep /\ UNCHANGED <<state, owner, amount>> /\ TypeOK'
  BY <1>1, <1>2, <1>6, <1>8, HoldsSame, TypeParts, TypesKept
<1>10. \A x \in Orders : OrderStep(x)
  <2>1. OrderStep(o)
    BY <1>1, <1>3, <1>4, <1>7 DEF OrderStep
  <2>2. \A x \in Orders \ {o} : OrderStep(x)
    BY <1>1, <1>7 DEF OrderStep
  <2> QED
    BY <2>1, <2>2
<1>11. PlacingStep({r})
  <2>1. ASSUME NEW q \in Requests \ {r}, pc[q] = "place"
        PROVE  at[q] \in Orders /\ order[at[q]] = "none" /\ at[q] # o
    BY <1>2, <2>1, PlacingAlone DEF o
  <2> QED
    BY <1>7, <1>8, <1>9, <2>1, Finite DEF PlacingStep
<1>12. {r} \in SUBSET Requests /\ \A x \in {r} : ReqInv(x)'
  BY <1>8, IdleInv
<1>13. \A x \in Orders : Backed(x)'
  <2> SUFFICES ASSUME NEW x \in Orders PROVE Backed(x)'
    OBVIOUS
  <2>1. CASE x = o
    <3>1. order'[x] = "accepted" /\ named'[x] # None =>
             /\ owner'[named'[x]] = x /\ amount'[named'[x]] = reserved'[x]
             /\ state'[named'[x]] \in {"held", "expired"}
      BY <1>4, <1>7, <1>9, <2>1
    <3> QED
      BY <3>1 DEF Backed
  <2>2. CASE x # o
    <3>1. Backed(x)
      BY BackedIs DEF IInv
    <3>2. UNCHANGED <<slice, of>>
      BY <1>1 DEF plans
    <3>3. /\ order'[x] = order[x] /\ named'[x] = named[x] /\ reserved'[x] = reserved[x]
      BY <1>7, <2>2
    <3> QED
      BY <1>2, <1>9, <3>1, <3>2, <3>3, BackedKept
  <2> QED
    BY <2>1, <2>2
<1>14. FamilyAccounts'
  <2> SUFFICES ASSUME NEW y \in Orders PROVE Family(y)'
    BY FamilyIs
  <2>1. CASE y = o
    <3>1. Kin(y)' = {y}
      <4>1. \A x \in Orders \ {y} : root[x] # y
        BY <1>2, <1>3, <2>1, Finite DEF Links, OrderInv
      <4>2. \A x \in Orders : root'[x] = y <=> x = y
        BY <1>7, <2>1, <4>1
      <4> QED
        BY <4>2 DEF Kin
    <3>2. Sent(y)' = {} /\ Left(y)' = {y}
      BY <1>7, <2>1, <3>1 DEF Sent, Left
    <3>3. Cardinality({y}) = 1
      BY FS_Singleton
    <3>4. Total({}, [x \in Kin(y)' |-> Drawn(x)']) = 0
      BY TotalEmpty
    <3>5. qty'[y] \in Nat
      BY <1>6 DEF RowTypes
    <3>6. Total({y}, qty') = qty'[y]
      BY <3>5, TotalOne
    <3>7. /\ Cardinality(Left(y)') <= 1
          /\ qty'[y] = Total(Sent(y)', [x \in Kin(y)' |-> Drawn(x)']) + Total(Left(y)', qty')
      BY <3>2, <3>3, <3>4, <3>5, <3>6
    <3> QED
      BY <3>7 DEF Family
  <2>2. CASE y # o
    <3>1. Family(y)
      BY FamilyIs DEF IInv
    <3>2. \A x \in Orders : Drawn(x)' = Drawn(x)
      BY <1>1, DrawnKept
    <3>3. \A x \in Orders : /\ root'[x] = y <=> root[x] = y
                            /\ root[x] = y => order'[x] = order[x]
      BY <1>3, <1>7, <2>2, Finite
    <3> QED
      BY <1>1, <3>1, <3>2, <3>3, FamilyKept
  <2> QED
    BY <2>1, <2>2
<1>15. \A s \in Slices : slice[s] = "planned" => order'[of[s]] \in {"accepted", "cancelled"}
  BY <1>2, <1>7 DEF Links, SliceInv
<1> QED
  BY <1>1, <1>8, <1>9, <1>10, <1>11, <1>12, <1>13, <1>14, <1>15, QuietKept


\* The allocator's write: a hold of the order into the line it read, or nothing
\* and what it carries given back.
LEMMA AllocateWriteKept ==
    ASSUME IInv, NEW r \in Requests, AllocateWrite(r)
    PROVE  IInv'
<1> DEFINE o == at[r]
<1>1. /\ pc[r] \in {"granted", "adopted"} /\ Rest(r)
      /\ UNCHANGED <<order, qty, root>> /\ UNCHANGED plans /\ UNCHANGED onHand
      /\ \/ \E h \in Writable(r) :
               /\ Eligible(o) /\ state[h] = "held"
               /\ named' = [named EXCEPT ![o] = h]
               /\ reserved' = [reserved EXCEPT ![o] = amount[h]]
               /\ Released({})
         \/ /\ Released({h \in has[r] : Unreferenced(h)})
            /\ UNCHANGED <<named, reserved>>
  BY DEF AllocateWrite
<1>2. TypeOK /\ Links /\ RowTypes /\ HoldTypes /\ ReqTypes
  BY TypeParts DEF IInv
<1>3. o \in Orders
  BY <1>1, <1>2 DEF Links, ReqInv
<1>4. \A h \in Writable(r) : h \in Holds /\ owner[h] = o
  BY <1>2 DEF Writable, Held, Links, ReqInv, ReqTypes
<1> HIDE DEF o
<1>5. CASE /\ Released({h \in has[r] : Unreferenced(h)})
           /\ UNCHANGED <<named, reserved>>
  <2> DEFINE H == {h \in has[r] : Unreferenced(h)}
  <2>1. H \in SUBSET has[r] /\ (\A h \in H : Unreferenced(h)) /\ Released(H) /\ UNCHANGED rows
    BY <1>1, <1>5 DEF rows
  <2> HIDE DEF H
  <2> QED
    BY <1>1, <2>1, UnreferencedKept
<1>6. ASSUME NEW h \in Writable(r), Eligible(o), state[h] = "held",
             named' = [named EXCEPT ![o] = h],
             reserved' = [reserved EXCEPT ![o] = amount[h]],
             Released({})
      PROVE  IInv'
  <2>1. h \in Holds /\ owner[h] = o /\ order[o] = "accepted" /\ amount[h] \in 0 .. MaxQty
    BY <1>2, <1>4, <1>6 DEF Eligible, HoldTypes
  <2>2. /\ HoldTypes' /\ HoldsStep /\ UNCHANGED <<owner, amount>>
        /\ \A g \in Holds : state'[g] = state[g]
    BY <1>2, <1>6, ReleasedStep
  <2>3. RowTypes'
    <3>1. named' \in [Orders -> Holds \cup {None}]
      BY <1>2, <1>6, <2>1 DEF RowTypes
    <3>2. reserved' \in [Orders -> 0 .. MaxQty]
      BY <1>2, <1>6, <2>1 DEF RowTypes
    <3> QED
      BY <1>1, <1>2, <3>1, <3>2 DEF RowTypes
  <2>4. /\ named'[o] = h /\ reserved'[o] = amount[h]
        /\ \A x \in Orders \ {o} : named'[x] = named[x] /\ reserved'[x] = reserved[x]
    BY <1>2, <1>3, <1>6 DEF RowTypes
  <2>5. ReqTypes' /\ Others({r}) /\ pc'[r] = "idle" /\ at'[r] = None /\ has'[r] = {}
    BY <1>1, <1>2, RestStep
  <2>6. TypeOK'
    BY <1>1, <1>2, <2>2, <2>3, <2>5, TypeParts, TypesKept
  <2>7. \A x \in Orders : OrderStep(x)
    <3>1. OrderStep(o)
      BY <1>1, <2>1, <2>4 DEF OrderStep
    <3>2. \A x \in Orders \ {o} : OrderStep(x)
      BY <1>1, <2>4 DEF OrderStep
    <3> QED
      BY <3>1, <3>2
  <2>8. PlacingStep({r})
    <3>1. ASSUME NEW q \in Requests \ {r}, pc[q] = "place"
          PROVE  at[q] \in Orders /\ order[at[q]] = "none"
      BY <1>2, <3>1, PlacingAlone
    <3> QED
      BY <1>1, <2>2, <2>5, <3>1, Finite DEF PlacingStep
  <2>9. {r} \in SUBSET Requests /\ \A x \in {r} : ReqInv(x)'
    BY <2>5, IdleInv
  <2>10. \A x \in Orders : Backed(x)'
    <3> SUFFICES ASSUME NEW x \in Orders PROVE Backed(x)'
      OBVIOUS
    <3>1. CASE x = o
      <4>1. /\ owner'[named'[x]] = x /\ amount'[named'[x]] = reserved'[x]
            /\ state'[named'[x]] = "held"
        BY <1>6, <2>1, <2>2, <2>4, <3>1
      <4> QED
        BY <4>1 DEF Backed
    <3>2. CASE x # o
      <4>1. Backed(x)
        BY BackedIs DEF IInv
      <4>2. UNCHANGED <<slice, of>>
        BY <1>1 DEF plans
      <4>3. named'[x] = named[x] /\ reserved'[x] = reserved[x] /\ named[x] \in Holds \cup {None}
        BY <1>2, <2>4, <3>2 DEF RowTypes
      <4> QED
        BY <1>1, <1>2, <2>2, <4>1, <4>2, <4>3, BackedKept
    <3> QED
      BY <3>1, <3>2
  <2>11. FamilyAccounts'
    <3> SUFFICES ASSUME NEW y \in Orders PROVE Family(y)'
      BY FamilyIs
    <3>1. Family(y)
      BY FamilyIs DEF IInv
    <3>2. \A x \in Orders : Drawn(x)' = Drawn(x)
      BY <1>1, DrawnKept
    <3> QED
      BY <1>1, <3>1, <3>2, FamilyKept
  <2>12. \A s \in Slices : slice[s] = "planned" => order'[of[s]] \in {"accepted", "cancelled"}
    BY <1>1, <1>2 DEF Links, SliceInv
  <2> QED
    BY <1>1, <2>2, <2>5, <2>6, <2>7, <2>8, <2>9, <2>10, <2>11, <2>12, QuietKept
<1> QED
  BY <1>1, <1>5, <1>6 DEF o

\* The flip of a cancellation.
LEMMA CancelFlipKept ==
    ASSUME IInv, NEW r \in Requests, CancelFlip(r)
    PROVE  IInv'
<1> DEFINE o == at[r]
           H == has[r] \cup Held(o)
<1>1. /\ pc[r] = "cancel" /\ UNCHANGED <<qty, root>>
      /\ UNCHANGED holds /\ UNCHANGED plans /\ UNCHANGED onHand
      /\ \/ /\ order[o] = "accepted" /\ order' = [order EXCEPT ![o] = "cancelled"]
            /\ named' = [named EXCEPT ![o] = None] /\ reserved' = [reserved EXCEPT ![o] = 0]
            /\ Go(r, "unhold", o, H, Nothing)
         \/ Rest(r) /\ UNCHANGED <<order, named, reserved>>
  BY DEF CancelFlip
<1>2. TypeOK /\ Links /\ RowTypes /\ HoldTypes /\ ReqTypes /\ Nothing \in Seen
  BY TypeParts, SeenTypes DEF IInv
<1>3. o \in Orders
  BY <1>1, <1>2 DEF Links, ReqInv
<1>4. H \in SUBSET Holds /\ \A h \in H : owner[h] = o
  BY <1>2 DEF Held, Links, ReqInv, ReqTypes
<1> HIDE DEF o, H
<1>5. CASE Rest(r) /\ UNCHANGED <<order, named, reserved>>
  <2>1. UNCHANGED rows
    BY <1>1, <1>5 DEF rows
  <2> QED
    BY <1>1, <1>5, <2>1, EndsKept
<1>6. CASE /\ order[o] = "accepted" /\ order' = [order EXCEPT ![o] = "cancelled"]
           /\ named' = [named EXCEPT ![o] = None] /\ reserved' = [reserved EXCEPT ![o] = 0]
           /\ Go(r, "unhold", o, H, Nothing)
  <2>1. RowTypes'
    <3>1. reserved' \in [Orders -> 0 .. MaxQty]
      <4>1. 0 \in 0 .. MaxQty
        BY FlowConstants
      <4> QED
        BY <1>2, <1>6, <4>1 DEF RowTypes
    <3>2. order' \in [Orders -> {"none", "accepted", "ready_to_dispatch", "dispatched", "cancelled"}]
      BY <1>2, <1>6 DEF RowTypes
    <3>3. named' \in [Orders -> Holds \cup {None}]
      BY <1>2, <1>6 DEF RowTypes
    <3> QED
      BY <1>1, <1>2, <3>1, <3>2, <3>3 DEF RowTypes
  <2>2. /\ order'[o] = "cancelled" /\ named'[o] = None /\ reserved'[o] = 0
        /\ \A x \in Orders \ {o} : /\ order'[x] = order[x] /\ named'[x] = named[x]
                                   /\ reserved'[x] = reserved[x]
    BY <1>2, <1>3, <1>6 DEF RowTypes
  <2>3. ReqTypes' /\ Others({r}) /\ pc'[r] = "unhold" /\ at'[r] = o /\ has'[r] = H
    <3>1. "unhold" \in Phases
      BY DEF Phases
    <3> QED
      BY <1>2, <1>3, <1>4, <1>6, <3>1, GoStep
  <2>4. HoldsStep /\ UNCHANGED <<state, owner, amount>> /\ TypeOK'
    BY <1>1, <1>2, <2>1, <2>3, HoldsSame, TypeParts, TypesKept
  <2>5. \A x \in Orders : OrderStep(x)
    <3>1. OrderStep(o)
      BY <1>1, <1>6, <2>2 DEF OrderStep
    <3>2. \A x \in Orders \ {o} : OrderStep(x)
      BY <1>1, <2>2 DEF OrderStep
    <3> QED
      BY <3>1, <3>2
  <2>6. PlacingStep({r})
    <3>1. ASSUME NEW q \in Requests \ {r}, pc[q] = "place"
          PROVE  at[q] \in Orders /\ order[at[q]] = "none" /\ at[q] # o
      BY <1>2, <3>1, PlacingAlone DEF o
    <3> QED
      BY <2>2, <2>3, <2>4, <3>1 DEF PlacingStep
  <2>7. ReqInv(r)'
    BY <1>3, <1>4, <2>2, <2>3, <2>4 DEF ReqInv
  <2>8. \A x \in Orders : Backed(x)'
    <3> SUFFICES ASSUME NEW x \in Orders PROVE Backed(x)'
      OBVIOUS
    <3>1. CASE x = o
      BY <2>2, <3>1 DEF Backed
    <3>2. CASE x # o
      <4>1. Backed(x)
        BY BackedIs DEF IInv
      <4>2. UNCHANGED <<slice, of>>
        BY <1>1 DEF plans
      <4>3. order'[x] = order[x] /\ named'[x] = named[x] /\ reserved'[x] = reserved[x]
        BY <2>2, <3>2
      <4> QED
        BY <1>2, <2>4, <4>1, <4>2, <4>3, BackedKept
    <3> QED
      BY <3>1, <3>2
  <2>9. FamilyAccounts'
    <3> SUFFICES ASSUME NEW y \in Orders PROVE Family(y)'
      BY FamilyIs
    <3>1. Family(y)
      BY FamilyIs DEF IInv
    <3>2. \A x \in Orders : Drawn(x)' = Drawn(x)
      BY <1>1, DrawnKept
    <3>3. \A x \in Orders : order'[x] = "dispatched" <=> order[x] = "dispatched"
      BY <1>6, <2>2
    <3> QED
      BY <1>1, <3>1, <3>2, <3>3, FamilyKept
  <2>10. \A s \in Slices : slice[s] = "planned" => order'[of[s]] \in {"accepted", "cancelled"}
    BY <1>2, <2>2 DEF Links, SliceInv
  <2>11. {r} \in SUBSET Requests /\ \A x \in {r} : ReqInv(x)'
    BY <2>7
  <2> QED
    BY <1>1, <2>3, <2>4, <2>5, <2>6, <2>8, <2>9, <2>10, <2>11, QuietKept
<1> QED
  BY <1>1, <1>5, <1>6

\* Packing: what is still held is released with the flip.
LEMMA PackOrderKept ==
    ASSUME IInv, NEW o \in Orders, PackOrder(o)
    PROVE  IInv'
<1>1. /\ order[o] = "accepted" /\ (\A s \in SlicesOf(o) : slice[s] # "planned")
      /\ order' = [order EXCEPT ![o] = "ready_to_dispatch"] /\ Released(Held(o))
      /\ UNCHANGED <<qty, named, reserved, root>>
      /\ UNCHANGED plans /\ UNCHANGED onHand /\ UNCHANGED reqs
  BY DEF PackOrder
<1>2. TypeOK /\ Links /\ RowTypes
  BY TypeParts DEF IInv
<1>3. RowTypes' /\ order'[o] = "ready_to_dispatch" /\ \A x \in Orders \ {o} : order'[x] = order[x]
  BY <1>1, <1>2 DEF RowTypes
<1>4. /\ HoldTypes' /\ HoldsStep /\ UNCHANGED <<owner, amount>>
      /\ \A h \in Holds : owner[h] # o => state'[h] = state[h]
  <2>1. \A h \in Held(o) : owner[h] = o
    BY DEF Held
  <2> QED
    BY <1>1, <1>2, <2>1, ReleasedStep
<1>5. TypeOK'
  BY <1>1, <1>2, <1>3, <1>4, TypeParts, TypesKept
<1>6. \A x \in Orders : OrderStep(x)
  <2>1. OrderStep(o)
    BY <1>1, <1>3 DEF OrderStep
  <2>2. \A x \in Orders \ {o} : OrderStep(x)
    BY <1>1, <1>3 DEF OrderStep
  <2> QED
    BY <2>1, <2>2
<1>7. Others({}) /\ PlacingStep({})
  <2>1. UNCHANGED <<pc, at, has, read>>
    BY <1>1 DEF reqs
  <2>2. \A q \in Requests : pc[q] = "place" => at[q] \in Orders /\ order[at[q]] = "none"
    BY <1>2 DEF Links, ReqInv
  <2> QED
    BY <1>1, <1>3, <1>4, <2>1, <2>2 DEF Others, PlacingStep
<1>8. \A x \in Orders : Backed(x)'
  <2> SUFFICES ASSUME NEW x \in Orders PROVE Backed(x)'
    OBVIOUS
  <2>1. CASE x = o
    BY <1>3, <2>1 DEF Backed
  <2>2. CASE x # o
    <3>1. Backed(x)
      BY BackedIs DEF IInv
    <3>2. UNCHANGED <<slice, of>>
      BY <1>1 DEF plans
    <3>3. named[x] # None => state'[named[x]] = state[named[x]]
      BY <1>2, <1>4, <2>2 DEF RowTypes, Links, OrderInv
    <3> QED
      BY <1>1, <1>2, <1>3, <1>4, <2>2, <3>1, <3>2, <3>3, BackedKept
  <2> QED
    BY <2>1, <2>2
<1>9. FamilyAccounts'
  <2> SUFFICES ASSUME NEW y \in Orders PROVE Family(y)'
    BY FamilyIs
  <2>1. Family(y)
    BY FamilyIs DEF IInv
  <2>2. \A x \in Orders : Drawn(x)' = Drawn(x)
    BY <1>1, DrawnKept
  <2>3. \A x \in Orders : order'[x] = "dispatched" <=> order[x] = "dispatched"
    BY <1>1, <1>3
  <2> QED
    BY <1>1, <2>1, <2>2, <2>3, FamilyKept
<1>10. ASSUME NEW s \in Slices, slice[s] = "planned"
       PROVE  order'[of[s]] \in {"accepted", "cancelled"}
  <2>1. of[s] \in Orders /\ order[of[s]] \in {"accepted", "cancelled"} /\ of[s] # o
    BY <1>1, <1>2, <1>10 DEF Links, SliceInv, SlicesOf
  <2> QED
    BY <1>3, <2>1
<1>11. {} \in SUBSET Requests /\ \A x \in {} : ReqInv(x)'
  OBVIOUS
<1> QED
  BY <1>1, <1>4, <1>5, <1>6, <1>7, <1>8, <1>9, <1>10, <1>11, QuietKept


\* Dispatch: what was drawn leaves, what was not becomes the order of a follow-on.
LEMMA DispatchFamily ==
    ASSUME IInv, TypeOK', UNCHANGED plans, NEW o \in Orders, order[o] = "ready_to_dispatch",
           NEW f \in Orders \cup {None}, NEW owed \in Nat,
           qty[o] = Drawn(o) + owed, owed > 0 <=> f # None,
           f # None => order[f] = "none",
           \A x \in Orders :
               /\ order'[x] = IF x = o THEN "dispatched" ELSE IF x = f THEN "accepted" ELSE order[x]
               /\ qty'[x] = IF x = f THEN owed ELSE qty[x]
               /\ root'[x] = IF x = f THEN root[o] ELSE root[x]
    PROVE  FamilyAccounts'
<1> SUFFICES ASSUME NEW y \in Orders PROVE Family(y)'
  BY FamilyIs
<1>1. TypeOK /\ Links /\ Family(y) /\ (\A x \in Orders : Drawn(x)' = Drawn(x))
  BY FamilyIs, DrawnKept DEF IInv
<1>2. \A x \in Orders : OrderInv(x)
  BY <1>1 DEF Links
<1>3. root[o] \in Orders /\ order[root[o]] # "none"
  BY <1>2 DEF OrderInv
<1>4. f # None => f \in Orders /\ order[f] = "none" /\ root[f] = None /\ f # o /\ f # root[o]
  BY <1>2, <1>3 DEF OrderInv
<1>5. CASE root[o] # y
  <2>1. \A x \in Orders : /\ root'[x] = y <=> root[x] = y
                          /\ root[x] = y => order'[x] = order[x] /\ qty'[x] = qty[x]
    BY <1>4, <1>5, Finite
  <2> QED
    BY <1>1, <2>1, FamilyKept
<1>6. CASE root[o] = y
  <2> SUFFICES ASSUME root'[y] = y
               PROVE  /\ Cardinality(Left(y)') <= 1
                      /\ qty'[y] = Total(Sent(y)', [x \in Kin(y)' |-> Drawn(x)'])
                                       + Total(Left(y)', qty')
    BY DEF Family
  <2> DEFINE F == IF f = None THEN {} ELSE {f}
             S == Sent(y)
             g == [x \in Kin(y) |-> Drawn(x)]
             h == [x \in Kin(y)' |-> Drawn(x)']
  <2>1. root[y] = y /\ qty'[y] = qty[y] /\ y # f
    BY <1>4, <1>6, Finite
  <2>2. /\ Cardinality(Left(y)) <= 1
        /\ qty[y] = Total(S, g) + Total(Left(y), qty)
    BY <1>1, <2>1 DEF Family
  <2>3. F \subseteq Orders /\ \A x \in F : x = f /\ f # None
    BY <1>4
  <2>4. Kin(y)' = Kin(y) \cup F
    <3>1. \A x \in Orders : root'[x] = y <=> (root[x] = y \/ x = f)
      BY <1>4, <1>6
    <3> QED
      BY <3>1, <2>3, Finite DEF Kin
  <2>5. o \in Kin(y) /\ o \notin S /\ o \in Left(y)
    BY <1>6 DEF Kin, Sent, Left
  <2>6. f # None => f \notin Kin(y)
    BY <1>4, Finite DEF Kin
  <2>7. Left(y) = {o}
    <3>1. Left(y) \in SUBSET Orders /\ {o} \in SUBSET Left(y)
      BY <2>5 DEF Left, Kin
    <3>2. IsFiniteSet(Left(y)) /\ Cardinality(Left(y)) \in Nat
      BY <3>1, Finite, FS_CardinalityType
    <3>3. /\ Cardinality({o}) = 1 /\ Cardinality({o}) <= Cardinality(Left(y))
          /\ Cardinality(Left(y)) = Cardinality({o}) => Left(y) = {o}
      BY <3>1, <3>2, FS_Singleton, FS_Subset
    <3> QED
      BY <2>2, <3>2, <3>3
  <2>8. Sent(y)' = S \cup {o}
    <3>1. \A x \in Kin(y) \cup F : order'[x] = "dispatched" <=> (x \in S \/ x = o)
      <4> SUFFICES ASSUME NEW x \in Kin(y) \cup F
                   PROVE  order'[x] = "dispatched" <=> (x \in S \/ x = o)
        OBVIOUS
      <4>1. CASE x \in F
        BY <1>4, <2>3, <2>6, <4>1 DEF Sent
      <4>2. CASE x \in Kin(y) /\ x \notin F
        <5>1. x \in Orders /\ x # f
          BY <4>2, Finite DEF Kin
        <5> QED
          BY <4>2, <5>1 DEF Sent
      <4> QED
        BY <4>1, <4>2
    <3>2. S \subseteq Kin(y)
      BY DEF Sent
    <3> QED
      BY <2>4, <2>5, <3>1, <3>2 DEF Sent
  <2>9. Left(y)' = F
    <3>1. Kin(y) \ S = {o}
      BY <2>7 DEF Left
    <3>2. S \subseteq Kin(y)
      BY DEF Sent
    <3>3. F \cap (S \cup {o}) = {}
      BY <2>3, <2>5, <2>6, <3>2
    <3> HIDE DEF F, S
    <3>4. (Kin(y) \cup F) \ (S \cup {o}) = F
      BY <3>1, <3>3
    <3> QED
      BY <2>4, <2>8, <3>4 DEF Left
  <2>10. Cardinality(F) <= 1 /\ Total(F, qty') = owed
    <3>1. CASE f = None
      <4>1. F = {} /\ owed = 0
        BY <3>1
      <4> QED
        BY <4>1, FS_EmptySet, TotalEmpty
    <3>2. CASE f # None
      <4>1. F = {f} /\ qty'[f] = owed
        BY <1>4, <3>2
      <4> HIDE DEF F
      <4>2. Total({f}, qty') = owed /\ Cardinality({f}) = 1
        BY <4>1, TotalOne, FS_Singleton
      <4> QED
        BY <4>1, <4>2
    <3> QED
      BY <3>1, <3>2
  <2>11. Total(S \cup {o}, h) = Total(S, g) + Drawn(o) /\ Total(S, g) \in Nat /\ Drawn(o) \in Nat
    <3>1. S \in SUBSET Orders /\ IsFiniteSet(S) /\ S \subseteq Kin(y)
      <4>1. S \in SUBSET Orders /\ S \subseteq Kin(y)
        BY DEF Sent, Kin
      <4> QED
        BY <4>1, Finite
    <3>2. \A x \in Orders : Drawn(x) \in Nat
      BY <1>1, LoadIs DEF Links
    <3>3. \A x \in S \cup {o} : x \in Kin(y) /\ x \in Kin(y)' /\ x \in Orders
      BY <2>4, <2>5, <3>1
    <3>4. \A x \in S \cup {o} : h[x] \in Nat /\ h[x] = Drawn(x)
      BY <1>1, <3>2, <3>3
    <3>5. \A x \in S : g[x] = h[x] /\ g[x] \in Nat
      BY <3>2, <3>3, <3>4
    <3> HIDE DEF S, g, h
    <3>6. Total(S \cup {o}, h) = Total(S, h) + h[o]
      BY <2>5, <3>1, <3>4, TotalAdd
    <3>7. Total(S, g) = Total(S, h) /\ Total(S, g) \in Nat
      BY <3>1, <3>5, TotalSame, TotalType
    <3> QED
      BY <3>2, <3>4, <3>6, <3>7
  <2>12. Total({o}, qty) = qty[o] /\ qty[o] \in Nat
    BY <1>1, TotalOne DEF TypeOK
  <2> HIDE DEF F, S, g, h
  <2>13. qty'[y] = Total(S \cup {o}, h) + Total(F, qty')
    BY <2>1, <2>2, <2>7, <2>10, <2>11, <2>12
  <2> QED
    BY <2>8, <2>9, <2>10, <2>13 DEF h
<1> QED
  BY <1>5, <1>6

\* The whole of dispatchOrder.
LEMMA DispatchOrderKept ==
    ASSUME IInv, NEW o \in Orders, NEW f \in (Orders \ Roots) \cup {None}, DispatchOrder(o, f)
    PROVE  IInv'
<1> DEFINE owed == qty[o] - Drawn(o)
<1>1. /\ order[o] = "ready_to_dispatch" /\ (owed > 0 <=> f # None) /\ (f # None => Fresh(f))
      /\ \A x \in Orders :
           /\ order'[x] = IF x = o THEN "dispatched" ELSE IF x = f THEN "accepted" ELSE order[x]
           /\ qty'[x] = IF x = f THEN owed ELSE qty[x]
           /\ root'[x] = IF x = f THEN root[o] ELSE root[x]
      /\ \A h \in Holds : state'[h] = IF h \in Committed(o) THEN "retired" ELSE state[h]
      /\ UNCHANGED <<named, reserved, owner, amount>>
      /\ UNCHANGED plans /\ UNCHANGED onHand /\ UNCHANGED reqs
  BY DEF DispatchOrder
<1>2. TypeOK /\ Links /\ RowTypes /\ HoldTypes /\ ReqTypes
  BY TypeParts DEF IInv
<1>3. f # None => /\ f \in Orders /\ order[f] = "none" /\ f # o
                  /\ named[f] = None /\ (\A q \in Requests : at[q] # f) /\ (\A h \in Holds : owner[h] # f)
  BY <1>1, <1>2 DEF Fresh, Links, OrderInv
<1>4. owed \in 0 .. MaxQty /\ qty[o] = Drawn(o) + owed /\ Drawn(o) \in Nat
  <2>1. Fits(o) /\ \A s \in Slices : SliceInv(s)
    BY FitsIs DEF IInv, Links
  <2>2. Drawn(o) \in Nat /\ Total(SlicesOf(o), Weights) \in Nat /\ Drawn(o) <= Total(SlicesOf(o), Weights)
    BY <1>2, <2>1, LoadIs
  <2>3. qty[o] \in 0 .. MaxQty /\ MaxQty \in Nat /\ Total(SlicesOf(o), Weights) <= qty[o]
    BY <1>2, <2>1, FlowConstants DEF RowTypes, Fits
  <2> QED
    BY <2>2, <2>3
<1>5. root[o] \in Orders /\ order[root[o]] # "none"
  BY <1>1, <1>2 DEF Links, OrderInv
<1> HIDE DEF owed
<1>6. RowTypes'
  <2>1. DispatchOrder(o, f)
    OBVIOUS
  <2>2. order' \in [Orders -> {"none", "accepted", "ready_to_dispatch", "dispatched", "cancelled"}]
    BY <1>2 DEF DispatchOrder, RowTypes
  <2>3. qty' \in [Orders -> 0 .. MaxQty]
    <3>1. qty' = [x \in Orders |-> IF x = f THEN owed ELSE qty[x]]
      BY DEF DispatchOrder, owed
    <3> QED
      BY <1>2, <1>4, <3>1 DEF RowTypes
  <2>4. root' \in [Orders -> Orders \cup {None}]
    BY <1>2 DEF DispatchOrder, RowTypes
  <2> QED
    BY <1>1, <1>2, <2>2, <2>3, <2>4 DEF RowTypes
<1>7. HoldTypes' /\ HoldsStep
  <2>1. state' \in [Holds -> {"free", "held", "committed", "released", "expired", "retired"}]
    BY <1>2 DEF DispatchOrder, HoldTypes
  <2> QED
    BY <1>1, <1>2, <2>1 DEF HoldTypes, HoldsStep, Committed
<1>8. TypeOK'
  BY <1>1, <1>2, <1>6, <1>7, TypeParts, TypesKept
<1>9. ASSUME NEW x \in Orders PROVE OrderStep(x)
  <2>1. CASE x = o
    <3>1. o # f
      BY <1>3, Finite
    <3>2. /\ order[o] = "ready_to_dispatch" /\ order'[o] = "dispatched"
          /\ qty'[o] = qty[o] /\ root'[o] = root[o] /\ named'[o] = named[o]
          /\ reserved'[o] = reserved[o]
      BY <1>1, <3>1
    <3> QED
      BY <2>1, <3>2 DEF OrderStep
  <2>2. CASE x = f
    <3>1. /\ order[x] = "none" /\ order'[x] = "accepted" /\ root'[x] = root[o]
          /\ order'[root[o]] # "none" /\ \A h \in Holds : owner[h] # x
      BY <1>1, <1>3, <1>5, <2>2, Finite
    <3> QED
      BY <1>1, <1>5, <3>1 DEF OrderStep
  <2>3. CASE x # o /\ x # f
    BY <1>1, <2>3 DEF OrderStep
  <2> QED
    BY <2>1, <2>2, <2>3
<1>10. Others({}) /\ PlacingStep({})
  <2>1. UNCHANGED <<pc, at, has, read>>
    BY <1>1 DEF reqs
  <2>2. ASSUME NEW q \in Requests, pc[q] = "place"
        PROVE  /\ order'[at[q]] = "none"
               /\ \A h \in Holds : owner[h] = at[q] => state'[h] = state[h]
    <3>1. at[q] \in Orders /\ order[at[q]] = "none" /\ at[q] # f /\ at[q] # o
      BY <1>1, <1>2, <1>3, <2>2, Finite DEF Links, ReqInv
    <3> QED
      BY <1>1, <3>1 DEF Committed
  <2> QED
    BY <2>1, <2>2 DEF Others, PlacingStep
<1>11. \A x \in Orders : Backed(x)'
  <2> SUFFICES ASSUME NEW x \in Orders PROVE Backed(x)'
    OBVIOUS
  <2>1. CASE x = o
    BY <1>1, <2>1 DEF Backed
  <2>2. CASE x = f
    BY <1>1, <1>3, <2>2, Finite DEF Backed
  <2>3. CASE x # o /\ x # f
    <3>1. Backed(x)
      BY BackedIs DEF IInv
    <3>2. UNCHANGED <<slice, of>>
      BY <1>1 DEF plans
    <3>3. named[x] # None => state'[named[x]] = state[named[x]]
      BY <1>1, <1>2, <2>3 DEF RowTypes, Links, OrderInv, Committed
    <3> QED
      BY <1>1, <1>2, <1>7, <2>3, <3>1, <3>2, <3>3, BackedKept
  <2> QED
    BY <2>1, <2>2, <2>3
<1>12. FamilyAccounts'
  <2>1. owed \in Nat /\ f \in Orders \cup {None}
    BY <1>4
  <2> QED
    BY <1>1, <1>3, <1>4, <1>8, <2>1, DispatchFamily
<1>13. ASSUME NEW s \in Slices, slice[s] = "planned"
       PROVE  order'[of[s]] \in {"accepted", "cancelled"}
  <2>1. of[s] \in Orders /\ order[of[s]] \in {"accepted", "cancelled"}
    BY <1>2, <1>13 DEF Links, SliceInv
  <2> QED
    BY <1>1, <1>3, <2>1, Finite
<1>14. {} \in SUBSET Requests /\ \A x \in {} : ReqInv(x)'
  OBVIOUS
<1> QED
  BY <1>1, <1>7, <1>8, <1>9, <1>10, <1>11, <1>12, <1>13, <1>14, QuietKept


-----------------------------------------------------------------------------
(* Steps over pick lines. *)

\* A step that writes no order, with what it must show of the pick lines it
\* writes: dispatched orders are left alone, no order is planned more than it
\* asks for, and what leaves a bin is out under a line.
LEMMA PlansKept ==
    ASSUME IInv, TypeOK', UNCHANGED rows, HoldsStep, PlansStep,
           Slots', \A s \in Slices : SliceInv(s)',
           NEW R \in SUBSET Requests, Others(R), PlacingStep(R), \A r \in R : ReqInv(r)',
           \A o \in Orders : order[o] = "dispatched" =>
               SlicesOf(o)' = SlicesOf(o) /\ \A s \in SlicesOf(o) : Draws'[s] = Draws[s],
           \A o \in Orders : Fits(o)',
           \A o \in Orders : Backed(o)',
           Total(Bins, onHand') + Total(Slices, Out') = Total(Bins, onHand) + Total(Slices, Out)
    PROVE  IInv'
<1>1. TypeOK /\ Links /\ UNCHANGED <<order, qty, named, reserved, root>>
  BY DEF IInv, rows
<1>2. \A o \in Orders : OrderStep(o)
  BY <1>1 DEF OrderStep
<1>3. Links'
  BY <1>1, <1>2, LinksKept
<1>4. LineBacked' /\ PlannedWithinLine'
  BY BackedIs, FitsIs
<1>5. FamilyAccounts'
  <2> SUFFICES ASSUME NEW o \in Orders PROVE Family(o)'
    BY FamilyIs
  <2>1. Family(o)
    BY FamilyIs DEF IInv
  <2>2. ASSUME NEW x \in Orders, order[x] = "dispatched" PROVE Drawn(x)' = Drawn(x)
    <3>1. SlicesOf(x)' = SlicesOf(x) /\ \A s \in SlicesOf(x) : Draws'[s] = Draws[s]
      BY <2>2
    <3>2. Total(SlicesOf(x), Draws') = Total(SlicesOf(x), Draws)
      BY <3>1, TotalSame
    <3> QED
      BY <3>1, <3>2 DEF Drawn
  <2> QED
    BY <1>1, <2>1, <2>2, FamilyKept
<1>6. UnitsAccounted'
  <2>1. (\A s \in Slices : Draws[s] \in Nat) /\ (\A s \in Slices : Draws'[s] \in Nat)
    BY <1>1, DrawsAre, NextDrawsAre DEF Links
  <2>2. Total(Bins, onHand) + Total(Slices, Out) = Total(Bins, Stock)
    BY <2>1, UnitsIs DEF IInv
  <2> QED
    BY <2>1, <2>2, UnitsIs
<1> QED
  BY <1>3, <1>4, <1>5, <1>6 DEF IInv

\* A step of nobody's request that writes neither orders nor holds.
LEMMA NobodyPlacing ==
    ASSUME TypeOK, Links, UNCHANGED rows, UNCHANGED holds, UNCHANGED reqs
    PROVE  /\ HoldsStep /\ Others({}) /\ PlacingStep({})
           /\ RowTypes' /\ HoldTypes' /\ ReqTypes'
<1>1. UNCHANGED <<pc, at, has, read>> /\ order' = order /\ UNCHANGED <<state, owner, amount>>
  BY DEF reqs, rows, holds
<1>2. HoldsStep
  BY HoldsSame
<1>3. Others({}) /\ PlacingStep({})
  BY <1>1 DEF Others, PlacingStep, Links, ReqInv
<1> QED
  BY <1>2, <1>3, TypeParts, TypesKept

\* ReleaseWave, CancelWave: the lines that are dropped drew nothing.
LEMMA WaveEndsKept ==
    ASSUME IInv, NEW w \in Waves, wave[w] # "none",
           NEW v \in {"released", "cancelled"}, wave' = [wave EXCEPT ![w] = v],
           NEW T \in SUBSET Slices, \A s \in T : on[s] = w /\ ~Drew(s),
           slice' = [s \in Slices |-> IF s \in T THEN "cancelled" ELSE slice[s]],
           UNCHANGED <<of, on, under, bin, plan, short, back>>,
           UNCHANGED rows, UNCHANGED holds, UNCHANGED onHand, UNCHANGED reqs
    PROVE  IInv'
<1>1. TypeOK /\ Links /\ PlanTypes /\ onHand \in [Bins -> Nat]
  BY TypeParts DEF IInv
<1>2. HoldsStep /\ Others({}) /\ PlacingStep({}) /\ RowTypes' /\ HoldTypes' /\ ReqTypes'
  BY <1>1, NobodyPlacing
<1>3. PlanTypes'
  <2>1. wave' \in [Waves -> {"none", "planned", "released", "cancelled"}]
    BY <1>1 DEF PlanTypes
  <2>2. slice' \in [Slices -> Open \cup {"none", "cancelled"}]
    BY <1>1 DEF PlanTypes
  <2> QED
    BY <1>1, <2>1, <2>2 DEF PlanTypes
<1>4. TypeOK'
  BY <1>1, <1>2, <1>3, TypeParts
<1>5. /\ \A s \in Slices : slice'[s] = IF s \in T THEN "cancelled" ELSE slice[s]
      /\ \A s \in T : slice[s] # "none"
      /\ \A x \in Waves : wave'[x] = IF x = w THEN v ELSE wave[x]
  <2>1. \A s \in T : slice[s] # "none"
    BY <1>1, Finite DEF Links, SliceInv
  <2> QED
    BY <1>1, <2>1 DEF PlanTypes
<1>6. Slots'
  BY <1>1, <1>5 DEF Links, Slots
<1>7. PlansStep
  BY <1>5 DEF PlansStep
<1>8. ASSUME NEW s \in Slices PROVE SliceInv(s)'
  <2>1. SliceInv(s)
    BY <1>1 DEF Links
  <2>2. UNCHANGED <<order, owner>>
    BY DEF rows, holds
  <2>3. on[s] \in Waves => /\ wave[on[s]] # "none" => wave'[on[s]] # "none"
                           /\ wave[on[s]] \in {"released", "cancelled"} =>
                                 wave'[on[s]] \in {"released", "cancelled"}
    BY <1>5
  <2>4. CASE s \in T
    <3>1. slice'[s] = "cancelled" /\ slice[s] # "none"
      BY <1>5, <2>4
    <3> QED
      BY <2>1, <2>2, <2>3, <3>1 DEF SliceInv
  <2>5. CASE s \notin T
    <3>1. slice'[s] = slice[s]
      BY <1>5, <2>5
    <3> QED
      BY <2>1, <2>2, <2>3, <3>1 DEF SliceInv
  <2> QED
    BY <2>4, <2>5
<1>9. ASSUME NEW s \in Slices
      PROVE  Draws'[s] = Draws[s] /\ Weights'[s] <= Weights[s] /\ Out'[s] = Out[s]
  <2>1. SliceInv(s) /\ SliceInv(s)' /\ plan[s] \in Nat
    BY <1>1, <1>8 DEF Links, PlanTypes
  <2>2. Draws'[s] = Draws[s] /\ Draws[s] \in Nat
    BY <1>1, <1>5, <2>1, DrawsAre DEF Draws, Drew
  <2>3. Weights'[s] <= Weights[s]
    BY <1>1, <1>4, <1>5, <2>1, <2>2, WeightsAre, NextWeightsAre
  <2> QED
    BY <2>2, <2>3 DEF Out
<1>10. \A o : SlicesOf(o)' = SlicesOf(o)
  BY DEF SlicesOf
<1>11. ASSUME NEW o \in Orders PROVE Fits(o)'
  <2>1. Fits(o) /\ qty'[o] = qty[o]
    BY <1>1, FitsIs DEF IInv, Links, rows
  <2>2. \A s \in SlicesOf(o) : Weights'[s] <= Weights[s]
    BY <1>9 DEF SlicesOf
  <2> QED
    BY <1>1, <1>4, <1>8, <1>10, <2>1, <2>2, LighterFits DEF Links
<1>12. ASSUME NEW o \in Orders PROVE Backed(o)'
  <2>1. Backed(o) /\ UNCHANGED <<order, named, reserved, state>>
    BY BackedIs DEF IInv, rows, holds
  <2>2. \A s \in Slices : of[s] = o /\ slice[s] \in Touched => of'[s] = o /\ slice'[s] \in Touched
    BY <1>5 DEF Touched
  <2> QED
    BY <1>1, <1>2, <2>1, <2>2, BackedKept
<1>13. Total(Slices, Out') = Total(Slices, Out)
  BY <1>9, TotalSame
<1>14. \A o \in Orders : order[o] = "dispatched" =>
          SlicesOf(o)' = SlicesOf(o) /\ \A s \in SlicesOf(o) : Draws'[s] = Draws[s]
  BY <1>9, <1>10 DEF SlicesOf
<1>15. {} \in SUBSET Requests /\ \A r \in {} : ReqInv(r)'
  OBVIOUS
<1> QED
  BY <1>2, <1>4, <1>6, <1>7, <1>8, <1>11, <1>12, <1>13, <1>14, <1>15, PlansKept

\* releaseWave.
LEMMA ReleaseWaveKept ==
    ASSUME IInv, NEW w \in Waves, ReleaseWave(w)
    PROVE  IInv'
<1> DEFINE T == {s \in Slices : on[s] = w /\ order[of[s]] = "cancelled"}
<1>1. T \in SUBSET Slices /\ \A s \in T : on[s] = w /\ ~Drew(s)
  BY DEF ReleaseWave, IInv, Links, SliceInv, Drew
<1>2. slice' = [s \in Slices |-> IF s \in T THEN "cancelled" ELSE slice[s]]
  BY DEF ReleaseWave
<1>3. /\ wave[w] # "none" /\ wave' = [wave EXCEPT ![w] = "released"]
      /\ UNCHANGED <<of, on, under, bin, plan, short, back>>
      /\ UNCHANGED rows /\ UNCHANGED holds /\ UNCHANGED onHand /\ UNCHANGED reqs
  BY DEF ReleaseWave
<1> HIDE DEF T
<1> QED
  BY <1>1, <1>2, <1>3, WaveEndsKept

\* cancelWave.
LEMMA CancelWaveKept ==
    ASSUME IInv, NEW w \in Waves, CancelWave(w)
    PROVE  IInv'
<1> DEFINE T == {s \in Slices : on[s] = w /\ ~Drew(s) /\ order[of[s]] \in {"accepted", "cancelled"}}
<1>1. T \in SUBSET Slices /\ \A s \in T : on[s] = w /\ ~Drew(s)
  OBVIOUS
<1>2. slice' = [s \in Slices |-> IF s \in T THEN "cancelled" ELSE slice[s]]
  BY DEF CancelWave
<1>3. /\ wave[w] # "none" /\ wave' = [wave EXCEPT ![w] = "cancelled"]
      /\ UNCHANGED <<of, on, under, bin, plan, short, back>>
      /\ UNCHANGED rows /\ UNCHANGED holds /\ UNCHANGED onHand /\ UNCHANGED reqs
  BY DEF CancelWave
<1> HIDE DEF T
<1> QED
  BY <1>1, <1>2, <1>3, WaveEndsKept


\* Insert, with where the lines stand: the new lines take free slots, the others
\* become what the step makes of them.
LEMMA InsertStep ==
    ASSUME TypeOK, Links, NEW P, NEW n \in 0 .. MaxQty, CutOf(P, n),
           NEW o \in Orders, NEW w \in Waves, NEW h \in Holds,
           NEW stays \in [Slices -> Open \cup {"none", "cancelled"}],
           NEW kept \in [Slices -> Holds \cup {None}],
           NEW drawn \in [Slices -> Bins \cup {None}],
           \A s \in Slices : stays[s] = "none" <=> slice[s] = "none",
           Insert(P, o, w, h, stays, kept), bin' = Places(P, drawn)
    PROVE  /\ slice' \in [Slices -> Open \cup {"none", "cancelled"}]
           /\ of' \in [Slices -> Orders \cup {None}] /\ on' \in [Slices -> Waves \cup {None}]
           /\ under' \in [Slices -> Holds \cup {None}] /\ bin' \in [Slices -> Bins \cup {None}]
           /\ plan' \in [Slices -> 0 .. MaxQty]
           /\ Slots' /\ DOMAIN P \subseteq Slices
           /\ \A s \in DOMAIN P :
                 /\ slice[s] = "none" /\ slice'[s] \in {"planned", "unfulfillable"}
                 /\ of'[s] = o /\ on'[s] = w /\ under'[s] = h
                 /\ plan'[s] = P[s].plan /\ P[s].plan \in 0 .. n
           /\ \A s \in Slices \ DOMAIN P :
                 /\ slice'[s] = stays[s] /\ of'[s] = of[s] /\ on'[s] = on[s]
                 /\ under'[s] = kept[s] /\ plan'[s] = plan[s] /\ bin'[s] = drawn[s]
<1> DEFINE D == DOMAIN P
<1>1. PlanTypes
  BY TypeParts
<1>2. /\ D \subseteq Slices
      /\ \A s \in D : P[s].bin \in Bins \cup {None} /\ P[s].plan \in 0 .. n
  BY DEF Insert, CutOf
<1>3. \A s \in D : P[s].plan \in 0 .. MaxQty
  BY <1>2, FlowConstants
<1>4. /\ slice' = [s \in Slices |->
                     IF s \notin D THEN stays[s]
                     ELSE IF P[s].bin = None THEN "unfulfillable" ELSE "planned"]
      /\ of' = [s \in Slices |-> IF s \in D THEN o ELSE of[s]]
      /\ on' = [s \in Slices |-> IF s \in D THEN w ELSE on[s]]
      /\ under' = [s \in Slices |-> IF s \in D THEN h ELSE kept[s]]
      /\ plan' = [s \in Slices |-> IF s \in D THEN P[s].plan ELSE plan[s]]
      /\ bin' = [s \in Slices |-> IF s \in D THEN P[s].bin ELSE drawn[s]]
  BY DEF Insert, Places
<1> HIDE DEF D
<1>5. slice' \in [Slices -> Open \cup {"none", "cancelled"}]
  BY <1>4 DEF Open
<1>6. of' \in [Slices -> Orders \cup {None}] /\ on' \in [Slices -> Waves \cup {None}]
  BY <1>1, <1>4 DEF PlanTypes
<1>7. under' \in [Slices -> Holds \cup {None}] /\ bin' \in [Slices -> Bins \cup {None}]
  BY <1>2, <1>4
<1>8. plan' \in [Slices -> 0 .. MaxQty]
  BY <1>1, <1>3, <1>4 DEF PlanTypes
<1>9. \A s \in Slices : slice'[s] # "none" <=> (slice[s] # "none" \/ s \in D)
  BY <1>4
<1>10. (\A s \in D : slice[s] = "none") /\ Slots'
  <2>1. /\ \A s \in DOMAIN P : slice[s] = "none"
        /\ \E k \in 0 .. MaxSlices : \A s \in Slices : slice'[s] # "none" <=> s <= k
    <3>1. Slots /\ DOMAIN P \subseteq Slices
      BY <1>2 DEF Links, D
    <3>2. \A s \in Slices : slice'[s] # "none" <=> (slice[s] # "none" \/ s \in DOMAIN P)
      BY <1>9 DEF D
    <3> QED
      BY <3>1, <3>2, InsertSlots
  <2> QED
    BY <2>1 DEF Slots, D
<1>11. \A s \in D : /\ slice'[s] \in {"planned", "unfulfillable"}
                    /\ of'[s] = o /\ on'[s] = w /\ under'[s] = h /\ plan'[s] = P[s].plan
  BY <1>2, <1>4
<1>12. \A s \in Slices \ D :
                 /\ slice'[s] = stays[s] /\ of'[s] = of[s] /\ on'[s] = on[s]
                 /\ under'[s] = kept[s] /\ plan'[s] = plan[s] /\ bin'[s] = drawn[s]
  BY <1>4
<1> QED
  BY <1>2, <1>5, <1>6, <1>7, <1>8, <1>10, <1>11, <1>12 DEF D

\* An order fits when its old lines leave room for what the new ones plan.
LEMMA InsertFits ==
    ASSUME TypeOK', \A s \in Slices : SliceInv(s)', NEW o \in Orders,
           NEW P, NEW n \in Nat, CutOf(P, n), DOMAIN P \subseteq Slices,
           NEW S \in SUBSET Slices, S \cap DOMAIN P = {}, SlicesOf(o)' = S \cup DOMAIN P,
           \A s \in DOMAIN P : Weights'[s] <= P[s].plan,
           Total(S, Weights') + n <= qty'[o]
    PROVE  Fits(o)'
<1> DEFINE D == DOMAIN P
           g == [s \in D |-> P[s].plan]
<1>1. D \subseteq Slices /\ IsFiniteSet(D) /\ IsFiniteSet(S) /\ IsFiniteSet(S \cup D)
  <2>1. D \in SUBSET Slices /\ S \cup D \in SUBSET Slices
    OBVIOUS
  <2> QED
    BY <2>1, Finite
<1>2. \A s \in Slices : Weights'[s] \in Nat
  BY NextWeightsAre
<1>3. (\A s \in D : g[s] \in Nat /\ Weights'[s] <= g[s]) /\ Total(D, g) <= n
  BY DEF CutOf
<1>4. S \in SUBSET (S \cup D) /\ (S \cup D) \ S = D
  OBVIOUS
<1>5. SlicesOf(o)' = S \cup D
  OBVIOUS
<1> HIDE DEF D, g
<1>6. Total(D, Weights') <= Total(D, g) /\ Total(D, g) \in Nat
  <2>1. \A s \in D : Weights'[s] \in Nat /\ Weights'[s] <= g[s]
    BY <1>1, <1>2, <1>3
  <2>2. \A s \in D : g[s] \in Nat
    BY <1>3
  <2> QED
    BY <1>1, <2>1, <2>2, TotalLess, TotalType
<1>7. /\ Total(S, Weights') \in Nat /\ Total(D, Weights') \in Nat
      /\ Total(S \cup D, Weights') = Total(S, Weights') + Total(D, Weights')
  <2>1. \A s \in S \cup D : Weights'[s] \in Nat
    BY <1>1, <1>2
  <2> DEFINE U == S \cup D
  <2>2. IsFiniteSet(U) /\ S \in SUBSET U /\ U \ S = D /\ \A s \in U : Weights'[s] \in Nat
    BY <1>1, <1>4, <2>1
  <2> HIDE DEF U
  <2>3. /\ Total(S, Weights') \in Nat /\ Total(U \ S, Weights') \in Nat
        /\ Total(U, Weights') = Total(S, Weights') + Total(U \ S, Weights')
    BY <2>2, TotalSplit
  <2> QED
    BY <2>2, <2>3 DEF U
<1>8. qty'[o] \in Nat /\ Total(S, Weights') + n <= qty'[o]
  BY DEF TypeOK
<1>9. Total(S \cup D, Weights') <= qty'[o]
  BY <1>3, <1>6, <1>7, <1>8
<1> QED
  BY <1>5, <1>9 DEF Fits

\* generateWave: an order without an open line has drawn nothing, and its new
\* lines cut what its line says is reserved.
LEMMA GenerateWaveKept ==
    ASSUME IInv, NEW w \in Waves, NEW o \in Orders, GenerateWave(w, o)
    PROVE  IInv'
<1> DEFINE C == Cut(reserved[o], onHand)
           P == IF Total(Bins, onHand) < reserved[o] THEN WithShortfall(C) ELSE C
           h == named[o]
           D == DOMAIN P
<1>1. /\ wave[w] = "none" /\ order[o] = "accepted" /\ ~OpenClaim(o)
      /\ h # None /\ wave' = [wave EXCEPT ![w] = "planned"]
      /\ Insert(P, o, w, h, slice, under) /\ bin' = Places(P, bin)
      /\ UNCHANGED rows /\ UNCHANGED holds /\ UNCHANGED <<short, back>>
      /\ UNCHANGED onHand /\ UNCHANGED reqs
  BY DEF GenerateWave, Eligible, Pickable
<1>2. /\ TypeOK /\ Links /\ RowTypes /\ PlanTypes /\ onHand \in [Bins -> Nat]
      /\ reserved[o] \in 0 .. MaxQty /\ reserved[o] \in Nat /\ h \in Holds /\ owner[h] = o
      /\ reserved[o] <= qty[o] /\ qty[o] \in Nat
  <2>1. TypeOK /\ Links /\ RowTypes /\ PlanTypes /\ onHand \in [Bins -> Nat]
    BY TypeParts DEF IInv
  <2> QED
    BY <1>1, <2>1 DEF RowTypes, Links, OrderInv
<1>3. CutOf(P, reserved[o])
  <2>1. CutOf(C, reserved[o])
    BY <1>2, CutShape
  <2> HIDE DEF C
  <2>2. CutOf(WithShortfall(C), reserved[o])
    BY <1>2, <2>1, ShortfallShape
  <2> QED
    BY <2>1, <2>2
<1> HIDE DEF P, C, h
<1>4. HoldsStep /\ Others({}) /\ PlacingStep({}) /\ RowTypes' /\ HoldTypes' /\ ReqTypes'
  BY <1>1, <1>2, NobodyPlacing
<1>5. /\ slice' \in [Slices -> Open \cup {"none", "cancelled"}]
      /\ of' \in [Slices -> Orders \cup {None}] /\ on' \in [Slices -> Waves \cup {None}]
      /\ under' \in [Slices -> Holds \cup {None}] /\ bin' \in [Slices -> Bins \cup {None}]
      /\ plan' \in [Slices -> 0 .. MaxQty]
      /\ Slots' /\ D \subseteq Slices
      /\ \A s \in D :
                 /\ slice[s] = "none" /\ slice'[s] \in {"planned", "unfulfillable"}
                 /\ of'[s] = o /\ on'[s] = w /\ under'[s] = h
                 /\ plan'[s] = P[s].plan /\ P[s].plan \in 0 .. reserved[o]
      /\ \A s \in Slices \ D :
                 /\ slice'[s] = slice[s] /\ of'[s] = of[s] /\ on'[s] = on[s]
                 /\ under'[s] = under[s] /\ plan'[s] = plan[s] /\ bin'[s] = bin[s]
  <2>1. /\ slice \in [Slices -> Open \cup {"none", "cancelled"}]
        /\ under \in [Slices -> Holds \cup {None}] /\ bin \in [Slices -> Bins \cup {None}]
    BY <1>2 DEF PlanTypes
  <2>2. \A s \in Slices : slice[s] = "none" <=> slice[s] = "none"
    OBVIOUS
  <2> QED
    BY <1>1, <1>2, <1>3, <2>1, <2>2, InsertStep
<1> HIDE DEF D
<1>6. PlanTypes'
  <2>1. wave' \in [Waves -> {"none", "planned", "released", "cancelled"}]
    BY <1>1, <1>2 DEF PlanTypes
  <2> QED
    BY <1>1, <1>2, <1>5, <2>1 DEF PlanTypes
<1>7. TypeOK'
  BY <1>1, <1>2, <1>4, <1>6, TypeParts
<1>8. \A x \in Waves : wave'[x] = IF x = w THEN "planned" ELSE wave[x]
  BY <1>1, <1>2 DEF PlanTypes
<1>9. PlansStep
  BY <1>1, <1>5, <1>8 DEF PlansStep
<1>10. UNCHANGED <<order, qty, named, reserved, root>> /\ UNCHANGED <<state, owner, amount>>
  BY <1>1 DEF rows, holds
<1>11. ASSUME NEW s \in Slices PROVE SliceInv(s)'
  <2>1. SliceInv(s)
    BY <1>2 DEF Links
  <2>2. CASE s \in D
    <3>1. /\ slice[s] = "none" /\ slice'[s] \in {"planned", "unfulfillable"}
          /\ of'[s] = o /\ on'[s] = w /\ under'[s] = h /\ plan'[s] \in Nat
      BY <1>5, <1>2, <2>2
    <3>2. wave'[w] = "planned" /\ short'[s] = 0 /\ ~back'[s]
      BY <1>1, <1>8, <2>1, <3>1 DEF SliceInv
    <3> QED
      BY <1>1, <1>2, <1>10, <3>1, <3>2 DEF SliceInv
  <2>3. CASE s \notin D
    <3>1. /\ slice'[s] = slice[s] /\ of'[s] = of[s] /\ on'[s] = on[s]
          /\ under'[s] = under[s] /\ plan'[s] = plan[s] /\ bin'[s] = bin[s]
      BY <1>5, <2>3
    <3>2. on[s] \in Waves /\ wave[on[s]] # "none" => wave'[on[s]] = wave[on[s]]
      BY <1>1, <1>8
    <3>3. short'[s] = short[s] /\ back'[s] = back[s]
      BY <1>1
    <3>4. slice[s] # "none" => wave'[on[s]] = wave[on[s]]
      BY <2>1, <3>2 DEF SliceInv
    <3> QED
      BY <1>10, <2>1, <3>1, <3>3, <3>4 DEF SliceInv
  <2> QED
    BY <2>2, <2>3
<1>12. ASSUME NEW s \in Slices
       PROVE  /\ s \in D => Weights'[s] <= P[s].plan
              /\ s \notin D => Weights'[s] = Weights[s]
              /\ Draws'[s] = Draws[s] /\ Out'[s] = Out[s]
  <2>1. SliceInv(s) /\ SliceInv(s)' /\ short'[s] = short[s] /\ back'[s] = back[s]
    BY <1>1, <1>2, <1>11 DEF Links
  <2>2. s \in D => Weights'[s] <= P[s].plan /\ Draws'[s] = Draws[s]
    <3> SUFFICES ASSUME s \in D PROVE Weights'[s] <= P[s].plan /\ Draws'[s] = Draws[s]
      OBVIOUS
    <3>1. /\ slice[s] = "none" /\ slice'[s] \in {"planned", "unfulfillable"}
          /\ plan'[s] = P[s].plan /\ P[s].plan \in Nat
      BY <1>2, <1>5
    <3>2. Draws'[s] = 0 /\ Draws[s] = 0
      BY <1>2, <1>7, <2>1, <3>1, DrawsAre, NextDrawsAre
    <3> QED
      BY <1>7, <2>1, <3>1, <3>2, NextWeightsAre
  <2>3. s \notin D => Weights'[s] = Weights[s] /\ Draws'[s] = Draws[s]
    <3> SUFFICES ASSUME s \notin D PROVE Weights'[s] = Weights[s] /\ Draws'[s] = Draws[s]
      OBVIOUS
    <3>1. slice'[s] = slice[s] /\ plan'[s] = plan[s]
      BY <1>5
    <3> QED
      BY <1>2, <1>7, <2>1, <3>1, DrawsAre, NextDrawsAre, WeightsAre, NextWeightsAre
  <2> QED
    BY <2>1, <2>2, <2>3 DEF Out
<1>13. Fits(o)'
  <2> DEFINE S == SlicesOf(o)
  <2>1. S \in SUBSET Slices /\ S \cap D = {}
    <3>1. \A s \in D : of[s] = None
      BY <1>2, <1>5 DEF Links, SliceInv
    <3> QED
      BY <3>1, Finite DEF SlicesOf
  <2>2. SlicesOf(o)' = S \cup D
    BY <1>5 DEF SlicesOf
  <2>3. \A s \in S : Weights'[s] = 0
    <3> SUFFICES ASSUME NEW s \in S PROVE Weights'[s] = 0
      OBVIOUS
    <3>1. s \in Slices /\ s \notin D /\ slice[s] \notin Open
      BY <1>1, <2>1 DEF OpenClaim
    <3>2. SliceInv(s) /\ Weights'[s] = Weights[s]
      BY <1>2, <1>12, <3>1 DEF Links
    <3> QED
      BY <1>2, <3>1, <3>2, WeightsAre DEF Open
  <2> HIDE DEF S
  <2>4. Total(S, Weights') = 0
    BY <2>3, TotalZero
  <2>5. Total(S, Weights') + reserved[o] <= qty'[o]
    BY <1>2, <1>10, <2>4
  <2>6. \A s \in DOMAIN P : Weights'[s] <= P[s].plan
    BY <1>5, <1>12 DEF D
  <2>7. DOMAIN P \subseteq Slices /\ S \cap DOMAIN P = {} /\ SlicesOf(o)' = S \cup DOMAIN P
    BY <1>5, <2>1, <2>2 DEF D
  <2> QED
    BY <1>2, <1>3, <1>7, <1>11, <2>1, <2>5, <2>6, <2>7, InsertFits
<1>14. ASSUME NEW x \in Orders, x # o PROVE SlicesOf(x)' = SlicesOf(x) /\ SlicesOf(x) \cap D = {}
  <2>1. \A s \in D : of[s] = None /\ of'[s] = o
    BY <1>2, <1>5 DEF Links, SliceInv
  <2> QED
    BY <1>5, <1>14, <2>1, Finite DEF SlicesOf
<1>15. \A x \in Orders : Fits(x)'
  <2> SUFFICES ASSUME NEW x \in Orders, x # o PROVE Fits(x)'
    BY <1>13
  <2>1. Fits(x) /\ qty'[x] = qty[x]
    BY <1>2, <1>10, FitsIs DEF IInv, Links
  <2>2. \A s \in SlicesOf(x) : Weights'[s] <= Weights[s]
    <3> SUFFICES ASSUME NEW s \in SlicesOf(x) PROVE Weights'[s] <= Weights[s]
      OBVIOUS
    <3>1. s \in Slices /\ s \notin D /\ SliceInv(s)
      BY <1>2, <1>14 DEF SlicesOf, Links
    <3>2. Weights[s] \in Nat
      BY <1>2, <3>1, WeightsAre
    <3> QED
      BY <1>12, <3>1, <3>2
  <2> QED
    BY <1>2, <1>7, <1>11, <1>14, <2>1, <2>2, LighterFits DEF Links
<1>16. ASSUME NEW x \in Orders PROVE Backed(x)'
  <2>1. Backed(x)
    BY BackedIs DEF IInv
  <2>2. \A s \in Slices : of[s] = x /\ slice[s] \in Touched => of'[s] = x /\ slice'[s] \in Touched
    BY <1>5 DEF Touched
  <2> QED
    BY <1>2, <1>4, <1>10, <2>1, <2>2, BackedKept
<1>17. Total(Slices, Out') = Total(Slices, Out)
  BY <1>12, TotalSame
<1>18. \A x \in Orders : order[x] = "dispatched" =>
          SlicesOf(x)' = SlicesOf(x) /\ \A s \in SlicesOf(x) : Draws'[s] = Draws[s]
  BY <1>1, <1>12, <1>14 DEF SlicesOf
<1>19. {} \in SUBSET Requests /\ \A r \in {} : ReqInv(r)'
  OBVIOUS
<1> QED
  BY <1>1, <1>4, <1>5, <1>7, <1>9, <1>11, <1>15, <1>16, <1>17, <1>18, <1>19, PlansKept


\* What leaves a bin is out under the line that was picked.
LEMMA PickUnits ==
    ASSUME TypeOK, TypeOK', \A t \in Slices : SliceInv(t), \A t \in Slices : SliceInv(t)',
           NEW b \in Bins, NEW n \in Nat, n <= onHand[b], onHand' = [onHand EXCEPT ![b] = @ - n],
           NEW s \in Slices, Out[s] = 0, Out'[s] = n,
           \A t \in Slices \ {s} : Out'[t] = Out[t]
    PROVE  Total(Bins, onHand') + Total(Slices, Out') = Total(Bins, onHand) + Total(Slices, Out)
<1>1. /\ \A x \in Bins : onHand[x] \in Nat
      /\ \A x \in Bins : onHand'[x] \in Nat
      /\ \A x \in Bins \ {b} : onHand'[x] = onHand[x]
      /\ onHand'[b] = onHand[b] - n /\ IsFiniteSet(Bins)
  BY FlowConstants DEF TypeOK
<1>2. Total(Bins, onHand') = Total(Bins, onHand) - onHand[b] + onHand'[b]
  <2> DEFINE f == onHand
             g == onHand'
  <2>1. \A x \in Bins : f[x] \in Nat
    BY <1>1
  <2>2. \A x \in Bins : g[x] \in Nat
    BY <1>1
  <2>3. \A x \in Bins \ {b} : g[x] = f[x]
    BY <1>1
  <2>4. IsFiniteSet(Bins)
    BY <1>1
  <2> HIDE DEF f, g
  <2>5. Total(Bins, g) = Total(Bins, f) - f[b] + g[b]
    BY <2>1, <2>2, <2>3, <2>4, TotalChange
  <2> QED
    BY <2>5 DEF f, g
<1>3. /\ \A t \in Slices : Out[t] \in Nat
      /\ \A t \in Slices : Out'[t] \in Nat
  BY DrawsAre, NextDrawsAre DEF Out
<1>4. Total(Slices, Out') = Total(Slices, Out) - Out[s] + Out'[s]
  <2>1. \A t \in Slices : Out[t] \in Nat
    BY <1>3
  <2>2. \A t \in Slices : Out'[t] \in Nat
    BY <1>3
  <2>3. IsFiniteSet(Slices)
    BY Finite
  <2> QED
    BY <2>1, <2>2, <2>3, TotalChange, SMTT(30)
<1>5. Total(Bins, onHand) \in Nat /\ Total(Slices, Out) \in Nat /\ onHand[b] \in Nat
  BY <1>1, <1>3, Finite, TotalType
<1> QED
  BY <1>1, <1>2, <1>4, <1>5

\* A stop s of order o that is picked: n units of it drawn from bin b, the lines
\* of P put in its place, the holds of its order alone touched.
Picks(s, o, b, n, P) ==
    /\ onHand' = [onHand EXCEPT ![b] = @ - n] /\ n <= plan[s] /\ n <= onHand[b]
    /\ \A h \in Holds : owner[h] # None /\ state'[h] # state[h] => owner[h] = o
    /\ slice'[s] \in {"picked", "short"} /\ of'[s] = of[s] /\ on'[s] = on[s]
    /\ plan'[s] = plan[s] /\ short'[s] = plan[s] - n /\ bin'[s] = b /\ under'[s] = under[s]
    /\ CutOf(P, plan[s] - n) /\ DOMAIN P \subseteq Slices
    /\ \A t \in DOMAIN P :
          /\ slice[t] = "none" /\ slice'[t] \in {"planned", "unfulfillable"}
          /\ of'[t] = o /\ on'[t] = on[s] /\ under'[t] \in Holds /\ owner'[under'[t]] = o
          /\ plan'[t] = P[t].plan /\ P[t].plan \in Nat /\ short'[t] = short[t]
    /\ \A t \in Slices \ (DOMAIN P \cup {s}) :
          /\ slice'[t] = slice[t] /\ of'[t] = of[t] /\ on'[t] = on[t]
          /\ plan'[t] = plan[t] /\ bin'[t] = bin[t] /\ short'[t] = short[t]
          /\ \/ under'[t] = under[t]
             \/ under'[t] = None
             \/ of[t] = o /\ under'[t] \in Holds /\ owner'[under'[t]] = o

\* Such a pick keeps the invariant.
LEMMA PickKept ==
    ASSUME IInv, NEW r \in Requests, pc[r] = "pick", Rest(r),
           NEW s, s = read[r][3], slice[s] = "planned", NEW o, o = of[s],
           NEW b \in Bins, NEW n \in Nat, NEW P, Picks(s, o, b, n, P),
           UNCHANGED rows, UNCHANGED <<wave, back>>,
           HoldTypes', HoldsStep, PlanTypes', Slots'
    PROVE  IInv'
<1> USE DEF Picks
<1> DEFINE D == DOMAIN P
<1>1. /\ TypeOK /\ Links /\ PlanTypes /\ HoldTypes /\ RowTypes /\ ReqTypes
      /\ onHand \in [Bins -> Nat]
  BY TypeParts DEF IInv
<1>2. /\ s \in Slices /\ wave[on[s]] \in {"released", "cancelled"}
      /\ o \in Orders /\ order[o] \in {"accepted", "cancelled"} /\ on[s] \in Waves
      /\ short[s] = 0 /\ ~back[s] /\ plan[s] \in Nat
  <2>1. s \in Slices /\ wave[on[s]] \in {"released", "cancelled"}
    BY <1>1 DEF Links, ReqInv
  <2> QED
    BY <1>1, <2>1 DEF Links, SliceInv, PlanTypes
<1>3. UNCHANGED <<order, qty, named, reserved, root>>
  BY DEF rows
<1>4. /\ ReqTypes' /\ Others({r}) /\ ReqInv(r)' /\ at'[r] = None
  BY <1>1, RestStep, IdleInv
<1>5. onHand' \in [Bins -> Nat]
  BY <1>1
<1>6. TypeOK'
  BY <1>1, <1>4, <1>5, TypeParts, TypesKept
<1>7. PlacingStep({r})
  <2> SUFFICES ASSUME NEW q \in Requests \ {r}, pc[q] = "place"
               PROVE  /\ order'[at[q]] = "none"
                      /\ \A h \in Holds : owner[h] = at[q] => state'[h] \in {state[h], "expired"}
                      /\ at'[r] # at[q]
    BY DEF PlacingStep
  <2>1. at[q] \in Orders /\ order[at[q]] = "none"
    BY <1>1, PlacingAlone
  <2>2. at[q] # o /\ at[q] # None
    BY <1>2, <2>1, Finite
  <2> QED
    BY <1>3, <1>4, <2>1, <2>2
<1>8. s \notin D
  OBVIOUS
<1>9. PlansStep
  <2>1. ASSUME NEW t \in Slices, slice[t] # "none"
        PROVE  slice'[t] # "none" /\ of'[t] = of[t] /\ on'[t] = on[t]
    <3>1. t = s \/ t \in Slices \ (DOMAIN P \cup {s})
      BY <2>1
    <3> QED
      BY <2>1, <3>1
  <2> QED
    BY <2>1 DEF PlansStep
<1>10. ASSUME NEW t \in Slices PROVE SliceInv(t)'
  <2>1. SliceInv(t) /\ under[t] \in Holds \cup {None} /\ back'[t] = back[t] /\ wave' = wave
    BY <1>1 DEF Links, PlanTypes
  <2>2. under[t] # None => of[t] \in Orders /\ owner'[under[t]] = of[t]
    BY <1>1, <2>1, OwnedKept, Finite DEF SliceInv
  <2>3. CASE t = s
    BY <1>2, <1>3, <2>1, <2>2, <2>3 DEF SliceInv
  <2>4. CASE t \in D
    <3>1. /\ slice[t] = "none" /\ slice'[t] \in {"planned", "unfulfillable"}
          /\ of'[t] = o /\ on'[t] = on[s] /\ under'[t] \in Holds
          /\ owner'[under'[t]] = o
          /\ plan'[t] \in Nat /\ short'[t] = short[t]
      BY <2>4
    <3>2. short[t] = 0 /\ ~back[t]
      BY <2>1, <3>1 DEF SliceInv
    <3> QED
      BY <1>2, <1>3, <2>1, <3>1, <3>2 DEF SliceInv
  <2>5. CASE t \notin D /\ t # s
    <3>1. /\ slice'[t] = slice[t] /\ of'[t] = of[t] /\ on'[t] = on[t]
          /\ plan'[t] = plan[t] /\ bin'[t] = bin[t] /\ short'[t] = short[t]
      BY <2>5
    <3>2. under'[t] # None => of[t] \in Orders /\ owner'[under'[t]] = of[t]
      BY <1>2, <2>2, <2>5
    <3> QED
      BY <1>3, <2>1, <3>1, <3>2 DEF SliceInv
  <2> QED
    BY <2>3, <2>4, <2>5
<1>11. ASSUME NEW t \in Slices, t # s, t \notin D
       PROVE  Draws'[t] = Draws[t] /\ Weights'[t] = Weights[t] /\ Out'[t] = Out[t]
  <2>1. SliceInv(t) /\ SliceInv(t)'
    BY <1>1, <1>10 DEF Links
  <2>2. slice'[t] = slice[t] /\ plan'[t] = plan[t] /\ short'[t] = short[t] /\ back'[t] = back[t]
    BY <1>11
  <2>3. Draws'[t] = Draws[t] /\ Weights'[t] = Weights[t]
    BY <1>1, <1>6, <2>1, <2>2, DrawsAre, NextDrawsAre, WeightsAre, NextWeightsAre
  <2> QED
    BY <2>2, <2>3 DEF Out
<1>12. ASSUME NEW t \in D
       PROVE  Weights'[t] <= P[t].plan /\ Out'[t] = Out[t]
  <2>1. t \in Slices /\ SliceInv(t) /\ SliceInv(t)'
    BY <1>1, <1>10, <1>12 DEF Links
  <2>2. /\ slice[t] = "none" /\ slice'[t] \in {"planned", "unfulfillable"}
        /\ plan'[t] = P[t].plan /\ P[t].plan \in Nat
    BY <1>12
  <2>3. Draws'[t] = 0 /\ Draws[t] = 0
    BY <1>1, <1>6, <2>1, <2>2, DrawsAre, NextDrawsAre
  <2>4. Weights'[t] <= P[t].plan
    BY <1>6, <2>1, <2>2, <2>3, NextWeightsAre
  <2> QED
    BY <2>1, <2>3, <2>4 DEF Out
<1>13. /\ Weights[s] = plan[s] /\ Weights'[s] = n /\ Out[s] = 0 /\ Out'[s] = n
  <2>1. SliceInv(s) /\ SliceInv(s)' /\ back'[s] = back[s]
    BY <1>1, <1>2, <1>10 DEF Links
  <2>2. Weights[s] = plan[s] /\ Draws[s] = 0
    BY <1>1, <1>2, <2>1, WeightsAre, DrawsAre
  <2>3. Weights'[s] = n /\ Draws'[s] = n
    BY <1>2, <1>6, <2>1, NextWeightsAre, NextDrawsAre
  <2> QED
    BY <1>2, <2>1, <2>2, <2>3 DEF Out
<1>14. Total(Bins, onHand') + Total(Slices, Out') = Total(Bins, onHand) + Total(Slices, Out)
  <2>1. \A t \in Slices \ {s} : Out'[t] = Out[t]
    BY <1>11, <1>12
  <2> QED
    BY <1>1, <1>2, <1>6, <1>10, <1>13, <2>1, PickUnits DEF Links
<1>15. \A t \in D : of[t] = None /\ of'[t] = o
  BY <1>1 DEF Links, SliceInv
<1>16. ASSUME NEW x \in Orders, x # o
       PROVE  SlicesOf(x)' = SlicesOf(x) /\ SlicesOf(x) \cap (D \cup {s}) = {}
  BY <1>2, <1>15, <1>16, Finite DEF SlicesOf
<1>17. Fits(o)'
  <2> DEFINE S == SlicesOf(o)
  <2>1. S \in SUBSET Slices /\ IsFiniteSet(S) /\ S \cap D = {} /\ s \in S /\ SlicesOf(o)' = S \cup D
    <3>1. S \in SUBSET Slices /\ S \cap D = {} /\ s \in S
      BY <1>2, <1>15, Finite DEF SlicesOf
    <3>2. SlicesOf(o)' = S \cup D
      BY <1>2, <1>15 DEF SlicesOf
    <3> QED
      BY <3>1, <3>2, Finite
  <2>2. /\ \A t \in S : Weights[t] \in Nat
        /\ \A t \in S : Weights'[t] \in Nat
    BY <1>1, <1>6, <1>10, <2>1, WeightsAre, NextWeightsAre DEF Links
  <2>3. \A t \in S \ {s} : Weights'[t] = Weights[t]
    BY <1>11, <2>1
  <2>4. Fits(o) /\ qty'[o] = qty[o]
    BY <1>1, <1>2, <1>3, FitsIs DEF IInv, Links
  <2>5. Total(S, Weights) <= qty[o]
    BY <2>4 DEF Fits
  <2> HIDE DEF S, D
  <2>6. Total(S, Weights') = Total(S, Weights) - Weights[s] + Weights'[s]
    BY <2>1, <2>2, <2>3, TotalChange
  <2>7. Total(S, Weights) \in Nat /\ qty[o] \in Nat
    BY <1>1, <1>2, <2>1, <2>2, TotalType DEF RowTypes
  <2>8. Total(S, Weights') + (plan[s] - n) <= qty'[o] /\ plan[s] - n \in Nat
    BY <1>2, <1>13, <2>4, <2>5, <2>6, <2>7
  <2>9. /\ DOMAIN P \subseteq Slices /\ S \cap DOMAIN P = {} /\ SlicesOf(o)' = S \cup DOMAIN P
        /\ \A t \in DOMAIN P : Weights'[t] <= P[t].plan
    BY <1>12, <2>1 DEF D
  <2> QED
    BY <1>2, <1>6, <1>10, <2>1, <2>8, <2>9, InsertFits
<1>18. \A x \in Orders : Fits(x)'
  <2> SUFFICES ASSUME NEW x \in Orders, x # o PROVE Fits(x)'
    BY <1>17
  <2>1. Fits(x) /\ qty'[x] = qty[x]
    BY <1>1, <1>3, FitsIs DEF IInv, Links
  <2>2. \A t \in SlicesOf(x) : Weights'[t] <= Weights[t]
    <3> SUFFICES ASSUME NEW t \in SlicesOf(x) PROVE Weights'[t] <= Weights[t]
      OBVIOUS
    <3>1. t \in Slices /\ t \notin D /\ t # s /\ SliceInv(t)
      BY <1>1, <1>16 DEF SlicesOf, Links
    <3>2. Weights[t] \in Nat
      BY <1>1, <3>1, WeightsAre
    <3> QED
      BY <1>11, <3>1, <3>2
  <2> QED
    BY <1>1, <1>6, <1>10, <1>16, <2>1, <2>2, LighterFits DEF Links
<1>19. ASSUME NEW x \in Orders PROVE Backed(x)'
  <2>1. CASE x = o
    <3>1. s \in SlicesOf(x)' /\ slice'[s] \in Touched
      BY <1>2, <2>1 DEF SlicesOf, Touched
    <3> QED
      BY <3>1 DEF Backed
  <2>2. CASE x # o
    <3>1. Backed(x)
      BY BackedIs DEF IInv
    <3>2. ASSUME NEW t \in Slices, of[t] = x, slice[t] \in Touched
          PROVE  of'[t] = x /\ slice'[t] \in Touched
      <4>1. t # s /\ t \notin D
        BY <2>2, <3>2 DEF Touched
      <4> QED
        BY <3>2, <4>1
    <3>3. named[x] # None => state'[named[x]] = state[named[x]]
      BY <1>1, <2>2, Finite DEF RowTypes, Links, OrderInv
    <3> QED
      BY <1>1, <1>3, <3>1, <3>2, <3>3, BackedKept
  <2> QED
    BY <2>1, <2>2
<1>20. \A x \in Orders : order[x] = "dispatched" =>
          SlicesOf(x)' = SlicesOf(x) /\ \A t \in SlicesOf(x) : Draws'[t] = Draws[t]
  <2> SUFFICES ASSUME NEW x \in Orders, order[x] = "dispatched"
               PROVE  SlicesOf(x)' = SlicesOf(x) /\ \A t \in SlicesOf(x) : Draws'[t] = Draws[t]
    OBVIOUS
  <2>1. x # o
    BY <1>2
  <2> QED
    BY <1>11, <1>16, <2>1 DEF SlicesOf
<1>21. {r} \in SUBSET Requests /\ \A q \in {r} : ReqInv(q)'
  BY <1>4
<1> QED
  BY <1>4, <1>6, <1>7, <1>9, <1>10, <1>14, <1>18, <1>19, <1>20, <1>21, PlansKept


\* No lines at all are a cut.
LEMMA EmptyCut ==
    ASSUME NEW n \in Nat
    PROVE  CutOf([t \in {} |-> 0], n)
<1> DEFINE P == [t \in {} |-> 0]
<1>1. DOMAIN P = {}
  OBVIOUS
<1>2. DOMAIN P = UsedSlots + 1 .. UsedSlots + 0
  BY <1>1, UsedType
<1>3. Total(DOMAIN P, [s \in DOMAIN P |-> P[s].plan]) = 0
  BY <1>1, TotalEmpty
<1> HIDE DEF P
<1>4. CutOf(P, n)
  BY <1>1, <1>2, <1>3 DEF CutOf
<1> QED
  BY <1>4 DEF P

\* The stop a request is about to pick.
LEMMA StopIs ==
    ASSUME TypeOK, Links, NEW r \in Requests, pc[r] = "pick",
           NEW s, s = read[r][3], slice[s] = "planned"
    PROVE  /\ s \in Slices /\ of[s] \in Orders /\ on[s] \in Waves
           /\ short[s] = 0 /\ plan[s] \in 0 .. MaxQty /\ plan[s] \in Nat
           /\ under[s] \in Holds \cup {None}
           /\ under[s] # None => owner[under[s]] = of[s]
<1>1. s \in Slices
  BY DEF Links, ReqInv
<1>2. SliceInv(s)
  BY <1>1 DEF Links
<1> QED
  BY <1>1, <1>2 DEF SliceInv, TypeOK

\* A line that becomes picked or short takes no slot.
LEMMA SlotsSame ==
    ASSUME Slots, \A t \in Slices : slice'[t] = "none" <=> slice[t] = "none"
    PROVE  Slots'
BY DEF Slots

\* recordPick of a whole line.
LEMMA PickWholeKept ==
    ASSUME IInv, NEW r \in Requests, NEW b \in Bins, PickWhole(r, b)
    PROVE  IInv'
<1>0. PICK s, o, n : s = read[r][3] /\ o = of[s] /\ n = plan[s]
  OBVIOUS
<1>1. /\ pc[r] = "pick" /\ slice[s] = "planned" /\ onHand[b] >= plan[s]
      /\ onHand' = [onHand EXCEPT ![b] = @ - plan[s]]
      /\ slice' = [slice EXCEPT ![s] = "picked"]
      /\ bin' = [bin EXCEPT ![s] = b]
      /\ Rest(r) /\ UNCHANGED rows /\ UNCHANGED <<wave, of, on, under, plan, short, back>>
  BY <1>0 DEF PickWhole
<1>2. \/ /\ under[s] # None /\ state[under[s]] = "held"
         /\ state' = [state EXCEPT ![under[s]] = "committed"]
         /\ UNCHANGED <<owner, amount>>
      \/ UNCHANGED holds
  BY <1>0 DEF PickWhole
<1>3. TypeOK /\ Links /\ PlanTypes /\ HoldTypes
  BY TypeParts DEF IInv
<1>4. /\ s \in Slices /\ of[s] \in Orders /\ on[s] \in Waves
      /\ short[s] = 0 /\ plan[s] \in Nat /\ under[s] \in Holds \cup {None}
      /\ under[s] # None => owner[under[s]] = of[s]
  BY <1>0, <1>1, <1>3, StopIs
<1>5. /\ HoldTypes' /\ HoldsStep
      /\ \A h \in Holds : owner[h] # None /\ state'[h] # state[h] => owner[h] = of[s]
  <2>1. CASE UNCHANGED holds
    BY <1>3, <2>1, HoldsSame, TypesKept
  <2>2. CASE /\ under[s] # None /\ state[under[s]] = "held"
             /\ state' = [state EXCEPT ![under[s]] = "committed"]
             /\ UNCHANGED <<owner, amount>>
    <3>1. state' \in [Holds -> {"free", "held", "committed", "released", "expired", "retired"}]
      BY <1>3, <2>2 DEF HoldTypes
    <3>2. \A h \in Holds : state'[h] = IF h = under[s] THEN "committed" ELSE state[h]
      BY <1>3, <2>2 DEF HoldTypes
    <3>3. HoldTypes' /\ HoldsStep
      BY <1>3, <2>2, <3>1, <3>2 DEF HoldTypes, HoldsStep
    <3> QED
      BY <1>4, <2>2, <3>2, <3>3
  <2> QED
    BY <1>2, <2>1, <2>2
<1>6. PlanTypes'
  <2>1. slice' \in [Slices -> Open \cup {"none", "cancelled"}]
    BY <1>1, <1>3 DEF PlanTypes, Open
  <2>2. bin' \in [Slices -> Bins \cup {None}]
    BY <1>1, <1>3 DEF PlanTypes
  <2> QED
    BY <1>1, <1>3, <2>1, <2>2 DEF PlanTypes
<1>7. /\ slice'[s] = "picked" /\ bin'[s] = b
      /\ \A t \in Slices \ {s} : slice'[t] = slice[t] /\ bin'[t] = bin[t]
  BY <1>1, <1>3, <1>4 DEF PlanTypes
<1>8. Slots'
  <2>1. \A t \in Slices : slice'[t] = "none" <=> slice[t] = "none"
    BY <1>1, <1>7
  <2> QED
    BY <1>3, <2>1, SlotsSame DEF Links
<1> DEFINE P == [t \in {} |-> 0]
<1>9. CutOf(P, plan[s] - plan[s]) /\ DOMAIN P = {} /\ short'[s] = plan[s] - plan[s]
  BY <1>1, <1>4, EmptyCut
<1> HIDE DEF P
<1>10. n \in Nat /\ n <= plan[s] /\ n <= onHand[b] /\ onHand' = [onHand EXCEPT ![b] = @ - n]
  <2>1. onHand[b] \in Nat
    BY <1>3 DEF TypeOK
  <2> QED
    BY <1>0, <1>1, <1>4, <2>1
<1>11. \A t \in Slices \ (DOMAIN P \cup {s}) :
               /\ slice'[t] = slice[t] /\ of'[t] = of[t] /\ on'[t] = on[t]
               /\ plan'[t] = plan[t] /\ bin'[t] = bin[t] /\ short'[t] = short[t]
               /\ under'[t] = under[t]
  BY <1>1, <1>7
<1>12. Picks(s, o, b, n, P)
  <2>1. /\ slice'[s] \in {"picked", "short"} /\ of'[s] = of[s] /\ on'[s] = on[s]
        /\ plan'[s] = plan[s] /\ under'[s] = under[s] /\ bin'[s] = b
    BY <1>1, <1>7
  <2>2. CutOf(P, plan[s] - n) /\ DOMAIN P = {} /\ short'[s] = plan[s] - n
    BY <1>0, <1>9
  <2> QED
    BY <1>0, <1>5, <1>10, <1>11, <2>1, <2>2 DEF Picks
<1> QED
  BY <1>0, <1>1, <1>5, <1>6, <1>8, <1>10, <1>12, PickKept

\* The pool of a replan is a number of units in every bin.
LEMMA ElsewhereType ==
    ASSUME TypeOK, NEW s, NEW b \in Bins
    PROVE  Elsewhere(s, b) \in [Bins -> Nat]
<1>1. ASSUME NEW x \in Bins PROVE onHand[x] \in Nat /\ Claimed(s, x) \in Nat
  <2> DEFINE T == {t \in Slices \ {s} : slice[t] = "planned" /\ bin[t] = x}
  <2>1. T \in SUBSET Slices /\ \A t \in T : plan[t] \in Nat
    BY DEF TypeOK
  <2>2. IsFiniteSet(T)
    BY <2>1, Finite
  <2> HIDE DEF T
  <2>3. Total(T, plan) \in Nat
    BY <2>1, <2>2, TotalType
  <2> QED
    BY <2>3 DEF T, Claimed, TypeOK
<1>2. ASSUME NEW x \in Bins PROVE onHand[x] - Least(onHand[x], Claimed(s, x)) \in Nat
  BY <1>1 DEF Least
<1> QED
  BY <1>2 DEF Elsewhere

\* What is granted again is no more than the hold that was released.
LEMMA OwedWithin ==
    ASSUME TypeOK, Links, NEW s \in Slices, NEW n \in Nat, under[s] \in Holds
    PROVE  Owed(s, n) \in Int /\ Owed(s, n) <= amount[under[s]]
<1>1. Siblings(s) \in SUBSET Slices
  BY DEF Siblings, SlicesOf
<1>2. IsFiniteSet(Siblings(s)) /\ \A t \in Siblings(s) : Draws[t] \in Nat
  BY <1>1, Finite, DrawsAre DEF Links
<1>3. Total(Siblings(s), Draws) \in Nat /\ amount[under[s]] \in Nat
  BY <1>2, TotalType DEF TypeOK
<1> QED
  BY <1>3 DEF Owed


\* recordPick of fewer units than planned: without a hold, with the rest granted
\* again, or with the hold given up.
LEMMA PickShortKept ==
    ASSUME IInv, NEW r \in Requests, NEW b \in Bins, NEW n \in 0 .. MaxQty, PickShort(r, b, n)
    PROVE  IInv'
<1>0. PICK s, o, h : s = read[r][3] /\ o = of[s] /\ h = under[s]
  OBVIOUS
<1> DEFINE after == [slice EXCEPT ![s] = "short"]
           drawn == [bin EXCEPT ![s] = b]
           moved(g) == [t \in Slices |-> IF t \in OpenSiblings(s) THEN g ELSE under[t]]
           C == Cut(plan[s] - n, Elsewhere(s, b))
           owed == Owed(s, n)
<1>1. /\ pc[r] = "pick" /\ slice[s] = "planned" /\ n < plan[s] /\ n <= onHand[b]
      /\ onHand' = [onHand EXCEPT ![b] = @ - n]
      /\ short' = [short EXCEPT ![s] = plan[s] - n]
      /\ Rest(r) /\ UNCHANGED rows /\ UNCHANGED <<wave, back>>
  BY <1>0 DEF PickShort
<1>2. \/ /\ h = None /\ slice' = after /\ bin' = drawn
         /\ UNCHANGED holds /\ UNCHANGED <<of, on, under, plan>>
      \/ /\ h # None /\ state[h] = "held" /\ owed > 0
         /\ \E g \in Holds : state[g] = "free"
         /\ state' = [state EXCEPT ![h] = "released", ![NewHold] = "held"]
         /\ owner' = [owner EXCEPT ![NewHold] = of[s]]
         /\ amount' = [amount EXCEPT ![NewHold] = owed]
         /\ Insert(C, of[s], on[s], NewHold, after, moved(NewHold))
         /\ bin' = Places(C, drawn)
      \/ /\ h # None /\ state[h] = "held"
         /\ state' = [state EXCEPT ![h] = "released"]
         /\ slice' = after /\ bin' = drawn /\ under' = moved(None)
         /\ UNCHANGED <<owner, amount, of, on, plan>>
  BY <1>0 DEF PickShort
<1>3. TypeOK /\ Links /\ PlanTypes /\ HoldTypes
  BY TypeParts DEF IInv
<1>4. /\ s \in Slices /\ o \in Orders /\ on[s] \in Waves
      /\ short[s] = 0 /\ plan[s] \in 0 .. MaxQty /\ plan[s] \in Nat
      /\ h \in Holds \cup {None} /\ (h # None => owner[h] = o)
  BY <1>0, <1>1, <1>3, StopIs
<1>5. n \in Nat /\ plan[s] - n \in 0 .. MaxQty /\ plan[s] - n \in Nat /\ n <= plan[s]
  BY <1>1, <1>4, FlowConstants
<1>6. /\ after \in [Slices -> Open \cup {"none", "cancelled"}]
      /\ after[s] = "short" /\ \A t \in Slices \ {s} : after[t] = slice[t]
      /\ \A t \in Slices : after[t] = "none" <=> slice[t] = "none"
  BY <1>1, <1>3, <1>4 DEF PlanTypes, Open
<1>7. /\ drawn \in [Slices -> Bins \cup {None}]
      /\ drawn[s] = b /\ \A t \in Slices \ {s} : drawn[t] = bin[t]
  BY <1>3, <1>4 DEF PlanTypes
<1>8. /\ short' \in [Slices -> 0 .. MaxQty]
      /\ short'[s] = plan[s] - n /\ \A t \in Slices \ {s} : short'[t] = short[t]
  BY <1>1, <1>3, <1>4, <1>5 DEF PlanTypes
<1>9. ASSUME NEW g \in Holds \cup {None}
      PROVE  /\ moved(g) \in [Slices -> Holds \cup {None}] /\ moved(g)[s] = h
             /\ \A t \in Slices : moved(g)[t] = under[t] \/ (of[t] = o /\ moved(g)[t] = g)
  <2>1. s \notin OpenSiblings(s) /\ \A t \in OpenSiblings(s) : of[t] = o
    BY <1>0 DEF OpenSiblings, Siblings, SlicesOf
  <2> QED
    BY <1>0, <1>3, <1>4, <2>1 DEF PlanTypes
<1>10. CutOf(C, plan[s] - n)
  <2>1. Elsewhere(s, b) \in [Bins -> Nat]
    BY <1>3, ElsewhereType
  <2> QED
    BY <1>5, <2>1, CutShape
<1>11. h # None => owed \in Int /\ owed <= amount[h] /\ amount[h] \in 0 .. MaxQty /\ amount[h] <= qty[o]
  <2> SUFFICES ASSUME h # None
               PROVE owed \in Int /\ owed <= amount[h] /\ amount[h] \in 0 .. MaxQty /\ amount[h] <= qty[o]
    OBVIOUS
  <2>1. h \in Holds /\ owner[h] = o /\ o # None
    BY <1>4, Finite
  <2>2. owed \in Int /\ owed <= amount[h]
    BY <1>0, <1>3, <1>4, <1>5, <2>1, OwedWithin
  <2> QED
    BY <1>3, <2>1, <2>2 DEF HoldTypes, Links, HoldInv
<1> DEFINE N == [t \in {} |-> 0]
<1>12. CutOf(N, plan[s] - n) /\ DOMAIN N = {}
  BY <1>5, EmptyCut
<1> HIDE DEF after, drawn, moved, C, owed, N
<1>13. CASE /\ slice' = after /\ bin' = drawn /\ UNCHANGED <<of, on, plan>>
            /\ under' = under \/ under' = moved(None)
            /\ HoldTypes' /\ HoldsStep
            /\ \A x \in Holds : owner[x] # None /\ state'[x] # state[x] => owner[x] = o
  <2>1. /\ under' \in [Slices -> Holds \cup {None}] /\ under'[s] = h
        /\ \A t \in Slices : under'[t] = under[t] \/ under'[t] = None
    <3>1. under \in [Slices -> Holds \cup {None}]
      BY <1>3 DEF PlanTypes
    <3>2. None \in Holds \cup {None}
      OBVIOUS
    <3> QED
      BY <1>0, <1>9, <1>13, <3>1, <3>2
  <2>2. PlanTypes'
    BY <1>1, <1>3, <1>6, <1>7, <1>8, <1>13, <2>1 DEF PlanTypes
  <2>3. Slots'
    BY <1>3, <1>6, <1>13, SlotsSame DEF Links
  <2>4. Picks(s, o, b, n, N)
    <3>1. /\ slice'[s] \in {"picked", "short"} /\ of'[s] = of[s] /\ on'[s] = on[s]
          /\ plan'[s] = plan[s] /\ short'[s] = plan[s] - n /\ bin'[s] = b /\ under'[s] = under[s]
      BY <1>0, <1>6, <1>7, <1>8, <1>13, <2>1
    <3>2. \A t \in Slices \ (DOMAIN N \cup {s}) :
            /\ slice'[t] = slice[t] /\ of'[t] = of[t] /\ on'[t] = on[t]
            /\ plan'[t] = plan[t] /\ bin'[t] = bin[t] /\ short'[t] = short[t]
            /\ under'[t] = under[t] \/ under'[t] = None
      BY <1>6, <1>7, <1>8, <1>12, <1>13, <2>1
    <3> QED
      BY <1>1, <1>5, <1>12, <1>13, <3>1, <3>2 DEF Picks
  <2> QED
    BY <1>0, <1>1, <1>5, <1>13, <2>2, <2>3, <2>4, PickKept
<1>14. CASE /\ h = None /\ slice' = after /\ bin' = drawn
            /\ UNCHANGED holds /\ UNCHANGED <<of, on, under, plan>>
  <2>1. HoldTypes' /\ HoldsStep /\ UNCHANGED <<state, owner, amount>>
    BY <1>3, <1>14, HoldsSame, TypesKept
  <2> QED
    BY <1>13, <1>14, <2>1
<1>15. CASE /\ h # None /\ state[h] = "held"
            /\ state' = [state EXCEPT ![h] = "released"]
            /\ slice' = after /\ bin' = drawn /\ under' = moved(None)
            /\ UNCHANGED <<owner, amount, of, on, plan>>
  <2>1. state' \in [Holds -> {"free", "held", "committed", "released", "expired", "retired"}]
    BY <1>3, <1>15 DEF HoldTypes
  <2>2. \A x \in Holds : state'[x] = IF x = h THEN "released" ELSE state[x]
    BY <1>3, <1>15 DEF HoldTypes
  <2>3. HoldTypes' /\ HoldsStep
    BY <1>3, <1>15, <2>1, <2>2 DEF HoldTypes, HoldsStep
  <2>4. \A x \in Holds : owner[x] # None /\ state'[x] # state[x] => owner[x] = o
    BY <1>4, <1>15, <2>2
  <2> QED
    BY <1>13, <1>15, <2>3, <2>4
<1>16. CASE /\ h # None /\ state[h] = "held" /\ owed > 0
            /\ \E g \in Holds : state[g] = "free"
            /\ state' = [state EXCEPT ![h] = "released", ![NewHold] = "held"]
            /\ owner' = [owner EXCEPT ![NewHold] = of[s]]
            /\ amount' = [amount EXCEPT ![NewHold] = owed]
            /\ Insert(C, of[s], on[s], NewHold, after, moved(NewHold))
            /\ bin' = Places(C, drawn)
  <2>1. PICK g : g = NewHold
    OBVIOUS
  <2>2. g \in Holds /\ state[g] = "free" /\ g # h /\ owner[g] = None /\ h \in Holds
    <3>1. g \in Holds /\ state[g] = "free"
      BY <1>16, <2>1 DEF NewHold
    <3> QED
      BY <1>3, <1>4, <1>16, <3>1 DEF Links, HoldInv
  <2>3. owed \in 0 .. MaxQty /\ owed <= qty'[o]
    <3>1. qty' = qty
      BY <1>1 DEF rows
    <3>2. owed > 0 /\ MaxQty \in Nat /\ qty[o] \in Nat
      BY <1>3, <1>4, <1>16, FlowConstants DEF TypeOK
    <3> QED
      BY <1>11, <1>16, <3>1, <3>2
  <2>4. /\ state' = [state EXCEPT ![h] = "released", ![g] = "held"]
        /\ owner' = [owner EXCEPT ![g] = o] /\ amount' = [amount EXCEPT ![g] = owed]
        /\ Insert(C, o, on[s], g, after, moved(g)) /\ bin' = Places(C, drawn)
    BY <1>0, <1>16, <2>1
  <2>5. HoldTypes'
    <3>1. state' \in [Holds -> {"free", "held", "committed", "released", "expired", "retired"}]
      BY <1>3, <2>4 DEF HoldTypes
    <3>2. owner' \in [Holds -> Orders \cup {None}]
      BY <1>3, <1>4, <2>4 DEF HoldTypes
    <3>3. amount' \in [Holds -> 0 .. MaxQty]
      BY <1>3, <2>3, <2>4 DEF HoldTypes
    <3> QED
      BY <3>1, <3>2, <3>3 DEF HoldTypes
  <2>6. \A x \in Holds :
           /\ state'[x] = IF x = g THEN "held" ELSE IF x = h THEN "released" ELSE state[x]
           /\ owner'[x] = IF x = g THEN o ELSE owner[x]
           /\ amount'[x] = IF x = g THEN owed ELSE amount[x]
    BY <1>3, <2>2, <2>4 DEF HoldTypes
  <2>7. HoldsStep
    <3> SUFFICES ASSUME NEW x \in Holds
                 PROVE  \/ /\ owner'[x] = owner[x] /\ amount'[x] = amount[x]
                           /\ state'[x] = "free" <=> state[x] = "free"
                        \/ /\ state[x] = "free" /\ state'[x] = "held"
                           /\ owner'[x] \in Orders /\ amount'[x] <= qty'[owner'[x]]
      BY DEF HoldsStep
    <3>1. CASE x = g
      <4>1. owner'[x] = o /\ amount'[x] = owed /\ state'[x] = "held" /\ state[x] = "free"
        BY <2>2, <2>6, <3>1
      <4> QED
        BY <1>4, <2>3, <4>1
    <3>2. CASE x # g
      <4>1. owner'[x] = owner[x] /\ amount'[x] = amount[x]
        BY <2>6, <3>2
      <4>2. state'[x] = IF x = h THEN "released" ELSE state[x]
        BY <2>6, <3>2
      <4> QED
        BY <1>16, <4>1, <4>2
    <3> QED
      BY <3>1, <3>2
  <2>8. \A x \in Holds : owner[x] # None /\ state'[x] # state[x] => owner[x] = o
    BY <1>4, <1>16, <2>2, <2>6
  <2>9. /\ moved(g) \in [Slices -> Holds \cup {None}] /\ moved(g)[s] = h
        /\ \A t \in Slices : moved(g)[t] = under[t] \/ (of[t] = o /\ moved(g)[t] = g)
    <3>1. g \in Holds \cup {None}
      BY <2>2
    <3> QED
      BY <1>9, <3>1
  <2>10. PICK m : m = plan[s] - n
    OBVIOUS
  <2>11. m \in 0 .. MaxQty /\ CutOf(C, m)
    BY <1>5, <1>10, <2>10
  <2>12. PICK w \in Waves : w = on[s]
    BY <1>4
  <2>13. PICK k : k = moved(g)
    OBVIOUS
  <2>14. /\ slice' \in [Slices -> Open \cup {"none", "cancelled"}]
         /\ of' \in [Slices -> Orders \cup {None}] /\ on' \in [Slices -> Waves \cup {None}]
         /\ under' \in [Slices -> Holds \cup {None}] /\ bin' \in [Slices -> Bins \cup {None}]
         /\ plan' \in [Slices -> 0 .. MaxQty]
         /\ Slots' /\ DOMAIN C \subseteq Slices
         /\ \A t \in DOMAIN C :
                 /\ slice[t] = "none" /\ slice'[t] \in {"planned", "unfulfillable"}
                 /\ of'[t] = o /\ on'[t] = w /\ under'[t] = g
                 /\ plan'[t] = C[t].plan /\ C[t].plan \in 0 .. m
         /\ \A t \in Slices \ DOMAIN C :
                 /\ slice'[t] = after[t] /\ of'[t] = of[t] /\ on'[t] = on[t]
                 /\ under'[t] = k[t] /\ plan'[t] = plan[t] /\ bin'[t] = drawn[t]
    <3>1. /\ Insert(C, o, w, g, after, k) /\ bin' = Places(C, drawn)
          /\ k \in [Slices -> Holds \cup {None}]
      BY <2>4, <2>9, <2>12, <2>13
    <3> QED
      BY <1>3, <1>4, <1>6, <1>7, <2>2, <2>11, <3>1, InsertStep
  <2>15. PlanTypes'
    BY <1>1, <1>3, <1>8, <2>14 DEF PlanTypes
  <2>16. s \notin DOMAIN C
    BY <1>1, <2>14
  <2>17. Picks(s, o, b, n, C)
    <3>1. /\ slice'[s] \in {"picked", "short"} /\ of'[s] = of[s] /\ on'[s] = on[s]
          /\ plan'[s] = plan[s] /\ short'[s] = plan[s] - n /\ bin'[s] = b /\ under'[s] = under[s]
      BY <1>0, <1>4, <1>6, <1>7, <1>8, <2>9, <2>13, <2>14, <2>16
    <3>2. \A t \in DOMAIN C :
            /\ slice[t] = "none" /\ slice'[t] \in {"planned", "unfulfillable"}
            /\ of'[t] = o /\ on'[t] = on[s] /\ under'[t] \in Holds /\ owner'[under'[t]] = o
            /\ plan'[t] = C[t].plan /\ C[t].plan \in Nat /\ short'[t] = short[t]
      BY <1>8, <2>2, <2>6, <2>11, <2>12, <2>14, <2>16
    <3>3. \A t \in Slices \ (DOMAIN C \cup {s}) :
            /\ slice'[t] = slice[t] /\ of'[t] = of[t] /\ on'[t] = on[t]
            /\ plan'[t] = plan[t] /\ bin'[t] = bin[t] /\ short'[t] = short[t]
            /\ \/ under'[t] = under[t]
               \/ of[t] = o /\ under'[t] \in Holds /\ owner'[under'[t]] = o
      BY <1>6, <1>7, <1>8, <2>2, <2>6, <2>9, <2>13, <2>14
    <3>4. CutOf(C, plan[s] - n) /\ DOMAIN C \subseteq Slices
      BY <1>10, <2>14
    <3> QED
      BY <1>1, <1>5, <2>8, <3>1, <3>2, <3>3, <3>4 DEF Picks
  <2> QED
    BY <1>0, <1>1, <1>5, <2>5, <2>7, <2>14, <2>15, <2>17, PickKept
<1> QED
  BY <1>2, <1>14, <1>15, <1>16


\* What the draws of S took returns to the bins, each draw once.
LEMMA RestockUnits ==
    ASSUME TypeOK, TypeOK', \A s \in Slices : SliceInv(s), \A s \in Slices : SliceInv(s)',
           NEW S \in SUBSET Slices, \A s \in S : Drew(s) /\ ~back[s],
           NEW place \in [S -> Bins],
           onHand' = [b \in Bins |-> onHand[b] + Total({s \in S : place[s] = b}, Draws)],
           \A s \in Slices : Draws'[s] = Draws[s],
           \A s \in Slices : back'[s] = (back[s] \/ s \in S)
    PROVE  Total(Bins, onHand') + Total(Slices, Out') = Total(Bins, onHand) + Total(Slices, Out)
<1> DEFINE sums == [b \in Bins |-> Total({s \in S : place[s] = b}, Draws)]
           f == onHand
           g == onHand'
<1>1. IsFiniteSet(S) /\ IsFiniteSet(Bins) /\ IsFiniteSet(Slices)
  BY Finite, FlowConstants
<1>2. \A s \in Slices : Draws[s] \in Nat
  BY DrawsAre
<1>3. (\A b \in Bins : sums[b] \in Nat) /\ Total(Bins, sums) = Total(S, Draws)
  <2>1. \A s \in S : Draws[s] \in Nat
    BY <1>2
  <2>2. \A s \in S : place[s] \in Bins
    OBVIOUS
  <2> DEFINE group == [b \in Bins |-> {s \in S : place[s] = b}]
  <2>3. /\ \A b \in Bins : group[b] = {s \in S : place[s] = b}
        /\ \A b \in Bins : sums[b] = Total(group[b], Draws)
    OBVIOUS
  <2> HIDE DEF sums, group
  <2> QED
    BY <1>1, <2>1, <2>2, <2>3, TotalGroup
<1>4. /\ \A b \in Bins : f[b] \in Nat
      /\ \A b \in Bins : g[b] = f[b] + sums[b]
  BY DEF TypeOK
<1> HIDE DEF sums
<1>5. /\ Total(Bins, f) \in Nat /\ Total(Bins, sums) \in Nat
      /\ Total(Bins, g) = Total(Bins, f) + Total(Bins, sums)
  <2>1. \A b \in Bins : f[b] \in Nat
    BY <1>4
  <2>2. \A b \in Bins : sums[b] \in Nat
    BY <1>3
  <2>3. \A b \in Bins : g[b] = f[b] + sums[b]
    BY <1>4
  <2> HIDE DEF f, g
  <2> QED
    BY <1>1, <2>1, <2>2, <2>3, TotalPlus, SMTT(30)
<1>6. /\ \A s \in Slices : Out[s] \in Nat
      /\ \A s \in Slices : Out'[s] \in Nat
      /\ \A s \in S : Out[s] = Draws[s]
      /\ \A s \in S : Out'[s] = 0
      /\ \A s \in Slices \ S : Out'[s] = Out[s]
  BY <1>2 DEF Out
<1> DEFINE u == Out
           v == Out'
<1>7. /\ Total(S, u) \in Nat /\ Total(Slices \ S, u) \in Nat
      /\ Total(Slices, u) = Total(S, u) + Total(Slices \ S, u)
  <2>1. \A s \in Slices : u[s] \in Nat
    BY <1>6
  <2> HIDE DEF u
  <2> QED
    BY <1>1, <2>1, TotalSplit
<1>8. /\ Total(S, v) \in Nat /\ Total(Slices \ S, v) \in Nat
      /\ Total(Slices, v) = Total(S, v) + Total(Slices \ S, v)
  <2>1. \A s \in Slices : v[s] \in Nat
    BY <1>6
  <2> HIDE DEF v
  <2> QED
    BY <1>1, <2>1, TotalSplit
<1>9. Total(S, u) = Total(S, Draws)
  <2>1. \A s \in S : u[s] = Draws[s]
    BY <1>6
  <2> HIDE DEF u
  <2> QED
    BY <2>1, TotalSame
<1>10. Total(S, v) = 0 /\ Total(Slices \ S, v) = Total(Slices \ S, u)
  <2>1. (\A s \in S : v[s] = 0) /\ \A s \in Slices \ S : v[s] = u[s]
    BY <1>6
  <2> HIDE DEF u, v
  <2> QED
    BY <2>1, TotalZero, TotalSame
<1>11. Total(Bins, g) + Total(Slices, v) = Total(Bins, f) + Total(Slices, u)
  <2> HIDE DEF f, g, u, v
  <2> QED
    BY <1>3, <1>5, <1>7, <1>8, <1>9, <1>10
<1> QED
  BY <1>11

\* The whole of cancelOrderWithRestock.
LEMMA CancelWithRestockKept ==
    ASSUME IInv, NEW o \in Orders, NEW dest \in Bins \cup {None}, CancelWithRestock(o, dest)
    PROVE  IInv'
<1> DEFINE S == Outstanding(o)
           place == [s \in S |-> IF dest = None THEN bin[s] ELSE dest]
<1>1. /\ order[o] \in {"accepted", "ready_to_dispatch"}
      /\ order' = [order EXCEPT ![o] = "cancelled"]
      /\ named' = [named EXCEPT ![o] = None]
      /\ reserved' = [reserved EXCEPT ![o] = 0]
      /\ slice' = [s \in Slices |->
                     IF s \in SlicesOf(o) /\ slice[s] \in {"planned", "unfulfillable"}
                     THEN "cancelled" ELSE slice[s]]
      /\ back' = [s \in Slices |-> back[s] \/ s \in S]
      /\ state' = [h \in Holds |-> IF h \in Held(o) THEN "released"
                                   ELSE IF h \in Committed(o) THEN "retired" ELSE state[h]]
      /\ UNCHANGED <<qty, root, owner, amount, wave, of, on, under, bin, plan, short>>
      /\ UNCHANGED reqs
  BY DEF CancelWithRestock
<1>2. onHand' = [b \in Bins |-> onHand[b] + Total({s \in S : place[s] = b}, Draws)]
  <2>1. \A b \in Bins : {s \in S : (IF dest = None THEN bin[s] ELSE dest) = b} = {s \in S : place[s] = b}
    OBVIOUS
  <2>2. onHand' = [b \in Bins |->
            onHand[b] + Total({s \in S : (IF dest = None THEN bin[s] ELSE dest) = b}, Draws)]
    BY DEF CancelWithRestock
  <2> QED
    BY <2>1, <2>2, Zenon
<1>3. /\ TypeOK /\ Links /\ RowTypes /\ HoldTypes /\ PlanTypes /\ ReqTypes
      /\ onHand \in [Bins -> Nat]
  BY TypeParts DEF IInv
<1>4. /\ S \in SUBSET Slices /\ place \in [S -> Bins]
      /\ \A s \in S : Drew(s) /\ ~back[s] /\ of[s] = o
  <2>1. S \in SUBSET Slices /\ \A s \in S : Drew(s) /\ ~back[s] /\ of[s] = o
    BY DEF Outstanding, SlicesOf
  <2>2. \A s \in S : bin[s] \in Bins
    BY <1>3, <2>1 DEF Links, SliceInv, Drew
  <2> QED
    BY <2>1, <2>2
<1> HIDE DEF S, place
<1>5. /\ \A x \in Orders :
            /\ order'[x] = IF x = o THEN "cancelled" ELSE order[x]
            /\ named'[x] = IF x = o THEN None ELSE named[x]
            /\ reserved'[x] = IF x = o THEN 0 ELSE reserved[x]
      /\ \A s \in Slices :
            /\ slice'[s] = IF of[s] = o /\ slice[s] \in {"planned", "unfulfillable"}
                           THEN "cancelled" ELSE slice[s]
            /\ back'[s] = (back[s] \/ s \in S)
      /\ \A h \in Holds : owner[h] # o => state'[h] = state[h]
      /\ \A h \in Holds : state'[h] = "free" <=> state[h] = "free"
  <2>1. \A x \in Orders :
            /\ order'[x] = IF x = o THEN "cancelled" ELSE order[x]
            /\ named'[x] = IF x = o THEN None ELSE named[x]
            /\ reserved'[x] = IF x = o THEN 0 ELSE reserved[x]
    BY <1>1, <1>3 DEF RowTypes
  <2>2. \A s \in Slices :
            /\ slice'[s] = IF of[s] = o /\ slice[s] \in {"planned", "unfulfillable"}
                           THEN "cancelled" ELSE slice[s]
            /\ back'[s] = (back[s] \/ s \in S)
    BY <1>1 DEF SlicesOf
  <2>3. /\ \A h \in Holds : owner[h] # o => state'[h] = state[h]
        /\ \A h \in Holds : state'[h] = "free" <=> state[h] = "free"
    BY <1>1 DEF Held, Committed
  <2> QED
    BY <2>1, <2>2, <2>3
<1>6. RowTypes'
  <2>1. order' \in [Orders -> {"none", "accepted", "ready_to_dispatch", "dispatched", "cancelled"}]
    BY <1>1, <1>3 DEF RowTypes
  <2>2. named' \in [Orders -> Holds \cup {None}]
    BY <1>1, <1>3 DEF RowTypes
  <2>3. reserved' \in [Orders -> 0 .. MaxQty]
    <3>1. 0 \in 0 .. MaxQty
      BY FlowConstants
    <3> QED
      BY <1>1, <1>3, <3>1 DEF RowTypes
  <2> QED
    BY <1>1, <1>3, <2>1, <2>2, <2>3 DEF RowTypes
<1>7. HoldTypes' /\ HoldsStep
  <2>1. state' \in [Holds -> {"free", "held", "committed", "released", "expired", "retired"}]
    BY <1>1, <1>3 DEF HoldTypes
  <2> QED
    BY <1>1, <1>3, <1>5, <2>1 DEF HoldTypes, HoldsStep
<1>8. PlanTypes'
  <2>1. slice' \in [Slices -> Open \cup {"none", "cancelled"}]
    BY <1>1, <1>3 DEF PlanTypes
  <2>2. back' \in [Slices -> BOOLEAN]
    BY <1>1, <1>3 DEF PlanTypes
  <2> QED
    BY <1>1, <1>3, <2>1, <2>2 DEF PlanTypes
<1>9. onHand' \in [Bins -> Nat]
  <2>1. ASSUME NEW b \in Bins PROVE Total({s \in S : place[s] = b}, Draws) \in Nat
    <3> DEFINE T == {s \in S : place[s] = b}
    <3>1. T \in SUBSET Slices /\ \A s \in T : Draws[s] \in Nat
      BY <1>3, <1>4, DrawsAre DEF Links
    <3>2. IsFiniteSet(T)
      BY <3>1, Finite
    <3> HIDE DEF T
    <3>3. Total(T, Draws) \in Nat
      BY <3>1, <3>2, TotalType
    <3> QED
      BY <3>3 DEF T
  <2>2. \A b \in Bins : onHand[b] + Total({s \in S : place[s] = b}, Draws) \in Nat
    BY <1>3, <2>1
  <2> QED
    BY <1>2, <2>2
<1>10. TypeOK'
  BY <1>1, <1>3, <1>6, <1>7, <1>8, <1>9, TypeParts, TypesKept
<1>11. ASSUME NEW x \in Orders PROVE OrderStep(x)
  <2>1. UNCHANGED <<qty, root>>
    BY <1>1
  <2> QED
    BY <1>1, <1>5, <2>1 DEF OrderStep
<1>12. Slots' /\ PlansStep
  <2>1. \A s \in Slices : slice'[s] = "none" <=> slice[s] = "none"
    BY <1>5
  <2> QED
    BY <1>1, <1>3, <2>1, SlotsSame DEF Links, PlansStep
<1>13. ASSUME NEW s \in Slices PROVE SliceInv(s)'
  <2>1. SliceInv(s) /\ UNCHANGED <<wave, of, on, under, bin, plan, short, owner>>
    BY <1>1, <1>3 DEF Links
  <2>2. /\ slice'[s] = IF of[s] = o /\ slice[s] \in {"planned", "unfulfillable"}
                       THEN "cancelled" ELSE slice[s]
        /\ of[s] \in Orders => order'[of[s]] = IF of[s] = o THEN "cancelled" ELSE order[of[s]]
    BY <1>5
  <2>3. slice[s] \in {"none", "planned", "unfulfillable"} => ~back'[s]
    BY <1>4, <1>5, <2>1 DEF SliceInv, Drew
  <2> QED
    BY <2>1, <2>2, <2>3 DEF SliceInv
<1>14. Others({}) /\ PlacingStep({})
  <2>1. UNCHANGED <<pc, at, has, read>>
    BY <1>1 DEF reqs
  <2>2. ASSUME NEW q \in Requests, pc[q] = "place"
        PROVE  /\ order'[at[q]] = "none"
               /\ \A h \in Holds : owner[h] = at[q] => state'[h] = state[h]
    <3>1. at[q] \in Orders /\ order[at[q]] = "none" /\ at[q] # o
      BY <1>1, <1>3, <2>2 DEF Links, ReqInv
    <3> QED
      BY <1>5, <3>1
  <2> QED
    BY <2>1, <2>2 DEF Others, PlacingStep
<1>15. Links'
  <2>1. {} \in SUBSET Requests /\ \A r \in {} : ReqInv(r)'
    OBVIOUS
  <2> QED
    BY <1>3, <1>7, <1>10, <1>11, <1>12, <1>13, <1>14, <2>1, LinksKept
<1>16. ASSUME NEW s \in Slices PROVE Draws'[s] = Draws[s] /\ Weights'[s] <= Weights[s]
  <2>1. SliceInv(s) /\ SliceInv(s)' /\ plan[s] \in Nat /\ UNCHANGED <<plan, short>>
    BY <1>1, <1>3, <1>13 DEF Links, PlanTypes
  <2>2. slice'[s] = slice[s] \/ (slice[s] \in {"planned", "unfulfillable"} /\ slice'[s] = "cancelled")
    BY <1>5
  <2>3. Draws'[s] = Draws[s]
    BY <1>3, <1>10, <2>1, <2>2, DrawsAre, NextDrawsAre
  <2>4. Weights[s] \in Nat
    BY <1>3, <2>1, WeightsAre
  <2>5. CASE slice'[s] = slice[s]
    BY <1>3, <1>10, <2>1, <2>3, <2>4, <2>5, WeightsAre, NextWeightsAre
  <2>6. CASE slice[s] \in {"planned", "unfulfillable"} /\ slice'[s] = "cancelled"
    <3>1. Weights'[s] = 0
      BY <1>10, <2>1, <2>6, NextWeightsAre
    <3> QED
      BY <2>3, <2>4, <3>1
  <2> QED
    BY <2>2, <2>5, <2>6
<1>17. \A x : SlicesOf(x)' = SlicesOf(x)
  BY <1>1 DEF SlicesOf
<1>18. PlannedWithinLine'
  <2>1. ASSUME NEW x \in Orders PROVE Fits(x)'
    <3>1. Fits(x) /\ qty'[x] = qty[x]
      BY <1>1, <1>3, FitsIs DEF IInv, Links
    <3>2. \A s \in SlicesOf(x) : Weights'[s] <= Weights[s]
      BY <1>16 DEF SlicesOf
    <3> QED
      BY <1>3, <1>10, <1>13, <1>17, <3>1, <3>2, LighterFits DEF Links
  <2> QED
    BY <1>10, <1>13, <2>1, FitsIs
<1>19. LineBacked'
  <2>1. ASSUME NEW x \in Orders PROVE Backed(x)'
    <3>1. CASE x = o
      BY <1>5, <3>1 DEF Backed
    <3>2. CASE x # o
      <4>1. Backed(x)
        BY BackedIs DEF IInv
      <4>2. named'[x] = named[x] /\ reserved'[x] = reserved[x] /\ order'[x] = order[x]
        BY <1>5, <3>2
      <4>3. \A s \in Slices : of[s] = x /\ slice[s] \in Touched => of'[s] = x /\ slice'[s] \in Touched
        BY <1>1, <1>5 DEF Touched
      <4>4. named[x] # None => state'[named[x]] = state[named[x]]
        BY <1>3, <1>5, <3>2 DEF RowTypes, Links, OrderInv
      <4> QED
        BY <1>3, <1>7, <4>1, <4>2, <4>3, <4>4, BackedKept
    <3> QED
      BY <3>1, <3>2
  <2> QED
    BY <2>1, BackedIs
<1>20. FamilyAccounts'
  <2> SUFFICES ASSUME NEW y \in Orders PROVE Family(y)'
    BY FamilyIs
  <2>1. Family(y) /\ UNCHANGED <<root, qty>>
    BY <1>1, FamilyIs DEF IInv
  <2>2. ASSUME NEW x \in Orders PROVE Drawn(x)' = Drawn(x)
    <3>1. \A s \in SlicesOf(x) : Draws'[s] = Draws[s]
      BY <1>16 DEF SlicesOf
    <3>2. Total(SlicesOf(x), Draws') = Total(SlicesOf(x), Draws)
      BY <3>1, TotalSame
    <3> QED
      BY <1>17, <3>2 DEF Drawn
  <2>3. \A x \in Orders : order'[x] = "dispatched" <=> order[x] = "dispatched"
    BY <1>1, <1>5
  <2> QED
    BY <2>1, <2>2, <2>3, FamilyKept
<1>21. UnitsAccounted'
  <2>1. (\A s \in Slices : Draws[s] \in Nat) /\ (\A s \in Slices : Draws'[s] \in Nat)
    BY <1>3, <1>10, <1>13, DrawsAre, NextDrawsAre DEF Links
  <2>2. Total(Bins, onHand) + Total(Slices, Out) = Total(Bins, Stock)
    BY <2>1, UnitsIs DEF IInv
  <2>3. Total(Bins, onHand') + Total(Slices, Out') = Total(Bins, onHand) + Total(Slices, Out)
    <3>1. /\ \A s \in Slices : SliceInv(s)
          /\ \A s \in Slices : Draws'[s] = Draws[s]
          /\ \A s \in Slices : back'[s] = (back[s] \/ s \in S)
          /\ \A s \in S : Drew(s) /\ ~back[s]
      BY <1>3, <1>4, <1>5, <1>16 DEF Links
    <3>2. PICK U, p : U = S /\ p = place
      BY <1>4
    <3>3. /\ U \in SUBSET Slices /\ p \in [U -> Bins] /\ \A s \in U : Drew(s) /\ ~back[s]
          /\ onHand' = [b \in Bins |-> onHand[b] + Total({s \in U : p[s] = b}, Draws)]
          /\ \A s \in Slices : back'[s] = (back[s] \/ s \in U)
      BY <1>2, <1>4, <3>1, <3>2
    <3> QED
      BY <1>3, <1>10, <1>13, <3>1, <3>3, RestockUnits
  <2> QED
    BY <2>1, <2>2, <2>3, UnitsIs
<1> QED
  BY <1>10, <1>15, <1>18, <1>19, <1>20, <1>21 DEF IInv


-----------------------------------------------------------------------------
(* The theorems. *)

\* Nothing is ordered, held or planned at first.
LEMMA InitIInv ==
    ASSUME Init
    PROVE  IInv
<1>1. TypeOK
  <2>1. 0 \in 0 .. MaxQty /\ Nothing \in Seen
    BY FlowConstants DEF Nothing, Seen
  <2>2. RowTypes
    BY <2>1 DEF Init, RowTypes
  <2>3. HoldTypes
    BY <2>1 DEF Init, HoldTypes
  <2>4. PlanTypes
    BY <2>1 DEF Init, PlanTypes
  <2>5. ReqTypes
    BY <2>1 DEF Init, ReqTypes, Phases
  <2>6. onHand \in [Bins -> Nat]
    BY FlowConstants DEF Init
  <2> QED
    BY <2>2, <2>3, <2>4, <2>5, <2>6, TypeParts
<1>2. Slots
  <2>1. 0 \in 0 .. MaxSlices /\ \A s \in Slices : slice[s] = "none" /\ ~(s <= 0)
    BY FlowConstants DEF Init, Slices
  <2> QED
    BY <2>1 DEF Slots
<1>3. ASSUME NEW s \in Slices PROVE SliceInv(s)
  BY Finite DEF Init, SliceInv
<1>4. ASSUME NEW h \in Holds PROVE HoldInv(h)
  BY DEF Init, HoldInv
<1>5. ASSUME NEW o \in Orders PROVE OrderInv(o)
  BY DEF Init, OrderInv
<1>6. ASSUME NEW r \in Requests PROVE ReqInv(r)
  BY DEF Init, ReqInv
<1>7. Links
  BY <1>2, <1>3, <1>4, <1>5, <1>6 DEF Links
<1>8. LineBacked
  BY DEF Init, LineBacked
<1>9. PlannedWithinLine
  <2>1. ASSUME NEW o \in Orders PROVE Fits(o)
    <3>1. SlicesOf(o) = {}
      BY <1>7, NoSlices DEF Init
    <3>2. Total({}, Weights) = 0 /\ qty[o] = 0
      BY TotalEmpty DEF Init
    <3> QED
      BY <3>1, <3>2 DEF Fits
  <2> QED
    BY <1>1, <1>3, <2>1, FitsIs
<1>10. FamilyAccounts
  <2>1. \A o \in Orders : root[o] # o
    BY Finite DEF Init
  <2> QED
    BY <2>1 DEF FamilyAccounts
<1>11. UnitsAccounted
  <2>1. \A s \in Slices : Draws[s] = 0
    BY <1>1, <1>3, DrawsAre DEF Init
  <2>2. \A s \in Slices : Out[s] = 0 /\ Draws[s] \in Nat
    BY <2>1 DEF Out
  <2>3. Total(Slices, Out) = 0
    BY <2>2, TotalZero
  <2>4. Total(Bins, onHand) \in Nat /\ onHand = Stock
    BY FlowConstants, TotalType DEF Init
  <2> QED
    BY <2>2, <2>3, <2>4, UnitsIs
<1> QED
  BY <1>1, <1>7, <1>8, <1>9, <1>10, <1>11 DEF IInv

\* Every step of the system keeps the invariant.
LEMMA NextKept ==
    ASSUME IInv, [Next]_vars
    PROVE  IInv'
<1>1. ASSUME NEW r \in Requests, Request(r) PROVE IInv'
  <2>1. ASSUME NEW o \in Roots, NEW n \in 1 .. MaxQty, PlaceGrant(r, o, n) PROVE IInv'
    <3>1. o \in Orders
      BY FlowConstants
    <3> QED
      BY <2>1, <3>1, PlaceGrantKept
  <2>2. CASE PlaceWrite(r)
    BY <2>2, PlaceWriteKept
  <2>3. CASE PlaceRefused(r)
    BY <2>3, PlaceRefusedKept
  <2>4. ASSUME NEW o \in Orders, AllocatePlan(r, o) PROVE IInv'
    BY <2>4, AllocatePlanKept
  <2>5. ASSUME NEW o \in Orders, CancelCheck(r, o) PROVE IInv'
    BY <2>5, CancelCheckKept
  <2>6. CASE AllocateGrant(r)
    BY <2>6, AllocateGrantKept
  <2>7. CASE AllocateWrite(r)
    BY <2>7, AllocateWriteKept
  <2>8. CASE AllocateFails(r)
    BY <2>8, AllocateFailsKept
  <2>9. ASSUME NEW s \in Slices, PickRead(r, s) PROVE IInv'
    BY <2>9, PickReadKept
  <2>10. ASSUME NEW b \in Bins, PickWhole(r, b) PROVE IInv'
    BY <2>10, PickWholeKept
  <2>11. ASSUME NEW b \in Bins, NEW n \in 0 .. MaxQty, PickShort(r, b, n) PROVE IInv'
    BY <2>11, PickShortKept
  <2>12. CASE PickRefused(r) \/ Crash(r)
    BY <2>12, GivesUpKept
  <2>13. CASE CancelFlip(r)
    BY <2>13, CancelFlipKept
  <2>14. CASE CancelRelease(r)
    BY <2>14, CancelReleaseKept
  <2> QED
    BY <1>1, <2>1, <2>2, <2>3, <2>4, <2>5, <2>6, <2>7, <2>8, <2>9, <2>10, <2>11, <2>12,
       <2>13, <2>14 DEF Request
<1>2. ASSUME NEW w \in Waves, NEW o \in Orders, GenerateWave(w, o) PROVE IInv'
  BY <1>2, GenerateWaveKept
<1>3. ASSUME NEW w \in Waves, ReleaseWave(w) PROVE IInv'
  BY <1>3, ReleaseWaveKept
<1>4. ASSUME NEW w \in Waves, CancelWave(w) PROVE IInv'
  BY <1>4, CancelWaveKept
<1>5. ASSUME NEW o \in Orders, PackOrder(o) PROVE IInv'
  BY <1>5, PackOrderKept
<1>6. ASSUME NEW o \in Orders, NEW f \in (Orders \ Roots) \cup {None}, DispatchOrder(o, f)
      PROVE  IInv'
  BY <1>6, DispatchOrderKept
<1>7. ASSUME NEW o \in Orders, NEW d \in Bins \cup {None}, CancelWithRestock(o, d)
      PROVE  IInv'
  BY <1>7, CancelWithRestockKept
<1>8. ASSUME NEW h \in Holds, Expire(h) PROVE IInv'
  BY <1>8, ExpireKept
<1>9. CASE UNCHANGED vars
  <2>1. /\ UNCHANGED rows /\ UNCHANGED holds /\ UNCHANGED plans /\ UNCHANGED onHand
        /\ UNCHANGED reqs
    BY <1>9 DEF vars
  <2>2. TypeOK /\ Links
    BY DEF IInv
  <2>3. HoldsStep /\ Others({}) /\ PlacingStep({}) /\ RowTypes' /\ HoldTypes' /\ ReqTypes'
    BY <2>1, <2>2, NobodyPlacing
  <2>4. TypeOK' /\ UNCHANGED <<state, owner, amount>>
    BY <2>1, <2>2, <2>3, HoldsSame, TypeParts, TypesKept
  <2>5. {} \in SUBSET Requests /\ \A r \in {} : ReqInv(r)'
    OBVIOUS
  <2> QED
    BY <2>1, <2>3, <2>4, <2>5, RowsQuiet
<1> QED
  BY <1>1, <1>2, <1>3, <1>4, <1>5, <1>6, <1>7, <1>8, <1>9 DEF Next

\* The types, the links between the tables and the four accounts are an
\* invariant of placement, allocation, waves, picks, packing, dispatch and
\* cancellation, in any interleaving and with crashes and the reaper.
THEOREM IInvCorrect == Spec => []IInv
<1>1. Init => IInv
  BY InitIInv
<1>2. IInv /\ [Next]_vars => IInv'
  BY NextKept
<1> QED
  BY <1>1, <1>2, PTL DEF Spec

\* Every row of the order tables has its type; bins never go below zero.
THEOREM TypeCorrect == Spec => []TypeOK
<1>1. IInv => TypeOK
  BY DEF IInv
<1> QED
  BY <1>1, IInvCorrect, PTL

\* The hold that an untouched accepted line names is the line's own, for the
\* quantity the line says, and is still held or was reaped, however many
\* allocators, cancellations and crashed requests raced for it.
THEOREM BackedCorrect == Spec => []LineBacked
<1>1. IInv => LineBacked
  BY DEF IInv
<1> QED
  BY <1>1, IInvCorrect, PTL

\* Over any sequence of waves, short picks and replans, what an order drew and
\* what the floor may still draw for it stay within its line.
THEOREM PlannedCorrect == Spec => []PlannedWithinLine
<1>1. IInv => PlannedWithinLine
  BY DEF IInv
<1> QED
  BY <1>1, IInvCorrect, PTL

\* Along any chain of follow-ons, what was sent and what the last one still asks
\* for are the units of the first order.
THEOREM FamilyCorrect == Spec => []FamilyAccounts
<1>1. IInv => FamilyAccounts
  BY DEF IInv
<1> QED
  BY <1>1, IInvCorrect, PTL

\* Every unit is in a bin or out under one draw that was not restocked.
THEOREM UnitsCorrect == Spec => []UnitsAccounted
<1>1. IInv => UnitsAccounted
  BY DEF IInv
<1> QED
  BY <1>1, IInvCorrect, PTL
=============================================================================
