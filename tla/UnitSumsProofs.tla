--------------------------- MODULE UnitSumsProofs ---------------------------
(***************************************************************************)
(* What the proofs use of the sums of UnitSums: a sum over a finite set is *)
(* a natural number, and adding, removing or changing one element changes  *)
(* it by that element's quantity; sums of sums, by element and by group;   *)
(* quantities laid end to end; ranks in a set of numbers.                  *)
(***************************************************************************)
EXTENDS UnitSums, FiniteSetTheorems, FunctionTheorems, TLAPS

\* One element contributes as many units as its quantity.
LEMMA UnitsOfOne ==
    ASSUME NEW x, NEW n \in Nat
    PROVE  /\ IsFiniteSet({x} \X (1 .. n))
           /\ Cardinality({x} \X (1 .. n)) = n
<1>1. IsFiniteSet({x}) /\ Cardinality({x}) = 1
  BY FS_Singleton
<1>2. IsFiniteSet(1 .. n) /\ Cardinality(1 .. n) = n
  BY FS_Interval
<1>3. /\ IsFiniteSet({x} \X (1 .. n))
      /\ Cardinality({x} \X (1 .. n)) = Cardinality({x}) * Cardinality(1 .. n)
  BY <1>1, <1>2, FS_Product
<1> QED
  BY <1>1, <1>2, <1>3

\* A finite set of natural quantities has finitely many units.
LEMMA UnitsFinite ==
    ASSUME NEW S, IsFiniteSet(S), NEW f, \A s \in S : f[s] \in Nat
    PROVE  IsFiniteSet(Units(S, f))
<1> DEFINE g == [s \in S |-> {s} \X (1 .. f[s])]
           T == {{s} \X (1 .. f[s]) : s \in S}
<1>1. g \in Surjection(S, T)
  BY DEF Surjection
<1> HIDE DEF g
<1>2. IsFiniteSet(T)
  BY <1>1, FS_Surjection
<1>3. ASSUME NEW t \in T PROVE IsFiniteSet(t)
  <2>1. PICK s \in S : t = {s} \X (1 .. f[s])
    OBVIOUS
  <2>2. f[s] \in Nat
    OBVIOUS
  <2> QED
    BY <2>1, <2>2, UnitsOfOne
<1> HIDE DEF T
<1>4. IsFiniteSet(UNION T)
  BY <1>2, <1>3, FS_UNION
<1> QED
  BY <1>4 DEF T, Units

\* A sum is a natural number.
LEMMA TotalType ==
    ASSUME NEW S, IsFiniteSet(S), NEW f, \A s \in S : f[s] \in Nat
    PROVE  Total(S, f) \in Nat
BY UnitsFinite, FS_CardinalityType DEF Total

\* The empty sum.
LEMMA TotalEmpty ==
    ASSUME NEW f
    PROVE  Total({}, f) = 0
<1>1. Units({}, f) = {}
  BY DEF Units
<1> QED
  BY <1>1, FS_EmptySet DEF Total

\* A new element adds its quantity.
LEMMA TotalAdd ==
    ASSUME NEW S, IsFiniteSet(S), NEW x, x \notin S,
           NEW f, \A s \in S \cup {x} : f[s] \in Nat
    PROVE  Total(S \cup {x}, f) = Total(S, f) + f[x]
<1> DEFINE X == {x} \X (1 .. f[x])
<1>1. Units(S \cup {x}, f) = Units(S, f) \cup X
  BY DEF Units
<1>2. Units(S, f) \cap X = {}
  BY DEF Units
<1>3. IsFiniteSet(X) /\ Cardinality(X) = f[x]
  BY UnitsOfOne
<1>4. IsFiniteSet(Units(S, f))
  BY UnitsFinite
<1> HIDE DEF X
<1>5. Cardinality(Units(S, f) \cup X) = Cardinality(Units(S, f)) + Cardinality(X) - 0
  BY <1>2, <1>3, <1>4, FS_Union, FS_EmptySet
<1>6. Cardinality(Units(S, f)) \in Nat
  BY <1>4, FS_CardinalityType
<1>7. f[x] \in Nat
  OBVIOUS
<1>8. Cardinality(Units(S \cup {x}, f)) = Cardinality(Units(S, f) \cup X)
  BY <1>1, Zenon
<1>9. Cardinality(Units(S, f) \cup X) = Cardinality(Units(S, f)) + f[x]
  BY <1>3, <1>5, <1>6, <1>7
<1> QED
  BY <1>8, <1>9 DEF Total

\* A sum sees only the quantities of its own elements.
LEMMA TotalSame ==
    ASSUME NEW S, NEW f, NEW g, \A s \in S : f[s] = g[s]
    PROVE  Total(S, f) = Total(S, g)
<1>1. Units(S, f) = Units(S, g)
  BY DEF Units
<1> QED
  BY <1>1 DEF Total

\* An element taken out takes its quantity with it.
LEMMA TotalRemove ==
    ASSUME NEW S, IsFiniteSet(S), NEW x \in S,
           NEW f, \A s \in S : f[s] \in Nat
    PROVE  /\ Total(S \ {x}, f) \in Nat
           /\ Total(S, f) = Total(S \ {x}, f) + f[x]
<1> DEFINE R == S \ {x}
<1>1. IsFiniteSet(R)
  BY FS_Difference
<1>2. R \cup {x} = S /\ x \notin R
  OBVIOUS
<1>3. \A s \in R \cup {x} : f[s] \in Nat
  BY <1>2
<1>4. \A s \in R : f[s] \in Nat
  OBVIOUS
<1> HIDE DEF R
<1>5. Total(R \cup {x}, f) = Total(R, f) + f[x]
  BY <1>1, <1>2, <1>3, TotalAdd
<1>6. Total(R, f) \in Nat
  BY <1>1, <1>4, TotalType
<1> QED
  BY <1>2, <1>5, <1>6 DEF R

\* One quantity changed changes the sum by the difference.
LEMMA TotalChange ==
    ASSUME NEW S, IsFiniteSet(S), NEW x \in S,
           NEW f, \A s \in S : f[s] \in Nat,
           NEW g, \A s \in S : g[s] \in Nat,
           \A s \in S \ {x} : g[s] = f[s]
    PROVE  Total(S, g) = Total(S, f) - f[x] + g[x]
<1>1. Total(S \ {x}, f) \in Nat /\ Total(S, f) = Total(S \ {x}, f) + f[x]
  BY TotalRemove
<1>2. Total(S \ {x}, g) \in Nat /\ Total(S, g) = Total(S \ {x}, g) + g[x]
  BY TotalRemove
<1>3. Total(S \ {x}, f) = Total(S \ {x}, g)
  BY TotalSame
<1>4. f[x] \in Nat /\ g[x] \in Nat
  OBVIOUS
<1> QED
  BY <1>1, <1>2, <1>3, <1>4

\* A sum splits into a part of the set and the rest of it.
LEMMA TotalSplit ==
    ASSUME NEW S, IsFiniteSet(S), NEW T \in SUBSET S,
           NEW f, \A s \in S : f[s] \in Nat
    PROVE  /\ Total(T, f) \in Nat /\ Total(S \ T, f) \in Nat
           /\ Total(S, f) = Total(T, f) + Total(S \ T, f)
<1> DEFINE R == S \ T
<1>1. IsFiniteSet(T) /\ IsFiniteSet(R)
  BY FS_Subset, FS_Difference
<1>2. (\A s \in T : f[s] \in Nat) /\ (\A s \in R : f[s] \in Nat)
  OBVIOUS
<1>3. Units(S, f) = Units(T, f) \cup Units(R, f)
  BY DEF Units
<1>4. Units(T, f) \cap Units(R, f) = {}
  BY DEF Units
<1> HIDE DEF R
<1>5. IsFiniteSet(Units(T, f)) /\ IsFiniteSet(Units(R, f))
  BY <1>1, <1>2, UnitsFinite
<1>6. Total(T, f) \in Nat /\ Total(R, f) \in Nat
  BY <1>1, <1>2, TotalType
<1>7. Cardinality(Units(T, f) \cup Units(R, f))
         = Cardinality(Units(T, f)) + Cardinality(Units(R, f)) - 0
  BY <1>4, <1>5, FS_Union, FS_EmptySet
<1>8. Total(S, f) = Total(T, f) + Total(R, f) - 0
  BY <1>3, <1>7, Zenon DEF Total
<1> QED
  BY <1>6, <1>8 DEF R

\* Nothing but zeros adds up to zero.
LEMMA TotalZero ==
    ASSUME NEW S, NEW f, \A s \in S : f[s] = 0
    PROVE  Total(S, f) = 0
<1>1. Units(S, f) = {}
  BY DEF Units
<1> QED
  BY <1>1, FS_EmptySet DEF Total

\* No element's quantity exceeds the sum.
LEMMA TotalBounds ==
    ASSUME NEW S, IsFiniteSet(S), NEW x \in S, NEW f, \A s \in S : f[s] \in Nat
    PROVE  f[x] <= Total(S, f)
<1>1. f[x] \in Nat
  OBVIOUS
<1>2. Total(S \ {x}, f) \in Nat /\ Total(S, f) = Total(S \ {x}, f) + f[x]
  BY TotalRemove
<1> QED
  BY <1>1, <1>2


-----------------------------------------------------------------------------
(* Sums over other sets and of other quantities. *)

\* The units of a set, one by one.
LEMMA UnitsMember ==
    ASSUME NEW S, NEW f, NEW u
    PROVE  u \in Units(S, f) <=> \E s \in S : \E i \in 1 .. f[s] : u = <<s, i>>
BY DEF Units

\* Smaller quantities have a smaller sum.
LEMMA TotalLess ==
    ASSUME NEW S, IsFiniteSet(S), NEW f, \A s \in S : f[s] \in Nat,
           NEW g, \A s \in S : g[s] \in Nat /\ g[s] <= f[s]
    PROVE  Total(S, g) <= Total(S, f)
<1>1. \A s \in S : 1 .. g[s] \subseteq 1 .. f[s]
  OBVIOUS
<1>2. Units(S, g) \subseteq Units(S, f)
  BY <1>1, UnitsMember
<1> QED
  BY <1>2, UnitsFinite, FS_Subset DEF Total

\* A sum does not depend on the names of what is summed.
LEMMA TotalReindex ==
    ASSUME NEW S, IsFiniteSet(S), NEW f, \A s \in S : f[s] \in Nat,
           NEW T, NEW g, NEW p \in Bijection(S, T), \A s \in S : g[p[s]] = f[s]
    PROVE  Total(S, f) = Total(T, g)
<1> DEFINE F == [u \in Units(S, f) |-> <<p[u[1]], u[2]>>]
<1>1. /\ p \in [S -> T] /\ \A a, b \in S : p[a] = p[b] => a = b
      /\ \A t \in T : \E s \in S : p[s] = t
  BY Fun_BijectionProperties, Fun_SurjectionProperties
<1>2. F \in [Units(S, f) -> Units(T, g)]
  <2> SUFFICES ASSUME NEW u \in Units(S, f)
               PROVE  <<p[u[1]], u[2]>> \in Units(T, g)
    OBVIOUS
  <2>1. PICK s \in S : \E i \in 1 .. f[s] : u = <<s, i>>
    BY UnitsMember
  <2>2. PICK i \in 1 .. f[s] : u = <<s, i>>
    BY <2>1
  <2>3. i \in 1 .. g[p[s]] /\ p[s] \in T
    BY <1>1
  <2>4. <<p[u[1]], u[2]>> = <<p[s], i>>
    BY <2>2
  <2> QED
    BY <2>3, <2>4, UnitsMember
<1>3. ASSUME NEW u \in Units(S, f), NEW v \in Units(S, f), F[u] = F[v]
      PROVE  u = v
  <2>1. /\ \E s \in S : \E i \in 1 .. f[s] : u = <<s, i>>
        /\ \E s \in S : \E i \in 1 .. f[s] : v = <<s, i>>
    BY UnitsMember
  <2>2. p[u[1]] = p[v[1]] /\ u[2] = v[2]
    BY <1>3
  <2> QED
    BY <1>1, <2>1, <2>2
<1>4. ASSUME NEW w \in Units(T, g)
      PROVE  \E u \in Units(S, f) : F[u] = w
  <2>1. PICK t \in T : \E i \in 1 .. g[t] : w = <<t, i>>
    BY UnitsMember
  <2>2. PICK i \in 1 .. g[t] : w = <<t, i>>
    BY <2>1
  <2>3. PICK s \in S : p[s] = t
    BY <1>1
  <2>4. <<s, i>> \in Units(S, f)
    BY <2>2, <2>3, UnitsMember
  <2> QED
    BY <2>2, <2>3, <2>4
<1> HIDE DEF F
<1>5. F \in Bijection(Units(S, f), Units(T, g))
  BY <1>2, <1>3, <1>4, Fun_IsBij
<1>6. ExistsBijection(Units(S, f), Units(T, g))
  BY <1>5, Fun_ExistsBij
<1>7. IsFiniteSet(Units(S, f))
  BY UnitsFinite
<1> QED
  BY <1>6, <1>7, FS_Bijection DEF Total

\* Intervals that do not meet and lie within 1 .. n sum to at most n.
LEMMA TotalWithin ==
    ASSUME NEW S, IsFiniteSet(S), NEW f, \A s \in S : f[s] \in Nat,
           NEW n \in Nat, NEW start \in [S -> Nat],
           \A s \in S : f[s] > 0 => start[s] + f[s] <= n,
           \A s, t \in S : s # t /\ f[s] > 0 /\ f[t] > 0 =>
               start[s] + f[s] <= start[t] \/ start[t] + f[t] <= start[s]
    PROVE  Total(S, f) <= n
<1> DEFINE F == [u \in Units(S, f) |-> start[u[1]] + u[2]]
<1>1. \A u \in Units(S, f) : \E s \in S : \E i \in 1 .. f[s] : u = <<s, i>>
  BY UnitsMember
<1>2. F \in [Units(S, f) -> 1 .. n]
  <2> SUFFICES ASSUME NEW u \in Units(S, f)
               PROVE  start[u[1]] + u[2] \in 1 .. n
    OBVIOUS
  <2>1. PICK s \in S : \E i \in 1 .. f[s] : u = <<s, i>>
    BY <1>1
  <2>2. PICK i \in 1 .. f[s] : u = <<s, i>>
    BY <2>1
  <2>3. start[s] + i \in 1 .. n
    BY <2>2
  <2> QED
    BY <2>2, <2>3
<1>3. ASSUME NEW u \in Units(S, f), NEW v \in Units(S, f), F[u] = F[v]
      PROVE  u = v
  <2>1. PICK s \in S : \E i \in 1 .. f[s] : u = <<s, i>>
    BY <1>1
  <2>2. PICK i \in 1 .. f[s] : u = <<s, i>>
    BY <2>1
  <2>3. PICK t \in S : \E j \in 1 .. f[t] : v = <<t, j>>
    BY <1>1
  <2>4. PICK j \in 1 .. f[t] : v = <<t, j>>
    BY <2>3
  <2>5. start[s] + i = start[t] + j
    BY <1>3, <2>2, <2>4
  <2>6. s = t
    BY <2>5
  <2> QED
    BY <2>2, <2>4, <2>5, <2>6
<1> HIDE DEF F
<1>4. F \in Injection(Units(S, f), 1 .. n)
  BY <1>2, <1>3, Fun_IsInj
<1>5. IsFiniteSet(1 .. n) /\ Cardinality(1 .. n) = n
  BY FS_Interval
<1> QED
  BY <1>4, <1>5, FS_Injection DEF Total

\* The sum of sums, quantity by quantity.
LEMMA TotalPlus ==
    ASSUME NEW S, IsFiniteSet(S), NEW f, \A s \in S : f[s] \in Nat,
           NEW g, \A s \in S : g[s] \in Nat, NEW h, \A s \in S : h[s] = f[s] + g[s]
    PROVE  /\ Total(S, f) \in Nat /\ Total(S, g) \in Nat
           /\ Total(S, h) = Total(S, f) + Total(S, g)
<1> DEFINE U == Units(S, h) \ Units(S, f)
           F == [u \in Units(S, g) |-> <<u[1], f[u[1]] + u[2]>>]
<1>1. \A s \in S : h[s] \in Nat
  OBVIOUS
<1>2. /\ IsFiniteSet(Units(S, f)) /\ IsFiniteSet(Units(S, g)) /\ IsFiniteSet(Units(S, h))
  BY <1>1, UnitsFinite
<1>3. Units(S, f) \subseteq Units(S, h)
  <2>1. \A s \in S : 1 .. f[s] \subseteq 1 .. h[s]
    OBVIOUS
  <2> QED
    BY <2>1, UnitsMember
<1>4. \A u : u \in U <=> \E s \in S : \E i \in f[s] + 1 .. h[s] : u = <<s, i>>
  <2>1. \A s \in S : \A i : i \in f[s] + 1 .. h[s] <=> i \in 1 .. h[s] /\ i \notin 1 .. f[s]
    OBVIOUS
  <2> QED
    BY <2>1, UnitsMember
<1> HIDE DEF U
<1>5. F \in [Units(S, g) -> U]
  <2> SUFFICES ASSUME NEW u \in Units(S, g)
               PROVE  <<u[1], f[u[1]] + u[2]>> \in U
    OBVIOUS
  <2>1. PICK s \in S : \E i \in 1 .. g[s] : u = <<s, i>>
    BY UnitsMember
  <2>2. PICK i \in 1 .. g[s] : u = <<s, i>>
    BY <2>1
  <2>3. f[s] + i \in f[s] + 1 .. h[s]
    BY <2>2
  <2>4. <<u[1], f[u[1]] + u[2]>> = <<s, f[s] + i>>
    BY <2>2
  <2> QED
    BY <1>4, <2>3, <2>4
<1>6. ASSUME NEW u \in Units(S, g), NEW v \in Units(S, g), F[u] = F[v]
      PROVE  u = v
  <2>1. /\ \E s \in S : \E i \in 1 .. g[s] : u = <<s, i>>
        /\ \E s \in S : \E i \in 1 .. g[s] : v = <<s, i>>
    BY UnitsMember
  <2>2. u[1] = v[1] /\ f[u[1]] + u[2] = f[v[1]] + v[2]
    BY <1>6
  <2> QED
    BY <2>1, <2>2
<1>7. ASSUME NEW w \in U
      PROVE  \E u \in Units(S, g) : F[u] = w
  <2>1. PICK s \in S : \E i \in f[s] + 1 .. h[s] : w = <<s, i>>
    BY <1>4
  <2>2. PICK i \in f[s] + 1 .. h[s] : w = <<s, i>>
    BY <2>1
  <2>3. i - f[s] \in 1 .. g[s] /\ f[s] + (i - f[s]) = i
    BY <2>2
  <2>4. <<s, i - f[s]>> \in Units(S, g)
    BY <2>3, UnitsMember
  <2> QED
    BY <2>2, <2>3, <2>4
<1> HIDE DEF F
<1>8. F \in Bijection(Units(S, g), U)
  BY <1>5, <1>6, <1>7, Fun_IsBij
<1>9. ExistsBijection(Units(S, g), U)
  BY <1>8, Fun_ExistsBij
<1>10. IsFiniteSet(U) /\ Cardinality(U) = Cardinality(Units(S, g))
  BY <1>2, <1>9, FS_Bijection
<1>11. Units(S, h) = Units(S, f) \cup U /\ Units(S, f) \cap U = {}
  BY <1>3 DEF U
<1>12. Cardinality(Units(S, h)) = Cardinality(Units(S, f)) + Cardinality(U) - Cardinality({})
  BY <1>2, <1>10, <1>11, FS_Union
<1>13. Cardinality(Units(S, f)) \in Nat /\ Cardinality(Units(S, g)) \in Nat
  BY <1>2, FS_CardinalityType
<1> QED
  BY <1>10, <1>12, <1>13, FS_EmptySet DEF Total

\* Summing by groups: what each group of S sums to, summed over the groups.
LEMMA TotalGroup ==
    ASSUME NEW S, IsFiniteSet(S), NEW f, \A s \in S : f[s] \in Nat,
           NEW G, IsFiniteSet(G), NEW place, \A s \in S : place[s] \in G,
           NEW group, \A b \in G : group[b] = {s \in S : place[s] = b},
           NEW sums, \A b \in G : sums[b] = Total(group[b], f)
    PROVE  /\ \A b \in G : sums[b] \in Nat
           /\ Total(G, sums) = Total(S, f)
<1> DEFINE In(b) == {s \in S : place[s] = b}
           Counts(b) == Bijection(1 .. sums[b], Units(In(b), f))
           count == [b \in G |-> CHOOSE c : c \in Counts(b)]
           F == [u \in Units(G, sums) |-> count[u[1]][u[2]]]
<1>1. \A b \in G : sums[b] \in Nat /\ count[b] \in Counts(b)
  <2> SUFFICES ASSUME NEW b \in G
               PROVE  sums[b] \in Nat /\ \E c : c \in Counts(b)
    OBVIOUS
  <2>1. In(b) \in SUBSET S /\ In(b) = group[b]
    OBVIOUS
  <2>2. IsFiniteSet(In(b))
    BY <2>1, FS_Subset
  <2>3. IsFiniteSet(Units(In(b), f)) /\ sums[b] = Cardinality(Units(In(b), f))
    BY <2>1, <2>2, UnitsFinite DEF Total
  <2>4. sums[b] \in Nat /\ ExistsBijection(1 .. sums[b], Units(In(b), f))
    BY <2>3, FS_CardinalityType
  <2> QED
    BY <2>4, Fun_ExistsBij
<1>2. \A b \in G : /\ \A i \in 1 .. sums[b] : count[b][i] \in Units(In(b), f)
                   /\ \A i, j \in 1 .. sums[b] : count[b][i] = count[b][j] => i = j
                   /\ \A u \in Units(In(b), f) : \E i \in 1 .. sums[b] : count[b][i] = u
  <2> SUFFICES ASSUME NEW b \in G
               PROVE  /\ \A i \in 1 .. sums[b] : count[b][i] \in Units(In(b), f)
                      /\ \A i, j \in 1 .. sums[b] : count[b][i] = count[b][j] => i = j
                      /\ \A u \in Units(In(b), f) : \E i \in 1 .. sums[b] : count[b][i] = u
    OBVIOUS
  <2> DEFINE c == count[b]
             N == 1 .. sums[b]
             U == Units(In(b), f)
  <2>1. c \in Bijection(N, U)
    BY <1>1
  <2> HIDE DEF c, N, U
  <2>2. /\ c \in [N -> U] /\ \A i, j \in N : c[i] = c[j] => i = j
        /\ \A u \in U : \E i \in N : c[i] = u
    BY <2>1, Fun_BijectionProperties, Fun_SurjectionProperties
  <2> QED
    BY <2>2 DEF c, N, U
<1> HIDE DEF count, Counts
<1>3. \A b \in G : \A u \in Units(In(b), f) :
         u \in Units(S, f) /\ u[1] \in S /\ place[u[1]] = b
  <2> SUFFICES ASSUME NEW b \in G, NEW u \in Units(In(b), f)
               PROVE  u \in Units(S, f) /\ u[1] \in S /\ place[u[1]] = b
    OBVIOUS
  <2>1. PICK s \in In(b) : \E i \in 1 .. f[s] : u = <<s, i>>
    BY UnitsMember
  <2>2. s \in S /\ place[s] = b
    OBVIOUS
  <2> QED
    BY <2>1, <2>2, UnitsMember
<1>4. \A u \in Units(S, f) : place[u[1]] \in G /\ u \in Units(In(place[u[1]]), f)
  <2> SUFFICES ASSUME NEW u \in Units(S, f)
               PROVE  place[u[1]] \in G /\ u \in Units(In(place[u[1]]), f)
    OBVIOUS
  <2>1. PICK s \in S : \E i \in 1 .. f[s] : u = <<s, i>>
    BY UnitsMember
  <2>2. s \in In(place[s]) /\ u[1] = s /\ place[s] \in G
    BY <2>1
  <2> HIDE DEF In
  <2> QED
    BY <2>1, <2>2, UnitsMember
<1> HIDE DEF In
<1>5. \A u \in Units(G, sums) : u[1] \in G /\ u[2] \in 1 .. sums[u[1]] /\ u = <<u[1], u[2]>>
  BY UnitsMember
<1>6. F \in [Units(G, sums) -> Units(S, f)]
  <2> SUFFICES ASSUME NEW u \in Units(G, sums)
               PROVE  count[u[1]][u[2]] \in Units(S, f)
    OBVIOUS
  <2>1. u[1] \in G /\ u[2] \in 1 .. sums[u[1]]
    BY <1>5
  <2>2. count[u[1]][u[2]] \in Units(In(u[1]), f)
    BY <1>2, <2>1
  <2> QED
    BY <1>3, <2>1, <2>2
<1>7. ASSUME NEW u \in Units(G, sums), NEW v \in Units(G, sums), F[u] = F[v]
      PROVE  u = v
  <2>1. count[u[1]][u[2]] = count[v[1]][v[2]]
    BY <1>7
  <2>2. /\ count[u[1]][u[2]] \in Units(In(u[1]), f)
        /\ count[v[1]][v[2]] \in Units(In(v[1]), f)
    <3>1. /\ u[1] \in G /\ u[2] \in 1 .. sums[u[1]]
          /\ v[1] \in G /\ v[2] \in 1 .. sums[v[1]]
      BY <1>5
    <3> QED
      BY <1>2, <3>1
  <2>3. u[1] = v[1]
    BY <1>3, <1>5, <2>1, <2>2
  <2>4. u[2] = v[2]
    BY <1>2, <1>5, <2>1, <2>3
  <2> QED
    BY <1>5, <2>3, <2>4
<1>8. ASSUME NEW w \in Units(S, f)
      PROVE  \E u \in Units(G, sums) : F[u] = w
  <2> DEFINE b == place[w[1]]
  <2>1. b \in G /\ w \in Units(In(b), f)
    BY <1>4
  <2> HIDE DEF b
  <2>2. PICK i \in 1 .. sums[b] : count[b][i] = w
    BY <1>2, <2>1
  <2>3. <<b, i>> \in Units(G, sums)
    BY <2>1, UnitsMember
  <2> QED
    BY <2>2, <2>3
<1> HIDE DEF F
<1>9. F \in Bijection(Units(G, sums), Units(S, f))
  BY <1>6, <1>7, <1>8, Fun_IsBij
<1>10. ExistsBijection(Units(G, sums), Units(S, f))
  BY <1>9, Fun_ExistsBij
<1>11. IsFiniteSet(Units(G, sums))
  BY <1>1, UnitsFinite
<1>12. Cardinality(Units(S, f)) = Cardinality(Units(G, sums))
  BY <1>10, <1>11, FS_Bijection
<1> QED
  BY <1>1, <1>12 DEF Total


\* The elements of a finite set of numbers are ranked 1, 2, ... up to its size.
LEMMA Ranks ==
    ASSUME NEW B, B \subseteq Nat, IsFiniteSet(B)
    PROVE  /\ Cardinality(B) \in Nat
           /\ [b \in B |-> Cardinality({c \in B : c <= b})] \in Bijection(B, 1 .. Cardinality(B))
<1> DEFINE Upto(b) == {c \in B : c <= b}
           N == Cardinality(B)
           rank == [b \in B |-> Cardinality(Upto(b))]
<1>1. N \in Nat
  BY FS_CardinalityType
<1>2. ASSUME NEW b \in B
      PROVE  IsFiniteSet(Upto(b)) /\ Cardinality(Upto(b)) \in 1 .. N
  <2>1. Upto(b) \in SUBSET B
    OBVIOUS
  <2>2. IsFiniteSet(Upto(b)) /\ Cardinality(Upto(b)) <= N
    BY <2>1, FS_Subset
  <2>3. Cardinality(Upto(b)) \in Nat
    BY <2>2, FS_CardinalityType
  <2>4. b \in Upto(b)
    OBVIOUS
  <2>5. Cardinality(Upto(b)) # 0
    <3> HIDE DEF Upto
    <3> QED
      BY <2>2, <2>4, FS_EmptySet
  <2> QED
    BY <1>1, <2>2, <2>3, <2>5
<1>3. ASSUME NEW a \in B, NEW b \in B, a < b
      PROVE  Cardinality(Upto(a)) # Cardinality(Upto(b))
  <2>0. \A c \in B : c \in Nat /\ (c <= a => c <= b) /\ ~(b <= a)
    BY <1>3
  <2>1. Upto(a) \in SUBSET Upto(b) /\ b \in Upto(b) /\ b \notin Upto(a)
    <3>1. b <= b
      BY <2>0
    <3> QED
      BY <2>0, <3>1, Zenon
  <2>2. IsFiniteSet(Upto(b))
    BY <1>2
  <2> HIDE DEF Upto
  <2> QED
    BY <2>1, <2>2, FS_Subset
<1> HIDE DEF Upto, N
<1>4. rank \in [B -> 1 .. N]
  BY <1>2
<1>5. \A a, b \in B : rank[a] = rank[b] => a = b
  <2> SUFFICES ASSUME NEW a \in B, NEW b \in B, rank[a] = rank[b] PROVE a = b
    OBVIOUS
  <2>1. Cardinality(Upto(a)) = Cardinality(Upto(b))
    OBVIOUS
  <2>2. a < b \/ b < a \/ a = b
    OBVIOUS
  <2> QED
    BY <1>3, <2>1, <2>2
<1>6. IsFiniteSet(1 .. N) /\ Cardinality(1 .. N) = N
  BY <1>1, FS_Interval
<1> HIDE DEF rank
<1>7. rank \in Injection(B, 1 .. N)
  BY <1>4, <1>5, Fun_IsInj
<1>8. rank \in Surjection(B, 1 .. N)
  BY <1>6, <1>7, FS_Injection DEF N
<1>9. rank \in Bijection(B, 1 .. N)
  BY <1>7, <1>8, Fun_IsBij
<1> QED
  BY <1>1, <1>9 DEF rank, Upto, N


\* A part sums to no more than the whole.
LEMMA TotalSubset ==
    ASSUME NEW S, IsFiniteSet(S), NEW T \in SUBSET S,
           NEW f, \A s \in S : f[s] \in Nat
    PROVE  /\ Total(T, f) \in Nat /\ Total(S, f) \in Nat
           /\ Total(T, f) <= Total(S, f)
<1>1. /\ Total(T, f) \in Nat /\ Total(S \ T, f) \in Nat
      /\ Total(S, f) = Total(T, f) + Total(S \ T, f)
  BY TotalSplit
<1> QED
  BY <1>1


\* What is zero outside a part sums to the part.
LEMMA TotalMasked ==
    ASSUME NEW S, IsFiniteSet(S), NEW T \in SUBSET S,
           NEW f, \A s \in T : f[s] \in Nat,
           NEW g, \A s \in S : g[s] = IF s \in T THEN f[s] ELSE 0
    PROVE  Total(S, g) = Total(T, f)
<1>1. \A s \in S : g[s] \in Nat
  OBVIOUS
<1>2. /\ Total(T, g) \in Nat /\ Total(S \ T, g) \in Nat
      /\ Total(S, g) = Total(T, g) + Total(S \ T, g)
  BY <1>1, TotalSplit
<1>3. Total(S \ T, g) = 0
  <2>1. \A s \in S \ T : g[s] = 0
    OBVIOUS
  <2> QED
    BY <2>1, TotalZero
<1>4. Total(T, g) = Total(T, f)
  <2>1. \A s \in T : g[s] = f[s]
    OBVIOUS
  <2> QED
    BY <2>1, TotalSame
<1> QED
  BY <1>2, <1>3, <1>4

\* Two quantities that are never both there sum as one.
LEMMA TotalMix ==
    ASSUME NEW S, IsFiniteSet(S), NEW T \in SUBSET S,
           NEW f, \A s \in S : f[s] \in Nat /\ (s \in T => f[s] = 0),
           NEW g, \A s \in S : g[s] \in Nat,
           NEW w, \A s \in S : w[s] = IF s \in T THEN g[s] ELSE f[s]
    PROVE  /\ Total(S, f) \in Nat /\ Total(T, g) \in Nat
           /\ Total(S, w) = Total(S, f) + Total(T, g)
<1> DEFINE m == [s \in S |-> IF s \in T THEN g[s] ELSE 0]
<1>1. /\ \A s \in S : m[s] \in Nat /\ m[s] = IF s \in T THEN g[s] ELSE 0
      /\ \A s \in S : w[s] = f[s] + m[s]
  OBVIOUS
<1> HIDE DEF m
<1>2. Total(S, m) = Total(T, g)
  BY <1>1, TotalMasked
<1>3. /\ Total(S, f) \in Nat /\ Total(S, m) \in Nat
      /\ Total(S, w) = Total(S, f) + Total(S, m)
  BY <1>1, TotalPlus
<1> QED
  BY <1>2, <1>3


\* The sum over one element.
LEMMA TotalOne ==
    ASSUME NEW x, NEW f, f[x] \in Nat
    PROVE  Total({x}, f) = f[x]
<1>1. IsFiniteSet({}) /\ x \notin {} /\ Total({}, f) = 0
  BY FS_EmptySet, TotalEmpty
<1>2. \A s \in {} \cup {x} : f[s] \in Nat
  OBVIOUS
<1>3. Total({} \cup {x}, f) = Total({}, f) + f[x]
  BY <1>1, <1>2, TotalAdd
<1>4. {} \cup {x} = {x}
  OBVIOUS
<1> QED
  BY <1>1, <1>3, <1>4
=============================================================================
