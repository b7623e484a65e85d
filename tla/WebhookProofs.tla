--------------------------- MODULE WebhookProofs ----------------------------
(***************************************************************************)
(* Client webhooks, for any number of events, endpoints and processes and  *)
(* any limits: a delivery is POSTed no more often than it has attempts,    *)
(* and no endpoint has more sends in flight than its limit.                *)
(***************************************************************************)
EXTENDS Webhook, FiniteSetTheorems, TLAPS

Statuses == {"none", "pending", "sending", "held"} \cup Final
Codes == {"other", "secret", "expired", "dropped"}

\* A send that has not POSTed yet, and may still.
Unposted == {"claimed", "post", "config"} \cup Inactive

\* The processes that may still POST delivery d, whenever they claimed it.
Charged(d) == {p \in Senders : task[p][d] \in Unposted}

\* The row carries a claim exactly while it is being sent.
Claims(d) == claim[d] # None <=> row[d] = "sending"

\* A delivery that is not final has an attempt left.
Live(d) == row[d] \in Final \/ attempts[d] < MaxAttempts

\* What an enqueue in flight will insert does not exist yet.
Unread(d) == reading[d[1]] # {} => row[d] = "none"

\* Every POST made, and every one a process may still make, has been counted
\* as an attempt, but for the one of the claim that is in force.
Budget(d) ==
    posts[d] + Cardinality(Charged(d)) <= attempts[d] + IF row[d] = "sending" THEN 1 ELSE 0

DeliveryInv(d) == Claims(d) /\ Live(d) /\ Unread(d) /\ Budget(d)

\* One claim at a time has rows locked; they stay pending and, with the sends
\* in flight, within the endpoint's limit.
OneClaim == \A p, q \in Senders : p # q => picked[p] = {} \/ picked[q] = {}
PickedPending ==
    \A p \in Senders :
        /\ \A d \in picked[p] : row[d] = "pending"
        /\ picked[p] # {} => \A d \in Deliveries : task[p][d] = "none"
PickedFit ==
    \A p \in Senders, e \in Endpoints :
        picked[p] \cap Of(e) # {} =>
            Cardinality(picked[p] \cap Of(e)) + Cardinality(Sending(e)) <= MaxInFlight

Locked == OneClaim /\ PickedPending /\ PickedFit /\ InFlightCapped

\* The inductive invariant.
IInv == TypeOK /\ (\A d \in Deliveries : DeliveryInv(d)) /\ Locked

-----------------------------------------------------------------------------
(* Rows. *)

\* The limits, as numbers.
LEMMA Limits ==
    /\ MaxAttempts \in Nat /\ MaxAttempts > 0 /\ MaxInFlight \in Nat /\ MaxInFlight > 0
    /\ DisableAfter \in Nat /\ DisableAfter > 0 /\ MaxCommands \in Nat
    /\ None \notin Senders
BY WebhookAssumption

\* The deliveries of an endpoint, and any part of them, are finitely many.
LEMMA OfFinite ==
    ASSUME NEW e \in Endpoints, NEW S \in SUBSET Of(e)
    PROVE  IsFiniteSet(S) /\ Cardinality(S) \in Nat /\ S \subseteq Deliveries
<1>1. IsFiniteSet({e})
  BY FS_Singleton
<1>2. IsFiniteSet(Of(e))
  BY <1>1, WebhookAssumption, FS_Product DEF Of
<1>3. Of(e) \subseteq Deliveries
  BY DEF Of, Deliveries
<1> QED
  BY <1>2, <1>3, FS_Subset, FS_CardinalityType

\* What marking and trimming do to one row.
LEMMA MarkRow ==
    ASSUME NEW r \in [Deliveries -> Statuses], NEW S, NEW s \in Statuses
    PROVE  /\ Mark(r, S, s) \in [Deliveries -> Statuses]
           /\ \A d \in Deliveries : Mark(r, S, s)[d] = IF d \in S THEN s ELSE r[d]
BY DEF Mark

\* Trimming fails held rows and leaves the others.
LEMMA TrimRow ==
    ASSUME NEW r \in [Deliveries -> Statuses], NEW e
    PROVE  /\ Trim(r, e) \in [Deliveries -> Statuses]
           /\ \A d \in Deliveries : \/ Trim(r, e)[d] = r[d]
                                    \/ r[d] = "held" /\ Trim(r, e)[d] = "failed"
BY DEF Trim, Overflow, Statuses, Final

\* The count of a final failure: pending rows that nobody has locked are held,
\* held ones may fail.
LEMMA CountFinalRow ==
    ASSUME TypeOK, NEW r \in [Deliveries -> Statuses], NEW e \in Endpoints, NEW n \in Nat,
           CountFinal(r, e, n)
    PROVE  /\ row' \in [Deliveries -> Statuses]
           /\ standing' \in [Endpoints -> {"active"} \cup Inactive]
           /\ failures' \in [Endpoints -> 0 .. DisableAfter]
           /\ UNCHANGED <<aged, subscribed, departed>>
           /\ \A d \in Deliveries :
                 \/ row'[d] = r[d]
                 \/ r[d] = "held" /\ row'[d] = "failed"
                 \/ r[d] = "pending" /\ row'[d] \in {"held", "failed"} /\ Unlocked({d})
<1>1. failures' \in [Endpoints -> 0 .. DisableAfter]
  BY Limits DEF TypeOK, CountFinal
<1>2. CASE Disables(e, n)
  <2> DEFINE P == PendingIn(r, e)
             m == Mark(r, P, "held")
  <2>1. /\ Unlocked(P) /\ standing' = [standing EXCEPT ![e] = "failing"]
        /\ row' = Trim(m, e)
    BY <1>2 DEF CountFinal
  <2>2. m \in [Deliveries -> Statuses]
        /\ \A d \in Deliveries : m[d] = IF d \in P THEN "held" ELSE r[d]
    BY MarkRow DEF Statuses
  <2>3. \A d \in P : r[d] = "pending" /\ Unlocked({d})
    BY <2>1 DEF PendingIn, Unlocked
  <2> HIDE DEF P, m
  <2>4. row' \in [Deliveries -> Statuses]
        /\ \A d \in Deliveries : row'[d] = m[d] \/ (m[d] = "held" /\ row'[d] = "failed")
    BY <2>1, <2>2, TrimRow
  <2>5. standing' \in [Endpoints -> {"active"} \cup Inactive]
    BY <2>1 DEF TypeOK, Inactive
  <2> QED
    BY <1>1, <2>2, <2>3, <2>4, <2>5 DEF CountFinal
<1>3. CASE ~ Disables(e, n)
  BY <1>1, <1>3 DEF CountFinal, TypeOK
<1> QED
  BY <1>2, <1>3

-----------------------------------------------------------------------------
(* What a step may do to one delivery. *)

\* The sends of d go on without a POST, or end.
Silent(d) ==
    \A p \in Senders :
        task'[p][d] \in {"none", task[p][d]} \/ {task[p][d], task'[p][d]} \subseteq Unposted

\* No enqueue that is in flight finds the row inserted.
StillUnread(d) == reading'[d[1]] # {} => reading[d[1]] # {} \/ row'[d] = "none"

\* Nothing happens to d, but that it may be held or failed while it waits.
Quiet(d) ==
    /\ Silent(d) /\ StillUnread(d)
    /\ attempts'[d] = attempts[d] /\ claim'[d] = claim[d] /\ posts'[d] = posts[d]
    /\ \/ row'[d] = row[d]
       \/ row[d] \in {"pending", "held"} /\ row'[d] \in {"held", "failed"}

\* The types of one delivery.
LEMMA DeliveryTypes ==
    ASSUME TypeOK, NEW d \in Deliveries
    PROVE  /\ attempts[d] \in Nat /\ attempts[d] <= MaxAttempts /\ posts[d] \in Int
           /\ row[d] \in Statuses /\ claim[d] \in Senders \cup {None}
           /\ d[1] \in Events /\ d[2] \in Endpoints /\ d = <<d[1], d[2]>>
           /\ \A p \in Senders : task[p][d] \in Phases
           /\ IsFiniteSet(Charged(d)) /\ Cardinality(Charged(d)) \in Nat
           /\ d \in Of(d[2])
<1>1. Charged(d) \in SUBSET Senders
  BY DEF Charged
<1>2. IsFiniteSet(Charged(d))
  BY <1>1, WebhookAssumption, FS_Subset
<1>3. Cardinality(Charged(d)) \in Nat
  BY <1>2, FS_CardinalityType
<1>4. d[1] \in Events /\ d[2] \in Endpoints /\ d = <<d[1], d[2]>> /\ d \in Of(d[2])
  BY DEF Deliveries, Of
<1> QED
  BY <1>2, <1>3, <1>4, Limits DEF TypeOK, Statuses

\* Sends that go on, or end, charge no more.
LEMMA SilentCharges ==
    ASSUME TypeOK, NEW d \in Deliveries, Silent(d)
    PROVE  /\ Charged(d)' \subseteq Charged(d)
           /\ IsFiniteSet(Charged(d)') /\ Cardinality(Charged(d)') \in Nat
           /\ Cardinality(Charged(d)') <= Cardinality(Charged(d))
<1>1. Charged(d)' \subseteq Charged(d)
  BY DEF Charged, Silent, Unposted, Inactive
<1>2. IsFiniteSet(Charged(d)) /\ Cardinality(Charged(d)) \in Nat
  BY DeliveryTypes
<1> QED
  BY <1>1, <1>2, FS_Subset, FS_CardinalityType

\* A quiet step keeps the delivery's invariant.
LEMMA QuietKept ==
    ASSUME TypeOK, NEW d \in Deliveries, DeliveryInv(d), Quiet(d)
    PROVE  DeliveryInv(d)'
<1>1. /\ Cardinality(Charged(d)') \in Nat
      /\ Cardinality(Charged(d)') <= Cardinality(Charged(d))
  BY SilentCharges DEF Quiet
<1>2. /\ attempts[d] \in Nat /\ posts[d] \in Int /\ row[d] \in Statuses
      /\ Cardinality(Charged(d)) \in Nat
  BY DeliveryTypes
<1>3. row'[d] = "sending" <=> row[d] = "sending"
  BY DEF Quiet
<1>4. Claims(d)'
  BY <1>3 DEF DeliveryInv, Claims, Quiet
<1>5. Live(d)'
  BY DEF DeliveryInv, Live, Quiet, Final
<1>6. Unread(d)'
  BY DEF DeliveryInv, Unread, Quiet, StillUnread
<1>7. Budget(d)'
  BY <1>1, <1>2, <1>3 DEF DeliveryInv, Budget, Quiet
<1> QED
  BY <1>4, <1>5, <1>6, <1>7 DEF DeliveryInv

\* The delivery starts again: what it has counted so far pays for the POSTs
\* made so far and for the ones that sends in flight may still make.
LEMMA RestartKept ==
    ASSUME TypeOK, NEW d \in Deliveries, DeliveryInv(d),
           row[d] \in Final \cup {"held"}, row'[d] = "pending",
           attempts'[d] = 0, posts'[d] = posts[d] - attempts[d],
           UNCHANGED <<claim, task, reading>>
    PROVE  DeliveryInv(d)'
<1>1. attempts[d] \in Nat /\ posts[d] \in Int /\ Cardinality(Charged(d)) \in Nat
  BY DeliveryTypes
<1>2. Charged(d)' = Charged(d)
  BY DEF Charged
<1>3. claim[d] = None /\ reading[d[1]] = {} /\ row[d] # "sending"
  BY DEF DeliveryInv, Claims, Unread, Final
<1>4. Claims(d)' /\ Unread(d)' /\ Live(d)'
  BY <1>3, Limits DEF Claims, Unread, Live
<1>5. Budget(d)'
  <2>1. posts[d] + Cardinality(Charged(d)) <= attempts[d]
    BY <1>1, <1>3 DEF DeliveryInv, Budget
  <2>2. posts'[d] + Cardinality(Charged(d)') <= 0 + 0
    BY <1>1, <1>2, <2>1
  <2> QED
    BY <2>2 DEF Budget
<1> QED
  BY <1>4, <1>5 DEF DeliveryInv

\* A process that holds the claim gives it up: unsent, with the count as it
\* was; after its POST, with the attempt counted.
LEMMA EndKept ==
    ASSUME TypeOK, NEW d \in Deliveries, DeliveryInv(d), NEW p \in Senders, claim[d] = p,
           claim'[d] = None, row'[d] \in Statuses \ {"none", "sending"},
           posts'[d] = posts[d], UNCHANGED reading,
           \/ task[p][d] \in Unposted /\ attempts'[d] = attempts[d]
           \/ /\ task[p][d] \in Outcomes /\ attempts'[d] = attempts[d] + 1
              /\ row'[d] \in Final \/ attempts'[d] < MaxAttempts,
           task'[p][d] = "none", \A q \in Senders \ {p} : task'[q][d] = task[q][d]
    PROVE  DeliveryInv(d)'
<1>1. row[d] = "sending" /\ reading[d[1]] = {} /\ row[d] \notin Final
  BY Limits DEF DeliveryInv, Claims, Unread, Final
<1>2. /\ attempts[d] \in Nat /\ posts[d] \in Int /\ IsFiniteSet(Charged(d))
      /\ Cardinality(Charged(d)) \in Nat
  BY DeliveryTypes
<1>3. Charged(d)' = Charged(d) \ {p}
  BY DEF Charged, Unposted, Inactive
<1>4. Cardinality(Charged(d)') = IF p \in Charged(d) THEN Cardinality(Charged(d)) - 1
                                                       ELSE Cardinality(Charged(d))
  <2>1. \A C : IsFiniteSet(C) => Cardinality(C \ {p}) = IF p \in C THEN Cardinality(C) - 1
                                                                   ELSE Cardinality(C)
    BY FS_RemoveElement
  <2> QED
    BY ONLY <1>2, <1>3, <2>1
<1>5. task[p][d] \in Unposted => p \in Charged(d)
  BY DEF Charged
<1>6. posts[d] + Cardinality(Charged(d)) <= attempts[d] + 1
  BY <1>1 DEF DeliveryInv, Budget
<1>7. Budget(d)'
  <2>1. posts'[d] + Cardinality(Charged(d)') <= attempts'[d] + 0
    BY <1>2, <1>4, <1>5, <1>6
  <2> QED
    BY <2>1 DEF Budget
<1>8. Claims(d)' /\ Unread(d)'
  BY <1>1 DEF Claims, Unread
<1>9. Live(d)'
  BY <1>1 DEF DeliveryInv, Live
<1> QED
  BY <1>7, <1>8, <1>9 DEF DeliveryInv

\* A POST spends what was charged.
LEMMA PostKept ==
    ASSUME TypeOK, NEW d \in Deliveries, DeliveryInv(d), NEW p \in Senders,
           task[p][d] = "post", task'[p][d] \in Outcomes,
           posts'[d] = posts[d] + 1, UNCHANGED <<row, attempts, claim, reading>>,
           \A q \in Senders \ {p} : task'[q][d] = task[q][d]
    PROVE  DeliveryInv(d)'
<1>1. /\ attempts[d] \in Nat /\ posts[d] \in Int /\ IsFiniteSet(Charged(d))
      /\ Cardinality(Charged(d)) \in Nat
  BY DeliveryTypes
<1>2. Charged(d)' = Charged(d) \ {p}
  BY DEF Charged, Unposted, Inactive, Outcomes
<1>3. p \in Charged(d)
  BY DEF Charged, Unposted
<1>4. Cardinality(Charged(d)') = Cardinality(Charged(d)) - 1
  BY <1>1, <1>2, <1>3, FS_RemoveElement
<1>5. Budget(d)'
  BY <1>1, <1>4 DEF DeliveryInv, Budget
<1>6. Claims(d)' /\ Live(d)' /\ Unread(d)'
  BY DEF DeliveryInv, Claims, Live, Unread
<1> QED
  BY <1>5, <1>6 DEF DeliveryInv

\* The stale sweep counts the attempt of the claim it takes away.
LEMMA StaleKept ==
    ASSUME TypeOK, NEW d \in Deliveries, DeliveryInv(d), row[d] = "sending",
           row'[d] = IF attempts[d] + 1 >= MaxAttempts THEN "failed" ELSE "pending",
           attempts'[d] = attempts[d] + 1, claim'[d] = None,
           UNCHANGED <<posts, task, reading>>
    PROVE  DeliveryInv(d)'
<1>1. attempts[d] \in Nat /\ posts[d] \in Int /\ Cardinality(Charged(d)) \in Nat
  BY DeliveryTypes
<1>2. Charged(d)' = Charged(d)
  BY DEF Charged
<1>3. Budget(d)'
  BY <1>1, <1>2 DEF DeliveryInv, Budget
<1>4. Claims(d)' /\ Unread(d)'
  BY DEF DeliveryInv, Claims, Unread
<1>5. Live(d)'
  BY <1>1, Limits DEF Live, Final
<1> QED
  BY <1>3, <1>4, <1>5 DEF DeliveryInv

\* A claim charges the one attempt it may make.
LEMMA ClaimKept ==
    ASSUME TypeOK, NEW d \in Deliveries, DeliveryInv(d), NEW p \in Senders,
           row[d] = "pending", task[p][d] = "none",
           row'[d] = "sending", claim'[d] = p, task'[p][d] = "claimed",
           \A q \in Senders \ {p} : task'[q][d] = task[q][d],
           UNCHANGED <<attempts, posts, reading>>
    PROVE  DeliveryInv(d)'
<1>1. /\ attempts[d] \in Nat /\ posts[d] \in Int /\ IsFiniteSet(Charged(d))
      /\ Cardinality(Charged(d)) \in Nat
  BY DeliveryTypes
<1>2. p \notin Charged(d)
  BY DEF Charged, Unposted, Inactive
<1>3. Charged(d)' = Charged(d) \cup {p}
  BY <1>2 DEF Charged, Unposted
<1>4. Cardinality(Charged(d)') = Cardinality(Charged(d)) + 1
  BY <1>1, <1>2, <1>3, FS_AddElement
<1>5. Budget(d)'
  BY <1>1, <1>4 DEF DeliveryInv, Budget
<1>6. Claims(d)' /\ Unread(d)'
  BY Limits DEF DeliveryInv, Claims, Unread
<1>7. Live(d)'
  BY DEF DeliveryInv, Live, Final
<1> QED
  BY <1>5, <1>6, <1>7 DEF DeliveryInv

\* A row is inserted with no attempt behind it.
LEMMA InsertKept ==
    ASSUME TypeOK, NEW d \in Deliveries, DeliveryInv(d), reading[d[1]] # {},
           reading'[d[1]] = {}, row'[d] \in Statuses \ {"sending"},
           UNCHANGED <<attempts, claim, posts, task>>
    PROVE  DeliveryInv(d)'
<1>1. attempts[d] \in Nat /\ posts[d] \in Int /\ Cardinality(Charged(d)) \in Nat
  BY DeliveryTypes
<1>2. row[d] = "none"
  BY DEF DeliveryInv, Unread
<1>3. Charged(d)' = Charged(d)
  BY DEF Charged
<1>4. Budget(d)'
  BY <1>1, <1>2, <1>3 DEF DeliveryInv, Budget
<1>5. Claims(d)' /\ Unread(d)' /\ Live(d)'
  BY <1>2 DEF DeliveryInv, Claims, Unread, Live, Final
<1> QED
  BY <1>4, <1>5 DEF DeliveryInv

\* A step that claims nothing keeps the claim lock and the limit.
LEMMA LockedKept ==
    ASSUME TypeOK, Locked, TypeOK',
           \A p \in Senders : picked'[p] = picked[p] \/ picked'[p] = {},
           \A p \in Senders : \A d \in picked'[p] : row'[d] = "pending",
           \A p \in Senders : picked'[p] # {} => \A d \in Deliveries : task'[p][d] = "none",
           \A d \in Deliveries : row'[d] = "sending" => row[d] = "sending"
    PROVE  Locked'
<1>1. OneClaim' /\ PickedPending'
  BY DEF Locked, OneClaim, PickedPending
<1>2. ASSUME NEW e \in Endpoints
      PROVE  /\ Cardinality(Sending(e)) \in Nat /\ Cardinality(Sending(e)') \in Nat
             /\ Cardinality(Sending(e)') <= Cardinality(Sending(e))
  <2>1. Sending(e) \in SUBSET Of(e) /\ Of(e) \subseteq Deliveries
    BY DEF Sending, Of, Deliveries
  <2>2. Sending(e)' \subseteq Sending(e)
    BY <2>1 DEF Sending
  <2>3. IsFiniteSet(Sending(e)) /\ Cardinality(Sending(e)) \in Nat
    BY <2>1, OfFinite
  <2> QED
    BY <2>2, <2>3, FS_Subset, FS_CardinalityType
<1>3. InFlightCapped'
  BY <1>2, Limits DEF Locked, InFlightCapped
<1>4. ASSUME NEW p \in Senders, NEW e \in Endpoints, picked'[p] \cap Of(e) # {}
      PROVE  Cardinality(picked'[p] \cap Of(e)) + Cardinality(Sending(e)') <= MaxInFlight
  <2>1. picked'[p] = picked[p]
    BY <1>4
  <2>2. Cardinality(picked[p] \cap Of(e)) \in Nat
    BY OfFinite
  <2>3. Cardinality(picked[p] \cap Of(e)) + Cardinality(Sending(e)) <= MaxInFlight
    BY <1>4, <2>1 DEF Locked, PickedFit
  <2> QED
    BY <1>2, <2>1, <2>2, <2>3, Limits
<1>5. PickedFit'
  BY <1>4 DEF PickedFit
<1> QED
  BY <1>1, <1>3, <1>5 DEF Locked

-----------------------------------------------------------------------------
(* Steps that leave the sends alone. *)

\* The clock of a row keeps its type.
LEMMA ClockType ==
    ASSUME TypeOK, KeepClock
    PROVE  old' \in [Deliveries -> BOOLEAN]
BY DEF TypeOK, KeepClock

\* So do the error codes.
LEMMA CodeType ==
    ASSUME TypeOK, NEW S, NEW c \in Codes, Code(S, c)
    PROVE  code' \in [Deliveries -> Codes]
BY DEF TypeOK, Code, Codes

\* The types of what a step writes, when it leaves the rest alone.
LEMMA WaitingType ==
    ASSUME TypeOK, UNCHANGED <<attempts, due, claim, procs, posts>>,
           row' \in [Deliveries -> Statuses], code' \in [Deliveries -> Codes],
           old' \in [Deliveries -> BOOLEAN],
           standing' \in [Endpoints -> {"active"} \cup Inactive],
           failures' \in [Endpoints -> 0 .. DisableAfter],
           aged' \in [Endpoints -> BOOLEAN], subscribed' \in [Endpoints -> BOOLEAN],
           departed' \in BOOLEAN,
           reading' \in [Events -> SUBSET (Endpoints \X {"active", "failing"})],
           commands' \in 0 .. MaxCommands
    PROVE  TypeOK'
BY DEF TypeOK, procs, Statuses, Codes

\* Rows that wait may be held or failed, unless a claim has locked them.
Waits(d) ==
    \/ row'[d] = row[d]
    \/ row[d] = "held" /\ row'[d] = "failed"
    \/ row[d] = "pending" /\ row'[d] \in {"held", "failed"} /\ Unlocked({d})

\* A step that does only that keeps the invariant.
LEMMA WaitingKept ==
    ASSUME IInv, TypeOK', UNCHANGED <<attempts, claim, procs, posts>>,
           \A d \in Deliveries : Waits(d) /\ StillUnread(d)
    PROVE  IInv'
<1>1. UNCHANGED <<picked, task, posts>>
  BY DEF procs
<1>2. ASSUME NEW d \in Deliveries
      PROVE  DeliveryInv(d)'
  <2>1. Silent(d)
    BY <1>1 DEF Silent
  <2>2. Waits(d) /\ StillUnread(d)
    OBVIOUS
  <2>3. Quiet(d)
    BY <1>1, <2>1, <2>2 DEF Quiet, Waits
  <2> QED
    BY <2>3, QuietKept DEF IInv
<1>3. ASSUME NEW p \in Senders, NEW d \in picked[p]
      PROVE  row'[d] = "pending"
  <2>1. d \in Deliveries /\ row[d] = "pending"
    BY DEF IInv, TypeOK, Locked, PickedPending
  <2>2. ~ Unlocked({d})
    BY DEF Unlocked
  <2> QED
    BY <2>1, <2>2 DEF Waits
<1>4. \A d \in Deliveries : row'[d] = "sending" => row[d] = "sending"
  BY DEF Waits
<1>5. Locked'
  <2>1. \A p \in Senders : picked'[p] # {} => \A d \in Deliveries : task'[p][d] = "none"
    BY <1>1 DEF IInv, Locked, PickedPending
  <2> QED
    BY <1>1, <1>3, <1>4, <2>1, LockedKept DEF IInv
<1> QED
  BY <1>2, <1>5 DEF IInv

\* Failing rows that wait and are not locked.
LEMMA MarkWaits ==
    ASSUME TypeOK, NEW S, NEW s \in {"held", "failed"}, row' = Mark(row, S, s),
           \A d \in S : d \in Deliveries => row[d] \in {"held", "pending"},
           Unlocked({d \in S : row[d] = "pending"}) \/ Unlocked(S),
           \A d \in S : row[d] = "held" => s = "failed"
    PROVE  row' \in [Deliveries -> Statuses] /\ \A d \in Deliveries : Waits(d)
<1>1. /\ row' \in [Deliveries -> Statuses]
      /\ \A d \in Deliveries : row'[d] = IF d \in S THEN s ELSE row[d]
  <2>1. row \in [Deliveries -> Statuses] /\ s \in Statuses
    BY DEF TypeOK, Statuses, Final
  <2> QED
    BY <2>1, MarkRow
<1>2. \A d \in S : row[d] = "pending" => Unlocked({d})
  BY DEF Unlocked
<1> QED
  BY <1>1, <1>2 DEF Waits

\* An enqueue reads, or fails, without a row written.
LEMMA EnqueueKept ==
    ASSUME IInv, commands' \in 0 .. MaxCommands, NEW m \in Events,
           EnqueueRead(m) \/ EnqueueFails(m)
    PROVE  IInv'
<1>1. UNCHANGED <<row, attempts, due, old, code, claim, endpoints, procs, posts>>
  BY DEF EnqueueRead, EnqueueFails, rows
<1>2. reading' \in [Events -> SUBSET (Endpoints \X {"active", "failing"})]
      /\ \A k \in Events \ {m} : reading'[k] = reading[k]
  <2>1. CASE EnqueueRead(m)
    <3> DEFINE R == {<<e, standing[e]>> : e \in {e \in Endpoints :
                        subscribed[e] /\ standing[e] \in {"active", "failing"}}}
    <3>1. R \in SUBSET (Endpoints \X {"active", "failing"})
      OBVIOUS
    <3>2. reading' = [reading EXCEPT ![m] = R]
      BY <2>1 DEF EnqueueRead
    <3> HIDE DEF R
    <3> QED
      BY <3>1, <3>2 DEF IInv, TypeOK
  <2>2. CASE EnqueueFails(m)
    BY <2>2 DEF EnqueueFails, IInv, TypeOK
  <2> QED
    BY <2>1, <2>2
<1>3. TypeOK'
  BY <1>1, <1>2, WaitingType DEF IInv, TypeOK, endpoints, Statuses, Codes
<1>4. ASSUME NEW d \in Deliveries
      PROVE  Waits(d) /\ StillUnread(d)
  <2>1. d[1] \in Events
    BY DEF Deliveries
  <2>2. CASE d[1] = m
    BY <1>1, <2>2 DEF Waits, StillUnread, EnqueueRead, EnqueueFails
  <2>3. CASE d[1] # m
    BY <1>1, <1>2, <2>1, <2>3 DEF Waits, StillUnread
  <2> QED
    BY <2>2, <2>3
<1> QED
  BY <1>1, <1>3, <1>4, WaitingKept

\* Pending rows expire, held ones overflow, a departed client's rows drop.
LEMMA SweepKept ==
    ASSUME IInv, commands' \in 0 .. MaxCommands,
           \/ \E e \in Endpoints : SweepExpire(e) \/ \E S \in SUBSET Of(e) : SweepHeld(e, S)
           \/ SweepDeparted
    PROVE  IInv'
<1>0. TypeOK /\ row \in [Deliveries -> Statuses]
  BY DEF IInv, TypeOK, Statuses
<1>1. ASSUME UNCHANGED <<attempts, due, claim, reading, procs, posts>>,
             row' \in [Deliveries -> Statuses], code' \in [Deliveries -> Codes],
             old' \in [Deliveries -> BOOLEAN],
             standing' \in [Endpoints -> {"active"} \cup Inactive],
             failures' \in [Endpoints -> 0 .. DisableAfter],
             UNCHANGED <<aged, subscribed, departed>>, \A d \in Deliveries : Waits(d)
      PROVE  IInv'
  <2>1. TypeOK'
    BY <1>1, WaitingType DEF IInv, TypeOK
  <2>2. \A d \in Deliveries : StillUnread(d)
    BY <1>1 DEF StillUnread
  <2> QED
    BY <1>1, <2>1, <2>2, WaitingKept
<1>2. ASSUME NEW e \in Endpoints, SweepExpire(e)
      PROVE  IInv'
  <2> DEFINE X == {d \in PendingIn(row, e) : old[d]}
             blamed == {d \in X : attempts[d] # 0 /\ code[d] # "secret"}
             r == Mark(row, X, "failed")
             n == Cardinality(blamed)
  <2>1. /\ Unlocked(X) /\ CountFinal(r, e, n) /\ KeepClock
        /\ code' = [d \in Deliveries |-> IF d \in X THEN "expired"
                                         ELSE IF NowFailed(d) THEN "other" ELSE code[d]]
        /\ UNCHANGED <<attempts, due, claim, reading, procs, posts>>
    BY <1>2 DEF SweepExpire
  <2>2. n \in Nat
    <3>1. blamed \in SUBSET Of(e)
      BY DEF PendingIn
    <3> QED
      BY <3>1, OfFinite
  <2>3. /\ r \in [Deliveries -> Statuses]
        /\ \A d \in Deliveries : r[d] = IF d \in X THEN "failed" ELSE row[d]
    BY <1>0, MarkRow DEF Statuses, Final
  <2>4. \A d \in X : row[d] = "pending" /\ Unlocked({d})
    BY <2>1 DEF PendingIn, Unlocked
  <2>5. code' \in [Deliveries -> Codes]
    BY <2>1 DEF IInv, TypeOK, Codes
  <2> HIDE DEF X, blamed, r, n
  <2>6. /\ row' \in [Deliveries -> Statuses]
        /\ standing' \in [Endpoints -> {"active"} \cup Inactive]
        /\ failures' \in [Endpoints -> 0 .. DisableAfter]
        /\ UNCHANGED <<aged, subscribed, departed>>
        /\ \A d \in Deliveries :
              \/ row'[d] = r[d]
              \/ r[d] = "held" /\ row'[d] = "failed"
              \/ r[d] = "pending" /\ row'[d] \in {"held", "failed"} /\ Unlocked({d})
    BY <1>0, <2>1, <2>2, <2>3, CountFinalRow
  <2>7. \A d \in Deliveries : Waits(d)
    BY <2>3, <2>4, <2>6 DEF Waits
  <2>8. old' \in [Deliveries -> BOOLEAN]
    BY <1>0, <2>1, ClockType
  <2> QED
    BY <1>1, <2>1, <2>5, <2>6, <2>7, <2>8
<1>3. ASSUME NEW e \in Endpoints, NEW S \in SUBSET Of(e), SweepHeld(e, S)
      PROVE  IInv'
  <2> DEFINE r == Mark(row, S, "failed")
  <2>1. /\ \A d \in S : row[d] = "held"
        /\ row' = Trim(r, e)
        /\ UNCHANGED <<attempts, due, old, claim, endpoints, reading, procs, posts>>
    BY <1>3 DEF SweepHeld
  <2>2. code' \in [Deliveries -> Codes]
    BY <1>3 DEF SweepHeld, IInv, TypeOK, Codes
  <2>3. /\ r \in [Deliveries -> Statuses]
        /\ \A d \in Deliveries : r[d] = IF d \in S THEN "failed" ELSE row[d]
    BY <1>0, MarkRow DEF Statuses, Final
  <2> HIDE DEF r
  <2>4. /\ row' \in [Deliveries -> Statuses]
        /\ \A d \in Deliveries : row'[d] = r[d] \/ (r[d] = "held" /\ row'[d] = "failed")
    BY <2>1, <2>3, TrimRow
  <2>5. \A d \in Deliveries : Waits(d)
    BY <2>1, <2>3, <2>4 DEF Waits
  <2> QED
    BY <1>1, <2>1, <2>2, <2>4, <2>5 DEF IInv, TypeOK, endpoints
<1>4. CASE SweepDeparted
  <2>1. /\ row' = Mark(row, DepartedRows, "failed") /\ Unlocked(DepartedRows) /\ KeepClock
        /\ Code(DepartedRows, "dropped") /\ DisableDeparted
        /\ UNCHANGED <<attempts, due, claim, failures, aged, subscribed, departed, reading,
                       procs, posts>>
    BY <1>4 DEF SweepDeparted
  <2>2. \A d \in DepartedRows : row[d] \in {"held", "pending"}
    BY DEF DepartedRows
  <2>3. row' \in [Deliveries -> Statuses] /\ \A d \in Deliveries : Waits(d)
    BY <1>0, <2>1, <2>2, MarkWaits
  <2>4. code' \in [Deliveries -> Codes] /\ old' \in [Deliveries -> BOOLEAN]
    BY <1>0, <2>1, CodeType, ClockType DEF Codes
  <2>5. standing' \in [Endpoints -> {"active"} \cup Inactive]
    BY <2>1 DEF DisableDeparted, IInv, TypeOK, Inactive
  <2> QED
    BY <1>1, <2>1, <2>3, <2>4, <2>5 DEF IInv, TypeOK
<1> QED
  BY <1>2, <1>3, <1>4

\* The endpoint commands that fail, or do not touch, what waits.
LEMMA EndpointKept ==
    ASSUME IInv, commands' \in 0 .. MaxCommands,
           \/ \E e \in Endpoints :
                 \/ Disable(e) \/ ChangeUrl(e) \/ Remove(e) \/ Enable(e, FALSE)
                 \/ \E b \in BOOLEAN : Subscribe(e, b)
           \/ Depart
    PROVE  IInv'
<1>0. TypeOK /\ row \in [Deliveries -> Statuses]
  BY DEF IInv, TypeOK, Statuses
<1>1. ASSUME UNCHANGED <<attempts, due, claim, reading, procs, posts>>,
             row' \in [Deliveries -> Statuses], code' \in [Deliveries -> Codes],
             old' \in [Deliveries -> BOOLEAN],
             standing' \in [Endpoints -> {"active"} \cup Inactive],
             failures' \in [Endpoints -> 0 .. DisableAfter],
             aged' \in [Endpoints -> BOOLEAN], subscribed' \in [Endpoints -> BOOLEAN],
             departed' \in BOOLEAN, \A d \in Deliveries : Waits(d)
      PROVE  IInv'
  <2>1. TypeOK'
    BY <1>1, WaitingType DEF IInv, TypeOK
  <2>2. \A d \in Deliveries : StillUnread(d)
    BY <1>1 DEF StillUnread
  <2> QED
    BY <1>1, <2>1, <2>2, WaitingKept
<1>2. ASSUME NEW S, NEW c \in Codes, row' = Mark(row, S, "failed"), Code(S, c),
             Unlocked(S), \A d \in S : row[d] \in {"held", "pending"}
      PROVE  /\ row' \in [Deliveries -> Statuses] /\ code' \in [Deliveries -> Codes]
             /\ \A d \in Deliveries : Waits(d)
  BY <1>0, <1>2, MarkWaits, CodeType
<1>3. ASSUME NEW e \in Endpoints, Disable(e) \/ Remove(e)
      PROVE  IInv'
  <2>1. \A d \in Waiting(e) : row[d] \in {"held", "pending"}
    BY DEF Waiting
  <2>2. /\ row' = Mark(row, Waiting(e), "failed") /\ Unlocked(Waiting(e)) /\ KeepClock
        /\ Code(Waiting(e), "other") \/ Code(Waiting(e), "dropped")
        /\ UNCHANGED <<attempts, due, claim, failures, aged, subscribed, departed, reading,
                       procs, posts>>
    BY <1>3 DEF Disable, Remove
  <2>3. /\ row' \in [Deliveries -> Statuses] /\ code' \in [Deliveries -> Codes]
        /\ \A d \in Deliveries : Waits(d)
    BY <1>2, <2>1, <2>2 DEF Codes
  <2>4. standing' \in [Endpoints -> {"active"} \cup Inactive]
    BY <1>3 DEF Disable, Remove, IInv, TypeOK, Inactive
  <2>5. old' \in [Deliveries -> BOOLEAN]
    BY <1>0, <2>2, ClockType
  <2> QED
    BY <1>1, <2>2, <2>3, <2>4, <2>5 DEF IInv, TypeOK
<1>4. ASSUME NEW e \in Endpoints, NEW b \in BOOLEAN, Subscribe(e, b)
      PROVE  IInv'
  <2> DEFINE S == IF b THEN {} ELSE Waiting(e)
  <2>1. \A d \in S : row[d] \in {"held", "pending"}
    BY DEF Waiting
  <2>2. /\ row' = Mark(row, S, "failed") /\ Unlocked(S) /\ KeepClock /\ Code(S, "dropped")
        /\ UNCHANGED <<attempts, due, claim, standing, failures, aged, departed, reading,
                       procs, posts>>
    BY <1>4 DEF Subscribe
  <2> HIDE DEF S
  <2>3. /\ row' \in [Deliveries -> Statuses] /\ code' \in [Deliveries -> Codes]
        /\ \A d \in Deliveries : Waits(d)
    BY <1>2, <2>1, <2>2 DEF Codes
  <2>4. subscribed' \in [Endpoints -> BOOLEAN]
    BY <1>4 DEF Subscribe, IInv, TypeOK
  <2>5. old' \in [Deliveries -> BOOLEAN]
    BY <1>0, <2>2, ClockType
  <2> QED
    BY <1>1, <2>2, <2>3, <2>4, <2>5 DEF IInv, TypeOK
<1>5. ASSUME NEW e \in Endpoints, ChangeUrl(e)
      PROVE  IInv'
  <2>1. UNCHANGED <<row, attempts, due, old, code, claim, standing, subscribed, departed,
                    reading, procs, posts>>
    BY <1>5 DEF ChangeUrl, rows
  <2>2. failures' \in [Endpoints -> 0 .. DisableAfter] /\ aged' \in [Endpoints -> BOOLEAN]
    BY <1>5, Limits DEF ChangeUrl, IInv, TypeOK
  <2>3. \A d \in Deliveries : Waits(d)
    BY <2>1 DEF Waits
  <2> QED
    BY <1>1, <2>1, <2>2, <2>3 DEF IInv, TypeOK, Statuses, Codes
<1>6. ASSUME NEW e \in Endpoints, Enable(e, FALSE)
      PROVE  IInv'
  <2> DEFINE S == {d \in Of(e) : row[d] = "held"}
  <2>1. \A d \in S : row[d] = "held"
    OBVIOUS
  <2>2. /\ row' = Mark(row, S, "failed") /\ Code(S, "dropped")
        /\ UNCHANGED <<attempts, due, old, posts, claim, subscribed, departed, reading, procs>>
    BY <1>6 DEF Enable
  <2>3. Unlocked({d \in S : row[d] = "pending"})
    BY <2>1 DEF Unlocked
  <2>4. /\ standing' \in [Endpoints -> {"active"} \cup Inactive]
        /\ failures' \in [Endpoints -> 0 .. DisableAfter] /\ aged' \in [Endpoints -> BOOLEAN]
    BY <1>6, Limits DEF Enable, IInv, TypeOK
  <2> HIDE DEF S
  <2>5. row' \in [Deliveries -> Statuses] /\ \A d \in Deliveries : Waits(d)
    BY <1>0, <2>1, <2>2, <2>3, MarkWaits
  <2>6. code' \in [Deliveries -> Codes]
    BY <1>0, <2>2, CodeType DEF Codes
  <2> QED
    BY <1>1, <2>2, <2>4, <2>5, <2>6 DEF IInv, TypeOK
<1>7. CASE Depart
  <2>1. UNCHANGED <<row, attempts, due, old, code, claim, standing, failures, aged, subscribed,
                    reading, procs, posts>>
    BY <1>7 DEF Depart, rows
  <2>2. departed' \in BOOLEAN
    BY <1>7 DEF Depart, IInv, TypeOK
  <2>3. \A d \in Deliveries : Waits(d)
    BY <2>1 DEF Waits
  <2> QED
    BY <1>1, <2>1, <2>2, <2>3 DEF IInv, TypeOK, Statuses, Codes
<1> QED
  BY <1>3, <1>4, <1>5, <1>6, <1>7

\* The clock.
LEMMA ClockKept ==
    ASSUME IInv, commands' \in 0 .. MaxCommands, ClockStep
    PROVE  IInv'
<1>1. UNCHANGED <<row, attempts, code, claim, standing, failures, subscribed, departed,
                  reading, procs, posts>>
  BY DEF ClockStep, BackoffElapses, Age, FailingAges, rows, endpoints
<1>2. due' \in [Deliveries -> BOOLEAN] /\ old' \in [Deliveries -> BOOLEAN]
      /\ aged' \in [Endpoints -> BOOLEAN]
  BY DEF ClockStep, BackoffElapses, Age, FailingAges, rows, endpoints, IInv, TypeOK
<1>3. TypeOK'
  BY <1>1, <1>2 DEF IInv, TypeOK, procs
<1>4. \A d \in Deliveries : Waits(d) /\ StillUnread(d)
  BY <1>1 DEF Waits, StillUnread
<1> QED
  BY <1>1, <1>3, <1>4, WaitingKept

\* A restart of rows that are final or held.
LEMMA RestartsKept ==
    ASSUME IInv, commands' \in 0 .. MaxCommands, NEW S \in SUBSET Deliveries, Restart(S),
           \A d \in S : row[d] \in Final \cup {"held"},
           row' = Mark(row, S, "pending"), UNCHANGED <<code, claim, reading, procs>>,
           standing' \in [Endpoints -> {"active"} \cup Inactive],
           failures' \in [Endpoints -> 0 .. DisableAfter],
           aged' \in [Endpoints -> BOOLEAN], UNCHANGED <<subscribed, departed>>
    PROVE  IInv'
<1>0. /\ row' \in [Deliveries -> Statuses]
      /\ \A d \in Deliveries : row'[d] = IF d \in S THEN "pending" ELSE row[d]
  BY MarkRow DEF IInv, TypeOK, Statuses
<1>1. UNCHANGED <<picked, view, task>>
  BY DEF procs
<1>2. attempts' \in [Deliveries -> 0 .. MaxAttempts] /\ posts' \in [Deliveries -> Int]
  BY Limits DEF IInv, TypeOK, Restart
<1>3. due' \in [Deliveries -> BOOLEAN] /\ old' \in [Deliveries -> BOOLEAN]
  BY DEF IInv, TypeOK, Restart
<1>5. TypeOK'
  BY <1>0, <1>1, <1>2, <1>3 DEF IInv, TypeOK, Statuses
<1>7. ASSUME NEW d \in Deliveries
      PROVE  DeliveryInv(d)'
  <2>1. CASE d \in S
    <3>1. row'[d] = "pending" /\ attempts'[d] = 0 /\ posts'[d] = posts[d] - attempts[d]
      BY <1>0, <2>1 DEF Restart
    <3> QED
      BY <1>1, <2>1, <3>1, RestartKept DEF IInv
  <2>2. CASE d \notin S
    <3>1. row'[d] = row[d] /\ attempts'[d] = attempts[d] /\ posts'[d] = posts[d]
      BY <1>0, <2>2, DeliveryTypes DEF Restart, IInv
    <3>2. Silent(d)
      BY <1>1 DEF Silent
    <3>3. Quiet(d)
      BY <3>1, <3>2 DEF Quiet, StillUnread
    <3> QED
      BY <3>3, QuietKept DEF IInv
  <2> QED
    BY <2>1, <2>2
<1>8. Locked'
  <2>1. ASSUME NEW p \in Senders, NEW d \in picked[p]
        PROVE  row'[d] = "pending"
    <3>1. d \in Deliveries /\ row[d] = "pending"
      BY DEF IInv, TypeOK, Locked, PickedPending
    <3> QED
      BY <1>0, <3>1
  <2>2. \A d \in Deliveries : row'[d] = "sending" => row[d] = "sending"
    BY <1>0
  <2>3. \A p \in Senders : picked'[p] # {} => \A d \in Deliveries : task'[p][d] = "none"
    BY <1>1 DEF IInv, Locked, PickedPending
  <2> QED
    BY <1>1, <1>5, <2>1, <2>2, <2>3, LockedKept DEF IInv
<1> QED
  BY <1>5, <1>7, <1>8 DEF IInv

\* The commands that restart deliveries.
LEMMA RedeliverKept ==
    ASSUME IInv, commands' \in 0 .. MaxCommands,
           \/ \E e \in Endpoints : \/ Enable(e, TRUE)
                                   \/ \E m \in Events, b \in BOOLEAN : BulkRedeliver(e, m, b)
           \/ \E d \in Deliveries : Redeliver(d)
    PROVE  IInv'
<1>1. ASSUME NEW e \in Endpoints, Enable(e, TRUE)
      PROVE  IInv'
  <2> DEFINE S == {d \in Of(e) : row[d] = "held"}
  <2>1. S \in SUBSET Deliveries /\ \A d \in S : row[d] \in Final \cup {"held"}
    BY DEF Of, Deliveries
  <2>2. /\ standing' \in [Endpoints -> {"active"} \cup Inactive]
        /\ failures' \in [Endpoints -> 0 .. DisableAfter] /\ aged' \in [Endpoints -> BOOLEAN]
    BY <1>1, Limits DEF Enable, IInv, TypeOK
  <2>3. /\ row' = Mark(row, S, "pending") /\ Restart(S)
        /\ UNCHANGED <<code, claim, reading, procs, subscribed, departed>>
    BY <1>1 DEF Enable
  <2> HIDE DEF S
  <2> QED
    BY <2>1, <2>2, <2>3, RestartsKept
<1>2. ASSUME NEW e \in Endpoints, NEW m \in Events, NEW b \in BOOLEAN, BulkRedeliver(e, m, b)
      PROVE  IInv'
  <2> DEFINE S == {d \in Of(e) : /\ row[d] = "failed" /\ d[1] >= m
                                 /\ IF b THEN code[d] = "expired" ELSE code[d] # "dropped"}
  <2>1. S \in SUBSET Deliveries /\ \A d \in S : row[d] \in Final \cup {"held"}
    BY DEF Of, Deliveries, Final
  <2>2. /\ row' = Mark(row, S, "pending") /\ Restart(S)
        /\ UNCHANGED <<code, claim, endpoints, reading, procs>>
    BY <1>2 DEF BulkRedeliver
  <2> HIDE DEF S
  <2> QED
    BY <2>1, <2>2, RestartsKept DEF IInv, TypeOK, endpoints
<1>3. ASSUME NEW d \in Deliveries, Redeliver(d)
      PROVE  IInv'
  <2>1. {d} \in SUBSET Deliveries /\ \A x \in {d} : row[x] \in Final \cup {"held"}
    BY <1>3 DEF Redeliver
  <2>2. Restart({d}) /\ UNCHANGED <<code, claim, endpoints, reading, procs>>
    BY <1>3 DEF Redeliver
  <2>3. row' = Mark(row, {d}, "pending")
    BY <1>3 DEF Redeliver, Mark, IInv, TypeOK
  <2> QED
    BY <2>1, <2>2, <2>3, RestartsKept DEF IInv, TypeOK, endpoints
<1> QED
  BY <1>1, <1>2, <1>3

-----------------------------------------------------------------------------
(* Inserts, claims and sends. *)

\* An insert writes the rows of its event, and may fail held ones.
LEMMA EnqueueInsertKept ==
    ASSUME IInv, commands' \in 0 .. MaxCommands, NEW m \in Events, EnqueueInsert(m)
    PROVE  IInv'
<1> DEFINE active == {<<m, x[1]>> : x \in {x \in reading[m] : x[2] = "active"}}
           held   == {<<m, x[1]>> : x \in {x \in reading[m] : x[2] = "failing"}}
           r1     == Mark(row, active, "pending")
           r      == Mark(r1, held, "held")
           E      == {x[2] : x \in held}
<1>1. /\ reading[m] # {} /\ reading' = [reading EXCEPT ![m] = {}]
      /\ row' = [d \in Deliveries |-> IF d[2] \in E THEN Trim(r, d[2])[d] ELSE r[d]]
      /\ UNCHANGED <<attempts, due, old, claim, endpoints, procs, posts>>
  BY DEF EnqueueInsert
<1>2. code' \in [Deliveries -> Codes]
  BY DEF EnqueueInsert, IInv, TypeOK, Codes
<1>3. \A d \in Deliveries : d \in active \cup held => d[1] = m
  OBVIOUS
<1> HIDE DEF active, held, E
<1>4. /\ r1 \in [Deliveries -> Statuses]
      /\ \A d \in Deliveries : r1[d] = IF d \in active THEN "pending" ELSE row[d]
  BY MarkRow DEF IInv, TypeOK, Statuses
<1> HIDE DEF r1
<1>5. /\ r \in [Deliveries -> Statuses]
      /\ \A d \in Deliveries : r[d] = IF d \in held THEN "held" ELSE r1[d]
  BY <1>4, MarkRow DEF Statuses
<1> HIDE DEF r
<1>6. ASSUME NEW d \in Deliveries
      PROVE  row'[d] \in Statuses /\ (row'[d] = r[d] \/ (r[d] = "held" /\ row'[d] = "failed"))
  BY <1>1, <1>5, TrimRow
<1>7. row' \in [Deliveries -> Statuses]
  BY <1>1, <1>6
<1>8. /\ reading' \in [Events -> SUBSET (Endpoints \X {"active", "failing"})]
      /\ reading'[m] = {} /\ \A k \in Events \ {m} : reading'[k] = reading[k]
  BY <1>1 DEF IInv, TypeOK
<1>9. TypeOK'
  BY <1>1, <1>2, <1>7, <1>8, WaitingType DEF IInv, TypeOK, endpoints
<1>10. UNCHANGED <<picked, task, posts>>
  BY <1>1 DEF procs
<1>11. ASSUME NEW d \in Deliveries
       PROVE  /\ DeliveryInv(d)'
              /\ row'[d] = "sending" => row[d] = "sending"
              /\ row[d] = "pending" => row'[d] = "pending"
  <2>1. d[1] \in Events /\ row[d] \in Statuses /\ DeliveryInv(d)
    BY DeliveryTypes DEF IInv
  <2>2. CASE d[1] = m
    <3>1. row[d] = "none"
      BY <1>1, <2>1, <2>2 DEF DeliveryInv, Unread
    <3>2. row'[d] \in Statuses \ {"sending"}
      BY <1>4, <1>5, <1>6, <3>1
    <3>3. DeliveryInv(d)'
      BY <1>1, <1>8, <1>10, <2>1, <2>2, <3>2, InsertKept DEF IInv
    <3> QED
      BY <3>1, <3>2, <3>3
  <2>3. CASE d[1] # m
    <3>1. r[d] = row[d]
      BY <1>3, <1>4, <1>5, <2>3
    <3>2. Silent(d)
      BY <1>10 DEF Silent
    <3>3. Quiet(d)
      BY <1>1, <1>6, <1>8, <1>10, <2>1, <2>3, <3>1, <3>2 DEF Quiet, StillUnread
    <3>4. DeliveryInv(d)'
      BY <2>1, <3>3, QuietKept DEF IInv
    <3> QED
      BY <1>6, <3>1, <3>4
  <2> QED
    BY <2>2, <2>3
<1>12. Locked'
  <2>1. ASSUME NEW p \in Senders, NEW d \in picked[p]
        PROVE  row'[d] = "pending"
    <3>1. d \in Deliveries /\ row[d] = "pending"
      BY DEF IInv, TypeOK, Locked, PickedPending
    <3> QED
      BY <1>11, <3>1
  <2>2. \A p \in Senders : picked'[p] # {} => \A d \in Deliveries : task'[p][d] = "none"
    BY <1>10 DEF IInv, Locked, PickedPending
  <2> QED
    BY <1>9, <1>10, <1>11, <2>1, <2>2, LockedKept DEF IInv
<1> QED
  BY <1>9, <1>11, <1>12 DEF IInv

\* The read of a claim locks due rows, within the limit, while nobody claims.
LEMMA ClaimReadKept ==
    ASSUME IInv, commands' \in 0 .. MaxCommands, NEW p \in Senders,
           NEW S \in SUBSET Deliveries, ClaimRead(p, S)
    PROVE  IInv'
<1>1. /\ Resting(p) /\ Claimable(S) /\ \A q \in Senders : picked[q] = {}
      /\ picked' = [picked EXCEPT ![p] = S]
      /\ UNCHANGED <<row, attempts, due, old, code, claim, endpoints, reading, task, posts>>
  BY DEF ClaimRead, rows
<1>2. view' \in [Senders -> [Endpoints -> {"active", "unsubscribed"} \cup Inactive]]
  BY DEF ClaimRead, Seen, IInv, TypeOK
<1>3. picked' \in [Senders -> SUBSET Deliveries]
      /\ picked'[p] = S /\ \A q \in Senders \ {p} : picked'[q] = {}
  BY <1>1 DEF IInv, TypeOK
<1>4. TypeOK'
  BY <1>1, <1>2, <1>3 DEF IInv, TypeOK, endpoints
<1>5. ASSUME NEW d \in Deliveries
      PROVE  DeliveryInv(d)'
  <2>1. Quiet(d)
    BY <1>1 DEF Quiet, Silent, StillUnread
  <2> QED
    BY <2>1, QuietKept DEF IInv
<1>6. OneClaim' /\ PickedPending'
  BY <1>1, <1>3 DEF OneClaim, PickedPending, Claimable, Resting
<1>7. PickedFit'
  <2> SUFFICES ASSUME NEW e \in Endpoints, S \cap Of(e) # {}
               PROVE  Cardinality(S \cap Of(e)) + Cardinality(Sending(e)') <= MaxInFlight
    BY <1>3 DEF PickedFit
  <2>1. Sending(e)' = Sending(e)
    BY <1>1 DEF Sending
  <2> QED
    BY <1>1, <2>1 DEF Claimable
<1>8. InFlightCapped'
  BY <1>1 DEF IInv, Locked, InFlightCapped, Sending
<1> QED
  BY <1>4, <1>5, <1>6, <1>7, <1>8 DEF IInv, Locked

\* The write of a claim sends only rows it locked, each with an attempt left.
LEMMA ClaimWriteKept ==
    ASSUME IInv, commands' \in 0 .. MaxCommands, NEW p \in Senders, ClaimWrite(p)
    PROVE  IInv'
<1> DEFINE Judged(S) == {d \in picked[p] \ DepartedRows : view[p][d[2]] \in S}
           held   == Judged({"failing"})
           failed == Judged({"deleted", "gone", "manual", "departed", "unsubscribed"})
           sent   == Judged({"active"})
           r1 == Mark(row, held, "held")
           r2 == Mark(r1, failed \cup DepartedRows, "failed")
<1>1. /\ picked[p] # {} /\ row' = Mark(r2, sent, "sending")
      /\ claim' = [d \in Deliveries |-> IF d \in sent THEN p ELSE claim[d]]
      /\ task' = [task EXCEPT ![p] = [d \in Deliveries |-> IF d \in sent THEN "claimed" ELSE "none"]]
      /\ picked' = [picked EXCEPT ![p] = {}] /\ view' = [view EXCEPT ![p] = Unseen]
      /\ DisableDeparted /\ KeepClock
      /\ UNCHANGED <<attempts, due, failures, aged, subscribed, departed, reading, posts>>
  BY DEF ClaimWrite
<1>2. code' \in [Deliveries -> Codes]
  BY DEF ClaimWrite, IInv, TypeOK, Codes
<1>3. /\ held \subseteq picked[p] /\ failed \subseteq picked[p] /\ sent \subseteq picked[p]
      /\ sent \cap DepartedRows = {} /\ sent \cap held = {} /\ sent \cap failed = {}
  OBVIOUS
<1>4. \A d \in DepartedRows : d \in Deliveries /\ row[d] \in {"pending", "held"}
  BY DEF DepartedRows
<1> HIDE DEF held, failed, sent
<1>5. \A d \in picked[p] : d \in Deliveries /\ row[d] = "pending"
  BY DEF IInv, TypeOK, Locked, PickedPending
<1>6. \A d \in Deliveries : task[p][d] = "none"
  BY <1>1 DEF IInv, Locked, PickedPending
<1>7. /\ r1 \in [Deliveries -> Statuses]
      /\ \A d \in Deliveries : r1[d] = IF d \in held THEN "held" ELSE row[d]
  <2>1. row \in [Deliveries -> Statuses] /\ "held" \in Statuses
    BY DEF IInv, TypeOK, Statuses
  <2> QED
    BY <2>1, MarkRow
<1> HIDE DEF r1
<1>8. /\ r2 \in [Deliveries -> Statuses]
      /\ \A d \in Deliveries : r2[d] = IF d \in failed \cup DepartedRows THEN "failed" ELSE r1[d]
  BY <1>7, MarkRow DEF Statuses, Final
<1> HIDE DEF r2
<1>9. /\ row' \in [Deliveries -> Statuses]
      /\ \A d \in Deliveries : row'[d] = IF d \in sent THEN "sending" ELSE r2[d]
  BY <1>1, <1>8, MarkRow DEF Statuses
<1>10. \A d \in Deliveries \ sent :
          row'[d] = row[d] \/ (row[d] \in {"pending", "held"} /\ row'[d] \in {"held", "failed"})
  BY <1>3, <1>4, <1>5, <1>7, <1>8, <1>9
<1>11. /\ picked' \in [Senders -> SUBSET Deliveries] /\ picked'[p] = {}
       /\ \A q \in Senders \ {p} : picked'[q] = picked[q]
  BY <1>1 DEF IInv, TypeOK
<1>12. \A q \in Senders : picked'[q] = {}
  BY <1>1, <1>11 DEF IInv, Locked, OneClaim
<1>13. /\ task'[p] = [d \in Deliveries |-> IF d \in sent THEN "claimed" ELSE "none"]
       /\ \A q \in Senders \ {p} : task'[q] = task[q]
       /\ task' \in [Senders -> [Deliveries -> Phases]]
  BY <1>1 DEF IInv, TypeOK, Phases
<1>14. TypeOK'
  <2>1. claim' \in [Deliveries -> Senders \cup {None}]
    BY <1>1 DEF IInv, TypeOK
  <2>2. standing' \in [Endpoints -> {"active"} \cup Inactive]
    BY <1>1 DEF DisableDeparted, IInv, TypeOK, Inactive
  <2>3. view' \in [Senders -> [Endpoints -> {"active", "unsubscribed"} \cup Inactive]]
    BY <1>1 DEF IInv, TypeOK, Unseen
  <2>4. old' \in [Deliveries -> BOOLEAN]
    BY <1>1, ClockType DEF IInv
  <2> QED
    BY <1>1, <1>2, <1>9, <1>11, <1>13, <2>1, <2>2, <2>3, <2>4
    DEF IInv, TypeOK, Statuses, Codes
<1>15. UNCHANGED <<posts, attempts, reading>>
  BY <1>1
<1>16. ASSUME NEW d \in Deliveries
       PROVE  DeliveryInv(d)'
  <2>1. DeliveryInv(d) /\ TypeOK
    BY DEF IInv
  <2>2. CASE d \in sent
    <3>1. /\ row[d] = "pending" /\ task[p][d] = "none" /\ row'[d] = "sending"
          /\ claim'[d] = p /\ task'[p][d] = "claimed"
      BY <1>1, <1>3, <1>5, <1>6, <1>9, <1>13, <2>2
    <3>2. \A q \in Senders \ {p} : task'[q][d] = task[q][d]
      BY <1>13
    <3> QED
      BY <1>15, <2>1, <3>1, <3>2, ClaimKept
  <2>3. CASE d \notin sent
    <3>1. claim'[d] = claim[d] /\ task'[p][d] = task[p][d]
      BY <1>1, <1>6, <1>13, <2>3
    <3>2. Silent(d)
      BY <1>13, <1>15, <3>1 DEF Silent
    <3>3. Quiet(d)
      BY <1>10, <1>15, <2>3, <3>1, <3>2 DEF Quiet, StillUnread
    <3> QED
      BY <2>1, <3>3, QuietKept
  <2> QED
    BY <2>2, <2>3
<1>17. OneClaim' /\ PickedPending' /\ PickedFit'
  BY <1>12 DEF OneClaim, PickedPending, PickedFit
<1>18. InFlightCapped'
  <2> SUFFICES ASSUME NEW e \in Endpoints
               PROVE  Cardinality(Sending(e)') <= MaxInFlight
    BY DEF InFlightCapped
  <2> DEFINE P == picked[p] \cap Of(e)
  <2>1. P \in SUBSET Of(e) /\ Sending(e) \in SUBSET Of(e) /\ Of(e) \subseteq Deliveries
    BY DEF Sending, Of, Deliveries
  <2>2. /\ IsFiniteSet(P) /\ IsFiniteSet(Sending(e))
        /\ Cardinality(P) \in Nat /\ Cardinality(Sending(e)) \in Nat
    BY <2>1, OfFinite
  <2>3. Sending(e)' \subseteq Sending(e) \cup P
    BY <1>3, <1>10, <2>1 DEF Sending
  <2>4. Cardinality(Sending(e)) <= MaxInFlight
    BY DEF IInv, Locked, InFlightCapped
  <2>5. CASE P = {}
    <3>1. Sending(e)' \subseteq Sending(e)
      BY <2>3, <2>5
    <3>2. Cardinality(Sending(e)') <= Cardinality(Sending(e)) /\ Cardinality(Sending(e)') \in Nat
      BY <2>2, <3>1, FS_Subset, FS_CardinalityType
    <3> QED
      BY <2>2, <2>4, <3>2, Limits
  <2>6. CASE P # {}
    <3>1. Cardinality(P) + Cardinality(Sending(e)) <= MaxInFlight
      BY <2>6 DEF IInv, Locked, PickedFit
    <3> HIDE DEF P
    <3>2. /\ IsFiniteSet(Sending(e) \cup P)
          /\ Cardinality(Sending(e) \cup P) =
                Cardinality(Sending(e)) + Cardinality(P) - Cardinality(Sending(e) \cap P)
      BY <2>2, FS_Union
    <3>3. Cardinality(Sending(e) \cap P) \in Nat
      BY <2>2, FS_Intersection, FS_CardinalityType
    <3>4. /\ Cardinality(Sending(e)') <= Cardinality(Sending(e) \cup P)
          /\ Cardinality(Sending(e)') \in Nat
      BY <2>3, <3>2, FS_Subset, FS_CardinalityType
    <3> QED
      BY <2>2, <3>1, <3>2, <3>3, <3>4, Limits
  <2> QED
    BY <2>5, <2>6
<1> QED
  BY <1>14, <1>16, <1>17, <1>18 DEF IInv, Locked

\* A send's own step changes its delivery, and others only while they wait.
LEMMA SendKept ==
    ASSUME IInv, TypeOK', NEW p \in Senders, NEW d \in Deliveries, NEW v,
           task[p][d] # "none", task' = [task EXCEPT ![p][d] = v],
           UNCHANGED <<reading, picked>>,
           \A x \in Deliveries \ {d} : /\ attempts'[x] = attempts[x] /\ claim'[x] = claim[x]
                                       /\ posts'[x] = posts[x] /\ Waits(x),
           row'[d] = row[d] \/ (row[d] = "sending" /\ row'[d] # "sending"),
           DeliveryInv(d)'
    PROVE  IInv'
<1>1. /\ \A q \in Senders \ {p} : task'[q] = task[q]
      /\ \A x \in Deliveries \ {d} : task'[p][x] = task[p][x]
  BY DEF IInv, TypeOK
<1>2. ASSUME NEW x \in Deliveries \ {d}
      PROVE  DeliveryInv(x)'
  <2>1. Silent(x)
    BY <1>1 DEF Silent
  <2>2. Waits(x)
    OBVIOUS
  <2>3. Quiet(x)
    BY <2>1, <2>2 DEF Quiet, StillUnread, Waits
  <2> QED
    BY <2>3, QuietKept DEF IInv
<1>3. ASSUME NEW q \in Senders, NEW x \in picked[q]
      PROVE  row'[x] = "pending"
  <2>1. x \in Deliveries /\ row[x] = "pending"
    BY DEF IInv, TypeOK, Locked, PickedPending
  <2>2. ~ Unlocked({x})
    BY DEF Unlocked
  <2>3. x # d => Waits(x)
    BY <2>1
  <2> QED
    BY <2>1, <2>2, <2>3 DEF Waits
<1>4. picked[p] = {}
  BY DEF IInv, Locked, PickedPending
<1>5. \A q \in Senders : picked'[q] # {} => \A x \in Deliveries : task'[q][x] = "none"
  BY <1>1, <1>4 DEF IInv, Locked, PickedPending
<1>6. \A x \in Deliveries : row'[x] = "sending" => row[x] = "sending"
  BY DEF Waits
<1>7. Locked'
  BY <1>3, <1>5, <1>6, LockedKept DEF IInv
<1> QED
  BY <1>2, <1>7 DEF IInv

\* The types of what a send's step writes.
LEMMA SendType ==
    ASSUME TypeOK, NEW p \in Senders, NEW d \in Deliveries, NEW v \in Phases,
           task' = [task EXCEPT ![p][d] = v],
           UNCHANGED <<reading, picked, view>>, commands' \in 0 .. MaxCommands,
           row' \in [Deliveries -> Statuses], attempts' \in [Deliveries -> 0 .. MaxAttempts],
           due' \in [Deliveries -> BOOLEAN], old' \in [Deliveries -> BOOLEAN],
           code' \in [Deliveries -> Codes], claim' \in [Deliveries -> Senders \cup {None}],
           posts' \in [Deliveries -> Int],
           standing' \in [Endpoints -> {"active"} \cup Inactive],
           failures' \in [Endpoints -> 0 .. DisableAfter], aged' \in [Endpoints -> BOOLEAN],
           UNCHANGED <<subscribed, departed>>
    PROVE  TypeOK'
<1>1. task' \in [Senders -> [Deliveries -> Phases]]
  BY DEF TypeOK
<1> QED
  BY <1>1 DEF TypeOK, Statuses, Codes

\* A send that ends without the claim has nothing to write.
LEMMA LostKept ==
    ASSUME IInv, commands' \in 0 .. MaxCommands, NEW p \in Senders, NEW d \in Deliveries,
           task[p][d] # "none", Done(p, d),
           UNCHANGED <<row, attempts, due, code, claim, endpoints, reading, picked, view, posts>>,
           old' \in [Deliveries -> BOOLEAN]
    PROVE  IInv'
<1>1. task' = [task EXCEPT ![p][d] = "none"]
  BY DEF Done
<1>2. TypeOK'
  BY <1>1, SendType DEF IInv, TypeOK, Phases, endpoints, Statuses, Codes
<1>3. DeliveryInv(d)'
  <2>1. task'[p][d] = "none" /\ \A q \in Senders \ {p} : task'[q][d] = task[q][d]
    BY <1>1 DEF IInv, TypeOK
  <2>2. Silent(d)
    BY <1>1, <2>1 DEF Silent
  <2>3. Quiet(d)
    BY <2>2 DEF Quiet, StillUnread
  <2> QED
    BY <2>3, QuietKept DEF IInv
<1>4. \A x \in Deliveries : Waits(x)
  BY DEF Waits
<1> QED
  BY <1>1, <1>2, <1>3, <1>4, SendKept

\* A send that ends without a POST gives its claim back and spends nothing.
LEMMA UnspentKept ==
    ASSUME IInv, commands' \in 0 .. MaxCommands, NEW p \in Senders, NEW d \in Deliveries,
           task[p][d] \in Unposted, claim[d] = p, Done(p, d),
           NEW s \in {"pending", "held", "failed"}, row' = [row EXCEPT ![d] = s],
           claim' = [claim EXCEPT ![d] = None],
           due' \in [Deliveries -> BOOLEAN], old' \in [Deliveries -> BOOLEAN],
           code' \in [Deliveries -> Codes],
           UNCHANGED <<attempts, endpoints, reading, picked, view, posts>>
    PROVE  IInv'
<1>1. task' = [task EXCEPT ![p][d] = "none"]
  BY DEF Done
<1>2. row' \in [Deliveries -> Statuses] /\ claim' \in [Deliveries -> Senders \cup {None}]
  BY DEF IInv, TypeOK, Statuses, Final
<1>3. TypeOK'
  BY <1>1, <1>2, SendType DEF IInv, TypeOK, Phases, endpoints
<1>4. row'[d] = s /\ claim'[d] = None /\ task'[p][d] = "none"
      /\ \A q \in Senders \ {p} : task'[q][d] = task[q][d]
  BY <1>1 DEF IInv, TypeOK
<1>5. row[d] = "sending"
  BY Limits DEF IInv, DeliveryInv, Claims
<1>6. DeliveryInv(d)'
  <2>1. row'[d] \in Statuses \ {"none", "sending"}
    BY <1>4 DEF Statuses, Final
  <2> QED
    BY <1>1, <1>4, <2>1, EndKept DEF IInv
<1>7. \A x \in Deliveries \ {d} : Waits(x) /\ claim'[x] = claim[x]
  BY DEF Waits, IInv, TypeOK
<1>8. task[p][d] # "none"
  BY DEF Unposted, Inactive
<1> QED
  BY <1>1, <1>3, <1>4, <1>5, <1>6, <1>7, <1>8, SendKept

\* The ends of a send that made no POST.
LEMMA UnsentKept ==
    ASSUME IInv, commands' \in 0 .. MaxCommands, NEW p \in Senders, NEW d \in Deliveries,
           Release(p, d) \/ SendSettle(p, d) \/ SendConfig(p, d)
    PROVE  IInv'
<1>0. TypeOK
  BY DEF IInv
<1>1. CASE Release(p, d)
  <2>1. /\ task[p][d] = "claimed" /\ Done(p, d)
        /\ UNCHANGED <<attempts, due, old, code, endpoints, reading, picked, view, posts>>
    BY <1>1 DEF Release
  <2>2. CASE claim[d] = p
    <3>1. row' = [row EXCEPT ![d] = "pending"] /\ claim' = [claim EXCEPT ![d] = None]
      BY <1>1, <2>2 DEF Release
    <3> QED
      BY <1>0, <2>1, <2>2, <3>1, UnspentKept DEF TypeOK, Codes, Unposted
  <2>3. CASE claim[d] # p
    <3>1. UNCHANGED <<row, claim>>
      BY <1>1, <2>3 DEF Release
    <3> QED
      BY <1>0, <2>1, <3>1, LostKept DEF TypeOK
  <2> QED
    BY <2>2, <2>3
<1>2. CASE SendSettle(p, d)
  <2>1. /\ task[p][d] \in Inactive /\ Done(p, d) /\ KeepClock
        /\ UNCHANGED <<attempts, due, endpoints, reading, picked, view, posts>>
    BY <1>2 DEF SendSettle
  <2>2. old' \in [Deliveries -> BOOLEAN]
    BY <1>0, <2>1, ClockType
  <2>3. CASE claim[d] = p
    <3> DEFINE s == IF task[p][d] = "failing" THEN "held" ELSE "failed"
    <3>1. row' = [row EXCEPT ![d] = s] /\ claim' = [claim EXCEPT ![d] = None]
      BY <1>2, <2>3 DEF SendSettle
    <3>2. code' \in [Deliveries -> Codes]
      BY <1>0, <1>2, <2>1, <2>3 DEF SendSettle, TypeOK, Codes, Inactive
    <3>3. s \in {"pending", "held", "failed"} /\ task[p][d] \in Unposted
      BY <2>1 DEF Unposted
    <3> HIDE DEF s
    <3> QED
      BY <1>0, <2>1, <2>2, <2>3, <3>1, <3>2, <3>3, UnspentKept DEF TypeOK
  <2>4. CASE claim[d] # p
    <3>1. UNCHANGED <<row, code, claim>>
      BY <1>2, <2>4 DEF SendSettle
    <3>2. task[p][d] # "none"
      BY <2>1 DEF Inactive
    <3> QED
      BY <2>1, <2>2, <3>1, <3>2, LostKept
  <2> QED
    BY <2>3, <2>4
<1>3. CASE SendConfig(p, d)
  <2>1. /\ task[p][d] = "config" /\ Done(p, d)
        /\ UNCHANGED <<attempts, old, endpoints, reading, picked, view, posts>>
    BY <1>3 DEF SendConfig
  <2>2. CASE claim[d] = p
    <3>1. row' = [row EXCEPT ![d] = "pending"] /\ claim' = [claim EXCEPT ![d] = None]
      BY <1>3, <2>2 DEF SendConfig
    <3>2. code' \in [Deliveries -> Codes] /\ due' \in [Deliveries -> BOOLEAN]
      BY <1>0, <1>3, <2>2 DEF SendConfig, TypeOK, Codes
    <3> QED
      BY <1>0, <2>1, <2>2, <3>1, <3>2, UnspentKept DEF TypeOK, Unposted
  <2>3. CASE claim[d] # p
    <3>1. UNCHANGED <<row, due, code, claim>>
      BY <1>3, <2>3 DEF SendConfig
    <3> QED
      BY <1>0, <2>1, <3>1, LostKept DEF TypeOK
  <2> QED
    BY <2>2, <2>3
<1> QED
  BY <1>1, <1>2, <1>3

\* A send reads its row and endpoint, or POSTs.
LEMMA ReadKept ==
    ASSUME IInv, commands' \in 0 .. MaxCommands, NEW p \in Senders, NEW d \in Deliveries,
           SendRead(p, d)
    PROVE  IInv'
<1>0. /\ task[p][d] = "claimed"
      /\ UNCHANGED <<row, attempts, due, old, code, claim, endpoints, reading, picked, view, posts>>
  BY DEF SendRead, rows
<1>1. CASE Done(p, d)
  BY <1>0, <1>1, LostKept DEF IInv, TypeOK
<1>2. ASSUME NEW v \in Unposted, task' = [task EXCEPT ![p][d] = v]
      PROVE  IInv'
  <2>1. v \in Phases
    BY DEF Unposted, Phases
  <2>2. TypeOK'
    BY <1>0, <1>2, <2>1, SendType DEF IInv, TypeOK, endpoints, Statuses, Codes
  <2>3. task'[p][d] = v /\ \A q \in Senders \ {p} : task'[q][d] = task[q][d]
    BY <1>2 DEF IInv, TypeOK
  <2>4. Silent(d)
    BY <1>0, <1>2, <2>3 DEF Silent, Unposted
  <2>5. DeliveryInv(d)'
    BY <1>0, <2>4, QuietKept DEF IInv, Quiet, StillUnread
  <2>6. \A x \in Deliveries : Waits(x)
    BY <1>0 DEF Waits
  <2> QED
    BY <1>0, <1>2, <2>2, <2>5, <2>6, SendKept
<1>3. CASE ~ Done(p, d)
  <2>1. d[2] \in Endpoints
    BY DEF Deliveries
  <2>2. \E v \in Unposted : task' = [task EXCEPT ![p][d] = v]
    BY <1>3, <2>1 DEF SendRead, Unposted, IInv, TypeOK
  <2> QED
    BY <1>2, <2>2
<1> QED
  BY <1>1, <1>3

\* The POST itself.
LEMMA PostStepKept ==
    ASSUME IInv, commands' \in 0 .. MaxCommands, NEW p \in Senders, NEW d \in Deliveries,
           NEW o \in Outcomes, Post(p, d, o)
    PROVE  IInv'
<1>1. /\ task[p][d] = "post" /\ task' = [task EXCEPT ![p][d] = o]
      /\ posts' = [posts EXCEPT ![d] = @ + 1]
      /\ UNCHANGED <<row, attempts, due, old, code, claim, endpoints, reading, picked, view>>
  BY DEF Post, rows
<1>2. o \in Phases
  BY DEF Phases
<1>3. posts' \in [Deliveries -> Int]
  BY <1>1 DEF IInv, TypeOK
<1>4. TypeOK'
  BY <1>1, <1>2, <1>3, SendType DEF IInv, TypeOK, endpoints, Statuses, Codes
<1>5. task'[p][d] = o /\ \A q \in Senders \ {p} : task'[q][d] = task[q][d]
  BY <1>1 DEF IInv, TypeOK
<1>6. /\ posts'[d] = posts[d] + 1
      /\ \A x \in Deliveries \ {d} : posts'[x] = posts[x]
  BY <1>1 DEF IInv, TypeOK
<1>7. DeliveryInv(d)'
  BY <1>1, <1>5, <1>6, PostKept DEF IInv
<1>8. \A x \in Deliveries : Waits(x)
  BY <1>1 DEF Waits
<1> QED
  BY <1>1, <1>4, <1>6, <1>7, <1>8, SendKept

\* A process dies: its sends are gone, its claims stay on their rows.
LEMMA CrashKept ==
    ASSUME IInv, commands' \in 0 .. MaxCommands, NEW p \in Senders, Crash(p)
    PROVE  IInv'
<1>1. /\ picked' = [picked EXCEPT ![p] = {}] /\ view' = [view EXCEPT ![p] = Unseen]
      /\ task' = [task EXCEPT ![p] = [d \in Deliveries |-> "none"]]
      /\ UNCHANGED <<row, attempts, due, old, code, claim, endpoints, reading, posts>>
  BY DEF Crash, rows
<1>2. view' \in [Senders -> [Endpoints -> {"active", "unsubscribed"} \cup Inactive]]
  BY <1>1 DEF IInv, TypeOK, Unseen
<1>3. /\ picked' \in [Senders -> SUBSET Deliveries] /\ picked'[p] = {}
      /\ \A q \in Senders \ {p} : picked'[q] = picked[q]
  BY <1>1 DEF IInv, TypeOK
<1>4. /\ task' \in [Senders -> [Deliveries -> Phases]]
      /\ \A d \in Deliveries : task'[p][d] = "none"
      /\ \A q \in Senders \ {p} : task'[q] = task[q]
  BY <1>1 DEF IInv, TypeOK, Phases
<1>5. TypeOK'
  BY <1>1, <1>2, <1>3, <1>4 DEF IInv, TypeOK, endpoints
<1>6. ASSUME NEW d \in Deliveries
      PROVE  DeliveryInv(d)'
  <2>1. Silent(d)
    BY <1>1, <1>4 DEF Silent
  <2>2. Quiet(d)
    BY <1>1, <2>1 DEF Quiet, StillUnread
  <2> QED
    BY <2>2, QuietKept DEF IInv
<1>7. Locked'
  <2>1. \A q \in Senders : \A d \in picked'[q] : row'[d] = "pending"
    BY <1>1, <1>3 DEF IInv, Locked, PickedPending
  <2>2. \A q \in Senders : picked'[q] # {} => \A d \in Deliveries : task'[q][d] = "none"
    BY <1>3, <1>4 DEF IInv, Locked, PickedPending
  <2> QED
    BY <1>1, <1>3, <1>5, <2>1, <2>2, LockedKept DEF IInv
<1> QED
  BY <1>5, <1>6, <1>7 DEF IInv

\* The stale sweep.
LEMMA SweepStaleKept ==
    ASSUME IInv, commands' \in 0 .. MaxCommands, NEW d \in Deliveries, SweepStale(d)
    PROVE  IInv'
<1> DEFINE s == IF attempts[d] + 1 >= MaxAttempts THEN "failed" ELSE "pending"
<1>1. /\ row[d] = "sending" /\ row' = [row EXCEPT ![d] = s]
      /\ attempts' = [attempts EXCEPT ![d] = @ + 1] /\ claim' = [claim EXCEPT ![d] = None]
      /\ Code({d}, "other") /\ due' = [due EXCEPT ![d] = TRUE] /\ old' = [old EXCEPT ![d] = FALSE]
      /\ UNCHANGED <<endpoints, reading, procs, posts>>
  BY DEF SweepStale
<1>2. attempts[d] \in Nat /\ attempts[d] < MaxAttempts
  BY <1>1, DeliveryTypes DEF IInv, DeliveryInv, Live, Final
<1>3. s \in {"failed", "pending"}
  OBVIOUS
<1> HIDE DEF s
<1>4. row' \in [Deliveries -> Statuses] /\ claim' \in [Deliveries -> Senders \cup {None}]
  BY <1>1, <1>3 DEF IInv, TypeOK, Statuses, Final
<1>5. attempts' \in [Deliveries -> 0 .. MaxAttempts]
  BY <1>1, <1>2, Limits DEF IInv, TypeOK
<1>6. due' \in [Deliveries -> BOOLEAN] /\ old' \in [Deliveries -> BOOLEAN]
  BY <1>1 DEF IInv, TypeOK
<1>7. code' \in [Deliveries -> Codes]
  BY <1>1, CodeType DEF IInv, Codes
<1>8. TypeOK'
  BY <1>1, <1>4, <1>5, <1>6, <1>7 DEF IInv, TypeOK, Statuses, Codes, endpoints, procs
<1>9. UNCHANGED <<posts, task, reading, picked>>
  BY <1>1 DEF procs
<1>10. /\ row'[d] = s /\ attempts'[d] = attempts[d] + 1 /\ claim'[d] = None
       /\ \A x \in Deliveries \ {d} : /\ row'[x] = row[x] /\ attempts'[x] = attempts[x]
                                      /\ claim'[x] = claim[x]
  BY <1>1 DEF IInv, TypeOK
<1>11. ASSUME NEW x \in Deliveries
       PROVE  DeliveryInv(x)'
  <2>1. CASE x = d
    BY <1>1, <1>9, <1>10, <2>1, StaleKept DEF IInv, s
  <2>2. CASE x # d
    <3>1. Quiet(x)
      BY <1>9, <1>10, <2>2 DEF Quiet, Silent, StillUnread
    <3> QED
      BY <3>1, QuietKept DEF IInv
  <2> QED
    BY <2>1, <2>2
<1>12. Locked'
  <2>1. ASSUME NEW q \in Senders, NEW x \in picked[q]
        PROVE  row'[x] = "pending"
    <3>1. x \in Deliveries /\ row[x] = "pending"
      BY DEF IInv, TypeOK, Locked, PickedPending
    <3> QED
      BY <1>1, <1>10, <3>1
  <2>2. \A q \in Senders : picked'[q] # {} => \A x \in Deliveries : task'[q][x] = "none"
    BY <1>9 DEF IInv, Locked, PickedPending
  <2>3. \A x \in Deliveries : row'[x] = "sending" => row[x] = "sending"
    BY <1>1, <1>10
  <2> QED
    BY <1>8, <1>9, <2>1, <2>2, <2>3, LockedKept DEF IInv
<1> QED
  BY <1>8, <1>11, <1>12 DEF IInv

\* What an outcome does to the rows: its own is settled or, with an attempt
\* left, waits again; others of the endpoint may be held or failed.
LEMMA RecordedRow ==
    ASSUME IInv, NEW p \in Senders, NEW d \in Deliveries, NEW o \in Outcomes, claim[d] = p,
           Recorded(p, d, o)
    PROVE  /\ row' \in [Deliveries -> Statuses]
           /\ row'[d] \in Statuses \ {"none", "sending"}
           /\ row'[d] \in Final \/ attempts[d] + 1 < MaxAttempts
           /\ \A x \in Deliveries \ {d} : Waits(x)
           /\ standing' \in [Endpoints -> {"active"} \cup Inactive]
           /\ failures' \in [Endpoints -> 0 .. DisableAfter]
           /\ aged' \in [Endpoints -> BOOLEAN] /\ UNCHANGED <<subscribed, departed>>
<1> DEFINE e == d[2]
           tries == attempts[d] + 1
           again == Retries(o, tries)
           s == IF o = "2xx" THEN "succeeded" ELSE IF again THEN "pending" ELSE "failed"
           r == [row EXCEPT ![d] = s]
           n == IF again \/ o = "blocked" THEN 0 ELSE 1
<1>0. TypeOK /\ e \in Endpoints
  BY DeliveryTypes DEF IInv
<1>1. s \in {"succeeded", "failed"} \/ (s = "pending" /\ attempts[d] + 1 < MaxAttempts)
  BY DEF Retries
<1>2. s \in Statuses \ {"none", "sending"}
  BY <1>1 DEF Statuses, Final
<1>3. /\ CASE o = "2xx" ->
                 /\ row' = r
                 /\ IF standing[e] = "active"
                    THEN /\ failures' = [failures EXCEPT ![e] = 0]
                         /\ aged' = [aged EXCEPT ![e] = FALSE]
                    ELSE UNCHANGED <<failures, aged>>
                 /\ UNCHANGED <<standing, subscribed, departed>>
           [] o = "410" /\ standing[e] = "active" ->
                 /\ Unlocked(PendingIn(r, e))
                 /\ standing' = [standing EXCEPT ![e] = "gone"]
                 /\ row' = Mark(r, PendingIn(r, e), "failed")
                 /\ UNCHANGED <<failures, aged, subscribed, departed>>
           [] o = "410" /\ standing[e] # "active" -> row' = r /\ UNCHANGED endpoints
           [] OTHER -> CountFinal(r, e, n)
  BY DEF Recorded
<1> HIDE DEF s
<1>4. /\ r \in [Deliveries -> Statuses] /\ r[d] = s
      /\ \A x \in Deliveries \ {d} : r[x] = row[x]
  BY <1>0, <1>2 DEF TypeOK, Statuses
<1> HIDE DEF r, e, n
<1>5. ASSUME row' \in [Deliveries -> Statuses],
             \A x \in Deliveries :
                 \/ row'[x] = r[x]
                 \/ r[x] = "held" /\ row'[x] = "failed"
                 \/ r[x] = "pending" /\ row'[x] \in {"held", "failed"} /\ Unlocked({x})
      PROVE  /\ row'[d] \in Statuses \ {"none", "sending"}
             /\ row'[d] \in Final \/ attempts[d] + 1 < MaxAttempts
             /\ \A x \in Deliveries \ {d} : Waits(x)
  BY <1>1, <1>2, <1>4, <1>5 DEF Waits, Statuses, Final
<1>6. CASE o = "2xx"
  <2>1. /\ row' = r /\ UNCHANGED <<standing, subscribed, departed>>
        /\ \/ /\ failures' = [failures EXCEPT ![e] = 0] /\ aged' = [aged EXCEPT ![e] = FALSE]
           \/ UNCHANGED <<failures, aged>>
    BY <1>3, <1>6
  <2>2. /\ failures \in [Endpoints -> 0 .. DisableAfter] /\ aged \in [Endpoints -> BOOLEAN]
        /\ e \in Endpoints
    BY <1>0 DEF TypeOK
  <2>3. failures' \in [Endpoints -> 0 .. DisableAfter]
    <3>1. 0 \in 0 .. DisableAfter
      BY Limits
    <3> QED
      BY <2>1, <2>2, <3>1
  <2>4. aged' \in [Endpoints -> BOOLEAN]
    BY <2>1, <2>2, Zenon
  <2> QED
    BY <1>0, <1>4, <1>5, <2>1, <2>3, <2>4 DEF TypeOK
<1>7. CASE o = "410" /\ standing[e] = "active"
  <2> DEFINE P == PendingIn(r, e)
  <2>1. /\ Unlocked(P) /\ standing' = [standing EXCEPT ![e] = "gone"]
        /\ row' = Mark(r, P, "failed") /\ UNCHANGED <<failures, aged, subscribed, departed>>
    BY <1>3, <1>7
  <2>2. \A x \in P : r[x] = "pending" /\ Unlocked({x})
    BY <2>1 DEF PendingIn, Unlocked
  <2> HIDE DEF P
  <2>3. /\ row' \in [Deliveries -> Statuses]
        /\ \A x \in Deliveries : row'[x] = IF x \in P THEN "failed" ELSE r[x]
    BY <1>4, <2>1, MarkRow DEF Statuses, Final
  <2>4. standing' \in [Endpoints -> {"active"} \cup Inactive]
    BY <1>0, <2>1 DEF TypeOK, Inactive
  <2>5. \A x \in Deliveries :
           \/ row'[x] = r[x]
           \/ r[x] = "held" /\ row'[x] = "failed"
           \/ r[x] = "pending" /\ row'[x] \in {"held", "failed"} /\ Unlocked({x})
    BY <2>2, <2>3
  <2> QED
    BY <1>0, <1>5, <2>1, <2>3, <2>4, <2>5 DEF TypeOK
<1>8. CASE o = "410" /\ standing[e] # "active"
  <2>1. row' = r /\ UNCHANGED endpoints
    BY <1>3, <1>8
  <2> QED
    BY <1>0, <1>4, <1>5, <2>1 DEF TypeOK, endpoints
<1>9. CASE o \notin {"2xx", "410"}
  <2>1. CountFinal(r, e, n)
    BY <1>3, <1>9
  <2>2. n \in Nat
    BY DEF n
  <2>3. /\ row' \in [Deliveries -> Statuses]
        /\ standing' \in [Endpoints -> {"active"} \cup Inactive]
        /\ failures' \in [Endpoints -> 0 .. DisableAfter]
        /\ UNCHANGED <<aged, subscribed, departed>>
        /\ \A x \in Deliveries :
              \/ row'[x] = r[x]
              \/ r[x] = "held" /\ row'[x] = "failed"
              \/ r[x] = "pending" /\ row'[x] \in {"held", "failed"} /\ Unlocked({x})
    BY <1>0, <1>4, <2>1, <2>2, CountFinalRow
  <2> QED
    BY <1>0, <1>5, <2>3 DEF TypeOK
<1> QED
  BY <1>6, <1>7, <1>8, <1>9

\* Writing an outcome counts the attempt, if the claim is still in force.
LEMMA WriteOutcomeKept ==
    ASSUME IInv, commands' \in 0 .. MaxCommands, NEW p \in Senders, NEW d \in Deliveries,
           WriteOutcome(p, d)
    PROVE  IInv'
<1>1. /\ task[p][d] \in Outcomes /\ Done(p, d) /\ KeepClock
      /\ UNCHANGED <<reading, picked, view, posts>>
  BY DEF WriteOutcome
<1>2. old' \in [Deliveries -> BOOLEAN]
  BY <1>1, ClockType DEF IInv
<1>3. task[p][d] # "none"
  BY <1>1 DEF Outcomes
<1>4. CASE claim[d] # p
  <2>1. UNCHANGED <<row, attempts, due, code, claim, endpoints>>
    BY <1>4 DEF WriteOutcome
  <2> QED
    BY <1>1, <1>2, <1>3, <2>1, LostKept
<1>5. CASE claim[d] = p
  <2> DEFINE o == task[p][d]
  <2>1. Recorded(p, d, o)
    BY <1>5 DEF WriteOutcome
  <2>2. /\ attempts' = [attempts EXCEPT ![d] = attempts[d] + 1]
        /\ claim' = [claim EXCEPT ![d] = None]
        /\ due' = [due EXCEPT ![d] = @ /\ ~ Retries(o, attempts[d] + 1)]
    BY <2>1 DEF Recorded
  <2>3. code' \in [Deliveries -> Codes]
    BY <2>1 DEF Recorded, IInv, TypeOK, Codes
  <2>4. /\ row' \in [Deliveries -> Statuses]
        /\ row'[d] \in Statuses \ {"none", "sending"}
        /\ row'[d] \in Final \/ attempts[d] + 1 < MaxAttempts
        /\ \A x \in Deliveries \ {d} : Waits(x)
        /\ standing' \in [Endpoints -> {"active"} \cup Inactive]
        /\ failures' \in [Endpoints -> 0 .. DisableAfter]
        /\ aged' \in [Endpoints -> BOOLEAN] /\ UNCHANGED <<subscribed, departed>>
    BY <1>1, <1>5, <2>1, RecordedRow
  <2> HIDE DEF o
  <2>5. row[d] = "sending" /\ attempts[d] \in Nat /\ attempts[d] < MaxAttempts
    BY <1>5, Limits, DeliveryTypes DEF IInv, DeliveryInv, Claims, Live, Final
  <2>6. attempts' \in [Deliveries -> 0 .. MaxAttempts]
        /\ claim' \in [Deliveries -> Senders \cup {None}]
    BY <2>2, <2>5, Limits DEF IInv, TypeOK
  <2>7. due' \in [Deliveries -> BOOLEAN]
    BY <2>2 DEF IInv, TypeOK, Retries
  <2>8. task' = [task EXCEPT ![p][d] = "none"]
    BY <1>1 DEF Done
  <2>9. posts' \in [Deliveries -> Int]
    BY <1>1 DEF IInv, TypeOK
  <2>10. TypeOK'
    BY <1>1, <1>2, <2>3, <2>4, <2>6, <2>7, <2>8, <2>9, SendType DEF IInv, Phases
  <2>11. /\ attempts'[d] = attempts[d] + 1 /\ claim'[d] = None
         /\ \A x \in Deliveries \ {d} : attempts'[x] = attempts[x] /\ claim'[x] = claim[x]
    BY <2>2 DEF IInv, TypeOK
  <2>12. task'[p][d] = "none" /\ \A q \in Senders \ {p} : task'[q][d] = task[q][d]
    BY <2>8 DEF IInv, TypeOK
  <2>13. DeliveryInv(d)'
    <3>1. posts'[d] = posts[d]
      BY <1>1
    <3> QED
      BY <1>1, <1>5, <2>4, <2>11, <2>12, <3>1, EndKept DEF IInv
  <2> QED
    BY <1>1, <1>3, <2>4, <2>5, <2>8, <2>10, <2>11, <2>13, SendKept
<1> QED
  BY <1>4, <1>5

\* Every step keeps the invariant.
LEMMA NextKept ==
    ASSUME IInv, [Next]_vars
    PROVE  IInv'
<1>1. CASE Next
  <2>0. commands' \in 0 .. MaxCommands
    BY <1>1, Limits DEF Next, IInv, TypeOK
  <2>1. ASSUME NEW m \in Events, EnqueueRead(m) \/ EnqueueInsert(m) \/ EnqueueFails(m)
        PROVE  IInv'
    BY <2>0, <2>1, EnqueueKept, EnqueueInsertKept
  <2>2. ASSUME NEW p \in Senders, SenderStep(p)
        PROVE  IInv'
    BY <2>0, <2>2, ClaimReadKept, ClaimWriteKept, CrashKept, UnsentKept, ReadKept,
       PostStepKept, WriteOutcomeKept DEF SenderStep, Send
  <2>3. CASE SweepStep
    BY <2>0, <2>3, SweepStaleKept, SweepKept DEF SweepStep
  <2>4. CASE ClockStep
    BY <2>0, <2>4, ClockKept
  <2>5. CASE Command
    <3>1. ASSUME NEW e \in Endpoints, NEW b \in BOOLEAN, Enable(e, b)
          PROVE  IInv'
      <4>1. b = TRUE \/ b = FALSE
        OBVIOUS
      <4>2. CASE b = TRUE
        BY <2>0, <3>1, <4>2, RedeliverKept
      <4>3. CASE b = FALSE
        BY <2>0, <3>1, <4>3, EndpointKept
      <4> QED
        BY <4>1, <4>2, <4>3
    <3> QED
      BY <2>0, <2>5, <3>1, RedeliverKept, EndpointKept DEF Command
  <2> QED
    BY <1>1, <2>1, <2>2, <2>3, <2>4, <2>5 DEF Next
<1>2. CASE UNCHANGED vars
  <2>1. UNCHANGED <<row, attempts, due, old, code, claim, endpoints, reading, procs, posts, commands>>
    BY <1>2 DEF vars, rows
  <2>2. TypeOK'
    BY <2>1 DEF IInv, TypeOK, endpoints, procs
  <2>3. \A d \in Deliveries : Waits(d) /\ StillUnread(d)
    BY <2>1 DEF Waits, StillUnread
  <2> QED
    BY <2>1, <2>2, <2>3, WaitingKept
<1> QED
  BY <1>1, <1>2

\* The initial states satisfy the invariant.
LEMMA InitIInv == Init => IInv
<1> SUFFICES ASSUME Init PROVE IInv
  OBVIOUS
<1>1. TypeOK
  <2>1. /\ due \in [Deliveries -> BOOLEAN] /\ old \in [Deliveries -> BOOLEAN]
        /\ aged \in [Endpoints -> BOOLEAN] /\ subscribed \in [Endpoints -> BOOLEAN]
        /\ departed \in BOOLEAN
    BY Zenon DEF Init
  <2>2. /\ row \in [Deliveries -> {"none", "pending", "sending", "held"} \cup Final]
        /\ code \in [Deliveries -> {"other", "secret", "expired", "dropped"}]
        /\ claim \in [Deliveries -> Senders \cup {None}]
    BY DEF Init
  <2>3. /\ attempts \in [Deliveries -> 0 .. MaxAttempts] /\ posts \in [Deliveries -> Int]
        /\ commands \in 0 .. MaxCommands
    BY Limits DEF Init
  <2>4. /\ standing \in [Endpoints -> {"active"} \cup Inactive]
        /\ failures \in [Endpoints -> 0 .. DisableAfter]
    BY DEF Init, Inactive
  <2>5. /\ reading \in [Events -> SUBSET (Endpoints \X {"active", "failing"})]
        /\ picked \in [Senders -> SUBSET Deliveries]
    BY DEF Init
  <2>6. view \in [Senders -> [Endpoints -> {"active", "unsubscribed"} \cup Inactive]]
    <3>1. Unseen \in [Endpoints -> {"active", "unsubscribed"} \cup Inactive]
      BY DEF Unseen, Inactive
    <3> QED
      BY <3>1 DEF Init
  <2>7. task \in [Senders -> [Deliveries -> Phases]]
    BY DEF Init, Phases
  <2> QED
    BY <2>1, <2>2, <2>3, <2>4, <2>5, <2>6, <2>7 DEF TypeOK
<1>2. ASSUME NEW d \in Deliveries
      PROVE  DeliveryInv(d)
  <2>1. Charged(d) = {}
    BY DEF Init, Charged, Unposted, Inactive
  <2>2. Cardinality(Charged(d)) = 0
    BY <2>1, FS_EmptySet
  <2>3. d[1] \in Events
    BY DEF Deliveries
  <2> QED
    BY <2>2, <2>3, Limits DEF Init, DeliveryInv, Claims, Live, Unread, Budget
<1>3. Locked
  <2>1. \A e \in Endpoints : Sending(e) = {}
    BY DEF Init, Sending, Of, Deliveries
  <2>2. InFlightCapped
    BY <2>1, FS_EmptySet, Limits DEF InFlightCapped
  <2> QED
    BY <2>2 DEF Init, Locked, OneClaim, PickedPending, PickedFit
<1> QED
  BY <1>1, <1>2, <1>3 DEF IInv

-----------------------------------------------------------------------------

\* The invariant holds throughout.
THEOREM IInvCorrect == Spec => []IInv
<1>1. Init => IInv
  BY InitIInv
<1>2. IInv /\ [Next]_vars => IInv'
  BY NextKept
<1> QED
  BY <1>1, <1>2, PTL DEF Spec

\* Types, and no row counts more attempts than WEBHOOK_MAX_ATTEMPTS
\* (writeOutcomeInTx, the stale sweep).
THEOREM TypeCorrect == Spec => []TypeOK
<1>1. IInv => TypeOK
  BY DEF IInv
<1> QED
  BY <1>1, IInvCorrect, PTL

\* At most MaxInFlight sends of an endpoint are in flight, whatever number of
\* processes claim (the claim's advisory lock).
THEOREM InFlightCorrect == Spec => []InFlightCapped
<1>1. IInv => InFlightCapped
  BY DEF IInv, Locked
<1> QED
  BY <1>1, IInvCorrect, PTL

\* Every POST ever made of a delivery has its counted attempt, or is the one
\* of the claim in force, and no more than MaxAttempts are counted from one
\* reset to the next, however many processes stall, die and come back after
\* another claim or a redelivery (sendOne, writeOutcomeInTx, the stale sweep).
THEOREM PostsCorrect == Spec => []PostsBounded
<1>1. IInv => PostsBounded
  <2> SUFFICES ASSUME IInv, NEW d \in Deliveries
               PROVE  posts[d] <= Counted(d) /\ Counted(d) <= MaxAttempts
    BY DEF PostsBounded
  <2>1. /\ attempts[d] \in Nat /\ attempts[d] <= MaxAttempts /\ posts[d] \in Int
        /\ Cardinality(Charged(d)) \in Nat
    BY DeliveryTypes DEF IInv
  <2>2. /\ row[d] = "sending" => attempts[d] < MaxAttempts
        /\ posts[d] + Cardinality(Charged(d)) <= attempts[d] + IF row[d] = "sending" THEN 1 ELSE 0
    BY DEF IInv, DeliveryInv, Live, Budget, Final
  <2> QED
    BY <2>1, <2>2, Limits DEF Counted
<1> QED
  BY <1>1, IInvCorrect, PTL
=============================================================================
