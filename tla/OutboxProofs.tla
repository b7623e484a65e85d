---------------------------- MODULE OutboxProofs ----------------------------
(***************************************************************************)
(* The outbox's safety for any messages, tenants, relays, handlers and     *)
(* bounds: acked rows seen by every handler, earned quarantines, the       *)
(* refinement of EventDelivery, and repeats explained by failures.         *)
(***************************************************************************)
EXTENDS Outbox, FiniteSetTheorems, TLAPS

\* A relay delivering a row holds a written row; the rows it still holds in
\* its batch were written too; a row not yet written has no attempts.
RowsWritten ==
    /\ \A m \in Messages : status[m] = "none" => attempts[m] = 0
    /\ \A r \in Relays :
        /\ pc[r] \in {"publish", "fail"} => row[r] \in Messages
        /\ row[r] \in Messages => status[row[r]] # "none"
        /\ \A m \in batch[r] : status[m] # "none"

\* A publish under way has settled with the handlers it has passed.
PrefixSeen ==
    \A r \in Relays :
        pc[r] = "publish" => /\ at[r] <= Last + 1
                             /\ \A h \in Handlers : h < at[r] => h \in seen[row[r]]

\* The attempts a relay read, and the one it is about to add, did happen.
ReadsEarned ==
    \A r \in Relays :
        /\ \A m \in Messages : read[r][m] <= throws[m]
        /\ pc[r] = "fail" => read[r][row[r]] + 1 <= throws[row[r]]

\* The inductive invariant.
IInv ==
    /\ TypeOK /\ RowsWritten /\ PrefixSeen /\ ReadsEarned
    /\ AckedSeenByAll /\ QuarantineEarned

-----------------------------------------------------------------------------
\* What the steps need of the constants.
LEMMA Bounds ==
    /\ Last \in Nat /\ Limit \in Nat /\ MaxAttempts \in Nat \ {0}
    /\ MaxFaults \in Nat /\ MaxReplays \in Nat
    /\ None \notin Messages /\ None \notin Relays
BY OutboxAssumption

\* The initial states satisfy the inductive invariant.
LEMMA InitIInv == Init => IInv
BY OutboxAssumption
DEF Init, Unread, IInv, TypeOK, RowsWritten, PrefixSeen, ReadsEarned, AckedSeenByAll,
    QuarantineEarned, Handlers

\* A command's append preserves the inductive invariant.
LEMMA AppendStep ==
    ASSUME IInv, NEW m \in Messages, Append(m)
    PROVE  IInv'
<1>. USE Bounds DEF IInv
<1>1. TypeOK'
  BY DEF Append, rows, ghosts, cycle, TypeOK
<1>2. RowsWritten'
  BY DEF Append, rows, ghosts, cycle, TypeOK, RowsWritten
<1>3. PrefixSeen'
  BY DEF Append, rows, ghosts, cycle, TypeOK, RowsWritten, PrefixSeen, Handlers
<1>4. ReadsEarned'
  BY DEF Append, rows, ghosts, cycle, TypeOK, RowsWritten, ReadsEarned, QuarantineEarned
<1>5. AckedSeenByAll'
  BY DEF Append, rows, ghosts, cycle, TypeOK, RowsWritten, PrefixSeen, AckedSeenByAll, Handlers
<1>6. QuarantineEarned'
  BY DEF Append, rows, ghosts, cycle, TypeOK, RowsWritten, ReadsEarned, QuarantineEarned
<1>. QED
  BY <1>1, <1>2, <1>3, <1>4, <1>5, <1>6

\* An operator's replay preserves the inductive invariant.
LEMMA ReplayStep ==
    ASSUME IInv, NEW m \in Messages, Replay(m)
    PROVE  IInv'
<1>. USE Bounds DEF IInv
<1>1. TypeOK'
  BY DEF Replay, rows, ghosts, cycle, TypeOK
<1>2. RowsWritten'
  BY DEF Replay, rows, ghosts, cycle, TypeOK, RowsWritten
<1>3. PrefixSeen'
  BY DEF Replay, rows, ghosts, cycle, TypeOK, RowsWritten, PrefixSeen, Handlers
<1>4. ReadsEarned'
  BY DEF Replay, rows, ghosts, cycle, TypeOK, RowsWritten, ReadsEarned, QuarantineEarned
<1>5. AckedSeenByAll'
  BY DEF Replay, rows, ghosts, cycle, TypeOK, RowsWritten, PrefixSeen, AckedSeenByAll, Handlers
<1>6. QuarantineEarned'
  BY DEF Replay, rows, ghosts, cycle, TypeOK, RowsWritten, ReadsEarned, QuarantineEarned
<1>. QED
  BY <1>1, <1>2, <1>3, <1>4, <1>5, <1>6

\* The end of a backoff preserves the inductive invariant.
LEMMA BackoffElapsesStep ==
    ASSUME IInv, NEW m \in Messages, BackoffElapses(m)
    PROVE  IInv'
<1>. USE Bounds DEF IInv
<1>1. TypeOK'
  BY DEF BackoffElapses, rows, ghosts, cycle, TypeOK
<1>2. RowsWritten'
  BY DEF BackoffElapses, rows, ghosts, cycle, TypeOK, RowsWritten
<1>3. PrefixSeen'
  BY DEF BackoffElapses, rows, ghosts, cycle, TypeOK, RowsWritten, PrefixSeen, Handlers
<1>4. ReadsEarned'
  BY DEF BackoffElapses, rows, ghosts, cycle, TypeOK, RowsWritten, ReadsEarned, QuarantineEarned
<1>5. AckedSeenByAll'
  BY DEF BackoffElapses, rows, ghosts, cycle, TypeOK, RowsWritten, PrefixSeen, AckedSeenByAll, Handlers
<1>6. QuarantineEarned'
  BY DEF BackoffElapses, rows, ghosts, cycle, TypeOK, RowsWritten, ReadsEarned, QuarantineEarned
<1>. QED
  BY <1>1, <1>2, <1>3, <1>4, <1>5, <1>6

\* The start of a drain cycle preserves the inductive invariant.
LEMMA DiscoverStep ==
    ASSUME IInv, NEW r \in Relays, Discover(r)
    PROVE  IInv'
<1>. USE Bounds DEF IInv
<1>1. TypeOK'
  BY DEF Discover, rows, ghosts, Due, TypeOK
<1>2. RowsWritten'
  BY DEF Discover, rows, ghosts, Due, TypeOK, RowsWritten
<1>3. PrefixSeen'
  BY DEF Discover, rows, ghosts, Due, TypeOK, RowsWritten, PrefixSeen, Handlers
<1>4. ReadsEarned'
  BY DEF Discover, rows, ghosts, Due, TypeOK, RowsWritten, ReadsEarned, QuarantineEarned
<1>5. AckedSeenByAll'
  BY DEF Discover, rows, ghosts, Due, TypeOK, RowsWritten, PrefixSeen, AckedSeenByAll, Handlers
<1>6. QuarantineEarned'
  BY DEF Discover, rows, ghosts, Due, TypeOK, RowsWritten, ReadsEarned, QuarantineEarned
<1>. QED
  BY <1>1, <1>2, <1>3, <1>4, <1>5, <1>6

\* The choice of the next tenant's batch preserves the inductive invariant.
LEMMA NextTenantStep ==
    ASSUME IInv, NEW r \in Relays, NextTenant(r)
    PROVE  IInv'
<1>. USE Bounds DEF IInv
<1>1. TypeOK'
  BY DEF NextTenant, rows, ghosts, Due, First, Oldest, TypeOK
<1>2. RowsWritten'
  BY DEF NextTenant, rows, ghosts, Due, First, Oldest, TypeOK, RowsWritten
<1>3. PrefixSeen'
  BY DEF NextTenant, rows, ghosts, Due, First, Oldest, TypeOK, RowsWritten, PrefixSeen, Handlers
<1>4. ReadsEarned'
  BY DEF NextTenant, rows, ghosts, Due, First, Oldest, TypeOK, RowsWritten, ReadsEarned, QuarantineEarned
<1>5. AckedSeenByAll'
  BY DEF NextTenant, rows, ghosts, Due, First, Oldest, TypeOK, RowsWritten, PrefixSeen, AckedSeenByAll, Handlers
<1>6. QuarantineEarned'
  BY DEF NextTenant, rows, ghosts, Due, First, Oldest, TypeOK, RowsWritten, ReadsEarned, QuarantineEarned
<1>. QED
  BY <1>1, <1>2, <1>3, <1>4, <1>5, <1>6

\* The end of a tenant's batch preserves the inductive invariant.
LEMMA TenantDoneStep ==
    ASSUME IInv, NEW r \in Relays, TenantDone(r)
    PROVE  IInv'
<1>. USE Bounds DEF IInv
<1>1. TypeOK'
  BY DEF TenantDone, Unread, rows, ghosts, TypeOK
<1>2. RowsWritten'
  BY DEF TenantDone, Unread, rows, ghosts, TypeOK, RowsWritten
<1>3. PrefixSeen'
  BY DEF TenantDone, Unread, rows, ghosts, TypeOK, RowsWritten, PrefixSeen, Handlers
<1>4. ReadsEarned'
  BY DEF TenantDone, Unread, rows, ghosts, TypeOK, RowsWritten, ReadsEarned, QuarantineEarned
<1>5. AckedSeenByAll'
  BY DEF TenantDone, Unread, rows, ghosts, TypeOK, RowsWritten, PrefixSeen, AckedSeenByAll, Handlers
<1>6. QuarantineEarned'
  BY DEF TenantDone, Unread, rows, ghosts, TypeOK, RowsWritten, ReadsEarned, QuarantineEarned
<1>. QED
  BY <1>1, <1>2, <1>3, <1>4, <1>5, <1>6

\* The choice of the next row preserves the inductive invariant.
LEMMA DeliverStep ==
    ASSUME IInv, NEW r \in Relays, Deliver(r)
    PROVE  IInv'
<1>. USE Bounds DEF IInv
<1>1. TypeOK'
  BY DEF Deliver, rows, ghosts, Oldest, TypeOK
<1>2. RowsWritten'
  BY DEF Deliver, rows, ghosts, Oldest, TypeOK, RowsWritten
<1>3. PrefixSeen'
  BY DEF Deliver, rows, ghosts, Oldest, TypeOK, RowsWritten, PrefixSeen, Handlers
<1>4. ReadsEarned'
  BY DEF Deliver, rows, ghosts, Oldest, TypeOK, RowsWritten, ReadsEarned, QuarantineEarned
<1>5. AckedSeenByAll'
  BY DEF Deliver, rows, ghosts, Oldest, TypeOK, RowsWritten, PrefixSeen, AckedSeenByAll, Handlers
<1>6. QuarantineEarned'
  BY DEF Deliver, rows, ghosts, Oldest, TypeOK, RowsWritten, ReadsEarned, QuarantineEarned
<1>. QED
  BY <1>1, <1>2, <1>3, <1>4, <1>5, <1>6

\* A handler that settles preserves the inductive invariant.
LEMMA HandleStep ==
    ASSUME IInv, NEW r \in Relays, Handle(r)
    PROVE  IInv'
<1>. USE Bounds DEF IInv
<1>0. row[r] \in Messages
  BY DEF Handle, TypeOK, RowsWritten
<1>1. TypeOK'
  <2>1. at[r] \in Handlers /\ at[r] + 1 \in Nat \ {0}
    BY DEF Handle, TypeOK, Handlers
  <2>2. seen[row[r]] \cup {at[r]} \in SUBSET Handlers
    BY <1>0, <2>1 DEF TypeOK
  <2>3. seen' \in [Messages -> SUBSET Handlers]
    BY <1>0, <2>2 DEF Handle, TypeOK
  <2>4. at' \in [Relays -> Nat \ {0}]
    BY <2>1 DEF Handle, TypeOK
  <2>. QED
    BY <2>3, <2>4 DEF Handle, TypeOK, rows
<1>2. RowsWritten'
  BY DEF Handle, rows, ghosts, Handlers, TypeOK, RowsWritten
<1>3. PrefixSeen'
  <2>. SUFFICES ASSUME NEW s \in Relays, pc[s] = "publish"
               PROVE  /\ at'[s] <= Last + 1
                      /\ \A h \in Handlers : h < at'[s] => h \in seen'[row[s]]
    BY DEF Handle, PrefixSeen
  <2>1. row[s] \in Messages /\ seen[row[s]] \subseteq seen'[row[s]]
    BY <1>0 DEF Handle, TypeOK, RowsWritten
  <2>2. CASE s # r
    BY <2>1, <2>2 DEF Handle, TypeOK, PrefixSeen
  <2>3. CASE s = r
    <3>1. at'[r] = at[r] + 1 /\ at[r] <= Last /\ at[r] \in Nat
      BY DEF Handle, TypeOK
    <3>2. at[r] \in seen'[row[r]]
      BY <1>0 DEF Handle, TypeOK
    <3>3. \A h \in Handlers : h < at[r] => h \in seen'[row[r]]
      BY <2>1, <2>3 DEF PrefixSeen
    <3>. QED
      BY <2>3, <3>1, <3>2, <3>3 DEF Handlers
  <2>. QED
    BY <2>2, <2>3
<1>4. ReadsEarned'
  BY DEF Handle, rows, ghosts, Handlers, TypeOK, RowsWritten, ReadsEarned, QuarantineEarned
<1>5. AckedSeenByAll'
  <2>. SUFFICES ASSUME NEW m \in Messages, status[m] = "acked"
               PROVE  seen'[m] = Handlers
    BY DEF Handle, rows, ghosts, AckedSeenByAll
  <2>1. seen[m] = Handlers /\ seen[m] \subseteq seen'[m]
    BY <1>0 DEF Handle, TypeOK, AckedSeenByAll
  <2>2. seen'[m] \subseteq Handlers
    BY <1>1 DEF TypeOK
  <2>. QED
    BY <2>1, <2>2
<1>6. QuarantineEarned'
  BY DEF Handle, rows, ghosts, Handlers, TypeOK, RowsWritten, ReadsEarned, QuarantineEarned
<1>. QED
  BY <1>1, <1>2, <1>3, <1>4, <1>5, <1>6

\* A handler that throws preserves the inductive invariant.
LEMMA HandlerThrowsStep ==
    ASSUME IInv, NEW r \in Relays, HandlerThrows(r)
    PROVE  IInv'
<1>. USE Bounds DEF IInv
<1>0. row[r] \in Messages
  BY DEF HandlerThrows, TypeOK, RowsWritten
<1>1. TypeOK'
  <2>0. throws[row[r]] + 1 \in Nat
    BY <1>0 DEF TypeOK
  <2>1. throws' \in [Messages -> Nat]
    BY <1>0, <2>0 DEF HandlerThrows, TypeOK
  <2>2. pc' \in [Relays -> {"idle", "tenants", "rows", "publish", "fail"}]
    BY DEF HandlerThrows, TypeOK
  <2>. QED
    BY <2>1, <2>2 DEF HandlerThrows, TypeOK, rows
<1>2. RowsWritten'
  BY DEF HandlerThrows, rows, ghosts, TypeOK, RowsWritten
<1>3. PrefixSeen'
  BY DEF HandlerThrows, rows, ghosts, TypeOK, RowsWritten, PrefixSeen, Handlers
<1>4. ReadsEarned'
  <2>. SUFFICES ASSUME NEW s \in Relays
               PROVE  /\ \A m \in Messages : read[s][m] <= throws'[m]
                      /\ pc'[s] = "fail" => read[s][row[s]] + 1 <= throws'[row[s]]
    BY DEF HandlerThrows, ReadsEarned
  <2>1. \A m \in Messages : throws[m] \in Nat /\ throws'[m] \in Nat
                              /\ read[s][m] \in Nat /\ throws[m] <= throws'[m]
    BY <1>0, <1>1 DEF HandlerThrows, TypeOK
  <2>2. \A m \in Messages : read[s][m] <= throws'[m]
    <3>. TAKE m \in Messages
    <3>1. read[s][m] <= throws[m]
      BY DEF ReadsEarned
    <3>. QED
      BY <2>1, <3>1
  <2>3. ASSUME pc'[s] = "fail"
        PROVE  read[s][row[s]] + 1 <= throws'[row[s]]
    <3>1. CASE s = r
      <4>1. throws'[row[r]] = throws[row[r]] + 1 /\ read[r][row[r]] <= throws[row[r]]
        BY <1>0 DEF HandlerThrows, TypeOK, ReadsEarned
      <4>. QED
        BY <1>0, <2>1, <3>1, <4>1
    <3>2. CASE s # r
      <4>1. pc[s] = "fail"
        BY <2>3, <3>2 DEF HandlerThrows, TypeOK
      <4>2. row[s] \in Messages /\ read[s][row[s]] + 1 <= throws[row[s]]
        BY <4>1 DEF RowsWritten, ReadsEarned
      <4>. QED
        BY <2>1, <4>2
    <3>. QED
      BY <3>1, <3>2
  <2>. QED
    BY <2>2, <2>3
<1>5. AckedSeenByAll'
  BY DEF HandlerThrows, rows, ghosts, TypeOK, RowsWritten, PrefixSeen, AckedSeenByAll, Handlers
<1>6. QuarantineEarned'
  BY DEF HandlerThrows, rows, ghosts, TypeOK, RowsWritten, ReadsEarned, QuarantineEarned
<1>. QED
  BY <1>1, <1>2, <1>3, <1>4, <1>5, <1>6

\* The ack preserves the inductive invariant.
LEMMA AckStep ==
    ASSUME IInv, NEW r \in Relays, Ack(r)
    PROVE  IInv'
<1>. USE Bounds DEF IInv
<1>0. row[r] \in Messages
  BY DEF Ack, ghosts, TypeOK, RowsWritten
<1>1. TypeOK'
  BY DEF Ack, ghosts, NextRow, TypeOK, RowsWritten, Handlers
<1>2. RowsWritten'
  BY DEF Ack, ghosts, NextRow, TypeOK, RowsWritten
<1>3. PrefixSeen'
  BY DEF Ack, ghosts, NextRow, TypeOK, RowsWritten, PrefixSeen, Handlers
<1>4. ReadsEarned'
  BY DEF Ack, ghosts, NextRow, TypeOK, RowsWritten, ReadsEarned, QuarantineEarned
<1>5. AckedSeenByAll'
  <2>0. at[r] > Last /\ at[r] \in Nat
    BY DEF Ack, ghosts, TypeOK
  <2>a. \A h \in Handlers : h < at[r] => h \in seen[row[r]]
    BY DEF Ack, ghosts, PrefixSeen
  <2>b. \A h \in Handlers : h < at[r]
    BY <2>0 DEF Handlers
  <2>c. seen[row[r]] \subseteq Handlers
    BY <1>0 DEF TypeOK
  <2>1. seen[row[r]] = Handlers
    BY <2>a, <2>b, <2>c
  <2>. QED
    BY <1>0, <2>1 DEF Ack, ghosts, TypeOK, AckedSeenByAll
<1>6. QuarantineEarned'
  BY DEF Ack, ghosts, NextRow, TypeOK, RowsWritten, ReadsEarned, QuarantineEarned
<1>. QED
  BY <1>1, <1>2, <1>3, <1>4, <1>5, <1>6

\* The failure bookkeeping preserves the inductive invariant.
LEMMA MarkFailedStep ==
    ASSUME IInv, NEW r \in Relays, MarkFailed(r)
    PROVE  IInv'
<1>. USE Bounds DEF IInv
<1>0. row[r] \in Messages
  BY DEF MarkFailed, ghosts, TypeOK, RowsWritten
<1>1. TypeOK'
  <2>1. read[r][row[r]] + 1 \in Nat
    BY <1>0 DEF TypeOK
  <2>2. attempts' \in [Messages -> Nat]
    BY <1>0, <2>1 DEF MarkFailed, ghosts, TypeOK, rows
  <2>3. status' \in [Messages -> {"none", "pending", "quarantined", "acked"}]
    BY <1>0 DEF MarkFailed, ghosts, TypeOK, rows
  <2>4. due' \in [Messages -> BOOLEAN]
    <3>1. due \in [Messages -> BOOLEAN]
      BY DEF TypeOK
    <3>2. (read[r][row[r]] + 1 >= MaxAttempts) \in BOOLEAN
      BY <2>1
    <3>3. CASE status[row[r]] = "pending"
      BY <3>1, <3>2, <3>3, <1>0, Zenon DEF MarkFailed
    <3>4. CASE status[row[r]] # "pending"
      BY <3>1, <3>4 DEF MarkFailed, rows, ghosts
    <3>. QED
      BY <3>3, <3>4
  <2>5. pc' \in [Relays -> {"idle", "tenants", "rows", "publish", "fail"}]
        /\ row' \in [Relays -> Messages \cup {None}] /\ at' \in [Relays -> Nat \ {0}]
    BY DEF MarkFailed, NextRow, TypeOK
  <2>. QED
    BY <2>2, <2>3, <2>4, <2>5 DEF MarkFailed, ghosts, TypeOK
<1>2. RowsWritten'
  <2>1. \A m \in Messages : status'[m] = "none" <=> status[m] = "none"
    BY <1>0 DEF MarkFailed, ghosts, TypeOK, rows
  <2>2. \A m \in Messages : status[m] = "none" => attempts'[m] = attempts[m]
    BY <1>0 DEF MarkFailed, ghosts, TypeOK, rows
  <2>3. batch' = batch
    BY DEF MarkFailed
  <2>5. \A m \in Messages : status'[m] = "none" => attempts'[m] = 0
    BY <2>1, <2>2 DEF RowsWritten
  <2>6. ASSUME NEW s \in Relays
        PROVE  /\ pc'[s] \in {"publish", "fail"} => row'[s] \in Messages
               /\ row'[s] \in Messages => status'[row'[s]] # "none"
    <3>1. CASE s = r
      BY <3>1 DEF MarkFailed, NextRow, TypeOK
    <3>2. CASE s # r
      <4>1. row'[s] = row[s] /\ pc'[s] = pc[s]
        BY <3>2 DEF MarkFailed, NextRow, TypeOK
      <4>2. /\ pc[s] \in {"publish", "fail"} => row[s] \in Messages
            /\ row[s] \in Messages => status[row[s]] # "none"
        BY DEF RowsWritten
      <4>. QED
        BY <2>1, <4>1, <4>2
    <3>. QED
      BY <3>1, <3>2
  <2>7. ASSUME NEW s \in Relays, NEW m \in batch'[s]
        PROVE  status'[m] # "none"
    <3>1. m \in Messages /\ status[m] # "none"
      BY <2>3, <2>7 DEF TypeOK, RowsWritten
    <3>. QED
      BY <2>1, <3>1
  <2>. QED
    BY <2>5, <2>6, <2>7 DEF RowsWritten
<1>3. PrefixSeen'
  BY DEF MarkFailed, NextRow, rows, ghosts, TypeOK, RowsWritten, PrefixSeen, Handlers
<1>4. ReadsEarned'
  BY DEF MarkFailed, NextRow, rows, ghosts, TypeOK, RowsWritten, ReadsEarned, QuarantineEarned
<1>5. AckedSeenByAll'
  BY DEF MarkFailed, NextRow, rows, ghosts, TypeOK, RowsWritten, PrefixSeen, AckedSeenByAll, Handlers
<1>6. QuarantineEarned'
  BY DEF MarkFailed, NextRow, rows, ghosts, TypeOK, RowsWritten, ReadsEarned, QuarantineEarned
<1>. QED
  BY <1>1, <1>2, <1>3, <1>4, <1>5, <1>6

\* The end of a cycle preserves the inductive invariant.
LEMMA FinishStep ==
    ASSUME IInv, NEW r \in Relays, Finish(r)
    PROVE  IInv'
<1>. USE Bounds DEF IInv
<1>1. TypeOK'
  BY DEF Finish, Rest, Unread, Unlock, rows, ghosts, TypeOK
<1>2. RowsWritten'
  BY DEF Finish, Rest, Unread, Unlock, rows, ghosts, TypeOK, RowsWritten
<1>3. PrefixSeen'
  BY DEF Finish, Rest, Unread, Unlock, rows, ghosts, TypeOK, RowsWritten, PrefixSeen, Handlers
<1>4. ReadsEarned'
  BY DEF Finish, Rest, Unread, Unlock, rows, ghosts, TypeOK, RowsWritten, ReadsEarned, QuarantineEarned
<1>5. AckedSeenByAll'
  BY DEF Finish, Rest, Unread, Unlock, rows, ghosts, TypeOK, RowsWritten, PrefixSeen, AckedSeenByAll, Handlers
<1>6. QuarantineEarned'
  BY DEF Finish, Rest, Unread, Unlock, rows, ghosts, TypeOK, RowsWritten, ReadsEarned, QuarantineEarned
<1>. QED
  BY <1>1, <1>2, <1>3, <1>4, <1>5, <1>6

\* A failed row write preserves the inductive invariant.
LEMMA RowWriteFailsStep ==
    ASSUME IInv, NEW r \in Relays, RowWriteFails(r)
    PROVE  IInv'
<1>. USE Bounds DEF IInv
<1>1. TypeOK'
  BY DEF RowWriteFails, NextRow, rows, ghosts, Fault, TypeOK
<1>2. RowsWritten'
  BY DEF RowWriteFails, NextRow, rows, ghosts, Fault, TypeOK, RowsWritten
<1>3. PrefixSeen'
  BY DEF RowWriteFails, NextRow, rows, ghosts, Fault, TypeOK, RowsWritten, PrefixSeen, Handlers
<1>4. ReadsEarned'
  BY DEF RowWriteFails, NextRow, rows, ghosts, Fault, TypeOK, RowsWritten, ReadsEarned, QuarantineEarned
<1>5. AckedSeenByAll'
  BY DEF RowWriteFails, NextRow, rows, ghosts, Fault, TypeOK, RowsWritten, PrefixSeen, AckedSeenByAll, Handlers
<1>6. QuarantineEarned'
  BY DEF RowWriteFails, NextRow, rows, ghosts, Fault, TypeOK, RowsWritten, ReadsEarned, QuarantineEarned
<1>. QED
  BY <1>1, <1>2, <1>3, <1>4, <1>5, <1>6

\* A skipped tenant preserves the inductive invariant.
LEMMA TenantFailsStep ==
    ASSUME IInv, NEW r \in Relays, TenantFails(r)
    PROVE  IInv'
<1>. USE Bounds DEF IInv
<1>1. TypeOK'
  BY DEF TenantFails, rows, ghosts, Oldest, Fault, TypeOK
<1>2. RowsWritten'
  BY DEF TenantFails, rows, ghosts, Oldest, Fault, TypeOK, RowsWritten
<1>3. PrefixSeen'
  BY DEF TenantFails, rows, ghosts, Oldest, Fault, TypeOK, RowsWritten, PrefixSeen, Handlers
<1>4. ReadsEarned'
  BY DEF TenantFails, rows, ghosts, Oldest, Fault, TypeOK, RowsWritten, ReadsEarned, QuarantineEarned
<1>5. AckedSeenByAll'
  BY DEF TenantFails, rows, ghosts, Oldest, Fault, TypeOK, RowsWritten, PrefixSeen, AckedSeenByAll, Handlers
<1>6. QuarantineEarned'
  BY DEF TenantFails, rows, ghosts, Oldest, Fault, TypeOK, RowsWritten, ReadsEarned, QuarantineEarned
<1>. QED
  BY <1>1, <1>2, <1>3, <1>4, <1>5, <1>6

\* A crash preserves the inductive invariant.
LEMMA CrashStep ==
    ASSUME IInv, NEW r \in Relays, Crash(r)
    PROVE  IInv'
<1>. USE Bounds DEF IInv
<1>1. TypeOK'
  BY DEF Crash, Rest, Unread, Unlock, rows, ghosts, Fault, TypeOK
<1>2. RowsWritten'
  BY DEF Crash, Rest, Unread, Unlock, rows, ghosts, Fault, TypeOK, RowsWritten
<1>3. PrefixSeen'
  BY DEF Crash, Rest, Unread, Unlock, rows, ghosts, Fault, TypeOK, RowsWritten, PrefixSeen, Handlers
<1>4. ReadsEarned'
  BY DEF Crash, Rest, Unread, Unlock, rows, ghosts, Fault, TypeOK, RowsWritten, ReadsEarned, QuarantineEarned
<1>5. AckedSeenByAll'
  BY DEF Crash, Rest, Unread, Unlock, rows, ghosts, Fault, TypeOK, RowsWritten, PrefixSeen, AckedSeenByAll, Handlers
<1>6. QuarantineEarned'
  BY DEF Crash, Rest, Unread, Unlock, rows, ghosts, Fault, TypeOK, RowsWritten, ReadsEarned, QuarantineEarned
<1>. QED
  BY <1>1, <1>2, <1>3, <1>4, <1>5, <1>6

\* A lost session preserves the inductive invariant.
LEMMA SessionLostStep ==
    ASSUME IInv, NEW r \in Relays, SessionLost(r)
    PROVE  IInv'
<1>. USE Bounds DEF IInv
<1>1. TypeOK'
  BY DEF SessionLost, rows, ghosts, cycle, Fault, TypeOK
<1>2. RowsWritten'
  BY DEF SessionLost, rows, ghosts, cycle, Fault, TypeOK, RowsWritten
<1>3. PrefixSeen'
  BY DEF SessionLost, rows, ghosts, cycle, Fault, TypeOK, RowsWritten, PrefixSeen, Handlers
<1>4. ReadsEarned'
  BY DEF SessionLost, rows, ghosts, cycle, Fault, TypeOK, RowsWritten, ReadsEarned, QuarantineEarned
<1>5. AckedSeenByAll'
  BY DEF SessionLost, rows, ghosts, cycle, Fault, TypeOK, RowsWritten, PrefixSeen, AckedSeenByAll, Handlers
<1>6. QuarantineEarned'
  BY DEF SessionLost, rows, ghosts, cycle, Fault, TypeOK, RowsWritten, ReadsEarned, QuarantineEarned
<1>. QED
  BY <1>1, <1>2, <1>3, <1>4, <1>5, <1>6

\* Every step preserves the inductive invariant.
LEMMA NextIInv == IInv /\ [Next]_vars => IInv'
<1>. SUFFICES ASSUME IInv, [Next]_vars
              PROVE  IInv'
  OBVIOUS
<1>1. CASE UNCHANGED vars
  BY <1>1 DEF vars, rows, ghosts, cycle, IInv, TypeOK, RowsWritten, PrefixSeen, ReadsEarned,
     AckedSeenByAll, QuarantineEarned
<1>2. CASE \E m \in Messages : Append(m) \/ Replay(m) \/ BackoffElapses(m)
  BY <1>2, AppendStep, ReplayStep, BackoffElapsesStep
<1>3. CASE \E r \in Relays : Step(r)
  BY <1>3, DiscoverStep, NextTenantStep, TenantDoneStep, DeliverStep, HandleStep,
     HandlerThrowsStep, AckStep, MarkFailedStep, FinishStep DEF Step
<1>4. CASE \E r \in Relays : Failure(r)
  BY <1>4, RowWriteFailsStep, TenantFailsStep, CrashStep, SessionLostStep DEF Failure
<1>. QED
  BY <1>1, <1>2, <1>3, <1>4 DEF Next

\* The inductive invariant holds throughout.
LEMMA Inductive == Spec => []IInv
BY InitIInv, NextIInv, PTL DEF Spec

-----------------------------------------------------------------------------
\* An acked row was seen by every handler: deliver acks only what it has itself
\* published to the last handler.
THEOREM AckedCorrect == Spec => []AckedSeenByAll
<1>1. IInv => AckedSeenByAll
  BY DEF IInv
<1>. QED
  BY Inductive, <1>1, PTL

\* The retry budget: markFailed never spends a failure that did not happen,
\* even over attempts it read before another cycle wrote the row.
THEOREM QuarantineCorrect == Spec => []QuarantineEarned
<1>1. IInv => QuarantineEarned
  BY DEF IInv
<1>. QED
  BY Inductive, <1>1, PTL

-----------------------------------------------------------------------------
\* A relay, crash or replay step is a step of the delivery the publishers and
\* subscribers see, or none of its business.
LEMMA StepImplements == IInv /\ [Next]_vars => [Delivery!Next]_<<Stage, seen>>
<1>. SUFFICES ASSUME IInv, [Next]_vars
              PROVE  [Delivery!Next]_<<Stage, seen>>
  OBVIOUS
<1>. USE Bounds DEF IInv
<1>1. ASSUME UNCHANGED <<status, seen>>
      PROVE  UNCHANGED <<Stage, seen>>
  BY <1>1 DEF Stage
<1>2. CASE UNCHANGED vars
  BY <1>1, <1>2 DEF vars, rows, ghosts
<1>3. ASSUME NEW m \in Messages, Append(m)
      PROVE  Delivery!Emit(m)
  BY <1>3 DEF Append, ghosts, Delivery!Emit, Stage, TypeOK, cycle
<1>4. ASSUME NEW m \in Messages, Replay(m)
      PROVE  Delivery!Unpark(m)
  BY <1>4 DEF Replay, ghosts, Delivery!Unpark, Stage, TypeOK
<1>5. ASSUME NEW m \in Messages, BackoffElapses(m)
      PROVE  UNCHANGED <<Stage, seen>>
  BY <1>1, <1>5 DEF BackoffElapses, ghosts
<1>6. ASSUME NEW r \in Relays, Handle(r)
      PROVE  row[r] \in Messages /\ at[r] \in Handlers /\ Delivery!See(row[r], at[r])
  <2>1. row[r] \in Messages /\ at[r] \in Handlers /\ status[row[r]] # "none"
    BY <1>6 DEF Handle, TypeOK, RowsWritten, Handlers
  <2>2. Stage[row[r]] # "none" /\ UNCHANGED Stage
    BY <1>6, <2>1 DEF Handle, Stage, TypeOK, rows
  <2>. QED
    BY <1>6, <2>1, <2>2 DEF Handle, Delivery!See
<1>7. ASSUME NEW r \in Relays, Ack(r)
      PROVE  row[r] \in Messages
             /\ (Delivery!Settle(row[r]) \/ UNCHANGED <<Stage, seen>>)
  <2>1. row[r] \in Messages /\ seen' = seen
    BY <1>7 DEF Ack, ghosts, RowsWritten
  <2>2. CASE status[row[r]] # "pending"
    BY <1>1, <1>7, <2>1, <2>2 DEF Ack
  <2>3. CASE status[row[r]] = "pending"
    <3>1. status' = [status EXCEPT ![row[r]] = "acked"]
      BY <1>7, <2>3 DEF Ack
    <3>2. Stage[row[r]] = "open" /\ Stage' = [Stage EXCEPT ![row[r]] = "settled"]
      BY <2>1, <2>3, <3>1, ZenonT(60) DEF Stage, TypeOK
    <3>3. seen'[row[r]] = Handlers
      <4>1. AckedSeenByAll'
        BY <1>7, AckStep
      <4>2. status'[row[r]] = "acked"
        BY <2>1, <3>1 DEF TypeOK
      <4>. QED
        BY <2>1, <4>1, <4>2 DEF AckedSeenByAll
    <3>. QED
      BY <2>1, <3>2, <3>3 DEF Delivery!Settle
  <2>. QED
    BY <2>1, <2>2, <2>3
<1>8. ASSUME NEW r \in Relays, MarkFailed(r)
      PROVE  row[r] \in Messages
             /\ (Delivery!Park(row[r]) \/ UNCHANGED <<Stage, seen>>)
  <2>1. row[r] \in Messages /\ seen' = seen
    BY <1>8 DEF MarkFailed, ghosts, RowsWritten
  <2>2. CASE status' = status
    BY <1>1, <2>1, <2>2
  <2>3. CASE status' # status
    <3>1. status[row[r]] = "pending"
          /\ status' = [status EXCEPT ![row[r]] = "quarantined"]
      BY <1>8, <2>1, <2>3 DEF MarkFailed, rows, ghosts, TypeOK
    <3>2. Stage[row[r]] = "open" /\ Stage' = [Stage EXCEPT ![row[r]] = "parked"]
      BY <2>1, <3>1, ZenonT(60) DEF Stage, TypeOK
    <3>. QED
      BY <2>1, <3>2 DEF Delivery!Park
  <2>. QED
    BY <2>1, <2>2, <2>3
<1>9. ASSUME NEW r \in Relays,
             \/ Discover(r) \/ NextTenant(r) \/ TenantDone(r) \/ Deliver(r)
             \/ HandlerThrows(r) \/ Finish(r) \/ Failure(r)
      PROVE  UNCHANGED <<status, seen>>
  BY <1>9 DEF Discover, ghosts, NextTenant, TenantDone, Deliver, HandlerThrows, Finish,
     Failure, RowWriteFails, TenantFails, Crash, SessionLost, rows
<1>10. CASE \E m \in Messages : Append(m) \/ Replay(m) \/ BackoffElapses(m)
  BY <1>3, <1>4, <1>5, <1>10 DEF Delivery!Next
<1>11. CASE \E r \in Relays : Step(r) \/ Failure(r)
  BY <1>1, <1>6, <1>7, <1>8, <1>9, <1>11 DEF Step, Delivery!Next
<1>. QED
  BY <1>2, <1>10, <1>11 DEF Next

\* The outbox implements EventDelivery: an event is settled only once every
\* handler has seen it, a parked event settles only after a replay, and a
\* settled event is never opened again.
THEOREM DeliveryImplemented == Spec => ImplementsDelivery
<1>1. Init => Delivery!Init
  BY DEF Init, Delivery!Init, Stage
<1>. QED
  BY Inductive, StepImplements, <1>1, PTL DEF Spec, ImplementsDelivery, Delivery!Spec


-----------------------------------------------------------------------------
(* What a message's publishes cost.  A relay that works without the lock     *)
(* owes for every message it may still publish, and the lock's holder for    *)
(* one that is no longer pending; a fault, a failed publish and the ack pay. *)

Bit(b) == IF b THEN 1 ELSE 0

Holds(r, m) == m \in batch[r] \/ row[r] = m
Unwalked(r, m) == \E n \in tenants[r] : TenantOf[n] = TenantOf[m]
Publishing(r, m) == pc[r] = "publish" /\ row[r] = m

Owes(r, m) ==
    /\ ~ Publishing(r, m)
    /\ \/ r = lock /\ Holds(r, m) /\ status[m] # "pending"
       \/ r # lock /\ (Holds(r, m) \/ Unwalked(r, m))
Owing(m) == {r \in Relays : Owes(r, m)}

\* The holder is publishing a row that is still pending: its ack will pay.
Covers(r, m) == r = lock /\ Publishing(r, m) /\ status[m] = "pending"
Covered(m) == \E r \in Relays : Covers(r, m)

Payments(m) == throws[m] + faults + Bit(status[m] = "acked")

Account(m) == publishes[m] + Cardinality(Owing(m)) <= Payments(m) + Bit(Covered(m))

\* A cycle walks a tenant once: the rows it holds are of a tenant it has left
\* the list, and each row it takes out of the batch is gone from it.
Walk(r) ==
    /\ pc[r] = "idle" => tenants[r] = {} /\ lock # r
    /\ pc[r] \in {"idle", "tenants"} => batch[r] = {}
    /\ pc[r] \in {"idle", "tenants", "rows"} => row[r] = None
    /\ row[r] \notin batch[r]
    /\ \A m \in Messages : Holds(r, m) => ~ Unwalked(r, m)
    /\ \A m, n \in tenants[r] : TenantOf[m] = TenantOf[n] => m = n

Accounts == (\A r \in Relays : Walk(r)) /\ (\A m \in Messages : Account(m))

\* A step of relay r leaves the other relays, and who of them has the lock.
Alone(r) ==
    \A q \in Relays \ {r} :
        /\ pc'[q] = pc[q] /\ row'[q] = row[q] /\ batch'[q] = batch[q] /\ tenants'[q] = tenants[q]
        /\ q = lock' <=> q = lock

\* The other relays keep to their walk.
LEMMA WalkAlone ==
    ASSUME NEW r \in Relays, Alone(r), \A q \in Relays : Walk(q), Walk(r)'
    PROVE  \A q \in Relays : Walk(q)'
<1>1. ASSUME NEW q \in Relays, q # r
      PROVE  Walk(q)'
  BY <1>1 DEF Alone, Walk, Holds, Unwalked
<1> QED
  BY <1>1

\* The numbers of an account.
LEMMA AccountTypes ==
    ASSUME TypeOK, NEW m \in Messages
    PROVE  /\ publishes[m] \in Nat /\ throws[m] \in Nat /\ faults \in Nat
           /\ IsFiniteSet(Owing(m)) /\ Cardinality(Owing(m)) \in Nat
<1>1. Owing(m) \subseteq Relays
  BY DEF Owing
<1>2. IsFiniteSet(Owing(m))
  BY <1>1, OutboxAssumption, FS_Subset
<1> QED
  BY <1>2, FS_CardinalityType DEF TypeOK

\* Sets that differ in one relay at most.
LEMMA MoveOne ==
    ASSUME NEW A, NEW B, NEW r, IsFiniteSet(A), IsFiniteSet(B), A \ {r} = B \ {r}
    PROVE  Cardinality(B) = Cardinality(A) - Bit(r \in A) + Bit(r \in B)
<1>1. /\ Cardinality(A) \in Nat /\ Cardinality(B) \in Nat
  BY FS_CardinalityType
<1>2. Cardinality(A \ {r}) = IF r \in A THEN Cardinality(A) - 1 ELSE Cardinality(A)
  BY FS_RemoveElement
<1>3. Cardinality(B \ {r}) = IF r \in B THEN Cardinality(B) - 1 ELSE Cardinality(B)
  BY FS_RemoveElement
<1> QED
  BY <1>1, <1>2, <1>3 DEF Bit

\* A relay's step balances the account when it balances its own part, unless
\* it settles a row that another relay, with the lock, still has in hand.
LEMMA AccountAlone ==
    ASSUME TypeOK, TypeOK', NEW r \in Relays, Alone(r), NEW m \in Messages, Account(m),
           \/ status'[m] = status[m]
           \/ lock \notin Relays \ {r},
           publishes'[m] + Bit(Owes(r, m)') + Bit(Covers(r, m)) + Payments(m)
              <= publishes[m] + Bit(Owes(r, m)) + Bit(Covers(r, m)') + Payments(m)'
    PROVE  Account(m)'
<1>1. /\ publishes[m] \in Nat /\ throws[m] \in Nat /\ faults \in Nat
      /\ IsFiniteSet(Owing(m)) /\ Cardinality(Owing(m)) \in Nat
  BY AccountTypes
<1>2. /\ publishes'[m] \in Nat /\ throws'[m] \in Nat /\ faults' \in Nat
      /\ IsFiniteSet(Owing(m)') /\ Cardinality(Owing(m)') \in Nat
  <2>1. Owing(m)' \subseteq Relays
    BY DEF Owing
  <2>2. IsFiniteSet(Owing(m)')
    BY <2>1, OutboxAssumption, FS_Subset
  <2> QED
    BY <2>2, FS_CardinalityType DEF TypeOK
<1>3. ASSUME NEW q \in Relays, q # r
      PROVE  (Owes(q, m)' <=> Owes(q, m)) /\ (Covers(q, m)' <=> Covers(q, m))
  BY <1>3 DEF Alone, Owes, Covers, Holds, Unwalked, Publishing
<1>4. Owing(m) \ {r} = Owing(m)' \ {r}
  BY <1>3 DEF Owing
<1>5. (r \in Owing(m) <=> Owes(r, m)) /\ (r \in Owing(m)' <=> Owes(r, m)')
  BY DEF Owing
<1>6. Cardinality(Owing(m)') = Cardinality(Owing(m)) - Bit(Owes(r, m)) + Bit(Owes(r, m)')
  BY <1>1, <1>2, <1>4, <1>5, MoveOne DEF Bit
<1>7. Bit(Covered(m)') - Bit(Covered(m)) = Bit(Covers(r, m)') - Bit(Covers(r, m))
  <2>1. CASE \E q \in Relays \ {r} : Covers(q, m)
    <3>1. PICK q \in Relays \ {r} : Covers(q, m)
      BY <2>1
    <3>2. q = lock /\ q = lock'
      BY <3>1 DEF Covers, Alone
    <3>3. ~ Covers(r, m) /\ ~ Covers(r, m)'
      BY <3>2 DEF Covers
    <3>4. Covered(m) /\ Covered(m)'
      BY <1>3, <3>1 DEF Covered
    <3> QED
      BY <3>3, <3>4 DEF Bit
  <2>2. CASE ~ \E q \in Relays \ {r} : Covers(q, m)
    <3>1. (Covered(m) <=> Covers(r, m)) /\ (Covered(m)' <=> Covers(r, m)')
      BY <1>3, <2>2 DEF Covered
    <3> QED
      BY <3>1 DEF Bit
  <2> QED
    BY <2>1, <2>2
<1>8. /\ Bit(Covered(m)) \in Nat /\ Bit(Covered(m)') \in Nat
      /\ Bit(Covers(r, m)) \in Nat /\ Bit(Covers(r, m)') \in Nat
      /\ Bit(Owes(r, m)) \in Nat /\ Bit(Owes(r, m)') \in Nat
      /\ Payments(m) \in Nat /\ Payments(m)' \in Nat
  BY <1>1, <1>2 DEF Bit, Payments
<1> QED
  BY <1>1, <1>2, <1>6, <1>7, <1>8 DEF Account


\* A relay's step from which the accounts follow.
LEMMA AccountsKept ==
    ASSUME TypeOK, TypeOK', Accounts, NEW r \in Relays, Alone(r), Walk(r)',
           status' = status,
           \A m \in Messages :
              publishes'[m] + Bit(Owes(r, m)') + Bit(Covers(r, m)) + Payments(m)
                 <= publishes[m] + Bit(Owes(r, m)) + Bit(Covers(r, m)') + Payments(m)'
    PROVE  Accounts'
<1>1. \A q \in Relays : Walk(q)'
  BY WalkAlone DEF Accounts
<1>2. ASSUME NEW m \in Messages
      PROVE  Account(m)'
  BY <1>2, AccountAlone DEF Accounts
<1> QED
  BY <1>1, <1>2 DEF Accounts

\* A step that publishes nothing, and by which the relay owes no more and still
\* covers what it covered, balances.
LEMMA Quiet ==
    ASSUME TypeOK, TypeOK', NEW r \in Relays, NEW m \in Messages,
           publishes'[m] = publishes[m], throws'[m] = throws[m],
           faults' = faults, status'[m] = status[m],
           Owes(r, m)' => Owes(r, m), Covers(r, m) => Covers(r, m)'
    PROVE  publishes'[m] + Bit(Owes(r, m)') + Bit(Covers(r, m)) + Payments(m)
              <= publishes[m] + Bit(Owes(r, m)) + Bit(Covers(r, m)') + Payments(m)'
<1>1. publishes[m] \in Nat /\ throws[m] \in Nat /\ faults \in Nat
  BY DEF TypeOK
<1> QED
  BY <1>1 DEF Bit, Payments

\* Taking the lock and discovering tenants balances.
LEMMA DiscoverAccounts ==
    ASSUME TypeOK, TypeOK', Accounts, NEW r \in Relays, Discover(r)
    PROVE  Accounts'
<1>1. /\ pc[r] = "idle" /\ lock = None /\ lock' = r /\ pc'[r] = "tenants"
      /\ tenants[r] = {} /\ batch[r] = {} /\ row[r] = None
      /\ UNCHANGED <<batch, row, status, publishes, throws, faults>>
      /\ tenants'[r] = {m \in Due : \A n \in Due : TenantOf[n] = TenantOf[m] => m <= n}
      /\ \A q \in Relays \ {r} : pc'[q] = pc[q] /\ tenants'[q] = tenants[q]
  BY DEF Discover, TypeOK, Accounts, Walk, rows, ghosts
<1>2. Alone(r)
  BY <1>1, Bounds DEF Alone
<1>3. \A m \in Due : m \in Int
  <2>1. \A m \in Messages : m \in Nat
    BY OutboxAssumption
  <2> QED
    BY <2>1 DEF Due
<1>4. ASSUME NEW m \in tenants'[r], NEW n \in tenants'[r], TenantOf[m] = TenantOf[n]
      PROVE  m = n
  <2>1. m \in Int /\ n \in Int /\ m <= n /\ n <= m
    BY <1>1, <1>3, <1>4
  <2> QED
    BY <2>1
<1>5. \A m \in Messages : ~ Holds(r, m)'
  BY <1>1, Bounds DEF Holds
<1>6. Walk(r)'
  BY <1>1, <1>4, <1>5 DEF Walk
<1>7. ASSUME NEW m \in Messages
      PROVE  ~ Owes(r, m)' /\ ~ Covers(r, m)
  BY <1>1, <1>5, <1>7 DEF Owes, Covers, Publishing
<1> QED
  BY <1>1, <1>2, <1>6, <1>7, AccountsKept, Quiet

\* Reading a tenant's batch balances: what a relay without the lock now holds
\* it still had to walk.
LEMMA NextTenantAccounts ==
    ASSUME TypeOK, TypeOK', Accounts, NEW r \in Relays, NextTenant(r)
    PROVE  Accounts'
<1>1. PICK first \in Messages :
          /\ first \in tenants[r]
          /\ tenants' = [tenants EXCEPT ![r] = @ \ {first}]
          /\ batch' = [batch EXCEPT ![r] =
                 First({m \in Due : TenantOf[m] = TenantOf[first]}, Limit - published[r])]
  BY DEF NextTenant, Oldest
<1>2. /\ tenants'[r] = tenants[r] \ {first} /\ tenants[r] \subseteq Messages
      /\ \A m \in batch'[r] : m \in Messages /\ status[m] = "pending" /\ TenantOf[m] = TenantOf[first]
      /\ \A q \in Relays \ {r} : batch'[q] = batch[q] /\ tenants'[q] = tenants[q]
  BY <1>1 DEF First, Due, TypeOK
<1>3. /\ pc[r] = "tenants" /\ pc'[r] = "rows" /\ batch[r] = {} /\ row[r] = None
      /\ UNCHANGED <<row, lock, status, publishes, throws, faults>>
      /\ \A q \in Relays \ {r} : pc'[q] = pc[q]
  BY DEF NextTenant, TypeOK, Accounts, Walk, rows, ghosts
<1>4. Alone(r)
  BY <1>2, <1>3 DEF Alone
<1>5. \A m, n \in tenants[r] : TenantOf[m] = TenantOf[n] => m = n
  BY DEF Accounts, Walk
<1>6. \A m \in Messages : Holds(r, m)' => m \in batch'[r]
  BY <1>3, Bounds DEF Holds
<1>7. \A m \in Messages : Holds(r, m)' => ~ Unwalked(r, m)'
  BY <1>1, <1>2, <1>5, <1>6 DEF Unwalked
<1>8. Walk(r)'
  BY <1>2, <1>3, <1>5, <1>7, Bounds DEF Walk
<1>9. ASSUME NEW m \in Messages
      PROVE  (Owes(r, m)' => Owes(r, m)) /\ ~ Covers(r, m)
  <2>1. Unwalked(r, m)' => Unwalked(r, m)
    BY <1>2 DEF Unwalked
  <2>2. Holds(r, m)' => Unwalked(r, m) /\ status[m] = "pending"
    BY <1>1, <1>2, <1>6 DEF Unwalked
  <2> QED
    BY <1>3, <2>1, <2>2 DEF Owes, Covers, Publishing
<1> QED
  BY <1>3, <1>4, <1>8, <1>9, AccountsKept, Quiet

\* The end of a batch balances.
LEMMA TenantDoneAccounts ==
    ASSUME TypeOK, TypeOK', Accounts, NEW r \in Relays, TenantDone(r)
    PROVE  Accounts'
<1>1. /\ pc[r] = "rows" /\ pc'[r] = "tenants" /\ batch[r] = {}
      /\ UNCHANGED <<row, batch, tenants, lock, status, publishes, throws, faults>>
      /\ \A q \in Relays \ {r} : pc'[q] = pc[q]
  BY DEF TenantDone, TypeOK, rows, ghosts
<1>2. Walk(r) /\ Alone(r)
  BY <1>1 DEF Accounts, Alone
<1>3. Walk(r)'
  BY <1>1, <1>2 DEF Walk, Holds, Unwalked
<1>4. ASSUME NEW m \in Messages
      PROVE  (Owes(r, m)' => Owes(r, m)) /\ ~ Covers(r, m)
  BY <1>1 DEF Owes, Covers, Publishing, Holds, Unwalked
<1> QED
  BY <1>1, <1>2, <1>3, <1>4, AccountsKept, Quiet

\* A publish begun balances: the relay owed for it, or its ack will pay.
LEMMA DeliverAccounts ==
    ASSUME TypeOK, TypeOK', Accounts, NEW r \in Relays, Deliver(r)
    PROVE  Accounts'
<1>1. PICK m0 \in Messages : m0 \in batch[r] /\ row' = [row EXCEPT ![r] = m0]
                              /\ batch' = [batch EXCEPT ![r] = @ \ {m0}]
  BY DEF Deliver, Oldest
<1>2. /\ pc[r] = "rows" /\ pc'[r] = "publish" /\ row[r] = None
      /\ UNCHANGED <<tenants, lock, status, throws, faults>>
      /\ \A q \in Relays \ {r} : pc'[q] = pc[q]
  BY DEF Deliver, TypeOK, Accounts, Walk, rows, ghosts
<1>3. /\ row'[r] = m0 /\ batch'[r] = batch[r] \ {m0}
      /\ \A q \in Relays \ {r} : batch'[q] = batch[q] /\ row'[q] = row[q]
  BY <1>1 DEF TypeOK
<1>4. /\ publishes'[m0] = publishes[m0] + 1
      /\ \A m \in Messages \ {m0} : publishes'[m] = publishes[m]
  BY <1>3 DEF Deliver, TypeOK
<1>5. Alone(r)
  BY <1>2, <1>3 DEF Alone
<1>6. Walk(r)
  BY DEF Accounts
<1>7. \A m \in Messages : Holds(r, m)' => Holds(r, m)
  BY <1>1, <1>3 DEF Holds
<1>8. Walk(r)'
  BY <1>2, <1>3, <1>6, <1>7 DEF Walk, Unwalked
<1>9. ASSUME NEW m \in Messages
      PROVE  publishes'[m] + Bit(Owes(r, m)') + Bit(Covers(r, m)) + Payments(m)
                <= publishes[m] + Bit(Owes(r, m)) + Bit(Covers(r, m)') + Payments(m)'
  <2>1. ~ Covers(r, m)
    BY <1>2 DEF Covers, Publishing
  <2>2. CASE m # m0
    <3>1. Owes(r, m)' => Owes(r, m)
      BY <1>2, <1>3, <1>7, <2>2 DEF Owes, Publishing, Unwalked
    <3> QED
      BY <1>2, <1>4, <2>1, <2>2, <3>1, Quiet
  <2>3. CASE m = m0
    <3>1. ~ Owes(r, m)'
      BY <1>2, <1>3, <2>3 DEF Owes, Publishing
    <3>2. Owes(r, m) \/ Covers(r, m)'
      BY <1>1, <1>2, <1>3, <2>3 DEF Owes, Covers, Publishing, Holds
    <3>3. Payments(m)' = Payments(m)
      BY <1>2 DEF Payments
    <3>4. publishes[m] \in Nat /\ Payments(m) \in Nat
      BY DEF TypeOK, Payments, Bit
    <3> QED
      BY <1>4, <2>1, <2>3, <3>1, <3>2, <3>3, <3>4 DEF Bit
  <2> QED
    BY <2>2, <2>3
<1> QED
  BY <1>2, <1>5, <1>8, <1>9, AccountsKept


\* A handler that settles balances.
LEMMA HandleAccounts ==
    ASSUME TypeOK, TypeOK', Accounts, NEW r \in Relays, Handle(r)
    PROVE  Accounts'
<1>1. UNCHANGED <<pc, row, batch, tenants, lock, status, publishes, throws, faults>>
  BY DEF Handle, rows
<1>2. Walk(r) /\ Alone(r)
  BY <1>1 DEF Accounts, Alone
<1>3. Walk(r)'
  BY <1>1, <1>2 DEF Walk, Holds, Unwalked
<1>4. ASSUME NEW m \in Messages
      PROVE  (Owes(r, m)' => Owes(r, m)) /\ (Covers(r, m) => Covers(r, m)')
  BY <1>1 DEF Owes, Covers, Publishing, Holds, Unwalked
<1> QED
  BY <1>1, <1>2, <1>3, <1>4, AccountsKept, Quiet

\* A handler that throws balances: the failed publish pays for the next.
LEMMA HandlerThrowsAccounts ==
    ASSUME IInv, TypeOK', Accounts, NEW r \in Relays, HandlerThrows(r)
    PROVE  Accounts'
<1>0. TypeOK
  BY DEF IInv
<1>1. /\ pc[r] = "publish" /\ pc'[r] = "fail" /\ row[r] \in Messages
      /\ UNCHANGED <<row, batch, tenants, lock, status, publishes, faults>>
      /\ \A q \in Relays \ {r} : pc'[q] = pc[q]
  BY <1>0 DEF HandlerThrows, TypeOK, IInv, RowsWritten, rows
<1>2. /\ throws'[row[r]] = throws[row[r]] + 1
      /\ \A m \in Messages : m # row[r] => throws'[m] = throws[m]
  BY <1>0, <1>1 DEF HandlerThrows, TypeOK
<1>3. Walk(r) /\ Alone(r)
  BY <1>1 DEF Accounts, Alone
<1>4. Walk(r)'
  BY <1>1, <1>3 DEF Walk, Holds, Unwalked
<1>5. ASSUME NEW m \in Messages
      PROVE  publishes'[m] + Bit(Owes(r, m)') + Bit(Covers(r, m)) + Payments(m)
                <= publishes[m] + Bit(Owes(r, m)) + Bit(Covers(r, m)') + Payments(m)'
  <2>1. CASE m # row[r]
    <3>1. (Owes(r, m)' => Owes(r, m)) /\ ~ Covers(r, m)
      BY <1>1, <2>1 DEF Owes, Covers, Publishing, Holds, Unwalked
    <3> QED
      BY <1>0, <1>1, <1>2, <2>1, <3>1, Quiet
  <2>2. CASE m = row[r]
    <3>1. ~ (Owes(r, m)' /\ Covers(r, m))
      BY <1>1 DEF Owes, Covers
    <3>a. throws'[m] = throws[m] + 1 /\ faults' = faults /\ status'[m] = status[m]
      BY <1>1, <1>2, <2>2
    <3>b. throws[m] \in Nat /\ faults \in Nat /\ publishes[m] \in Nat
      BY <1>0 DEF TypeOK
    <3>2. Payments(m)' = Payments(m) + 1 /\ Payments(m) \in Nat /\ publishes[m] \in Nat
      BY <3>a, <3>b DEF Payments, Bit
    <3> QED
      BY <1>1, <3>1, <3>2 DEF Bit
  <2> QED
    BY <2>1, <2>2
<1> QED
  BY <1>0, <1>1, <1>3, <1>4, <1>5, AccountsKept

\* The row is done with: the relay owes nothing for it any more, and for the
\* others what it owed.
LEMMA RowDone ==
    ASSUME IInv, Accounts, NEW r \in Relays, pc[r] \in {"publish", "fail"}, NextRow(r),
           UNCHANGED <<batch, tenants, lock>>
    PROVE  /\ row[r] \in Messages /\ Alone(r) /\ Walk(r)'
           /\ \A m \in Messages : m = row[r] => ~ Owes(r, m)'
           /\ \A m \in Messages : m # row[r] =>
                /\ status'[m] = status[m] => (Owes(r, m)' => Owes(r, m))
                /\ ~ Covers(r, m)
<1>1. /\ row[r] \in Messages /\ row'[r] = None /\ pc'[r] = "rows"
      /\ \A q \in Relays \ {r} : row'[q] = row[q] /\ pc'[q] = pc[q]
  BY DEF NextRow, IInv, TypeOK, RowsWritten
<1>2. Alone(r) /\ Walk(r)
  BY <1>1 DEF Alone, Accounts
<1>3. \A m \in Messages : Holds(r, m)' => Holds(r, m)
  BY <1>1, Bounds DEF Holds
<1>4. Walk(r)'
  <2>1. tenants'[r] = tenants[r] /\ batch'[r] = batch[r]
    OBVIOUS
  <2>2. None \notin batch[r]
    BY Bounds DEF IInv, TypeOK
  <2> QED
    BY <1>1, <1>2, <1>3, <2>1, <2>2 DEF Walk, Unwalked
<1>5. ASSUME NEW m \in Messages, m = row[r]
      PROVE  ~ Owes(r, m)'
  <2>1. Holds(r, m)
    BY <1>5 DEF Holds
  <2>2. m \notin batch[r] /\ ~ Unwalked(r, m)
    BY <1>2, <1>5, <2>1 DEF Walk
  <2>3. ~ Holds(r, m)'
    BY <1>1, <2>2, Bounds DEF Holds
  <2>4. ~ Unwalked(r, m)'
    BY <2>2 DEF Unwalked
  <2> QED
    BY <2>3, <2>4 DEF Owes
<1>6. ASSUME NEW m \in Messages, m # row[r]
      PROVE  /\ status'[m] = status[m] => (Owes(r, m)' => Owes(r, m))
             /\ ~ Covers(r, m)
  BY <1>1, <1>3, <1>6 DEF Owes, Covers, Publishing, Unwalked
<1> QED
  BY <1>1, <1>2, <1>4, <1>5, <1>6

\* A relay without the lock settles a row that the lock's holder may have in
\* hand.  If the holder is publishing it, its cover is gone; if not, it owes.
LEMMA AccountSettled ==
    ASSUME TypeOK, TypeOK', NEW r \in Relays, Alone(r), NEW m \in Messages, Account(m),
           lock \in Relays \ {r}, lock' = lock,
           status[m] = "pending", status'[m] # "pending", publishes'[m] = publishes[m],
           ~ Owes(r, m)', Payments(m) + 1 <= Payments(m)' + Bit(Owes(r, m))
    PROVE  Account(m)'
<1>1. /\ publishes[m] \in Nat /\ throws[m] \in Nat /\ faults \in Nat
      /\ IsFiniteSet(Owing(m)) /\ Cardinality(Owing(m)) \in Nat
  BY AccountTypes
<1>2. throws'[m] \in Nat /\ faults' \in Nat
  BY DEF TypeOK
<1>3. Payments(m) \in Nat /\ Payments(m)' \in Nat
  BY <1>1, <1>2 DEF Payments, Bit
<1>4. ~ Covered(m)'
  BY DEF Covered, Covers
<1>5. r \notin Owing(m)' /\ (r \in Owing(m) <=> Owes(r, m))
  BY DEF Owing
<1>6. /\ IsFiniteSet(Owing(m) \ {r})
      /\ Cardinality(Owing(m) \ {r}) = Cardinality(Owing(m)) - Bit(Owes(r, m))
      /\ Cardinality(Owing(m) \ {r}) \in Nat
  BY <1>1, <1>5, FS_RemoveElement, FS_CardinalityType DEF Bit
<1>7. ASSUME NEW q \in Relays, q # r, q # lock
      PROVE  Owes(q, m)' <=> Owes(q, m)
  BY <1>7 DEF Alone, Owes, Holds, Unwalked, Publishing
<1>8. Publishing(lock, m)' <=> Publishing(lock, m)
  BY DEF Alone, Publishing
<1>9. CASE Publishing(lock, m)
  <2>1. ~ Owes(lock, m) /\ ~ Owes(lock, m)'
    BY <1>8, <1>9 DEF Owes
  <2>2. Owing(m)' = Owing(m) \ {r}
    BY <1>5, <1>7, <2>1 DEF Owing
  <2> QED
    BY <1>1, <1>3, <1>4, <1>6, <2>2 DEF Account, Bit
<1>10. CASE ~ Publishing(lock, m)
  <2>1. ~ Covered(m)
    BY <1>10 DEF Covered, Covers
  <2>2. Owing(m)' \subseteq (Owing(m) \ {r}) \cup {lock}
    BY <1>5, <1>7 DEF Owing
  <2>3. /\ IsFiniteSet((Owing(m) \ {r}) \cup {lock})
        /\ Cardinality((Owing(m) \ {r}) \cup {lock}) <= Cardinality(Owing(m) \ {r}) + 1
        /\ Cardinality((Owing(m) \ {r}) \cup {lock}) \in Nat
    <3>1. /\ IsFiniteSet((Owing(m) \ {r}) \cup {lock})
          /\ Cardinality((Owing(m) \ {r}) \cup {lock}) =
                IF lock \in Owing(m) \ {r} THEN Cardinality(Owing(m) \ {r})
                ELSE Cardinality(Owing(m) \ {r}) + 1
      BY <1>6, FS_AddElement
    <3> QED
      BY <1>6, <3>1
  <2>4. /\ Cardinality(Owing(m)') \in Nat
        /\ Cardinality(Owing(m)') <= Cardinality((Owing(m) \ {r}) \cup {lock})
    BY <2>2, <2>3, FS_Subset, FS_CardinalityType
  <2> QED
    BY <1>1, <1>3, <1>4, <1>6, <2>1, <2>3, <2>4 DEF Account, Bit
<1> QED
  BY <1>9, <1>10


\* The ack balances: it pays for the publish it ends, or for what the lock's
\* holder comes to owe.
LEMMA AckAccounts ==
    ASSUME IInv, TypeOK', Accounts, NEW r \in Relays, Ack(r)
    PROVE  Accounts'
<1>0. TypeOK
  BY DEF IInv
<1>1. /\ pc[r] = "publish" /\ NextRow(r)
      /\ UNCHANGED <<batch, tenants, lock, publishes, throws, faults>>
  BY DEF Ack, ghosts
<1>2. /\ row[r] \in Messages /\ Alone(r) /\ Walk(r)'
      /\ \A m \in Messages : m = row[r] => ~ Owes(r, m)'
      /\ \A m \in Messages : m # row[r] =>
           /\ status'[m] = status[m] => (Owes(r, m)' => Owes(r, m))
           /\ ~ Covers(r, m)
  BY <1>1, RowDone
<1>3. \A q \in Relays : Walk(q)'
  BY <1>2, WalkAlone DEF Accounts
<1>4. ASSUME NEW m \in Messages
      PROVE  Account(m)'
  <2>0. Account(m) /\ throws[m] \in Nat /\ faults \in Nat /\ publishes[m] \in Nat
    BY <1>0 DEF Accounts, TypeOK
  <2>1. CASE m # row[r]
    <3>1. status'[m] = status[m]
      BY <1>0, <1>2, <2>1 DEF Ack, TypeOK
    <3> QED
      BY <1>0, <1>1, <1>2, <2>0, <2>1, <3>1, Quiet, AccountAlone
  <2>2. CASE m = row[r] /\ status[m] # "pending"
    <3>1. status'[m] = status[m]
      BY <2>2 DEF Ack
    <3>2. ~ Covers(r, m) /\ ~ Owes(r, m)'
      BY <1>2, <2>2 DEF Covers
    <3> QED
      BY <1>0, <1>1, <1>2, <2>0, <3>1, <3>2, Quiet, AccountAlone
  <2>3. CASE m = row[r] /\ status[m] = "pending"
    <3>1. status'[m] = "acked"
      BY <1>0, <1>2, <2>3 DEF Ack, TypeOK
    <3>2. Payments(m)' = Payments(m) + 1 /\ Payments(m) \in Nat
      BY <1>1, <2>0, <2>3, <3>1 DEF Payments, Bit
    <3>3. ~ Owes(r, m)'
      BY <1>2, <2>3
    <3>4. CASE lock \in Relays \ {r}
      <4>1. Payments(m) + 1 <= Payments(m)' + Bit(Owes(r, m))
        BY <3>2 DEF Bit
      <4> QED
        BY <1>0, <1>1, <1>2, <2>0, <2>3, <3>1, <3>3, <3>4, <4>1, AccountSettled
    <3>5. CASE lock \notin Relays \ {r}
      <4>1. publishes'[m] + Bit(Owes(r, m)') + Bit(Covers(r, m)) + Payments(m)
               <= publishes[m] + Bit(Owes(r, m)) + Bit(Covers(r, m)') + Payments(m)'
        BY <1>1, <2>0, <3>2, <3>3 DEF Bit
      <4> QED
        BY <1>0, <1>2, <2>0, <3>5, <4>1, AccountAlone
    <3> QED
      BY <3>4, <3>5
  <2> QED
    BY <2>1, <2>2, <2>3
<1> QED
  BY <1>3, <1>4 DEF Accounts

\* The failure bookkeeping balances: a relay that quarantines a row the lock's
\* holder has in hand passes on what it owed itself.
LEMMA MarkFailedAccounts ==
    ASSUME IInv, TypeOK', Accounts, NEW r \in Relays, MarkFailed(r)
    PROVE  Accounts'
<1>0. TypeOK
  BY DEF IInv
<1>1. /\ pc[r] = "fail" /\ NextRow(r)
      /\ UNCHANGED <<batch, tenants, lock, publishes, throws, faults>>
  BY DEF MarkFailed, ghosts
<1>2. /\ row[r] \in Messages /\ Alone(r) /\ Walk(r)'
      /\ \A m \in Messages : m = row[r] => ~ Owes(r, m)'
      /\ \A m \in Messages : m # row[r] =>
           /\ status'[m] = status[m] => (Owes(r, m)' => Owes(r, m))
           /\ ~ Covers(r, m)
  BY <1>1, RowDone
<1>3. \A q \in Relays : Walk(q)'
  BY <1>2, WalkAlone DEF Accounts
<1>4. /\ \A m \in Messages : m # row[r] => status'[m] = status[m]
      /\ \/ status'[row[r]] = status[row[r]]
         \/ status[row[r]] = "pending" /\ status'[row[r]] = "quarantined"
  BY <1>0, <1>2 DEF MarkFailed, rows, TypeOK
<1>5. ASSUME NEW m \in Messages
      PROVE  Account(m)'
  <2>0. Account(m) /\ throws[m] \in Nat /\ faults \in Nat /\ publishes[m] \in Nat
    BY <1>0 DEF Accounts, TypeOK
  <2>1. CASE m # row[r]
    BY <1>0, <1>1, <1>2, <1>4, <2>0, <2>1, Quiet, AccountAlone
  <2>2. ~ Covers(r, m)
    BY <1>1 DEF Covers, Publishing
  <2>3. CASE m = row[r] /\ status'[m] = status[m]
    BY <1>0, <1>1, <1>2, <2>0, <2>2, <2>3, Quiet, AccountAlone
  <2>4. CASE m = row[r] /\ status[m] = "pending" /\ status'[m] = "quarantined"
    <3>1. Payments(m)' = Payments(m) /\ Payments(m) \in Nat
      BY <1>1, <2>0, <2>4 DEF Payments, Bit
    <3>2. ~ Owes(r, m)'
      BY <1>2, <2>4
    <3>3. CASE lock \in Relays \ {r}
      <4>1. Owes(r, m)
        BY <1>1, <2>4, <3>3 DEF Owes, Publishing, Holds
      <4>2. Payments(m) + 1 <= Payments(m)' + Bit(Owes(r, m))
        BY <3>1, <4>1 DEF Bit
      <4> QED
        BY <1>0, <1>1, <1>2, <2>0, <2>4, <3>2, <3>3, <4>2, AccountSettled
    <3>4. CASE lock \notin Relays \ {r}
      <4>1. publishes'[m] + Bit(Owes(r, m)') + Bit(Covers(r, m)) + Payments(m)
               <= publishes[m] + Bit(Owes(r, m)) + Bit(Covers(r, m)') + Payments(m)'
        BY <1>1, <2>0, <2>2, <3>1, <3>2 DEF Bit
      <4> QED
        BY <1>0, <1>2, <2>0, <3>4, <4>1, AccountAlone
    <3> QED
      BY <3>3, <3>4
  <2> QED
    BY <1>4, <2>1, <2>3, <2>4
<1> QED
  BY <1>3, <1>5 DEF Accounts


\* A fault pays for whatever the relay may publish again.
LEMMA FaultPays ==
    ASSUME TypeOK, NEW r \in Relays, NEW m \in Messages, Fault, ghosts' = ghosts,
           status' = status, ~ (Owes(r, m)' /\ Covers(r, m))
    PROVE  publishes'[m] + Bit(Owes(r, m)') + Bit(Covers(r, m)) + Payments(m)
              <= publishes[m] + Bit(Owes(r, m)) + Bit(Covers(r, m)') + Payments(m)'
<1>1. publishes[m] \in Nat /\ throws[m] \in Nat /\ faults \in Nat
  BY DEF TypeOK
<1>2. faults' = faults + 1 /\ publishes' = publishes /\ throws' = throws
  BY DEF Fault, ghosts
<1>3. Payments(m)' = Payments(m) + 1 /\ Payments(m) \in Nat
  BY <1>1, <1>2 DEF Payments, Bit
<1> QED
  BY <1>1, <1>2, <1>3 DEF Bit

\* The end of the cycle, by its last step or by a crash.
LEMMA Rested ==
    ASSUME TypeOK, NEW r \in Relays, Rest(r), Unlock(r)
    PROVE  Alone(r) /\ Walk(r)' /\ \A m \in Messages : ~ Owes(r, m)'
<1>1. /\ pc'[r] = "idle" /\ tenants'[r] = {} /\ batch'[r] = {} /\ row'[r] = None
      /\ \A q \in Relays \ {r} : /\ pc'[q] = pc[q] /\ row'[q] = row[q]
                                 /\ batch'[q] = batch[q] /\ tenants'[q] = tenants[q]
      /\ lock' # r
  BY Bounds DEF Rest, Unlock, TypeOK
<1>2. Alone(r)
  BY <1>1, Bounds DEF Alone, Unlock
<1>3. \A m \in Messages : ~ Holds(r, m)' /\ ~ Unwalked(r, m)'
  BY <1>1, Bounds DEF Holds, Unwalked
<1>4. Walk(r)'
  BY <1>1, <1>3 DEF Walk
<1> QED
  BY <1>2, <1>3, <1>4 DEF Owes

\* The end of a drain cycle balances.
LEMMA FinishAccounts ==
    ASSUME TypeOK, TypeOK', Accounts, NEW r \in Relays, Finish(r)
    PROVE  Accounts'
<1>1. /\ pc[r] = "tenants" /\ Rest(r) /\ Unlock(r)
      /\ UNCHANGED <<status, publishes, throws, faults>>
  BY DEF Finish, rows, ghosts
<1>2. Alone(r) /\ Walk(r)' /\ \A m \in Messages : ~ Owes(r, m)'
  BY <1>1, Rested
<1>3. \A m \in Messages : ~ Covers(r, m)
  BY <1>1 DEF Covers, Publishing
<1> QED
  BY <1>1, <1>2, <1>3, AccountsKept, Quiet

\* A row write that fails balances.
LEMMA RowWriteFailsAccounts ==
    ASSUME IInv, TypeOK', Accounts, NEW r \in Relays, RowWriteFails(r)
    PROVE  Accounts'
<1>1. /\ pc[r] \in {"publish", "fail"} /\ NextRow(r) /\ Fault /\ ghosts' = ghosts
      /\ UNCHANGED <<batch, tenants, lock, status>> /\ TypeOK
  BY DEF RowWriteFails, rows, IInv
<1>2. /\ Alone(r) /\ Walk(r)'
      /\ \A m \in Messages : m = row[r] => ~ Owes(r, m)'
      /\ \A m \in Messages : m # row[r] => ~ Covers(r, m)
  BY <1>1, RowDone
<1>3. \A m \in Messages : ~ (Owes(r, m)' /\ Covers(r, m))
  BY <1>2
<1> QED
  BY <1>1, <1>2, <1>3, AccountsKept, FaultPays

\* A skipped tenant balances.
LEMMA TenantFailsAccounts ==
    ASSUME TypeOK, TypeOK', Accounts, NEW r \in Relays, TenantFails(r)
    PROVE  Accounts'
<1>1. PICK first \in Messages : tenants' = [tenants EXCEPT ![r] = @ \ {first}]
  BY DEF TenantFails
<1>2. /\ pc[r] = "tenants" /\ Fault /\ ghosts' = ghosts
      /\ UNCHANGED <<pc, row, batch, lock, status>>
      /\ tenants'[r] \subseteq tenants[r]
      /\ \A q \in Relays \ {r} : tenants'[q] = tenants[q]
  BY <1>1 DEF TenantFails, rows, TypeOK
<1>3. Walk(r) /\ Alone(r)
  BY <1>2 DEF Accounts, Alone
<1>4. \A m \in Messages : Unwalked(r, m)' => Unwalked(r, m)
  BY <1>2 DEF Unwalked
<1>5. Walk(r)'
  BY <1>2, <1>3, <1>4 DEF Walk, Holds
<1>6. \A m \in Messages : ~ Covers(r, m)
  BY <1>2 DEF Covers, Publishing
<1> QED
  BY <1>2, <1>3, <1>5, <1>6, AccountsKept, FaultPays

\* A crash balances.
LEMMA CrashAccounts ==
    ASSUME TypeOK, TypeOK', Accounts, NEW r \in Relays, Crash(r)
    PROVE  Accounts'
<1>1. Rest(r) /\ Unlock(r) /\ Fault /\ ghosts' = ghosts /\ status' = status
  BY DEF Crash, rows
<1>2. Alone(r) /\ Walk(r)' /\ \A m \in Messages : ~ Owes(r, m)'
  BY <1>1, Rested
<1> QED
  BY <1>1, <1>2, AccountsKept, FaultPays

\* A lost session balances: the fault pays for a cycle that goes on without
\* the lock.
LEMMA SessionLostAccounts ==
    ASSUME TypeOK, TypeOK', Accounts, NEW r \in Relays, SessionLost(r)
    PROVE  Accounts'
<1>1. /\ lock = r /\ lock' = None /\ Fault /\ ghosts' = ghosts /\ status' = status
      /\ UNCHANGED <<pc, row, batch, tenants>>
  BY DEF SessionLost, rows, cycle
<1>2. Walk(r) /\ Alone(r)
  BY <1>1, Bounds DEF Accounts, Alone
<1>3. Walk(r)'
  BY <1>1, <1>2, Bounds DEF Walk, Holds, Unwalked
<1>4. \A m \in Messages : ~ (Owes(r, m)' /\ Covers(r, m))
  BY <1>1 DEF Owes, Covers, Publishing
<1> QED
  BY <1>1, <1>2, <1>3, <1>4, AccountsKept, FaultPays

\* A step of nobody's cycle that leaves what is owed, or less, and what is
\* covered, or more, balances.
LEMMA AccountsLeft ==
    ASSUME TypeOK, Accounts,
           UNCHANGED <<pc, row, batch, tenants, lock, publishes, throws, faults>>,
           \A m \in Messages :
              /\ status'[m] = "acked" <=> status[m] = "acked"
              /\ \A q \in Relays : /\ Owes(q, m)' => Owes(q, m)
                                   /\ Covers(q, m) => Covers(q, m)'
    PROVE  Accounts'
<1>1. \A q \in Relays : Walk(q)'
  BY DEF Accounts, Walk, Holds, Unwalked
<1>2. ASSUME NEW m \in Messages
      PROVE  Account(m)'
  <2>1. /\ publishes[m] \in Nat /\ throws[m] \in Nat /\ faults \in Nat
        /\ IsFiniteSet(Owing(m)) /\ Cardinality(Owing(m)) \in Nat
    BY AccountTypes
  <2>2. Owing(m)' \subseteq Owing(m)
    BY DEF Owing
  <2>3. Cardinality(Owing(m)') \in Nat /\ Cardinality(Owing(m)') <= Cardinality(Owing(m))
    BY <2>1, <2>2, FS_Subset, FS_CardinalityType
  <2>4. Covered(m) => Covered(m)'
    BY DEF Covered
  <2>5. Payments(m)' = Payments(m) /\ Payments(m) \in Nat
    BY <2>1 DEF Payments, Bit
  <2>6. Account(m)
    BY DEF Accounts
  <2> QED
    BY <2>1, <2>3, <2>4, <2>5, <2>6 DEF Account, Bit
<1> QED
  BY <1>1, <1>2 DEF Accounts

\* The writes outside the relays balance: nobody holds a row not yet written,
\* and a replayed row is owed by fewer.
LEMMA WritesAccounts ==
    ASSUME IInv, Accounts, NEW m \in Messages, Append(m) \/ Replay(m) \/ BackoffElapses(m)
    PROVE  Accounts'
<1>1. /\ UNCHANGED <<pc, row, batch, tenants, lock, publishes, throws, faults>>
      /\ TypeOK
  BY DEF Append, Replay, BackoffElapses, cycle, ghosts, IInv
<1>2. \/ status' = status
      \/ /\ status[m] \in {"none", "quarantined"}
         /\ status'[m] = "pending"
         /\ \A n \in Messages \ {m} : status'[n] = status[n]
  BY <1>1 DEF Append, Replay, BackoffElapses, TypeOK
<1>3. ASSUME NEW n \in Messages, NEW q \in Relays
      PROVE  (Owes(q, n)' => Owes(q, n)) /\ (Covers(q, n) => Covers(q, n)')
  BY <1>1, <1>2, <1>3 DEF Owes, Covers, Publishing, Holds, Unwalked
<1>4. \A n \in Messages : status'[n] = "acked" <=> status[n] = "acked"
  BY <1>2
<1> QED
  BY <1>1, <1>3, <1>4, AccountsLeft

\* The initial states balance.
LEMMA InitAccounts == Init => Accounts
<1> SUFFICES ASSUME Init PROVE Accounts
  OBVIOUS
<1>1. \A r \in Relays : Walk(r)
  BY Bounds DEF Init, Walk, Holds, Unwalked
<1>2. ASSUME NEW m \in Messages
      PROVE  Account(m)
  <2>1. Owing(m) = {}
    BY Bounds DEF Init, Owing, Owes, Holds, Unwalked
  <2>2. Cardinality(Owing(m)) = 0
    BY <2>1, FS_EmptySet
  <2>3. publishes[m] = 0 /\ throws[m] = 0 /\ faults = 0 /\ status[m] = "none"
    BY DEF Init
  <2> QED
    BY <2>2, <2>3 DEF Account, Payments, Bit
<1> QED
  BY <1>1, <1>2 DEF Accounts

\* Every step balances.
LEMMA NextAccounts == IInv /\ IInv' /\ Accounts /\ [Next]_vars => Accounts'
<1>. SUFFICES ASSUME IInv, IInv', Accounts, [Next]_vars
              PROVE  Accounts'
  OBVIOUS
<1>0. TypeOK /\ TypeOK'
  BY DEF IInv
<1>1. CASE UNCHANGED vars
  <2>1. /\ UNCHANGED <<pc, row, batch, tenants, lock, publishes, throws, faults>>
        /\ status' = status
    BY <1>1 DEF vars, rows, cycle, ghosts
  <2>2. \A m \in Messages, q \in Relays : /\ Owes(q, m)' => Owes(q, m)
                                          /\ Covers(q, m) => Covers(q, m)'
    BY <2>1 DEF Owes, Covers, Publishing, Holds, Unwalked
  <2> QED
    BY <1>0, <2>1, <2>2, AccountsLeft
<1>2. CASE \E m \in Messages : Append(m) \/ Replay(m) \/ BackoffElapses(m)
  BY <1>2, WritesAccounts
<1>3. CASE \E r \in Relays : Step(r)
  BY <1>0, <1>3, DiscoverAccounts, NextTenantAccounts, TenantDoneAccounts, DeliverAccounts,
     HandleAccounts, HandlerThrowsAccounts, AckAccounts, MarkFailedAccounts,
     FinishAccounts DEF Step
<1>4. CASE \E r \in Relays : Failure(r)
  BY <1>0, <1>4, RowWriteFailsAccounts, TenantFailsAccounts, CrashAccounts,
     SessionLostAccounts DEF Failure
<1>. QED
  BY <1>1, <1>2, <1>3, <1>4 DEF Next

\* With any number of relays, messages and faults, a message is published again
\* only after a publish of it that failed or after a fault: the advisory lock
\* keeps two cycles from publishing one row, but for the cycles that lost it.
THEOREM RepeatsCorrect == Spec => []RepeatsExplained
<1>1. IInv /\ Accounts => RepeatsExplained
  <2>. SUFFICES ASSUME IInv, Accounts, NEW m \in Messages
                PROVE  publishes[m] <= 1 + throws[m] + faults
    BY DEF RepeatsExplained
  <2>1. TypeOK /\ Account(m)
    BY DEF IInv, Accounts
  <2>2. /\ publishes[m] \in Nat /\ throws[m] \in Nat /\ faults \in Nat
        /\ Cardinality(Owing(m)) \in Nat
    BY <2>1, AccountTypes
  <2>3. ~ (Covered(m) /\ status[m] = "acked")
    BY DEF Covered, Covers
  <2> QED
    BY <2>1, <2>2, <2>3 DEF Account, Payments, Bit
<1>2. IInv /\ Accounts /\ [Next]_vars => Accounts'
  BY NextIInv, NextAccounts
<1>. QED
  BY Inductive, InitAccounts, <1>1, <1>2, PTL DEF Spec
=============================================================================
