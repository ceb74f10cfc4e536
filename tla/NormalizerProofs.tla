---------------------------- MODULE NormalizerProofs ---------------------------
(***************************************************************************)
(* Theorems about Normalizer, for every set of workers, partitions and     *)
(* messages and every value of the bounds.  The inductive invariant is     *)
(* IInv of Normalizer: each part is preserved given the parts before it.   *)
(***************************************************************************)
EXTENDS Normalizer, TLAPS

USE GroupAssumption, NormalizerAssumption DEF GroupAssumption, NormalizerAssumption

--------------------------------------------------------------------------------
(* Types. *)

(* The initial state is well typed. *)
LEMMA TypeInit == Init => TypeOK
  BY DEF Init, GroupInit, TypeOK, GroupTypeOK, WorkerTypeOK, StoreTypeOK, HandOK, Stages, Busy, Idle

(* Producing appends: what the log has stays at its offset. *)
LEMMA LogGrows ==
  ASSUME TypeOK, NEW m \in Messages, Produce(m)
  PROVE  /\ log' \in [Partitions -> Seq(Messages)]
         /\ \A p \in Partitions :
              /\ Len(log[p]) \in Nat
              /\ Len(log'[p]) \in Nat
              /\ Len(log[p]) <= Len(log'[p])
              /\ Offsets(p) \subseteq Offsets(p)'
              /\ \A o \in Offsets(p) : MessageAt(p, o)' = MessageAt(p, o)
<1>1. log \in [Partitions -> Seq(Messages)] /\ PartitionOf[m] \in Partitions
  BY DEF TypeOK, GroupTypeOK
<1>2. log' = [log EXCEPT ![PartitionOf[m]] = Append(log[PartitionOf[m]], m)]
  BY DEF Produce, Append1
<1>3. ASSUME NEW s \in Seq(Messages)
      PROVE  /\ Append(s, m) \in Seq(Messages) /\ Len(s) \in Nat
             /\ Len(Append(s, m)) = Len(s) + 1
             /\ \A i \in 1 .. Len(s) : Append(s, m)[i] = s[i]
  OBVIOUS
<1>4. QED BY <1>1, <1>2, <1>3 DEF Offsets, MessageAt

WorkerStep(w) == Step(w) \/ Misfortune(w) \/ Restart(w)

(* A step of worker w leaves the log and the other workers alone. *)
LEMMA WorkerFrame ==
  ASSUME NEW w \in Workers, TypeOK, WorkerStep(w)
  PROVE  /\ log' = log
         /\ WorkerTypeOK'
         /\ \A v \in Workers \ {w} : pc'[v] = pc[v] /\ cur'[v] = cur[v] /\ staged'[v] = staged[v]
<1> USE DEF TypeOK, WorkerTypeOK, Stages, groupVars, workerVars, Goto, LoopAgain
<1>1. CASE Fetch(w)
  BY <1>1 DEF Fetch, FetchFrom, Places, GroupTypeOK
<1>2. CASE Normalize(w)
  BY <1>2 DEF Normalize
<1>3. CASE ResolveTenant(w)
  BY <1>3 DEF ResolveTenant
<1>4. CASE MarkDelivery(w)
  BY <1>4 DEF MarkDelivery
<1>5. CASE EnqueueOutbox(w)
  BY <1>5 DEF EnqueueOutbox, StoreTypeOK
<1>6. CASE PersistOrphan(w)
  BY <1>6 DEF PersistOrphan
<1>7. CASE CommitTx(w)
  BY <1>7 DEF CommitTx
<1>8. CASE DeadLetter(w)
  BY <1>8 DEF DeadLetter
<1>9. CASE CommitOffset(w)
  BY <1>9 DEF CommitOffset, CommitUpTo
<1>10. CASE CommitTxUnacknowledged(w)
  BY <1>10 DEF CommitTxUnacknowledged, WillRetry
<1>11. CASE DatabaseFails(w)
  BY <1>11 DEF DatabaseFails, WillRetry
<1>12. CASE DeadLetterFails(w)
  BY <1>12 DEF DeadLetterFails, WillRetry
<1>13. CASE CommitOffsetFails(w)
  BY <1>13 DEF CommitOffsetFails
<1>14. CASE Crash(w)
  BY <1>14 DEF Crash, Leave
<1>15. CASE Restart(w)
  BY <1>15 DEF Restart
<1>16. QED
  BY <1>1, <1>2, <1>3, <1>4, <1>5, <1>6, <1>7, <1>8, <1>9, <1>10, <1>11, <1>12, <1>13,
     <1>14, <1>15 DEF WorkerStep, Step, Misfortune

(* Only Fetch takes a message in hand; every other step keeps the one there *)
(* is, or lets it go.                                                        *)
LEMMA HandFrame ==
  ASSUME NEW w \in Workers, TypeOK, WorkerStep(w), ~Fetch(w), Busy(w)'
  PROVE  Busy(w) /\ cur'[w] = cur[w]
  BY DEF WorkerStep, Step, Misfortune, Busy, Idle, TypeOK, WorkerTypeOK, Goto, LoopAgain,
     Normalize, ResolveTenant, MarkDelivery, EnqueueOutbox, PersistOrphan, CommitTx,
     PersistDone, DeadLetter, CommitOffset, CommitTxUnacknowledged, DatabaseFails,
     DeadLetterFails, CommitOffsetFails, Crash, Restart, WillRetry, workerVars

(* A busy worker has a message of the log in hand after every worker's step. *)
LEMMA HandStep ==
  ASSUME NEW w \in Workers, TypeOK, WorkerStep(w)
  PROVE  HandOK'
<1>1. /\ log' = log
      /\ \A v \in Workers \ {w} : pc'[v] = pc[v] /\ cur'[v] = cur[v]
  BY WorkerFrame
<1>2. ASSUME Busy(w)' PROVE \E p \in Partitions : \E o \in Offsets(p) : cur'[w] = <<p, o>>
  <2>1. CASE Fetch(w)
    BY <2>1 DEF Fetch, FetchFrom, CanFetch, TypeOK, GroupTypeOK, WorkerTypeOK, Offsets
  <2>2. CASE ~Fetch(w)
    BY <1>2, <2>2, HandFrame DEF TypeOK, HandOK
  <2>3. QED BY <2>1, <2>2
<1>3. ASSUME ~Busy(w)' PROVE cur'[w] = NoMessage
  <2>1. cur'[w] = cur[w] \/ cur'[w] = NoMessage \/ Fetch(w)
    BY DEF WorkerStep, Step, Misfortune, TypeOK, WorkerTypeOK, LoopAgain,
       Normalize, ResolveTenant, MarkDelivery, EnqueueOutbox, PersistOrphan, CommitTx,
       DeadLetter, CommitOffset, CommitTxUnacknowledged, DatabaseFails,
       DeadLetterFails, CommitOffsetFails, Crash, Restart, WillRetry
  <2>2. Fetch(w) => Busy(w)'
    BY DEF Fetch, Goto, Busy, Idle, TypeOK, WorkerTypeOK
  <2>3. CASE Busy(w)
    BY <1>3, <2>3 DEF WorkerStep, Step, Misfortune, Busy, Idle, TypeOK, WorkerTypeOK, Goto,
       LoopAgain, Fetch, Normalize, ResolveTenant, MarkDelivery, EnqueueOutbox, PersistOrphan,
       CommitTx, PersistDone, DeadLetter, CommitOffset, CommitTxUnacknowledged, DatabaseFails,
       DeadLetterFails, CommitOffsetFails, Crash, Restart, WillRetry
  <2>4. CASE ~Busy(w)
    BY <1>3, <2>1, <2>2, <2>4 DEF TypeOK, HandOK
  <2>5. QED BY <2>3, <2>4
<1>4. QED BY <1>1, <1>2, <1>3 DEF TypeOK, HandOK, Busy, Offsets

(* Every step keeps the types of the topic and of the group. *)
LEMMA GroupStep ==
  ASSUME TypeOK, [Next]_vars
  PROVE  GroupTypeOK'
<1> USE DEF TypeOK, GroupTypeOK, groupVars
<1>1. ASSUME NEW m \in Messages, Produce(m) PROVE GroupTypeOK'
  BY <1>1, LogGrows DEF Produce, Append1
<1>2. ASSUME NEW w \in Workers, WorkerStep(w) PROVE GroupTypeOK'
  <2>1. CASE Fetch(w)
    BY <2>1 DEF Fetch, FetchFrom, CanFetch
  <2>2. CASE CommitOffset(w)
    <3>1. PICK p \in Partitions : \E o \in Offsets(p) : cur[w] = <<p, o>>
      BY <2>2 DEF CommitOffset, HandOK, Busy, Idle
    <3>2. PICK o \in Offsets(p) : cur[w] = <<p, o>>
      BY <3>1
    <3>3. QED BY <2>2, <3>2 DEF CommitOffset, CommitUpTo, Offsets
  <2>3. CASE Crash(w)
    BY <2>3 DEF Crash, Leave
  <2>4. CASE ~Fetch(w) /\ ~CommitOffset(w) /\ ~Crash(w)
    BY <1>2, <2>4 DEF WorkerStep, Step, Misfortune,
       Normalize, ResolveTenant, MarkDelivery, EnqueueOutbox, PersistOrphan, CommitTx,
       DeadLetter, CommitTxUnacknowledged, DatabaseFails,
       DeadLetterFails, CommitOffsetFails, Restart, WillRetry
  <2>5. QED BY <2>1, <2>2, <2>3, <2>4
<1>3. ASSUME AssignOrphans \/ Rebalance PROVE GroupTypeOK'
  BY <1>3 DEF AssignOrphans, Rebalance, Assign, Live
<1>4. ASSUME UNCHANGED groupVars PROVE GroupTypeOK'
  BY <1>4
<1>5. QED
  BY <1>1, <1>2, <1>3, <1>4 DEF Next, WorkerStep, Onboard, vars

(* The message in hand is a message of the topic. *)
LEMMA HandIsMessage ==
  ASSUME NEW w \in Workers, TypeOK, Busy(w)
  PROVE  Msg(w) \in Messages /\ cur[w] \in Places
<1>1. PICK p \in Partitions : \E o \in Offsets(p) : cur[w] = <<p, o>>
  BY DEF TypeOK, HandOK
<1>2. PICK o \in Offsets(p) : cur[w] = <<p, o>>
  BY <1>1
<1>3. QED BY <1>2 DEF TypeOK, GroupTypeOK, Msg, MessageAt, Offsets, Places

(* Every step keeps the types of the tables, the DLQ and the histories.      *)
LEMMA StoreStep ==
  ASSUME TypeOK, [Next]_vars
  PROVE  StoreTypeOK'
<1> USE DEF TypeOK, StoreTypeOK, dbVars, historyVars, countVars, Fault, Disruption
<1>1. ASSUME NEW w \in Workers, WorkerStep(w) PROVE StoreTypeOK'
  <2>0. Busy(w) => Msg(w) \in Messages /\ cur[w] \in Places
    BY HandIsMessage
  <2>1. CASE CommitTx(w) \/ CommitTxUnacknowledged(w)
    <3>1. RowsOf(Msg(w), staged[w]) \subseteq Rows
      BY <2>0, <2>1 DEF CommitTx, CommitTxUnacknowledged, PersistDone, Busy, Idle, WorkerTypeOK, RowsOf, Rows
    <3>2. QED
      BY <2>0, <2>1, <3>1 DEF CommitTx, CommitTxUnacknowledged, PersistDone, Busy, Idle,
         MarkAndRows, Identified, WillRetry
  <2>2. CASE DeadLetter(w) \/ DeadLetterFails(w)
    BY <2>0, <2>2 DEF DeadLetter, DeadLetterFails, Busy, Idle, WillRetry
  <2>3. CASE ResolveTenant(w) \/ DatabaseFails(w)
    BY <2>0, <2>3 DEF ResolveTenant, DatabaseFails, Busy, Idle, WillRetry
  <2>4. CASE Fetch(w) \/ Normalize(w) \/ MarkDelivery(w) \/ EnqueueOutbox(w)
             \/ PersistOrphan(w) \/ CommitOffset(w) \/ CommitOffsetFails(w) \/ Crash(w) \/ Restart(w)
    BY <2>4 DEF Fetch, Normalize, MarkDelivery, EnqueueOutbox,
       PersistOrphan, CommitOffset, CommitOffsetFails, Crash, Restart
  <2>5. QED BY <1>1, <2>1, <2>2, <2>3, <2>4 DEF WorkerStep, Step, Misfortune
<1>2. ASSUME \/ \E m \in Messages : Produce(m)
             \/ \E t \in Tenants : Onboard(t)
             \/ AssignOrphans \/ Rebalance \/ UNCHANGED vars
      PROVE  StoreTypeOK'
  BY <1>2 DEF Produce, Onboard, AssignOrphans, Rebalance, vars
<1>3. QED BY <1>1, <1>2 DEF Next, WorkerStep

(* Every step keeps every type. *)
LEMMA TypeStep == TypeOK /\ [Next]_vars => TypeOK'
<1> SUFFICES ASSUME TypeOK, [Next]_vars PROVE WorkerTypeOK' /\ HandOK'
  BY GroupStep, StoreStep DEF TypeOK
<1>1. ASSUME NEW w \in Workers, WorkerStep(w) PROVE WorkerTypeOK' /\ HandOK'
  BY <1>1, WorkerFrame, HandStep
<1>2. ASSUME NEW m \in Messages, Produce(m) PROVE WorkerTypeOK' /\ HandOK'
  BY <1>2, LogGrows DEF Produce, TypeOK, WorkerTypeOK, HandOK, Busy, workerVars
<1>3. ASSUME UNCHANGED <<workerVars, log>> PROVE WorkerTypeOK' /\ HandOK'
  BY <1>3 DEF TypeOK, WorkerTypeOK, HandOK, Busy, Offsets, workerVars
<1>4. ASSUME (\E t \in Tenants : Onboard(t)) \/ AssignOrphans \/ Rebalance \/ UNCHANGED vars
      PROVE  UNCHANGED <<workerVars, log>>
  BY <1>4 DEF Onboard, AssignOrphans, Rebalance, Assign, groupVars, vars
<1>5. QED BY <1>1, <1>2, <1>3, <1>4 DEF Next, WorkerStep

(* Every variable keeps its type in every reachable state, and a worker in  *)
(* the middle of the loop always holds a message of the topic.              *)
THEOREM TypeCorrect == Spec => []TypeOK
  BY TypeInit, TypeStep, PTL DEF Spec

--------------------------------------------------------------------------------
(* Frames that the parts of the invariant share. *)

(* A message keeps its offset in every step. *)
LEMMA LogStable ==
  ASSUME TypeOK, [Next]_vars, NEW p \in Partitions
  PROVE  /\ Offsets(p) \subseteq Offsets(p)'
         /\ \A o \in Offsets(p) : MessageAt(p, o)' = MessageAt(p, o)
<1>1. ASSUME NEW m \in Messages, Produce(m)
      PROVE  /\ Offsets(p) \subseteq Offsets(p)'
             /\ \A o \in Offsets(p) : MessageAt(p, o)' = MessageAt(p, o)
  BY <1>1, LogGrows
<1>2. ASSUME ~ \E m \in Messages : Produce(m) PROVE log' = log
  <2>1. (\E w \in Workers : WorkerStep(w)) => log' = log
    BY WorkerFrame
  <2>2. QED
    BY <1>2, <2>1 DEF Next, WorkerStep, Onboard, AssignOrphans, Rebalance, Assign, groupVars, vars
<1>3. QED BY <1>1, <1>2 DEF Offsets, MessageAt

(* A step of no worker leaves alone what workers wrote. *)
LEMMA QuietFrame ==
  ASSUME [Next]_vars, \A w \in Workers : ~WorkerStep(w)
  PROVE  UNCHANGED <<pc, cur, staged, nextId, processed, outbox, dlq, dropped, failed, committed>>
BY DEF Next, WorkerStep, Produce, Append1, Onboard, AssignOrphans, Rebalance, Assign,
   groupVars, workerVars, dbVars, historyVars, vars

(* A worker that another one's step finds busy keeps its message. *)
LEMMA MsgKept ==
  ASSUME TypeOK, [Next]_vars, NEW v \in Workers, Busy(v), cur'[v] = cur[v]
  PROVE  Msg(v)' = Msg(v)
<1>1. PICK p \in Partitions : \E o \in Offsets(p) : cur[v] = <<p, o>>
  BY DEF TypeOK, HandOK
<1>2. PICK o \in Offsets(p) : cur[v] = <<p, o>>
  BY <1>1
<1>3. MessageAt(p, o)' = MessageAt(p, o)
  BY LogStable
<1>4. QED BY <1>2, <1>3 DEF Msg, MessageAt

(* Only Fetch changes the message that a worker has in hand. *)
LEMMA OwnMsgKept ==
  ASSUME TypeOK, NEW w \in Workers, WorkerStep(w), ~Fetch(w), Busy(w)'
  PROVE  Busy(w) /\ cur'[w] = cur[w] /\ Msg(w)' = Msg(w)
BY HandFrame, WorkerFrame DEF Msg, MessageAt

(* A worker's step is a step of the system. *)
LEMMA WorkerStepIsNext ==
  ASSUME NEW w \in Workers, WorkerStep(w)
  PROVE  [Next]_vars
BY DEF WorkerStep, Next

--------------------------------------------------------------------------------
(* Kinds. *)

(* No step lets a kind of message reach a table it must not reach.           *)
LEMMA KindStep ==
  ASSUME TypeOK, KindInv, [Next]_vars
  PROVE  KindInv'
<1>1. ASSUME NEW v \in Workers, pc'[v] = pc[v], cur'[v] = cur[v] PROVE WorkerKind(v)'
  BY <1>1, MsgKept DEF KindInv, WorkerKind, Busy, Idle
<1>2. ASSUME NEW w \in Workers, WorkerStep(w) PROVE WorkerKind(w)' /\ StoreKind'
  <2> USE DEF KindInv, TypeOK, WorkerTypeOK, StoreTypeOK, dbVars, historyVars, Goto
  <2>1. Busy(w) => Msg(w) \in Messages
    BY HandIsMessage
  <2>2. pc[w] # "fetch" /\ Busy(w)' => Msg(w)' = Msg(w)
    BY <1>2, OwnMsgKept DEF Fetch
  <2>3. CASE Fetch(w)
    BY <2>3 DEF Fetch, WorkerKind, StoreKind
  <2>4. CASE Normalize(w) \/ ResolveTenant(w) \/ MarkDelivery(w)
    BY <2>2, <2>4 DEF Normalize, ResolveTenant, MarkDelivery, WorkerKind, StoreKind, Busy, Idle
  <2>5. CASE EnqueueOutbox(w) \/ PersistOrphan(w)
    BY <2>2, <2>5 DEF EnqueueOutbox, PersistOrphan, PersistDone, WorkerKind, StoreKind, Busy, Idle
  <2>6. CASE CommitTx(w) \/ CommitTxUnacknowledged(w)
    <3>1. /\ Kind[Msg(w)] = "good"
          /\ processed' \subseteq processed \union {Msg(w)}
          /\ outbox' = outbox \union RowsOf(Msg(w), staged[w])
          /\ dlq' = dlq
          /\ pc'[w] \in {"commit", "fetch"}
      BY <2>6 DEF CommitTx, CommitTxUnacknowledged, MarkAndRows, WillRetry, LoopAgain
    <3>2. \A r \in RowsOf(Msg(w), staged[w]) : r.delivery = Msg(w)
      BY DEF RowsOf
    <3>3. QED BY <3>1, <3>2 DEF WorkerKind, StoreKind
  <2>7. CASE DeadLetter(w) \/ DeadLetterFails(w)
    <3>1. /\ Kind[Msg(w)] \in {"bad", "orphan"}
          /\ dlq' \subseteq dlq \union {Msg(w)}
          /\ UNCHANGED <<processed, outbox>>
          /\ pc'[w] \in {"commit", "fetch"}
      BY <2>7 DEF DeadLetter, DeadLetterFails, WillRetry, LoopAgain, WorkerKind
    <3>2. QED BY <3>1 DEF WorkerKind, StoreKind
  <2>8. CASE DatabaseFails(w) \/ CommitOffset(w) \/ CommitOffsetFails(w) \/ Crash(w) \/ Restart(w)
    BY <2>8 DEF DatabaseFails, CommitOffset, CommitOffsetFails, Crash, Restart, WillRetry, LoopAgain,
       WorkerKind, StoreKind
  <2>9. QED
    BY <1>2, <2>3, <2>4, <2>5, <2>6, <2>7, <2>8 DEF WorkerStep, Step, Misfortune
<1>3. ASSUME NEW w \in Workers, WorkerStep(w) PROVE KindInv'
  BY <1>1, <1>2, <1>3, WorkerFrame DEF KindInv
<1>4. ASSUME \A w \in Workers : ~WorkerStep(w) PROVE KindInv'
  BY <1>1, <1>4, QuietFrame DEF KindInv, StoreKind
<1>5. QED BY <1>3, <1>4

--------------------------------------------------------------------------------
(* Outbox ids. *)

(* A step that draws no id and commits no row keeps the ids distinct. *)
LEMMA IdShrink ==
  ASSUME IdInv, outbox' = outbox, nextId' = nextId,
         \A v \in Workers : staged'[v] \in {staged[v], <<>>},
         \A v \in Workers : pc'[v] # "persist" => staged'[v] = <<>>
  PROVE  IdInv'
<1>1. \A v \in Workers : StagedIds(v)'
  BY DEF IdInv, StagedIds
<1>2. \A v, w \in Workers : v # w => DistinctIds(v, w)'
  BY DEF IdInv, DistinctIds
<1>3. QED BY <1>1, <1>2 DEF IdInv

(* A fresh identity value is above every one drawn before. *)
LEMMA IdEnqueue ==
  ASSUME TypeOK, IdInv, NEW w \in Workers, EnqueueOutbox(w)
  PROVE  IdInv'
<1> USE DEF TypeOK, WorkerTypeOK, StoreTypeOK
<1>1. /\ nextId' = nextId + 1 /\ outbox' = outbox /\ pc' = pc /\ pc[w] = "persist"
      /\ staged'[w] = Append(staged[w], nextId)
      /\ \A v \in Workers \ {w} : staged'[v] = staged[v]
  BY DEF EnqueueOutbox
<1>2. /\ Len(staged'[w]) = Len(staged[w]) + 1
      /\ \A i \in 1 .. Len(staged[w]) : staged'[w][i] = staged[w][i]
      /\ staged'[w][Len(staged[w]) + 1] = nextId
  BY <1>1
<1>3. \A v \in Workers : \A i \in 1 .. Len(staged[v]) : staged[v][i] \in Nat /\ staged[v][i] < nextId
  BY DEF IdInv, StagedIds
<1>4. \A r \in outbox : r.id \in Nat /\ r.id < nextId
  BY DEF IdInv, Rows
<1>5. ASSUME NEW v \in Workers \ {w} PROVE StagedIds(v)'
  BY <1>1, <1>3 DEF IdInv, StagedIds
<1>6. StagedIds(w)'
  <2>1. \A i \in 1 .. Len(staged'[w]) : i \in 1 .. Len(staged[w]) \/ i = Len(staged[w]) + 1
    BY <1>2
  <2>2. \A i \in 1 .. Len(staged[w]), j \in 1 .. Len(staged[w]) : i < j => staged[w][i] < staged[w][j]
    BY DEF IdInv, StagedIds
  <2>3. \A i \in 1 .. Len(staged[w]), r \in outbox : staged[w][i] # r.id
    BY DEF IdInv, StagedIds
  <2>4. QED BY <1>1, <1>2, <1>3, <1>4, <2>1, <2>2, <2>3 DEF StagedIds
<1>7. ASSUME NEW v \in Workers \ {w} PROVE DistinctIds(v, w)' /\ DistinctIds(w, v)'
  <2>1. \A i \in 1 .. Len(staged'[w]) : i \in 1 .. Len(staged[w]) \/ i = Len(staged[w]) + 1
    BY <1>2
  <2>2. /\ \A i \in 1 .. Len(staged[v]), j \in 1 .. Len(staged[w]) : staged[v][i] # staged[w][j]
        /\ \A i \in 1 .. Len(staged[w]), j \in 1 .. Len(staged[v]) : staged[w][i] # staged[v][j]
    BY DEF IdInv, DistinctIds
  <2>3. staged'[v] = staged[v]
    BY <1>1
  <2>4. \A i \in 1 .. Len(staged[v]) : staged[v][i] # nextId
    BY <1>3
  <2>5. ASSUME NEW i \in 1 .. Len(staged[v]), NEW j \in 1 .. Len(staged'[w])
        PROVE  staged[v][i] # staged'[w][j]
    BY <1>2, <2>1, <2>2, <2>4
  <2>6. QED BY <2>3, <2>5 DEF DistinctIds
<1>8. ASSUME NEW u \in Workers \ {w}, NEW v \in Workers \ {w}, u # v PROVE DistinctIds(u, v)'
  BY <1>1, <1>8 DEF IdInv, DistinctIds
<1>9. QED BY <1>1, <1>4, <1>5, <1>6, <1>7, <1>8 DEF IdInv

(* A commit moves the ids of one transaction to the table. *)
LEMMA IdCommit ==
  ASSUME TypeOK, IdInv, NEW w \in Workers, pc[w] = "persist",
         pc'[w] # "persist", staged'[w] = <<>>, nextId' = nextId,
         outbox' = outbox \union RowsOf(Msg(w), staged[w]),
         \A v \in Workers \ {w} : pc'[v] = pc[v] /\ staged'[v] = staged[v]
  PROVE  IdInv'
<1>1. \A r \in RowsOf(Msg(w), staged[w]) : \E i \in 1 .. Len(staged[w]) : r.id = staged[w][i]
  BY DEF RowsOf
<1>2. \A r \in outbox' : r.id < nextId
  <2>1. /\ \A r \in outbox : r.id < nextId
        /\ \A i \in 1 .. Len(staged[w]) : staged[w][i] < nextId
    BY DEF IdInv, StagedIds
  <2>2. ASSUME NEW r \in outbox' PROVE r.id < nextId
    BY <1>1, <2>1
  <2>3. QED BY <2>2
<1>3. ASSUME NEW v \in Workers \ {w} PROVE StagedIds(v)'
  <2>1. \A i \in 1 .. Len(staged[v]), r \in RowsOf(Msg(w), staged[w]) : staged[v][i] # r.id
    BY <1>1 DEF IdInv, DistinctIds
  <2>2. StagedIds(v) /\ pc'[v] = pc[v] /\ staged'[v] = staged[v]
    BY DEF IdInv
  <2>3. \A i \in 1 .. Len(staged[v]), r \in outbox' : staged[v][i] # r.id
    BY <2>1, <2>2 DEF StagedIds
  <2>4. QED BY <2>2, <2>3 DEF StagedIds
<1>4. StagedIds(w)'
  BY DEF StagedIds
<1>5. ASSUME NEW u \in Workers, NEW v \in Workers, u # v PROVE DistinctIds(u, v)'
  <2>1. CASE u = w \/ v = w
    BY <2>1 DEF DistinctIds
  <2>2. CASE u # w /\ v # w
    <3>1. DistinctIds(u, v) /\ staged'[u] = staged[u] /\ staged'[v] = staged[v]
      BY <1>5, <2>2 DEF IdInv
    <3>2. QED BY <3>1 DEF DistinctIds
  <2>3. QED BY <2>1, <2>2
<1>6. QED BY <1>2, <1>3, <1>4, <1>5 DEF IdInv

(* Every step keeps the ids distinct. *)
LEMMA IdStep ==
  ASSUME TypeOK, IdInv, [Next]_vars
  PROVE  IdInv'
<1>1. ASSUME NEW w \in Workers, WorkerStep(w) PROVE IdInv'
  <2> USE DEF TypeOK, WorkerTypeOK, dbVars, Goto, LoopAgain
  <2>1. \A v \in Workers \ {w} : pc'[v] = pc[v] /\ staged'[v] = staged[v]
    BY <1>1, WorkerFrame
  <2>2. CASE EnqueueOutbox(w)
    BY <2>2, IdEnqueue
  <2>3. CASE CommitTx(w) \/ CommitTxUnacknowledged(w)
    BY <2>1, <2>3, IdCommit DEF CommitTx, CommitTxUnacknowledged, PersistDone, MarkAndRows, WillRetry
  <2>4. ASSUME ~EnqueueOutbox(w), ~CommitTx(w), ~CommitTxUnacknowledged(w)
        PROVE  /\ outbox' = outbox /\ nextId' = nextId
               /\ staged'[w] \in {staged[w], <<>>}
               /\ pc'[w] # "persist" => staged'[w] = <<>>
    BY <1>1, <2>4 DEF IdInv, StagedIds, WorkerStep, Step, Misfortune, Fetch, Normalize, ResolveTenant,
       MarkDelivery, PersistOrphan, PersistDone, DeadLetter, CommitOffset, DatabaseFails, DeadLetterFails,
       CommitOffsetFails, Crash, Restart, WillRetry
  <2>5. CASE ~EnqueueOutbox(w) /\ ~CommitTx(w) /\ ~CommitTxUnacknowledged(w)
    <3>1. \A v \in Workers \ {w} : pc'[v] # "persist" => staged'[v] = <<>>
      BY <2>1 DEF IdInv, StagedIds
    <3>2. QED BY <2>1, <2>4, <2>5, <3>1, IdShrink
  <2>6. QED BY <2>2, <2>3, <2>5
<1>2. ASSUME \A w \in Workers : ~WorkerStep(w) PROVE IdInv'
  <2>1. UNCHANGED <<pc, staged, nextId, outbox>>
    BY <1>2, QuietFrame
  <2>2. QED BY <2>1, IdShrink DEF IdInv, StagedIds
<1>3. QED BY <1>1, <1>2

--------------------------------------------------------------------------------
(* Marks and rows. *)

Commits(w) == CommitTx(w) \/ CommitTxUnacknowledged(w)

(* What a committing step of w does to the tables. *)
LEMMA CommitEffect ==
  ASSUME TypeOK, KindInv, NEW w \in Workers, Commits(w)
  PROVE  /\ pc[w] = "persist" /\ pc'[w] # "persist"
         /\ Msg(w) \in Messages /\ Kind[Msg(w)] = "good"
         /\ Len(staged[w]) = Events[Msg(w)]
         /\ processed' = processed \union ({Msg(w)} \ Anonymous)
         /\ outbox' = outbox \union RowsOf(Msg(w), staged[w])
  BY HandIsMessage DEF Commits, CommitTx, CommitTxUnacknowledged, PersistDone, MarkAndRows, WillRetry,
     Goto, LoopAgain, TypeOK, WorkerTypeOK, Busy, Idle

(* No other step touches the tables. *)
LEMMA TablesFrame ==
  ASSUME TypeOK, [Next]_vars, \A w \in Workers : ~Commits(w)
  PROVE  processed' = processed /\ outbox' = outbox
<1>1. ASSUME NEW w \in Workers, WorkerStep(w) PROVE processed' = processed /\ outbox' = outbox
  BY <1>1 DEF Commits, WorkerStep, Step, Misfortune, dbVars, Fetch, Normalize, ResolveTenant,
     MarkDelivery, EnqueueOutbox, PersistOrphan, DeadLetter, CommitOffset, DatabaseFails,
     DeadLetterFails, CommitOffsetFails, Crash, Restart
<1>2. QED BY <1>1, QuietFrame

(* Both commits are steps of a worker. *)
LEMMA CommitIsWorkerStep ==
  ASSUME NEW w \in Workers, Commits(w)
  PROVE  WorkerStep(w)
  BY DEF Commits, WorkerStep, Step, Misfortune

(* Only MarkDelivery opens a transaction. *)
LEMMA PersistFrame ==
  ASSUME TypeOK, NEW w \in Workers, WorkerStep(w), pc'[w] = "persist"
  PROVE  /\ Msg(w)' = Msg(w)
         /\ pc[w] = "persist" \/ MarkDelivery(w)
         /\ ~Commits(w)
<1>1. pc[w] = "persist" \/ MarkDelivery(w)
  BY DEF WorkerStep, Step, Misfortune, Fetch, Normalize, ResolveTenant,
     EnqueueOutbox, PersistOrphan, CommitTx, DeadLetter, CommitOffset, CommitTxUnacknowledged,
     DatabaseFails, DeadLetterFails, CommitOffsetFails, Crash, Restart, WillRetry, LoopAgain, Goto,
     TypeOK, WorkerTypeOK
<1>2. ~Fetch(w) /\ Busy(w)'
  BY <1>1 DEF Fetch, MarkDelivery, Busy, Idle
<1>3. ~Commits(w)
  BY DEF Commits, CommitTx, CommitTxUnacknowledged, WillRetry, LoopAgain, Goto, TypeOK, WorkerTypeOK
<1>4. QED BY <1>1, <1>2, <1>3, OwnMsgKept

(* The wait for an uncommitted mark keeps one transaction per delivery.      *)
LEMMA MarkStep ==
  ASSUME TypeOK, KindInv, MarkInv, [Next]_vars
  PROVE  MarkInv'
<1>1. ASSUME NEW v \in Workers, pc[v] = "persist", pc'[v] = "persist", cur'[v] = cur[v]
      PROVE  Msg(v)' = Msg(v)
  BY <1>1, MsgKept DEF Busy, Idle
<1>2. ASSUME NEW w \in Workers, WorkerStep(w) PROVE MarkInv'
  <2>1. \A v \in Workers \ {w} : pc'[v] = "persist" => pc[v] = "persist" /\ Msg(v)' = Msg(v)
    BY <1>1, <1>2, WorkerFrame
  <2>2. CASE pc'[w] = "persist"
    <3>1. Msg(w)' = Msg(w) /\ (pc[w] = "persist" \/ MarkDelivery(w)) /\ ~Commits(w)
      BY <1>2, <2>2, PersistFrame
    <3>2. processed' = processed
      <4>1. \A v \in Workers \ {w} : ~Commits(v)
        BY <1>2, <2>2, WorkerFrame, CommitEffect, CommitIsWorkerStep
      <4>2. QED BY <3>1, <4>1, TablesFrame
    <3>3. CASE pc[w] = "persist"
      BY <2>1, <3>1, <3>2, <3>3 DEF MarkInv
    <3>4. CASE MarkDelivery(w)
      <4>1. Msg(w) \notin processed
        BY <2>2, <3>4 DEF MarkDelivery, IsDuplicate, Goto, TypeOK, WorkerTypeOK
      <4>2. Msg(w) \in Anonymous \/ \A v \in Workers : pc[v] = "persist" => Msg(v) # Msg(w)
        BY <3>4 DEF MarkDelivery, MarkHeld
      <4>3. QED BY <2>1, <3>1, <3>2, <4>1, <4>2 DEF MarkInv
    <3>5. QED BY <3>1, <3>3, <3>4
  <2>3. CASE pc'[w] # "persist"
    <3>1. CASE Commits(w)
      <4>1. processed' = processed \union ({Msg(w)} \ Anonymous) /\ pc[w] = "persist"
        BY <3>1, CommitEffect
      <4>2. QED BY <2>1, <2>3, <4>1 DEF MarkInv
    <3>2. CASE ~Commits(w)
      <4>1. processed' = processed
        BY <1>2, <3>2 DEF Commits, WorkerStep, Step, Misfortune, dbVars, Fetch, Normalize, ResolveTenant,
           MarkDelivery, EnqueueOutbox, PersistOrphan, DeadLetter, CommitOffset, DatabaseFails,
           DeadLetterFails, CommitOffsetFails, Crash, Restart
      <4>2. QED BY <2>1, <2>3, <4>1 DEF MarkInv
    <3>3. QED BY <3>1, <3>2
  <2>4. QED BY <2>2, <2>3
<1>3. ASSUME \A w \in Workers : ~WorkerStep(w) PROVE MarkInv'
  <2>1. UNCHANGED <<pc, cur, processed>>
    BY <1>3, QuietFrame
  <2>2. QED BY <1>1, <2>1 DEF MarkInv
<1>4. QED BY <1>2, <1>3

(* Both promises about the tables: a committing step adds the rows of one   *)
(* whole delivery, none of whose rows is there.                              *)
LEMMA EffectStep ==
  ASSUME TypeOK, KindInv, MarkInv, OneRowPerEvent, MarkedIffStaged, [Next]_vars
  PROVE  OneRowPerEvent' /\ MarkedIffStaged'
<1>1. ASSUME NEW w \in Workers, Commits(w) PROVE OneRowPerEvent' /\ MarkedIffStaged'
  <2> DEFINE d == Msg(w)
             new == RowsOf(d, staged[w])
  <2>1. /\ d \in Messages /\ d \notin processed
        /\ Len(staged[w]) = Events[d]
        /\ processed' = processed \union ({d} \ Anonymous)
        /\ outbox' = outbox \union new
    BY <1>1, CommitEffect DEF MarkInv
  <2>2. \A r \in new : r.delivery = d
    BY DEF RowsOf
  <2>3. \A r, s \in new : r.n = s.n => r = s
    BY DEF RowsOf
  <2>4. ASSUME NEW n \in 1 .. Events[d] PROVE \E r \in new : r.delivery = d /\ r.n = n
    <3>1. [id |-> staged[w][n], delivery |-> d, n |-> n] \in new
      BY <2>1 DEF RowsOf
    <3>2. QED BY <3>1
  <2>5. \A r \in outbox : r.delivery \in Identified => r.delivery \in processed
    BY DEF MarkedIffStaged
  <2> HIDE DEF d, new
  <2>6. OneRowPerEvent'
    <3>1. \A r \in outbox, s \in new : r.delivery \in Identified => r.delivery # s.delivery
      BY <2>1, <2>2, <2>5
    <3>2. \A r, s \in outbox : r.delivery \in Identified /\ r.delivery = s.delivery /\ r.n = s.n => r = s
      BY DEF OneRowPerEvent
    <3>3. QED BY <2>1, <2>3, <3>1, <3>2 DEF OneRowPerEvent
  <2>7. MarkedIffStaged'
    <3>1. \A r \in outbox' : r.delivery \in Identified => r.delivery \in processed'
      BY <2>1, <2>2, <2>5 DEF Identified
    <3>2. \A e \in processed' : \A n \in 1 .. Events[e] : \E r \in outbox' : r.delivery = e /\ r.n = n
      BY <2>1, <2>4 DEF MarkedIffStaged
    <3>3. QED BY <3>1, <3>2 DEF MarkedIffStaged
  <2>8. QED BY <2>6, <2>7
<1>2. ASSUME \A w \in Workers : ~Commits(w) PROVE OneRowPerEvent' /\ MarkedIffStaged'
  BY <1>2, TablesFrame DEF OneRowPerEvent, MarkedIffStaged
<1>3. QED BY <1>1, <1>2

--------------------------------------------------------------------------------
(* The order of settling and committing. *)

(* What settles a message is never taken back. *)
LEMMA Grows ==
  ASSUME TypeOK, KindInv, [Next]_vars
  PROVE  /\ processed \subseteq processed' /\ outbox \subseteq outbox' /\ dlq \subseteq dlq'
         /\ dropped \subseteq dropped' /\ failed \subseteq failed'
<1>1. processed \subseteq processed' /\ outbox \subseteq outbox'
  BY TablesFrame, CommitEffect
<1>2. ASSUME NEW w \in Workers, WorkerStep(w)
      PROVE  dlq \subseteq dlq' /\ dropped \subseteq dropped' /\ failed \subseteq failed'
  BY <1>2 DEF WorkerStep, Step, Misfortune, historyVars, Fetch, Normalize, ResolveTenant,
     MarkDelivery, EnqueueOutbox, PersistOrphan, CommitTx, CommitTxUnacknowledged, DeadLetter,
     CommitOffset, DatabaseFails, DeadLetterFails, CommitOffsetFails, Crash, Restart, WillRetry
<1>3. QED BY <1>1, <1>2, QuietFrame

(* What is done stays done. *)
LEMMA DoneStable ==
  ASSUME TypeOK, KindInv, [Next]_vars, NEW p \in Partitions, NEW o \in Offsets(p), Done(p, o)
  PROVE  Done(p, o)'
<1>1. MessageAt(p, o)' = MessageAt(p, o)
  BY LogStable
<1>2. QED BY <1>1, Grows DEF Done, Settled, Written

(* A worker's way to the commit settles its message. *)
LEMMA CommitReady ==
  ASSUME TypeOK, KindInv, NEW w \in Workers, WorkerStep(w), pc'[w] = "commit",
         NEW p \in Partitions, NEW o \in Offsets(p), cur[w] = <<p, o>>
  PROVE  Done(p, o)'
<1>1. Msg(w) = MessageAt(p, o) /\ MessageAt(p, o)' = MessageAt(p, o)
  BY LogStable, WorkerStepIsNext DEF Msg
<1>2. processed \subseteq processed' /\ dlq \subseteq dlq'
  BY Grows, WorkerStepIsNext
<1>3. CASE Normalize(w)
  BY <1>1, <1>3 DEF Normalize, Goto, TypeOK, WorkerTypeOK, Done, Settled
<1>4. CASE ResolveTenant(w)
  BY <1>1, <1>4 DEF ResolveTenant, Goto, TypeOK, WorkerTypeOK, Done, Settled
<1>5. CASE MarkDelivery(w)
  <2>1. Msg(w) \in processed
    BY <1>5 DEF MarkDelivery, IsDuplicate, Goto, TypeOK, WorkerTypeOK
  <2>2. QED BY <1>1, <1>2, <2>1 DEF Done, Settled, Written, KindInv, StoreKind
<1>6. CASE CommitTx(w)
  <2>1. /\ Msg(w) \in Messages /\ Kind[Msg(w)] = "good"
        /\ Len(staged[w]) = Events[Msg(w)]
        /\ processed' = processed \union ({Msg(w)} \ Anonymous)
        /\ outbox' = outbox \union RowsOf(Msg(w), staged[w])
    BY <1>6, CommitEffect DEF Commits
  <2>2. CASE Msg(w) \in Anonymous
    <3>1. 1 \in 1 .. Len(staged[w])
      BY <2>1, <2>2
    <3>2. [id |-> staged[w][1], delivery |-> Msg(w), n |-> 1] \in outbox'
      BY <2>1, <3>1 DEF RowsOf
    <3>3. \E r \in outbox' : r.delivery = Msg(w)
      BY <3>2
    <3>4. QED BY <1>1, <2>1, <2>2, <3>3 DEF Done, Settled, Written
  <2>3. CASE Msg(w) \notin Anonymous
    BY <1>1, <2>1, <2>3 DEF Done, Settled, Written
  <2>4. QED BY <2>2, <2>3
<1>7. CASE DeadLetter(w)
  BY <1>1, <1>7 DEF DeadLetter, Done, Settled, KindInv, WorkerKind
<1>8. QED
  BY <1>3, <1>4, <1>5, <1>6, <1>7 DEF WorkerStep, Step, Misfortune, Fetch,
     EnqueueOutbox, PersistOrphan, CommitOffset, CommitTxUnacknowledged, PersistDone,
     DatabaseFails, DeadLetterFails, CommitOffsetFails, Crash, Restart, WillRetry, LoopAgain, Goto,
     TypeOK, WorkerTypeOK

(* A worker lets a message go only when it is done, or in a crash. *)
LEMMA LetGo ==
  ASSUME TypeOK, KindInv, OrderInv, NEW w \in Workers, WorkerStep(w), Busy(w), ~Busy(w)', ~Crash(w),
         NEW p \in Partitions, NEW o \in Offsets(p), cur[w] = <<p, o>>
  PROVE  Done(p, o)'
<1>1. CASE CommitOffset(w) \/ CommitOffsetFails(w)
  <2>1. Done(p, o)
    BY <1>1 DEF CommitOffset, CommitOffsetFails, OrderInv, HandDone
  <2>2. QED BY <2>1, DoneStable, WorkerStepIsNext
<1>2. CASE WillRetry(w)
  BY <1>2 DEF WillRetry, Done
<1>3. QED
  BY <1>1, <1>2 DEF WorkerStep, Step, Misfortune, Fetch, Normalize, ResolveTenant, MarkDelivery,
     EnqueueOutbox, PersistOrphan, CommitTx, PersistDone, DeadLetter, CommitTxUnacknowledged,
     DatabaseFails, DeadLetterFails, Restart, Goto, Busy, Idle, TypeOK, WorkerTypeOK

(* A worker whose hand is empty has left nothing undone before its position. *)
LEMMA IdleRead ==
  ASSUME OrderInv, NEW p \in Partitions, owner[p] \in Workers, ~Busy(owner[p])
  PROVE  \A o \in 0 .. position[p] - 1 : Done(p, o)
  BY DEF OrderInv, ReadDone

(* Every step keeps the messages before a worker's own done. *)
LEMMA HandDoneStep ==
  ASSUME TypeOK, KindInv, OrderInv, [Next]_vars, NEW v \in Workers, Busy(v)'
  PROVE  HandDone(v)'
<1>1. CASE Busy(v) /\ cur'[v] = cur[v]
  <2>1. PICK p \in Partitions : \E o \in Offsets(p) : cur[v] = <<p, o>>
    BY <1>1 DEF TypeOK, HandOK
  <2>2. PICK o \in Offsets(p) : cur[v] = <<p, o>>
    BY <2>1
  <2>3. \A q \in 0 .. o - 1 : Done(p, q)
    BY <1>1, <2>2 DEF OrderInv, HandDone
  <2>4. \A q \in 0 .. o - 1 : q \in Offsets(p)
    BY DEF Offsets, TypeOK, GroupTypeOK
  <2>5. \A q \in 0 .. o - 1 : Done(p, q)'
    BY <2>3, <2>4, DoneStable
  <2>6. pc'[v] = "commit" => Done(p, o)'
    <3>1. CASE pc[v] = "commit"
      BY <1>1, <2>2, <3>1, DoneStable DEF OrderInv, HandDone
    <3>2. CASE WorkerStep(v)
      BY <2>2, <3>2, CommitReady
    <3>3. CASE ~WorkerStep(v)
      <4>1. pc'[v] = pc[v]
        BY <3>3, WorkerFrame, QuietFrame
      <4>2. QED BY <3>1, <4>1
    <3>4. QED BY <3>2, <3>3
  <2>7. QED BY <1>1, <2>2, <2>5, <2>6 DEF HandDone
<1>2. CASE Fetch(v)
  <2>1. PICK p \in Partitions : FetchFrom(v, p) /\ cur' = [cur EXCEPT ![v] = <<p, position[p]>>]
    BY <1>2 DEF Fetch
  <2>2. /\ cur'[v] = <<p, position[p]>> /\ pc'[v] = "normalize" /\ pc[v] = "fetch"
        /\ owner[p] = v /\ position[p] \in Nat /\ position[p] < Len(log[p])
    BY <1>2, <2>1 DEF Fetch, FetchFrom, CanFetch, Goto, TypeOK, GroupTypeOK, WorkerTypeOK
  <2>3. \A q \in 0 .. position[p] - 1 : Done(p, q)
    BY <2>2, IdleRead DEF Busy, Idle
  <2>4. \A q \in 0 .. position[p] - 1 : q \in Offsets(p)
    BY <2>2 DEF Offsets, TypeOK, GroupTypeOK
  <2>5. \A q \in 0 .. position[p] - 1 : Done(p, q)'
    BY <2>3, <2>4, DoneStable
  <2>6. QED BY <2>2, <2>5 DEF HandDone
<1>3. Fetch(v) \/ (Busy(v) /\ cur'[v] = cur[v])
  <2>1. CASE WorkerStep(v)
    BY <2>1, HandFrame
  <2>2. CASE ~WorkerStep(v)
    <3>1. pc'[v] = pc[v] /\ cur'[v] = cur[v]
      BY <2>2, WorkerFrame, QuietFrame
    <3>2. QED BY <3>1 DEF Busy
  <2>3. QED BY <2>1, <2>2
<1>4. QED BY <1>1, <1>2, <1>3

(* Every step keeps what the owner of a partition has read done, or in hand. *)
LEMMA ReadDoneStep ==
  ASSUME TypeOK, KindInv, OrderInv, PassedOnlyWhenDone, [Next]_vars, NEW p \in Partitions, owner'[p] \in Workers
  PROVE  ReadDone(p)'
<1>0. position[p] \in Nat /\ position[p] <= Len(log[p]) /\ committed[p] \in Nat /\ committed[p] <= Len(log[p])
  BY DEF TypeOK, GroupTypeOK
(* Nothing of the partition moved: what was done stays done, and its owner  *)
(* has its message in hand still, or let it go.                              *)
<1>1. ASSUME owner'[p] = owner[p], position'[p] = position[p], ~Crash(owner[p]), ~Fetch(owner[p])
      PROVE  ReadDone(p)'
  <2> DEFINE v == owner[p]
  <2>1. ASSUME NEW o \in 0 .. position[p] - 1
        PROVE  Done(p, o)' \/ (Busy(v)' /\ cur'[v] = <<p, o>>)
    <3>1. o \in Offsets(p)
      BY <1>0, <2>1 DEF Offsets
    <3>2. CASE Done(p, o)
      BY <3>1, <3>2, DoneStable
    <3>3. CASE ~Done(p, o)
      <4>1. v \in Workers /\ Busy(v) /\ cur[v] = <<p, o>>
        BY <1>1, <3>3 DEF OrderInv, ReadDone
      <4>2. CASE WorkerStep(v) /\ Busy(v)'
        BY <1>1, <4>1, <4>2, HandFrame
      <4>3. CASE WorkerStep(v) /\ ~Busy(v)'
        BY <1>1, <3>1, <4>1, <4>3, LetGo
      <4>4. CASE ~WorkerStep(v)
        <5>1. pc'[v] = pc[v] /\ cur'[v] = cur[v]
          BY <4>1, <4>4, WorkerFrame, QuietFrame
        <5>2. QED BY <1>1, <4>1, <5>1 DEF Busy
      <4>5. QED BY <4>2, <4>3, <4>4
    <3>4. QED BY <3>2, <3>3
  <2>2. QED BY <1>1, <2>1 DEF ReadDone
<1>2. CASE \E w \in Workers : Fetch(w)
  <2>1. PICK w \in Workers : Fetch(w)
    BY <1>2
  <2>2. PICK q \in Partitions : FetchFrom(w, q) /\ cur' = [cur EXCEPT ![w] = <<q, position[q]>>]
    BY <2>1 DEF Fetch
  <2>3. /\ owner' = owner /\ owner[q] = w /\ ~Busy(w) /\ Busy(w)'
        /\ cur'[w] = <<q, position[q]>>
        /\ position'[q] = position[q] + 1
        /\ p # q => position'[p] = position[p]
    BY <2>1, <2>2 DEF Fetch, FetchFrom, CanFetch, Goto, Busy, Idle, TypeOK, GroupTypeOK, WorkerTypeOK
  <2>4. CASE owner[p] = w
    <3>1. \A o \in 0 .. position[p] - 1 : Done(p, o)
      BY <2>3, <2>4, IdleRead
    <3>2. \A o \in 0 .. position[p] - 1 : Done(p, o)'
      <4>1. \A o \in 0 .. position[p] - 1 : o \in Offsets(p)
        BY <1>0 DEF Offsets
      <4>2. QED BY <3>1, <4>1, DoneStable
    <3>3. CASE p = q
      BY <1>0, <2>3, <3>2, <3>3 DEF ReadDone
    <3>4. CASE p # q
      BY <1>0, <2>3, <3>2, <3>4 DEF ReadDone
    <3>5. QED BY <3>3, <3>4
  <2>5. CASE owner[p] # w
    <3>1. ~Fetch(owner[p]) /\ ~Crash(owner[p])
      <4>1. owner[p] \in Workers /\ pc'[owner[p]] = pc[owner[p]]
        BY <2>1, <2>3, <2>5, WorkerFrame DEF WorkerStep, Step
      <4>2. QED BY <4>1 DEF Fetch, Crash, LoopAgain, Goto, TypeOK, WorkerTypeOK
    <3>2. position'[p] = position[p]
      BY <2>3, <2>5
    <3>3. QED BY <1>1, <2>3, <3>1, <3>2
  <2>6. QED BY <2>4, <2>5
<1>3. CASE \E w \in Workers : Crash(w)
  <2>1. PICK w \in Workers : Crash(w)
    BY <1>3
  <2>2. owner'[p] = owner[p] /\ owner[p] # w /\ position' = position
    BY <2>1, GroupAssumption DEF Crash, Leave, TypeOK, GroupTypeOK
  <2>3. ~Fetch(owner[p]) /\ ~Crash(owner[p])
    <3>1. owner[p] \in Workers /\ pc'[owner[p]] = pc[owner[p]]
      BY <2>1, <2>2, WorkerFrame DEF WorkerStep, Misfortune
    <3>2. QED BY <3>1 DEF Fetch, Crash, LoopAgain, Goto, TypeOK, WorkerTypeOK
  <2>4. QED BY <1>1, <2>2, <2>3
<1>4. CASE AssignOrphans \/ Rebalance
  <2>1. position'[p] = committed[p]
    BY <1>4 DEF AssignOrphans, Rebalance, Assign
  <2>2. \A o \in 0 .. committed[p] - 1 : o \in Offsets(p) /\ Done(p, o)
    BY <1>0 DEF PassedOnlyWhenDone, Offsets
  <2>3. \A o \in 0 .. committed[p] - 1 : Done(p, o)'
    BY <2>2, DoneStable
  <2>4. QED BY <2>1, <2>3 DEF ReadDone
<1>5. CASE ~(\E w \in Workers : Fetch(w) \/ Crash(w)) /\ ~AssignOrphans /\ ~Rebalance
  <2>1. owner' = owner /\ position' = position
    BY <1>5 DEF Next, Step, Misfortune, Produce, Append1, Onboard, Normalize, ResolveTenant, MarkDelivery,
       EnqueueOutbox, PersistOrphan, CommitTx, CommitTxUnacknowledged, DeadLetter, CommitOffset, CommitUpTo,
       DatabaseFails, DeadLetterFails, CommitOffsetFails, Restart, WillRetry, groupVars, vars
  <2>2. QED BY <1>1, <1>5, <2>1
<1>6. QED BY <1>2, <1>3, <1>4, <1>5

(* Every step keeps the processing order. *)
LEMMA OrderStep ==
  ASSUME TypeOK, KindInv, OrderInv, PassedOnlyWhenDone, [Next]_vars
  PROVE  OrderInv'
<1>1. \A v \in Workers : HandDone(v)'
  <2>1. ASSUME NEW v \in Workers, ~Busy(v)' PROVE HandDone(v)'
    BY <2>1 DEF HandDone
  <2>2. QED BY <2>1, HandDoneStep
<1>2. \A p \in Partitions : ReadDone(p)'
  <2>1. ASSUME NEW p \in Partitions, owner'[p] \notin Workers PROVE ReadDone(p)'
    BY <2>1 DEF ReadDone
  <2>2. QED BY <2>1, ReadDoneStep
<1>3. QED BY <1>1, <1>2 DEF OrderInv

(* Only CommitOffset moves the committed offset, and what it passes is done. *)
LEMMA PassedStep ==
  ASSUME TypeOK, KindInv, OrderInv, PassedOnlyWhenDone, [Next]_vars
  PROVE  PassedOnlyWhenDone'
<1>1. ASSUME NEW p \in Partitions, NEW o \in 0 .. committed[p] - 1 PROVE Done(p, o)'
  <2>1. o \in Offsets(p) /\ Done(p, o)
    BY DEF PassedOnlyWhenDone, Offsets, TypeOK, GroupTypeOK
  <2>2. QED BY <2>1, DoneStable
<1>2. ASSUME NEW w \in Workers, CommitOffset(w) PROVE PassedOnlyWhenDone'
  <2>1. PICK q \in Partitions : \E o \in Offsets(q) : cur[w] = <<q, o>>
    BY <1>2 DEF CommitOffset, TypeOK, HandOK, Busy, Idle
  <2>2. PICK k \in Offsets(q) : cur[w] = <<q, k>>
    BY <2>1
  <2>3. /\ committed' = [committed EXCEPT ![q] = k + 1]
        /\ \A o \in 0 .. k - 1 : Done(q, o)
        /\ Done(q, k)
    BY <1>2, <2>2 DEF CommitOffset, CommitUpTo, OrderInv, HandDone, Busy, Idle
  <2>4. \A o \in 0 .. k : o \in Offsets(q) /\ Done(q, o)
    BY <2>3 DEF Offsets, TypeOK, GroupTypeOK
  <2>5. \A o \in 0 .. k : Done(q, o)'
    BY <2>4, DoneStable
  <2>6. ASSUME NEW p \in Partitions, NEW o \in 0 .. committed'[p] - 1 PROVE Done(p, o)'
    <3>1. CASE p = q
      BY <2>3, <2>5, <3>1 DEF TypeOK, GroupTypeOK, Offsets
    <3>2. CASE p # q
      BY <1>1, <2>3, <3>2 DEF TypeOK, GroupTypeOK
    <3>3. QED BY <3>1, <3>2
  <2>7. QED BY <2>6 DEF PassedOnlyWhenDone
<1>3. CASE ~ \E w \in Workers : CommitOffset(w)
  <2>1. committed' = committed
    BY <1>3 DEF Next, Step, Misfortune, Produce, Append1, Onboard, Fetch, FetchFrom, Normalize, ResolveTenant,
       MarkDelivery, EnqueueOutbox, PersistOrphan, CommitTx, CommitTxUnacknowledged, DeadLetter,
       DatabaseFails, DeadLetterFails, CommitOffsetFails, Crash, Leave, Restart, AssignOrphans, Rebalance,
       Assign, WillRetry, groupVars, vars
  <2>2. QED BY <1>1, <2>1 DEF PassedOnlyWhenDone
<1>4. QED BY <1>2, <1>3

--------------------------------------------------------------------------------
(* The theorems. *)

(* The inductive invariant holds initially. *)
LEMMA IInvInit == Init => IInv
<1> SUFFICES ASSUME Init PROVE IInv
  OBVIOUS
<1>1. TypeOK
  BY TypeInit
<1>2. KindInv /\ MarkInv /\ OneRowPerEvent /\ MarkedIffStaged
  BY DEF Init, KindInv, WorkerKind, StoreKind, MarkInv, OneRowPerEvent, MarkedIffStaged
<1>3. IdInv
  BY DEF Init, IdInv, StagedIds, DistinctIds
<1>4. OrderInv /\ PassedOnlyWhenDone
  BY DEF Init, GroupInit, OrderInv, HandDone, ReadDone, PassedOnlyWhenDone, Busy, Idle
<1>5. QED BY <1>1, <1>2, <1>3, <1>4 DEF IInv

(* Every step keeps the inductive invariant. *)
LEMMA IInvStep == IInv /\ [Next]_vars => IInv'
  BY TypeStep, KindStep, IdStep, MarkStep, EffectStep, OrderStep, PassedStep DEF IInv

(* The inductive invariant of the normalizer. *)
THEOREM Invariance == Spec => []IInv
  BY IInvInit, IInvStep, PTL DEF Spec

(* The dedup promise: in every reachable state an identified delivery has at *)
(* most one outbox row per event, however it was redelivered or retried.      *)
THEOREM ExactlyOnceRows == Spec => []OneRowPerEvent
<1>1. IInv => OneRowPerEvent
  BY DEF IInv
<1>2. QED BY <1>1, Invariance, PTL

(* The outbox promise: mark and events appear together. *)
THEOREM AtomicEffect == Spec => []MarkedIffStaged
<1>1. IInv => MarkedIffStaged
  BY DEF IInv
<1>2. QED BY <1>1, Invariance, PTL

(* What is parked in the dead-letter topic left nothing in the database. *)
THEOREM DeadLettersAreClean == Spec => []DeadLetteredHasNoEffect
<1>1. IInv => DeadLetteredHasNoEffect
  BY DEF IInv, KindInv, StoreKind, DeadLetteredHasNoEffect
<1>2. QED BY <1>1, Invariance, PTL

(* The commit order: the group passes only messages that were settled or met *)
(* a transient failure, through any crashes, rebalances and stale commits.    *)
THEOREM PassedIsDone == Spec => []PassedOnlyWhenDone
<1>1. IInv => PassedOnlyWhenDone
  BY DEF IInv
<1>2. QED BY <1>1, Invariance, PTL

(* Every step is a step of the ledger: it applies one whole delivery, or     *)
(* leaves both tables alone.                                                  *)
LEMMA LedgerStep ==
  ASSUME IInv, [Next]_vars
  PROVE  [Ledger!Next]_(Ledger!vars)
<1>1. ASSUME NEW w \in Workers, Commits(w) PROVE Ledger!Next
  <2> DEFINE d == Msg(w)
             new == RowsOf(d, staged[w])
  <2>1. /\ pc[w] = "persist" /\ d \in Messages /\ Kind[d] = "good" /\ d \notin processed
        /\ Len(staged[w]) = Events[d]
        /\ processed' = processed \union ({d} \ Anonymous)
        /\ outbox' = outbox \union new
    BY <1>1, CommitEffect DEF IInv, MarkInv
  <2>2. /\ staged[w] \in Seq(Nat \ {0})
        /\ \A i, j \in 1 .. Len(staged[w]) : i < j => staged[w][i] < staged[w][j]
        /\ \A i \in 1 .. Len(staged[w]), r \in outbox : staged[w][i] # r.id
    BY DEF IInv, TypeOK, WorkerTypeOK, IdInv, StagedIds
  <2>3. \A r \in new : /\ r.delivery = d /\ r.n \in 1 .. Len(staged[w])
                        /\ r.id = staged[w][r.n]
                        /\ r = [id |-> staged[w][r.n], delivery |-> d, n |-> r.n]
    BY DEF RowsOf
  <2>4. \A n \in 1 .. Len(staged[w]) : [id |-> staged[w][n], delivery |-> d, n |-> n] \in new
    BY DEF RowsOf
  <2> HIDE DEF new
  <2>5. outbox' \ outbox = new
    BY <2>1, <2>2, <2>3
  <2>6. Ledger!StagesExactly(d, new)
    <3>1. \A r \in new : r.delivery = d /\ r.n \in 1 .. Events[d]
      BY <2>1, <2>3
    <3>2. ASSUME NEW n \in 1 .. Events[d] PROVE \E r \in new : r.n = n
      <4>1. [id |-> staged[w][n], delivery |-> d, n |-> n] \in new
        BY <2>1, <2>4
      <4>2. QED BY <4>1
    <3>3. ASSUME NEW r \in new, NEW s \in new PROVE r.n < s.n <=> r.id < s.id
      <4>1. /\ r.n \in 1 .. Len(staged[w]) /\ s.n \in 1 .. Len(staged[w])
            /\ r.id = staged[w][r.n] /\ s.id = staged[w][s.n]
        BY <2>3
      <4>2. /\ staged[w][r.n] \in Nat /\ staged[w][s.n] \in Nat
            /\ r.n < s.n => staged[w][r.n] < staged[w][s.n]
            /\ s.n < r.n => staged[w][s.n] < staged[w][r.n]
        BY <2>2, <4>1
      <4>3. r.n < s.n \/ s.n < r.n \/ r.n = s.n
        BY <4>1
      <4>4. QED BY <4>1, <4>2, <4>3
    <3>4. \A r, s \in new : r.n = s.n => r = s
      BY <2>3
    <3>5. ASSUME NEW r \in new, NEW s \in outbox PROVE r.id # s.id
      <4>1. r.n \in 1 .. Len(staged[w]) /\ r.id = staged[w][r.n]
        BY <2>3
      <4>2. QED BY <2>2, <4>1
    <3>6. QED BY <3>1, <3>2, <3>3, <3>4, <3>5 DEF Ledger!StagesExactly
  <2>7. Ledger!Apply(d)
    BY <2>1, <2>5, <2>6 DEF Ledger!Apply
  <2>8. QED BY <2>1, <2>7 DEF Ledger!Next, Good
<1>2. CASE \A w \in Workers : ~Commits(w)
  BY <1>2, TablesFrame DEF Ledger!vars, IInv
<1>3. QED BY <1>1, <1>2

(* Refinement: the normalizer, with all its workers, retries and crashes,    *)
(* implements the ledger of deliveries.                                       *)
THEOREM ImplementsLedger == Spec => AppliesWholeDeliveries
<1>1. Init => Ledger!Init
  BY DEF Init, Ledger!Init
<1>2. QED BY <1>1, LedgerStep, Invariance, PTL DEF Spec, AppliesWholeDeliveries, Ledger!Spec

--------------------------------------------------------------------------------
(* Normalizer implements AtLeastOnce. *)

(* What is done is at a place of the log. *)
LEMMA DonePlacesAre ==
  ASSUME TypeOK
  PROVE  /\ DonePlaces \subseteq Places
         /\ \A pl \in DonePlaces : \E p \in Partitions : \E o \in Offsets(p) :
              pl = <<p, o>> /\ Done(p, o)
  BY DEF DonePlaces, Places, Offsets, TypeOK, GroupTypeOK

(* What is done stays done. *)
LEMMA DoneGrows ==
  ASSUME IInv, [Next]_vars
  PROVE  DonePlaces \subseteq DonePlaces' /\ DonePlaces' \subseteq Places
<1>1. TypeOK /\ TypeOK' /\ KindInv
  BY TypeStep DEF IInv
<1>2. ASSUME NEW pl \in DonePlaces PROVE pl \in DonePlaces'
  <2>1. PICK p \in Partitions : \E o \in Offsets(p) : pl = <<p, o>> /\ Done(p, o)
    BY <1>1, DonePlacesAre
  <2>2. PICK o \in Offsets(p) : pl = <<p, o>> /\ Done(p, o)
    BY <2>1
  <2>3. o \in Offsets(p)' /\ Done(p, o)'
    BY <1>1, <2>2, LogStable, DoneStable
  <2>4. QED BY <2>2, <2>3 DEF DonePlaces
<1>3. DonePlaces' \subseteq Places
  BY <1>1 DEF DonePlaces, Places, Offsets, TypeOK, GroupTypeOK
<1>4. QED BY <1>2, <1>3

(* Steps that leave what decides on it alone leave what is done alone. *)
LEMMA DoneFrame ==
  ASSUME UNCHANGED <<log, processed, outbox, dlq, dropped, failed>>
  PROVE  UNCHANGED DonePlaces
  BY DEF DonePlaces, Done, Settled, Written, Offsets, MessageAt

(* The end of the loop's body, with a commit or without. *)
LEMMA Finishes ==
  ASSUME NEW w \in Workers, cur[w] # NoMessage, cur[w] \in DonePlaces',
         DonePlaces \subseteq DonePlaces', DonePlaces' \subseteq Places,
         CommitUpTo(cur[w][1], cur[w][2]) \/ UNCHANGED groupVars,
         cur' = [cur EXCEPT ![w] = NoMessage]
  PROVE  Loop!Next
  BY DEF Loop!Next, Loop!Finish, CommitUpTo, Loop!CommitUpTo, Loop!NeverUndone, Loop!Drop,
     Loop!Places, Places, Loop!NoMessage, NoMessage, groupVars, Loop!groupVars

(* Processing that moves no offset. *)
LEMMA Works ==
  ASSUME DonePlaces \subseteq DonePlaces', DonePlaces' \subseteq Places,
         UNCHANGED <<groupVars, cur>>
  PROVE  Loop!Next
  BY DEF Loop!Next, Loop!Work, Loop!NeverUndone, Loop!Places, Places, groupVars, Loop!groupVars

(* Steps of process that neither take a message nor let it go. *)
Processing(w) ==
  \/ Normalize(w) \/ ResolveTenant(w) \/ MarkDelivery(w) \/ EnqueueOutbox(w)
  \/ PersistOrphan(w) \/ CommitTx(w) \/ DeadLetter(w) \/ Restart(w)

(* Steps that end the loop's body. *)
Finishing(w) ==
  \/ CommitOffset(w) \/ CommitTxUnacknowledged(w) \/ DatabaseFails(w)
  \/ DeadLetterFails(w) \/ CommitOffsetFails(w)

(* Every step of Normalizer is a step the promise allows, or none. *)
LEMMA LoopStep ==
  ASSUME IInv, [Next]_vars
  PROVE  [Loop!Next]_(Loop!vars)
<1>0. /\ TypeOK /\ TypeOK' /\ KindInv /\ OrderInv
      /\ DonePlaces \subseteq DonePlaces' /\ DonePlaces' \subseteq Places
  BY TypeStep, DoneGrows DEF IInv
<1>1. ASSUME NEW m \in Messages, Produce(m) PROVE Loop!Next
  BY <1>0, <1>1 DEF Produce, workerVars, Loop!Next, Loop!Produce, Append1, Loop!Append1,
     Loop!NeverUndone, Loop!Places, Places
<1>2. ASSUME NEW w \in Workers, Fetch(w) PROVE Loop!Next
  <2>1. PICK p \in Partitions :
          FetchFrom(w, p) /\ cur' = [cur EXCEPT ![w] = <<p, position[p]>>]
    BY <1>2 DEF Fetch
  <2>2. cur[w] = NoMessage
    BY <1>0, <1>2 DEF Fetch, TypeOK, HandOK, Busy, Idle
  <2>3. UNCHANGED DonePlaces
    BY <1>2, <2>1, DoneFrame DEF Fetch, FetchFrom, dbVars, historyVars
  <2>4. Loop!FetchFrom(w, p)
    BY <2>1 DEF FetchFrom, Loop!FetchFrom, CanFetch, Loop!CanFetch
  <2>5. Loop!Fetch(w)
    BY <2>1, <2>2, <2>3, <2>4 DEF Loop!Fetch, Loop!NoMessage, NoMessage
  <2>6. QED BY <2>5 DEF Loop!Next
<1>3. ASSUME NEW w \in Workers, Processing(w) PROVE Loop!Next
  <2>1. UNCHANGED <<groupVars, cur>>
    BY <1>3 DEF Processing, Normalize, ResolveTenant, MarkDelivery, EnqueueOutbox,
       PersistOrphan, CommitTx, DeadLetter, Restart
  <2>2. QED BY <1>0, <2>1, Works
<1>4. ASSUME NEW w \in Workers, Finishing(w) PROVE Loop!Next
  <2>1. /\ WorkerStep(w) /\ Busy(w) /\ ~Busy(w)' /\ ~Crash(w)
        /\ cur' = [cur EXCEPT ![w] = NoMessage]
        /\ CommitUpTo(cur[w][1], cur[w][2]) \/ UNCHANGED groupVars
    BY <1>0, <1>4 DEF Finishing, WorkerStep, Step, Misfortune, CommitOffset,
       CommitTxUnacknowledged, PersistDone, DatabaseFails, DeadLetterFails, CommitOffsetFails,
       WillRetry, LoopAgain, Goto, Busy, Idle, Crash, TypeOK, WorkerTypeOK
  <2>2. PICK p \in Partitions : \E o \in Offsets(p) : cur[w] = <<p, o>>
    BY <1>0, <2>1 DEF TypeOK, HandOK
  <2>3. PICK o \in Offsets(p) : cur[w] = <<p, o>>
    BY <2>2
  <2>4. cur[w] # NoMessage
    BY <2>3 DEF NoMessage
  <2>5. Done(p, o)' /\ o \in Offsets(p)'
    BY <1>0, <2>1, <2>3, LetGo, LogStable
  <2>6. cur[w] \in DonePlaces'
    BY <2>3, <2>5 DEF DonePlaces
  <2>7. QED BY <1>0, <2>1, <2>4, <2>6, Finishes
<1>5. ASSUME NEW w \in Workers, Crash(w) PROVE Loop!Next
  <2>1. UNCHANGED DonePlaces
    BY <1>5, DoneFrame DEF Crash, Leave, dbVars, historyVars
  <2>2. Loop!Crash(w)
    BY <1>5, <2>1 DEF Crash, Leave, LoopAgain, Loop!Crash, Loop!Leave, Loop!Drop,
       Loop!NoMessage, NoMessage
  <2>3. QED BY <2>2 DEF Loop!Next
<1>6. ASSUME AssignOrphans \/ Rebalance PROVE Loop!Next
  <2>1. Assign(Workers) /\ UNCHANGED <<log, cur, processed, outbox, dlq, dropped, failed>>
    BY <1>6 DEF AssignOrphans, Rebalance, Assign, Live, workerVars, dbVars, historyVars
  <2>2. UNCHANGED DonePlaces
    BY <2>1, DoneFrame
  <2>3. QED BY <2>1, <2>2 DEF Loop!Next, Loop!Reassign, Assign, Loop!Assign
<1>7. ASSUME NEW t \in Tenants, Onboard(t) PROVE Loop!Next
  BY <1>0, <1>7, Works DEF Onboard, workerVars
<1>8. ASSUME UNCHANGED vars PROVE UNCHANGED Loop!vars
  BY <1>8, DoneFrame DEF vars, Loop!vars, groupVars, Loop!groupVars, workerVars, dbVars, historyVars
<1>9. QED
  BY <1>1, <1>2, <1>3, <1>4, <1>5, <1>6, <1>7, <1>8 DEF Next, Step, Misfortune, Processing,
     Finishing

(* Refinement: the loop is the one AtLeastOnce describes.  Whatever crashes,  *)
(* moves or fails, a worker lets go of a message only once it is settled or   *)
(* logged as failed.                                                          *)
THEOREM ImplementsLoop == Spec => ProcessesThenCommits
<1>1. Init => Loop!Init
  BY DEF Init, GroupInit, Loop!Init, Loop!GroupInit, Loop!NoMessage, NoMessage, DonePlaces,
     Offsets
<1>2. QED BY <1>1, LoopStep, Invariance, PTL DEF Spec, ProcessesThenCommits, Loop!Spec
================================================================================
