------------------------------ MODULE Normalizer -------------------------------
(***************************************************************************)
(* services/normalizer/main.go: each worker runs the loop                  *)
(*     fetch -> process -> commit the offset                               *)
(* over the topic enriched.github.  process classifies the message,        *)
(* resolves its tenant and, in one Postgres transaction (READ COMMITTED),  *)
(* marks the delivery, writes its entities and stages its canonical events *)
(* in the outbox.  Several workers may run; any of them may crash, lose a  *)
(* partition to another worker, or see a dependency fail at any step.      *)
(*                                                                         *)
(* Abstracted: payloads and the columns of the entities (a delivery stands *)
(* for what it writes, an outbox row for one entity write and the event    *)
(* staged with it), the delay of the backoff and the attempt counter that  *)
(* only sets it (a worker may be delayed anywhere), logging and tracing.   *)
(* A SIGTERM cancels the context, which ends the worker at its next call:  *)
(* a Crash here.                                                           *)
(***************************************************************************)
EXTENDS ConsumerGroup

CONSTANTS
  Kind,         \* [Messages -> Kinds]: what Normalize and persist make of one
  Anonymous,    \* messages without an X-GitHub-Delivery header
  Events,       \* [Messages -> Nat]: rows persist stages for the message
  TenantOf,     \* [Messages -> Tenants]: the tenant of the installation
  Tenants,
  Onboarded,    \* tenants known in github_installation from the start
  MaxCopies,    \* bound: times one message is written to the topic
  MaxWrites,    \* bound: writes to the topic
  MaxFaults,    \* bound: transient errors (database, DLQ write)
  MaxDisruptions \* bound: crashes, rebalances, failed offset commits

Kinds == { "good",     \* normalizes and persists
           "skip",     \* not supported or empty: Result.Skip or Empty()
           "bad",      \* Normalize fails: permanentError
           "orphan" }  \* persist fails for good: a review whose PR the Result
                       \* lacks.  persist guards the connector.Source contract;
                       \* the GitHub connector always adds the PR.

ASSUME NormalizerAssumption ==
  /\ Kind \in [Messages -> Kinds]
  /\ Anonymous \subseteq Messages
  /\ Events \in [Messages -> Nat]
  /\ \A m \in Anonymous : Events[m] > 0
  /\ TenantOf \in [Messages -> Tenants]
  /\ Onboarded \subseteq Tenants
  /\ MaxCopies \in Nat /\ MaxFaults \in Nat /\ MaxDisruptions \in Nat

VARIABLES
  pc,          \* pc[w]: where worker w is in its loop
  cur,         \* cur[w]: <<partition, offset>> of the message in hand, or NoMessage
  staged,      \* staged[w]: outbox ids drawn by w's open transaction, in order
  nextId,      \* next value of the outbox identity sequence (never rolled back)
  processed,   \* table processed_delivery: deliveries marked
  outbox,      \* table outbox: committed rows
  dlq,         \* topic raw.github.dlq: messages parked
  known,       \* table github_installation: tenants that resolve
  dropped,     \* history: <<p, o>> dropped as "unknown installation"
  failed,      \* history: <<p, o>> logged as "failed; will retry"
  faults,      \* transient errors so far
  disruptions  \* crashes, rebalances and failed offset commits so far

workerVars == <<pc, cur, staged>>
dbVars == <<nextId, processed, outbox, known>>
historyVars == <<dropped, failed>>
countVars == <<faults, disruptions>>
vars == <<groupVars, workerVars, dbVars, dlq, historyVars, countVars>>

Stages == {"fetch", "normalize", "tenant", "mark", "persist", "deadletter", "commit", "down"}
Idle == {"fetch", "down"}

NoMessage == <<>>
Places == Partitions \X Nat
Rows == [id : Nat \ {0}, delivery : Messages, n : Nat \ {0}]

Busy(w) == pc[w] \notin Idle

(* The message worker w has in hand. *)
Msg(w) == MessageAt(cur[w][1], cur[w][2])

Identified == Messages \ Anonymous

(* The rows of the transaction that drew the ids s for delivery d. *)
RowsOf(d, s) == { [id |-> s[i], delivery |-> d, n |-> i] : i \in 1 .. Len(s) }

(* An uncommitted insert of d's mark makes another insert of it wait. *)
MarkHeld(d) == \E w \in Workers : pc[w] = "persist" /\ Msg(w) = d

(* A worker has a message in hand but at the head of the loop. *)
HandOK ==
  \A w \in Workers :
    /\ Busy(w) => \E p \in Partitions : \E o \in Offsets(p) : cur[w] = <<p, o>>
    /\ ~Busy(w) => cur[w] = NoMessage

WorkerTypeOK ==
  /\ pc \in [Workers -> Stages]
  /\ cur \in [Workers -> Places \union {NoMessage}]
  /\ staged \in [Workers -> Seq(Nat \ {0})]

StoreTypeOK ==
  /\ nextId \in Nat \ {0}
  /\ processed \subseteq Identified
  /\ outbox \subseteq Rows
  /\ dlq \subseteq Messages
  /\ known \subseteq Tenants
  /\ dropped \subseteq Places
  /\ failed \subseteq Places
  /\ faults \in 0 .. MaxFaults
  /\ disruptions \in 0 .. MaxDisruptions

TypeOK == GroupTypeOK /\ WorkerTypeOK /\ HandOK /\ StoreTypeOK

Init ==
  /\ GroupInit
  /\ pc = [w \in Workers |-> "fetch"]
  /\ cur = [w \in Workers |-> NoMessage]
  /\ staged = [w \in Workers |-> <<>>]
  /\ nextId = 1
  /\ processed = {}
  /\ outbox = {}
  /\ dlq = {}
  /\ known = Onboarded
  /\ dropped = {}
  /\ failed = {}
  /\ faults = 0
  /\ disruptions = 0

--------------------------------------------------------------------------------
(* The loop's control. *)

Goto(w, stage) == pc' = [pc EXCEPT ![w] = stage]

(* Back to the head of the loop: the message is let go, an open transaction *)
(* has ended (WithTenant's deferred Rollback).                               *)
LoopAgain(w, stage) ==
  /\ Goto(w, stage)
  /\ cur' = [cur EXCEPT ![w] = NoMessage]
  /\ staged' = [staged EXCEPT ![w] = <<>>]

Fault == faults < MaxFaults /\ faults' = faults + 1 /\ UNCHANGED disruptions
Disruption == disruptions < MaxDisruptions /\ disruptions' = disruptions + 1 /\ UNCHANGED faults

(* "process failed; will retry": no offset commit, back to the fetch. *)
WillRetry(w) ==
  /\ Fault
  /\ failed' = failed \union {cur[w]}
  /\ LoopAgain(w, "fetch")
  /\ UNCHANGED <<groupVars, dropped>>

--------------------------------------------------------------------------------
(* connector-github writes m to the topic; a redelivery writes it again. *)
Produce(m) ==
  /\ Copies(m) < MaxCopies
  /\ WritesUpTo(MaxWrites) < MaxWrites
  /\ Append1(m)
  /\ UNCHANGED <<workerVars, dbVars, dlq, historyVars, countVars>>

(* An operator onboards a tenant: its installation resolves from now on. *)
Onboard(t) ==
  /\ t \notin known
  /\ known' = known \union {t}
  /\ UNCHANGED <<groupVars, workerVars, nextId, processed, outbox, dlq, historyVars, countVars>>

(* Faulty variants of Fetch: ReadMessage, which commits as it reads; the     *)
(* offset in hand is the reader's next one.                                  *)
FetchAutoCommit(w) ==
  /\ pc[w] = "fetch"
  /\ \E p \in Partitions :
       /\ CanFetch(w, p)
       /\ position' = [position EXCEPT ![p] = @ + 1]
       /\ committed' = [committed EXCEPT ![p] = position[p] + 1]
       /\ cur' = [cur EXCEPT ![w] = <<p, position[p]>>]
  /\ Goto(w, "normalize")
  /\ UNCHANGED <<log, owner, staged, dbVars, dlq, historyVars, countVars>>

FetchNextOffset(w) ==
  /\ pc[w] = "fetch"
  /\ \E p \in Partitions :
       /\ FetchFrom(w, p)
       /\ cur' = [cur EXCEPT ![w] = <<p, position[p] + 1>>]
  /\ Goto(w, "normalize")
  /\ UNCHANGED <<staged, dbVars, dlq, historyVars, countVars>>

Fetch(w) ==
  /\ pc[w] = "fetch"
  /\ \E p \in Partitions :
       /\ FetchFrom(w, p)
       /\ cur' = [cur EXCEPT ![w] = <<p, position[p]>>]
  /\ Goto(w, "normalize")
  /\ UNCHANGED <<staged, dbVars, dlq, historyVars, countVars>>

(* process: Normalize is pure; its result picks the branch. *)
Normalize(w) ==
  /\ pc[w] = "normalize"
  /\ \/ Kind[Msg(w)] = "bad" /\ Goto(w, "deadletter")
     \/ Kind[Msg(w)] = "skip" /\ Goto(w, "commit")
     \/ Kind[Msg(w)] \in {"good", "orphan"} /\ Goto(w, "tenant")
  /\ UNCHANGED <<groupVars, cur, staged, dbVars, dlq, historyVars, countVars>>

(* store.ResolveTenant: an unknown installation is dropped and committed. *)
ResolveTenant(w) ==
  /\ pc[w] = "tenant"
  /\ \/ TenantOf[Msg(w)] \in known /\ Goto(w, "mark") /\ UNCHANGED dropped
     \/ TenantOf[Msg(w)] \notin known /\ Goto(w, "commit") /\ dropped' = dropped \union {cur[w]}
  /\ UNCHANGED <<groupVars, cur, staged, dbVars, dlq, failed, countVars>>

(* Faulty variant of IsDuplicate: the conflict is ignored. *)
NeverDuplicate(d) == FALSE

(* WithTenant opens the transaction and markDelivery inserts the mark.  A   *)
(* committed mark: errDuplicate rolls back and process returns nil.  A mark *)
(* another open transaction inserted: wait for it to end.  No delivery id:  *)
(* no mark, always fresh.                                                   *)
IsDuplicate(d) == d \in processed

(* Faulty variant of MarkDelivery: a check instead of an insert, which does *)
(* not see the mark of a transaction that is still open.                     *)
MarkByCheckOnly(w) ==
  /\ pc[w] = "mark"
  /\ Goto(w, IF IsDuplicate(Msg(w)) THEN "commit" ELSE "persist")
  /\ UNCHANGED <<groupVars, cur, staged, dbVars, dlq, historyVars, countVars>>

MarkDelivery(w) ==
  /\ pc[w] = "mark"
  /\ Msg(w) \in Anonymous \/ ~MarkHeld(Msg(w))
  /\ Goto(w, IF IsDuplicate(Msg(w)) THEN "commit" ELSE "persist")
  /\ UNCHANGED <<groupVars, cur, staged, dbVars, dlq, historyVars, countVars>>

(* Faulty variant of EnqueueOutbox: a row inserted outside the transaction. *)
EnqueueOutsideTx(w) ==
  /\ pc[w] = "persist"
  /\ Len(staged[w]) < Events[Msg(w)]
  /\ staged' = [staged EXCEPT ![w] = Append(@, nextId)]
  /\ outbox' = outbox \union
       {[id |-> nextId, delivery |-> Msg(w), n |-> Len(staged[w]) + 1]}
  /\ nextId' = nextId + 1
  /\ UNCHANGED <<groupVars, pc, cur, processed, known, dlq, historyVars, countVars>>

(* persist: one entity write and enqueueOutbox of its event.  The identity  *)
(* value is drawn at the INSERT, outside the transaction's control.          *)
EnqueueOutbox(w) ==
  /\ pc[w] = "persist"
  /\ Len(staged[w]) < Events[Msg(w)]
  /\ staged' = [staged EXCEPT ![w] = Append(@, nextId)]
  /\ nextId' = nextId + 1
  /\ UNCHANGED <<groupVars, pc, cur, processed, outbox, known, dlq, historyVars, countVars>>

PersistDone(w) == pc[w] = "persist" /\ Len(staged[w]) = Events[Msg(w)]

(* tx.Commit makes the mark and the rows visible at once. *)
MarkAndRows(w) ==
  /\ processed' = processed \union ({Msg(w)} \ Anonymous)
  /\ outbox' = outbox \union RowsOf(Msg(w), staged[w])
  /\ UNCHANGED <<nextId, known>>

(* Faulty variant of PersistOrphan: the transaction commits what it has. *)
PersistOrphanKept(w) ==
  /\ PersistDone(w)
  /\ Kind[Msg(w)] = "orphan"
  /\ MarkAndRows(w)
  /\ Goto(w, "deadletter")
  /\ staged' = [staged EXCEPT ![w] = <<>>]
  /\ UNCHANGED <<groupVars, cur, dlq, historyVars, countVars>>

(* persist meets a review whose PR the delivery lacks: permanentError after *)
(* rows were staged; the transaction rolls back, then the loop parks it.    *)
PersistOrphan(w) ==
  /\ PersistDone(w)
  /\ Kind[Msg(w)] = "orphan"
  /\ Goto(w, "deadletter")
  /\ staged' = [staged EXCEPT ![w] = <<>>]
  /\ UNCHANGED <<groupVars, cur, dbVars, dlq, historyVars, countVars>>

CommitTx(w) ==
  /\ PersistDone(w)
  /\ Kind[Msg(w)] = "good"
  /\ MarkAndRows(w)
  /\ staged' = [staged EXCEPT ![w] = <<>>]
  /\ Goto(w, "commit")
  /\ UNCHANGED <<groupVars, cur, dlq, historyVars, countVars>>

(* The server commits, the client gets an error: a transient failure. *)
CommitTxUnacknowledged(w) ==
  /\ PersistDone(w)
  /\ Kind[Msg(w)] = "good"
  /\ MarkAndRows(w)
  /\ WillRetry(w)
  /\ UNCHANGED dlq

(* Faulty variant of DatabaseFails: the mark has a transaction of its own. *)
DatabaseFailsMarked(w) ==
  /\ pc[w] = "persist"
  /\ processed' = processed \union ({Msg(w)} \ Anonymous)
  /\ WillRetry(w)
  /\ UNCHANGED <<nextId, outbox, known, dlq>>

(* Any statement of process fails: the transaction, if open, rolls back. *)
DatabaseFails(w) ==
  /\ pc[w] \in {"tenant", "mark", "persist"}
  /\ WillRetry(w)
  /\ UNCHANGED <<dbVars, dlq>>

(* Faulty variant of DeadLetter: the result of the write is ignored. *)
DeadLetterUnchecked(w) ==
  /\ pc[w] = "deadletter"
  /\ dlq' \in {dlq, dlq \union {Msg(w)}}
  /\ Goto(w, "commit")
  /\ UNCHANGED <<groupVars, cur, staged, dbVars, historyVars, countVars>>

DeadLetter(w) ==
  /\ pc[w] = "deadletter"
  /\ dlq' = dlq \union {Msg(w)}
  /\ Goto(w, "commit")
  /\ UNCHANGED <<groupVars, cur, staged, dbVars, historyVars, countVars>>

(* The DLQ write returns an error, whether or not the broker has it. *)
DeadLetterFails(w) ==
  /\ pc[w] = "deadletter"
  /\ dlq' \in {dlq, dlq \union {Msg(w)}}
  /\ WillRetry(w)
  /\ UNCHANGED dbVars

CommitOffset(w) ==
  /\ pc[w] = "commit"
  /\ CommitUpTo(cur[w][1], cur[w][2])
  /\ LoopAgain(w, "fetch")
  /\ UNCHANGED <<dbVars, dlq, historyVars, countVars>>

(* commit only logs the error: the loop goes on. *)
CommitOffsetFails(w) ==
  /\ pc[w] = "commit"
  /\ Disruption
  /\ LoopAgain(w, "fetch")
  /\ UNCHANGED <<groupVars, dbVars, dlq, historyVars>>

--------------------------------------------------------------------------------
(* A crash ends the session with Postgres (rollback) and with the group. *)
Crash(w) ==
  /\ pc[w] # "down"
  /\ Disruption
  /\ Leave(w)
  /\ LoopAgain(w, "down")
  /\ UNCHANGED <<dbVars, dlq, historyVars>>

Restart(w) ==
  /\ pc[w] = "down"
  /\ Goto(w, "fetch")
  /\ UNCHANGED <<groupVars, cur, staged, dbVars, dlq, historyVars, countVars>>

Live == { w \in Workers : pc[w] # "down" }

(* The group must rebalance when a partition has no owner, and may rebalance *)
(* at any other time (a slow heartbeat, a worker that joins).                *)
AssignOrphans ==
  /\ Orphaned
  /\ Assign(Live)
  /\ UNCHANGED <<workerVars, dbVars, dlq, historyVars, countVars>>

Rebalance ==
  /\ ~Orphaned
  /\ Disruption
  /\ Assign(Live)
  /\ UNCHANGED <<workerVars, dbVars, dlq, historyVars>>

--------------------------------------------------------------------------------
Step(w) ==
  \/ Fetch(w) \/ Normalize(w) \/ ResolveTenant(w) \/ MarkDelivery(w)
  \/ EnqueueOutbox(w) \/ PersistOrphan(w) \/ CommitTx(w)
  \/ DeadLetter(w) \/ CommitOffset(w)

Misfortune(w) ==
  \/ CommitTxUnacknowledged(w) \/ DatabaseFails(w)
  \/ DeadLetterFails(w) \/ CommitOffsetFails(w) \/ Crash(w)

Next ==
  \/ \E m \in Messages : Produce(m)
  \/ \E t \in Tenants : Onboard(t)
  \/ \E w \in Workers : Step(w) \/ Misfortune(w) \/ Restart(w)
  \/ AssignOrphans
  \/ Rebalance

Spec == Init /\ [][Next]_vars

(* The loop never stops by itself, a supervisor restarts a worker that      *)
(* crashed, and the coordinator assigns a partition that has no owner.      *)
Fairness ==
  /\ \A w \in Workers : WF_vars(Step(w)) /\ WF_vars(Restart(w))
  /\ WF_vars(AssignOrphans)

FairSpec == Spec /\ Fairness

--------------------------------------------------------------------------------
(* What became of the message at offset o of partition p. *)

Written(m) ==
  \/ m \in processed
  \/ m \in Anonymous /\ \E r \in outbox : r.delivery = m

Settled(p, o) ==
  LET m == MessageAt(p, o) IN
  \/ Kind[m] = "skip"
  \/ Kind[m] \in {"bad", "orphan"} /\ m \in dlq
  \/ Kind[m] = "good" /\ Written(m)
  \/ <<p, o>> \in dropped

Done(p, o) == Settled(p, o) \/ <<p, o>> \in failed

(* The dedup of db/migrations/0004 ("exactly-once effect under at-least-once *)
(* delivery"): two outbox rows never stand for the same event of an          *)
(* identified delivery, whatever was redelivered, retried or reassigned.     *)
OneRowPerEvent ==
  \A r, s \in outbox :
    r.delivery \in Identified /\ r.delivery = s.delivery /\ r.n = s.n => r = s

(* The atomicity of ADR-012: a delivery is marked exactly when every one of  *)
(* its events is staged; there is no window in which the write is there and  *)
(* an emit is lost.                                                          *)
MarkedIffStaged ==
  /\ \A r \in outbox : r.delivery \in Identified => r.delivery \in processed
  /\ \A d \in processed : \A n \in 1 .. Events[d] : \E r \in outbox : r.delivery = d /\ r.n = n

(* A message that is dead-lettered left nothing in the database: the         *)
(* rollback comes before the park, also when rows were staged already.       *)
DeadLetteredHasNoEffect ==
  \A m \in dlq : m \notin processed /\ \A r \in outbox : r.delivery # m

(* "Process fully, then commit the offset": crashes, rebalances, commits by  *)
(* a worker that lost the partition and failed commits never let the group   *)
(* pass a message that was not settled; only a message that met a transient  *)
(* failure can be passed.                                                    *)
PassedOnlyWhenDone ==
  \A p \in Partitions : \A o \in 0 .. committed[p] - 1 : Done(p, o)

(* The loop as the group's promise: done is settled, or logged as failed. *)
DonePlaces == { pl \in UNION { {p} \X Offsets(p) : p \in Partitions } : Done(pl[1], pl[2]) }
Loop == INSTANCE AtLeastOnce WITH hand <- cur, done <- DonePlaces
ProcessesThenCommits == Loop!Spec

(* The header comment of main.go: after a transient error there is "no       *)
(* commit, so the message is redelivered until it succeeds".  The group      *)
(* never passes a message that was not settled.  The code breaks it: the     *)
(* loop goes on to the next message, whose commit passes the failed one.     *)
PassedOnlyWhenSettled ==
  \A p \in Partitions : \A o \in 0 .. committed[p] - 1 : Settled(p, o)

(* The tables as the ledger of db/migrations/0004 and 0005: every step of    *)
(* every worker either leaves them alone or applies one whole delivery.      *)
Good == { m \in Messages : Kind[m] = "good" }
Ledger == INSTANCE DeliveryLedger WITH Deliveries <- Good
AppliesWholeDeliveries == Ledger!Spec

(* Every message that reaches the topic is settled in the end, or meets a    *)
(* transient failure, however often workers crash and partitions move.       *)
EveryMessageSettles ==
  \A p \in Partitions : \A o \in 0 .. MaxWrites - 1 :
    o \in Offsets(p) ~> o \in Offsets(p) /\ Done(p, o)
--------------------------------------------------------------------------------
(* The inductive invariant of NormalizerProofs, in named parts. *)

(* The kind of a message decides how far process takes it, and which tables *)
(* it can reach.                                                             *)
WorkerKind(w) ==
  /\ pc[w] \in {"tenant", "mark", "persist"} => Kind[Msg(w)] \in {"good", "orphan"}
  /\ pc[w] = "deadletter" => Kind[Msg(w)] \in {"bad", "orphan"}

StoreKind ==
  /\ \A m \in dlq : Kind[m] \in {"bad", "orphan"}
  /\ \A m \in processed : Kind[m] = "good"
  /\ \A r \in outbox : Kind[r.delivery] = "good"

KindInv == (\A w \in Workers : WorkerKind(w)) /\ StoreKind

(* Identity values are drawn once: those in the table, and those that open  *)
(* transactions hold, are below the sequence's next value and all distinct. *)
StagedIds(w) ==
  /\ pc[w] # "persist" => staged[w] = <<>>
  /\ \A i \in 1 .. Len(staged[w]) : staged[w][i] < nextId
  /\ \A i, j \in 1 .. Len(staged[w]) : i < j => staged[w][i] < staged[w][j]
  /\ \A i \in 1 .. Len(staged[w]), r \in outbox : staged[w][i] # r.id

DistinctIds(v, w) ==
  \A i \in 1 .. Len(staged[v]), j \in 1 .. Len(staged[w]) : staged[v][i] # staged[w][j]

IdInv ==
  /\ \A r \in outbox : r.id < nextId
  /\ \A w \in Workers : StagedIds(w)
  /\ \A v, w \in Workers : v # w => DistinctIds(v, w)

(* The unique key of processed_delivery: one open transaction per delivery, *)
(* and none for a delivery that is marked.                                  *)
MarkInv ==
  /\ \A w \in Workers : pc[w] = "persist" => Msg(w) \notin processed
  /\ \A v, w \in Workers :
       pc[v] = "persist" /\ pc[w] = "persist" /\ Msg(v) = Msg(w) => v = w \/ Msg(w) \in Anonymous

(* A worker fetches a message only after every earlier one of the partition *)
(* was done, and commits its own only once it is done.                      *)
HandDone(w) ==
  Busy(w) =>
    /\ \A o \in 0 .. cur[w][2] - 1 : Done(cur[w][1], o)
    /\ pc[w] = "commit" => Done(cur[w][1], cur[w][2])

ReadDone(p) ==
  owner[p] \in Workers =>
    \A o \in 0 .. position[p] - 1 :
      Done(p, o) \/ (Busy(owner[p]) /\ cur[owner[p]] = <<p, o>>)

OrderInv ==
  /\ \A w \in Workers : HandDone(w)
  /\ \A p \in Partitions : ReadDone(p)

IInv ==
  /\ TypeOK
  /\ KindInv
  /\ IdInv
  /\ MarkInv
  /\ OneRowPerEvent
  /\ MarkedIffStaged
  /\ OrderInv
  /\ PassedOnlyWhenDone
================================================================================
