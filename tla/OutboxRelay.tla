----------------------------- MODULE OutboxRelay -------------------------------
(***************************************************************************)
(* services/outbox-relay/main.go: each relay drains the outbox table       *)
(* (db/migrations/0005) to the topic canonical.events, in one Postgres     *)
(* transaction per batch: select and lock pending rows, publish them one   *)
(* by one, stamp published_at on those that went out, commit.              *)
(*                                                                         *)
(* The table's writers are the normalizers.  They are here only what the   *)
(* relay can see of them: a transaction that draws ids from the identity   *)
(* sequence at each INSERT and makes its rows visible when it commits      *)
(* (Normalizer models them in full).                                       *)
(*                                                                         *)
(* Abstracted: payloads, headers and trace context; the poll interval (a   *)
(* relay may be idle for as long as it likes).  The topic is written as one*)
(* sequence; its order is that of Kafka for rows of one tenant, the key.   *)
(***************************************************************************)
EXTENDS Naturals, Sequences, FiniteSets

CONSTANTS
  Writers,     \* normalizer workers
  Relays,      \* relay processes
  Deliveries,  \* deliveries to write
  Tenants,
  TenantOf,    \* [Deliveries -> Tenants]
  Events,      \* [Deliveries -> Nat \ {0}]: outbox rows of a delivery
  BatchSize,   \* OUTBOX_BATCH: rows a pass may take
  None,        \* the delivery of a writer without a transaction
  MaxAborts,   \* bound: writer transactions rolled back
  MaxFaults    \* bound: failed or repeated publishes, failed commits, crashes

ASSUME RelayAssumption ==
  /\ TenantOf \in [Deliveries -> Tenants]
  /\ Events \in [Deliveries -> Nat \ {0}]
  /\ BatchSize \in Nat \ {0}
  /\ None \notin Deliveries
  /\ MaxAborts \in Nat /\ MaxFaults \in Nat

VARIABLES
  nextId,      \* next value of the identity sequence (never rolled back)
  open,        \* open[w]: the delivery of w's transaction, or None
  staged,      \* staged[w]: ids drawn by w's transaction, in order
  outbox,      \* committed rows
  published,   \* ids whose published_at is set and committed
  pc,          \* pc[r]: where relay r is in drainBatch; "off" if not deployed
  batch,       \* batch[r]: ids r's transaction has selected and locked
  sent,        \* sent[r]: those among them r knows to be published
  topic,       \* canonical.events: ids in the order the broker took them
  aborts,      \* writer transactions rolled back so far
  faults       \* relay failures so far

writerVars == <<nextId, open, staged, outbox, aborts>>
relayVars == <<published, pc, batch, sent, topic, faults>>
vars == <<writerVars, relayVars>>

Ids == Nat \ {0}
Rows == [id : Ids, delivery : Deliveries, n : Nat \ {0}]

RowIds == { r.id : r \in outbox }
(* Faulty variant of Pending: a dirty read sees rows that are not committed. *)
PendingUncommitted ==
  (RowIds \union UNION { { staged[w][i] : i \in 1 .. Len(staged[w]) } : w \in Writers })
    \ published
Pending == RowIds \ published
Locked == UNION { batch[r] : r \in Relays }

Topical == { topic[i] : i \in 1 .. Len(topic) }

IsLeast(i, S) == i \in S /\ \A j \in S : i <= j

TypeOK ==
  /\ nextId \in Ids
  /\ open \in [Writers -> Deliveries \union {None}]
  /\ staged \in [Writers -> Seq(Ids)]
  /\ outbox \subseteq Rows
  /\ published \subseteq Ids
  /\ pc \in [Relays -> {"off", "idle", "publish", "stamp"}]
  /\ batch \in [Relays -> SUBSET Ids]
  /\ sent \in [Relays -> SUBSET Ids]
  /\ topic \in Seq(Ids)
  /\ aborts \in 0 .. MaxAborts
  /\ faults \in 0 .. MaxFaults

Init ==
  /\ nextId = 1
  /\ open = [w \in Writers |-> None]
  /\ staged = [w \in Writers |-> <<>>]
  /\ outbox = {}
  /\ published = {}
  /\ pc \in [Relays -> {"off", "idle"}]
  /\ batch = [r \in Relays |-> {}]
  /\ sent = [r \in Relays |-> {}]
  /\ topic = <<>>
  /\ aborts = 0
  /\ faults = 0

--------------------------------------------------------------------------------
(* The writers.  The unique key of processed_delivery lets one transaction   *)
(* at a time hold a delivery, and none once it is committed.                 *)

Begin(w, d) ==
  /\ open[w] = None
  /\ \A v \in Writers : open[v] # d
  /\ \A r \in outbox : r.delivery # d
  /\ open' = [open EXCEPT ![w] = d]
  /\ UNCHANGED <<nextId, staged, outbox, aborts, relayVars>>

Insert(w) ==
  /\ open[w] # None
  /\ Len(staged[w]) < Events[open[w]]
  /\ staged' = [staged EXCEPT ![w] = Append(@, nextId)]
  /\ nextId' = nextId + 1
  /\ UNCHANGED <<open, outbox, aborts, relayVars>>

EndTx(w) ==
  /\ open' = [open EXCEPT ![w] = None]
  /\ staged' = [staged EXCEPT ![w] = <<>>]
  /\ UNCHANGED <<nextId, relayVars>>

(* Faulty variant of RowsOf: events numbered from 0. *)
RowsFromZero(d, s) == { [id |-> s[i], delivery |-> d, n |-> i - 1] : i \in 1 .. Len(s) }

RowsOf(d, s) == { [id |-> s[i], delivery |-> d, n |-> i] : i \in 1 .. Len(s) }

WriterCommit(w) ==
  /\ open[w] # None
  /\ Len(staged[w]) = Events[open[w]]
  /\ outbox' = outbox \union RowsOf(open[w], staged[w])
  /\ EndTx(w)
  /\ UNCHANGED aborts

WriterAbort(w) ==
  /\ open[w] # None
  /\ aborts < MaxAborts
  /\ aborts' = aborts + 1
  /\ EndTx(w)
  /\ UNCHANGED outbox

--------------------------------------------------------------------------------
(* drainBatch. *)

Fault == faults < MaxFaults /\ faults' = faults + 1

(* SELECT ... WHERE published_at IS NULL ORDER BY outbox_id LIMIT n FOR      *)
(* UPDATE SKIP LOCKED: the first n pending rows that no other relay holds.   *)
FirstUpTo(n, S) ==
  { i \in S : Cardinality({ j \in S : j <= i }) <= n }

(* Faulty variants of Selectable: no SKIP LOCKED; no published_at IS NULL. *)
SelectableLocked == Pending
SelectableStamped == RowIds \ Locked

Selectable == Pending \ Locked

SelectBatch(r) ==
  /\ pc[r] = "idle"
  /\ Selectable # {}
  /\ batch' = [batch EXCEPT ![r] = FirstUpTo(BatchSize, Selectable)]
  /\ pc' = [pc EXCEPT ![r] = "publish"]
  /\ UNCHANGED <<writerVars, published, sent, topic, faults>>

(* Faulty variant of NextRow: no ORDER BY. *)
NextRowAny(r, i) == pc[r] = "publish" /\ i \in batch[r] \ sent[r]

(* The batch is published in the order of its ids. *)
NextRow(r, i) == pc[r] = "publish" /\ IsLeast(i, batch[r] \ sent[r])

(* writer.Write succeeds: on to the next row, or to the stamp. *)
AfterWrite(r, i) ==
  /\ sent' = [sent EXCEPT ![r] = @ \union {i}]
  /\ pc' = [pc EXCEPT ![r] = IF batch[r] \subseteq sent[r] \union {i} THEN "stamp" ELSE "publish"]
  /\ UNCHANGED <<writerVars, published, batch>>

Publish(r) ==
  \E i \in batch[r] :
    /\ NextRow(r, i)
    /\ topic' = Append(topic, i)
    /\ AfterWrite(r, i)
    /\ UNCHANGED faults

(* kafka-go retries a write whose acknowledgement was lost: the broker takes *)
(* the row twice, the relay sees one success.                                *)
PublishRepeated(r) ==
  \E i \in batch[r] :
    /\ NextRow(r, i)
    /\ Fault
    /\ topic' = Append(Append(topic, i), i)
    /\ AfterWrite(r, i)

(* Faulty variants of PublishFails: the failed row is stamped with the others; *)
(* the loop continues past the failed row.                                    *)
PublishFailsStamped(r) ==
  \E i \in batch[r] :
    /\ NextRow(r, i)
    /\ Fault
    /\ topic' = topic
    /\ sent' = [sent EXCEPT ![r] = @ \union {i}]
    /\ pc' = [pc EXCEPT ![r] = "stamp"]
    /\ UNCHANGED <<writerVars, published, batch>>

PublishFailsContinues(r) ==
  \E i \in batch[r] :
    /\ NextRow(r, i)
    /\ Fault
    /\ batch' = [batch EXCEPT ![r] = @ \ {i}]
    /\ pc' = [pc EXCEPT ![r] = IF batch[r] \ {i} \subseteq sent[r] THEN "stamp" ELSE "publish"]
    /\ UNCHANGED <<writerVars, published, sent, topic>>

(* writer.Write returns an error, whether or not the broker took the row:    *)
(* the loop breaks, so that no later row overtakes it.                       *)
PublishFails(r) ==
  \E i \in batch[r] :
    /\ NextRow(r, i)
    /\ Fault
    /\ topic' \in {topic, Append(topic, i)}
    /\ pc' = [pc EXCEPT ![r] = "stamp"]
    /\ UNCHANGED <<writerVars, published, batch, sent>>

(* Faulty variant of Release: the transaction is left open. *)
ReleaseForgotten(r) ==
  /\ pc' = [pc EXCEPT ![r] = "idle"]
  /\ sent' = [sent EXCEPT ![r] = {}]
  /\ UNCHANGED <<writerVars, batch, topic>>

(* The transaction is over, its row locks are released. *)
Release(r) ==
  /\ pc' = [pc EXCEPT ![r] = "idle"]
  /\ batch' = [batch EXCEPT ![r] = {}]
  /\ sent' = [sent EXCEPT ![r] = {}]
  /\ UNCHANGED <<writerVars, topic>>

(* Faulty variant of StampAndCommit: the whole batch is stamped. *)
StampBatch(r) ==
  /\ pc[r] = "stamp"
  /\ published' = published \union batch[r]
  /\ Release(r)
  /\ UNCHANGED faults

(* UPDATE ... SET published_at = now() and tx.Commit.  A commit whose        *)
(* acknowledgement is lost does the same: drainBatch returns an error, and   *)
(* the loop only polls a little later.                                       *)
StampAndCommit(r) ==
  /\ pc[r] = "stamp"
  /\ published' = published \union sent[r]
  /\ Release(r)
  /\ UNCHANGED faults

(* The UPDATE or the commit fails, or the relay crashes (and is restarted)   *)
(* at any point of the pass: everything but the topic rolls back.            *)
RollBack(r) ==
  /\ pc[r] \in {"publish", "stamp"}
  /\ Fault
  /\ Release(r)
  /\ UNCHANGED published

--------------------------------------------------------------------------------
WriterStep(w) ==
  \/ \E d \in Deliveries : Begin(w, d)
  \/ Insert(w) \/ WriterCommit(w)

RelayStep(r) == SelectBatch(r) \/ Publish(r) \/ StampAndCommit(r)

Next ==
  \/ \E w \in Writers : WriterStep(w) \/ WriterAbort(w)
  \/ \E r \in Relays :
       RelayStep(r) \/ PublishRepeated(r) \/ PublishFails(r) \/ RollBack(r)

Spec == Init /\ [][Next]_vars

(* The main loop calls drainBatch for ever. *)
FairSpec == Spec /\ \A r \in Relays : WF_vars(RelayStep(r))

--------------------------------------------------------------------------------
(* At-least-once (ADR-012): a row is stamped only after the broker has it.   *)
(* No failure, crash or second relay makes the relay forget an event.        *)
StampedIsPublished == published \subseteq Topical

(* What reaches the topic is committed: an event of a transaction that       *)
(* rolled back is never seen downstream.                                     *)
PublishedIsCommitted == Topical \subseteq RowIds

(* "Rows are locked FOR UPDATE SKIP LOCKED so multiple relay instances don't *)
(* double-publish": an event is in the topic at most once more than relay    *)
(* failures occurred, so exactly once at most when none did.                 *)
Copies(i) == Cardinality({ k \in 1 .. Len(topic) : topic[k] = i })
CopiesWithinFaults == \A i \in Topical : Copies(i) <= 1 + faults

(* A row is never published again once its stamp is committed. *)
NeverAfterStamp ==
  [][\A k \in Len(topic) + 1 .. Len(topic') : topic'[k] \notin published]_vars

(* Where a single relay is deployed, the events of one delivery are first    *)
(* seen in the order they were staged, through batches, retries and restarts.*)
SingleRelay == \A q, r \in Relays : pc[q] # "off" /\ pc[r] # "off" => q = r

EventsInOrder ==
  SingleRelay => \A a, b \in outbox :
    a.delivery = b.delivery /\ a.n < b.n =>
      \A k \in 1 .. Len(topic) : topic[k] = b.id => \E j \in 1 .. k - 1 : topic[j] = a.id

(* "Per-tenant ordering preserved by a single relay in outbox_id order"      *)
(* (ADR-012): rows of one tenant are first seen in the order of their ids.   *)
TenantOrder ==
  \A a, b \in outbox :
    TenantOf[a.delivery] = TenantOf[b.delivery] /\ a.id < b.id =>
      \A k \in 1 .. Len(topic) : topic[k] = b.id => \E j \in 1 .. k - 1 : topic[j] = a.id

(* "The relay drains": where a relay is deployed, a committed row is         *)
(* published and stamped in the end, however many compete and whatever failed. *)
Deployed == \E r \in Relays : pc[r] # "off"

EventuallyStamped ==
  Deployed => \A d \in Deliveries : \A n \in 1 .. Events[d] :
    (\E r \in outbox : r.delivery = d /\ r.n = n)
      ~> (\E r \in outbox : r.delivery = d /\ r.n = n /\ r.id \in published)

--------------------------------------------------------------------------------
(* The inductive invariant of OutboxRelayProofs, in named parts. *)

(* A relay holds pending rows only, and holds them alone. *)
LockInv ==
  /\ \A r \in Relays :
       /\ sent[r] \subseteq batch[r]
       /\ batch[r] \subseteq Pending
       /\ pc[r] \in {"off", "idle"} => batch[r] = {}
  /\ \A q, r \in Relays : q # r => batch[q] \intersect batch[r] = {}

(* What a relay believes published is in the topic. *)
SentInv == \A r \in Relays : sent[r] \subseteq Topical

SafetyInv ==
  /\ TypeOK
  /\ LockInv
  /\ SentInv
  /\ StampedIsPublished
  /\ PublishedIsCommitted
================================================================================
