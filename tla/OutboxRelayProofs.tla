--------------------------- MODULE OutboxRelayProofs ---------------------------
(***************************************************************************)
(* Theorems about OutboxRelay, for every set of writers, relays and        *)
(* deliveries, every batch size and every value of the bounds.             *)
(***************************************************************************)
EXTENDS OutboxRelay, FiniteSetTheorems, TLAPS

USE RelayAssumption DEF RelayAssumption

--------------------------------------------------------------------------------
(* Types. *)

(* The initial state is well typed. *)
LEMMA TypeInit == Init => TypeOK
  BY DEF Init, TypeOK, Ids

WriterNext == \E w \in Writers : WriterStep(w) \/ WriterAbort(w)

(* A writer's step leaves the relays alone and keeps its own types. *)
LEMMA WriterTypes ==
  ASSUME TypeOK, WriterNext
  PROVE  TypeOK' /\ UNCHANGED relayVars /\ outbox \subseteq outbox'
<1> USE DEF TypeOK, relayVars, Ids
<1>1. PICK w \in Writers : WriterStep(w) \/ WriterAbort(w)
  BY DEF WriterNext
<1>2. ASSUME NEW d \in Deliveries, Begin(w, d) PROVE TypeOK' /\ UNCHANGED relayVars /\ outbox \subseteq outbox'
  BY <1>2 DEF Begin
<1>3. CASE Insert(w)
  BY <1>3 DEF Insert
<1>4. CASE WriterCommit(w)
  <2>1. RowsOf(open[w], staged[w]) \subseteq Rows
    BY <1>4 DEF WriterCommit, RowsOf, Rows
  <2>2. QED BY <1>4, <2>1 DEF WriterCommit, EndTx
<1>5. CASE WriterAbort(w)
  BY <1>5 DEF WriterAbort, EndTx
<1>6. QED BY <1>1, <1>2, <1>3, <1>4, <1>5 DEF WriterStep

RelayNext(r) == RelayStep(r) \/ PublishRepeated(r) \/ PublishFails(r) \/ RollBack(r)

(* A relay's step leaves the writers, the table and the other relays alone. *)
LEMMA RelayFrame ==
  ASSUME TypeOK, NEW r \in Relays, RelayNext(r)
  PROVE  /\ TypeOK' /\ UNCHANGED writerVars
         /\ \A q \in Relays \ {r} : pc'[q] = pc[q] /\ batch'[q] = batch[q] /\ sent'[q] = sent[q]
<1> USE DEF TypeOK, writerVars, Ids, Fault
<1>1. CASE SelectBatch(r)
  <2>1. FirstUpTo(BatchSize, Selectable) \subseteq Ids
    BY DEF FirstUpTo, Selectable, Pending, RowIds, Rows
  <2>2. QED BY <1>1, <2>1 DEF SelectBatch
<1>2. CASE Publish(r)
  BY <1>2 DEF Publish, AfterWrite
<1>3. CASE StampAndCommit(r)
  BY <1>3 DEF StampAndCommit, Release
<1>4. CASE PublishRepeated(r)
  BY <1>4 DEF PublishRepeated, AfterWrite
<1>5. CASE PublishFails(r)
  <2>1. PICK i \in batch[r] : topic' \in {topic, Append(topic, i)}
    BY <1>5 DEF PublishFails
  <2>2. i \in Ids
    OBVIOUS
  <2>3. topic' \in Seq(Ids)
    <3>1. CASE topic' = topic
      BY <3>1
    <3>2. CASE topic' = Append(topic, i)
      BY <2>2, <3>2
    <3>3. QED BY <2>1, <3>1, <3>2
  <2>4. /\ pc' = [pc EXCEPT ![r] = "stamp"] /\ faults < MaxFaults /\ faults' = faults + 1
        /\ UNCHANGED <<writerVars, published, batch, sent>>
    BY <1>5 DEF PublishFails
  <2>5. QED BY <2>3, <2>4
<1>6. CASE RollBack(r)
  BY <1>6 DEF RollBack, Release
<1>7. QED BY <1>1, <1>2, <1>3, <1>4, <1>5, <1>6 DEF RelayNext, RelayStep

(* A step is a writer's or a relay's. *)
LEMMA NextSplit == Next <=> WriterNext \/ \E r \in Relays : RelayNext(r)
  BY DEF Next, WriterNext, RelayNext

(* Every step keeps every type. *)
LEMMA TypeStep == TypeOK /\ [Next]_vars => TypeOK'
<1>1. TypeOK /\ UNCHANGED vars => TypeOK'
  BY DEF TypeOK, vars, writerVars, relayVars
<1>2. QED BY <1>1, WriterTypes, RelayFrame, NextSplit

(* Every variable keeps its type in every reachable state. *)
THEOREM TypeCorrect == Spec => []TypeOK
  BY TypeInit, TypeStep, PTL DEF Spec

--------------------------------------------------------------------------------
(* Locks, stamps and the topic. *)

(* The topic's new entries are rows the publishing relay holds. *)
LEMMA TopicGrows ==
  ASSUME TypeOK, NEW r \in Relays, RelayNext(r)
  PROVE  /\ Len(topic) <= Len(topic')
         /\ \A k \in 1 .. Len(topic) : topic'[k] = topic[k]
         /\ \A k \in Len(topic) + 1 .. Len(topic') :
              topic'[k] \in batch[r] \ sent[r] /\ NextRow(r, topic'[k])
<1> USE DEF TypeOK, Ids
<1>1. ASSUME NEW i \in batch[r], NextRow(r, i)
      PROVE  i \in Ids /\ i \in batch[r] \ sent[r]
  BY <1>1 DEF NextRow, IsLeast
<1>2. ASSUME NEW i \in batch[r], NextRow(r, i), topic' = Append(topic, i)
      PROVE  /\ Len(topic) <= Len(topic')
             /\ \A k \in 1 .. Len(topic) : topic'[k] = topic[k]
             /\ \A k \in Len(topic) + 1 .. Len(topic') :
                  topic'[k] \in batch[r] \ sent[r] /\ NextRow(r, topic'[k])
  BY <1>1, <1>2
<1>3. ASSUME NEW i \in batch[r], NextRow(r, i), topic' = Append(Append(topic, i), i)
      PROVE  /\ Len(topic) <= Len(topic')
             /\ \A k \in 1 .. Len(topic) : topic'[k] = topic[k]
             /\ \A k \in Len(topic) + 1 .. Len(topic') :
                  topic'[k] \in batch[r] \ sent[r] /\ NextRow(r, topic'[k])
  <2>1. Append(topic, i) \in Seq(Nat) /\ Len(Append(topic, i)) = Len(topic) + 1
    BY <1>1
  <2>2. /\ Len(topic') = Len(topic) + 2
        /\ topic'[Len(topic) + 1] = i /\ topic'[Len(topic) + 2] = i
        /\ \A k \in 1 .. Len(topic) : topic'[k] = topic[k]
    BY <1>1, <1>3, <2>1
  <2>3. QED BY <1>1, <1>3, <2>2
<1>4. CASE topic' = topic
  BY <1>4
<1>5. QED
  BY <1>2, <1>3, <1>4 DEF RelayNext, RelayStep, SelectBatch, Publish, StampAndCommit, PublishRepeated,
     PublishFails, RollBack, Release

(* Every step keeps the row locks apart and on pending rows. *)
LEMMA LockStep ==
  ASSUME TypeOK, LockInv, [Next]_vars
  PROVE  LockInv'
<1>1. CASE WriterNext
  <2>1. UNCHANGED <<pc, batch, sent, published>> /\ outbox \subseteq outbox'
    BY <1>1, WriterTypes DEF relayVars
  <2>2. Pending \subseteq Pending'
    BY <2>1 DEF Pending, RowIds
  <2>3. QED BY <2>1, <2>2 DEF LockInv
<1>2. ASSUME NEW r \in Relays, RelayNext(r) PROVE LockInv'
  <2> USE DEF TypeOK
  <2>1. /\ outbox' = outbox
        /\ \A q \in Relays \ {r} : pc'[q] = pc[q] /\ batch'[q] = batch[q] /\ sent'[q] = sent[q]
    BY <1>2, RelayFrame DEF writerVars
  <2>2. CASE SelectBatch(r)
    <3>1. /\ batch'[r] \subseteq Pending
          /\ \A q \in Relays : batch'[r] \intersect batch[q] = {}
      BY <2>2 DEF SelectBatch, FirstUpTo, Selectable, Locked
    <3>2. published' = published /\ sent'[r] = {} /\ pc'[r] = "publish"
      BY <2>2 DEF SelectBatch, LockInv
    <3>3. QED BY <2>1, <3>1, <3>2 DEF LockInv, Pending, RowIds
  <2>3. CASE Publish(r) \/ PublishRepeated(r) \/ PublishFails(r)
    <3>1. /\ published' = published /\ batch' = batch
          /\ sent'[r] \subseteq batch[r]
          /\ pc[r] = "publish" /\ pc'[r] \notin {"off", "idle"}
      BY <2>3 DEF Publish, PublishRepeated, PublishFails, NextRow, IsLeast, AfterWrite, LockInv
    <3>2. QED BY <2>1, <3>1 DEF LockInv, Pending, RowIds
  <2>4. CASE StampAndCommit(r) \/ RollBack(r)
    <3>1. published' \subseteq published \union batch[r] /\ batch'[r] = {} /\ sent'[r] = {}
      BY <2>4 DEF StampAndCommit, RollBack, Release, LockInv
    <3>2. \A q \in Relays \ {r} : batch[q] \subseteq Pending'
      BY <2>1, <3>1 DEF LockInv, Pending, RowIds
    <3>3. QED BY <2>1, <3>1, <3>2 DEF LockInv
  <2>5. QED BY <1>2, <2>2, <2>3, <2>4 DEF RelayNext, RelayStep
<1>3. CASE UNCHANGED vars
  BY <1>3 DEF LockInv, Pending, RowIds, vars, writerVars, relayVars
<1>4. QED BY <1>1, <1>2, <1>3, NextSplit

(* Every step keeps stamps within the topic and the topic within the table.  *)
LEMMA TopicStep ==
  ASSUME SafetyInv, [Next]_vars
  PROVE  SentInv' /\ StampedIsPublished' /\ PublishedIsCommitted'
<1> USE DEF SafetyInv, SentInv, StampedIsPublished, PublishedIsCommitted
<1>1. CASE WriterNext
  <2>1. UNCHANGED <<pc, batch, sent, published, topic>> /\ outbox \subseteq outbox'
    BY <1>1, WriterTypes DEF relayVars
  <2>2. Topical' = Topical /\ RowIds \subseteq RowIds'
    BY <2>1 DEF Topical, RowIds
  <2>3. QED BY <2>1, <2>2
<1>2. ASSUME NEW r \in Relays, RelayNext(r) PROVE SentInv' /\ StampedIsPublished' /\ PublishedIsCommitted'
  <2>1. /\ outbox' = outbox
        /\ \A q \in Relays \ {r} : pc'[q] = pc[q] /\ batch'[q] = batch[q] /\ sent'[q] = sent[q]
    BY <1>2, RelayFrame DEF writerVars
  <2>2. Topical \subseteq Topical'
    <3>1. Len(topic) \in Nat /\ Len(topic') \in Nat
      BY <1>2, RelayFrame DEF TypeOK
    <3>2. \A k \in 1 .. Len(topic) : k \in 1 .. Len(topic') /\ topic'[k] = topic[k]
      BY <3>1, <1>2, TopicGrows
    <3>3. QED BY <3>2 DEF Topical
  <2>3. Topical' \subseteq Topical \union batch[r]
    <3>1. ASSUME NEW k \in 1 .. Len(topic') PROVE topic'[k] \in Topical \union batch[r]
      <4>1. Len(topic) \in Nat /\ (k \in 1 .. Len(topic) \/ k \in Len(topic) + 1 .. Len(topic'))
        BY <3>1, <1>2, RelayFrame DEF TypeOK
      <4>2. k \in 1 .. Len(topic) => topic'[k] = topic[k]
        BY <1>2, TopicGrows
      <4>3. k \in Len(topic) + 1 .. Len(topic') => topic'[k] \in batch[r]
        BY <1>2, TopicGrows
      <4>4. QED BY <4>1, <4>2, <4>3 DEF Topical
    <3>2. QED BY <3>1 DEF Topical
  <2>4. PublishedIsCommitted'
    BY <2>1, <2>3 DEF LockInv, Pending, RowIds
  <2>5. sent'[r] \subseteq Topical'
    <3>1. CASE SelectBatch(r) \/ StampAndCommit(r) \/ RollBack(r) \/ PublishFails(r)
      <4>1. sent'[r] \in {sent[r], {}}
        BY <3>1 DEF SelectBatch, StampAndCommit, RollBack, PublishFails, Release, TypeOK
      <4>2. QED BY <2>2, <4>1
    <3>2. ASSUME NEW i \in batch[r], topic' = Append(topic, i) \/ topic' = Append(Append(topic, i), i),
                 AfterWrite(r, i)
          PROVE  sent'[r] \subseteq Topical'
      <4>1. sent'[r] = sent[r] \union {i}
        BY <3>2 DEF AfterWrite, TypeOK
      <4>2. Len(topic) + 1 \in 1 .. Len(topic') /\ topic'[Len(topic) + 1] = i
        <5>1. topic \in Seq(Ids) /\ i \in Ids
          BY <3>2 DEF TypeOK
        <5>2. CASE topic' = Append(topic, i)
          BY <5>1, <5>2
        <5>3. CASE topic' = Append(Append(topic, i), i)
          <6>1. /\ Append(topic, i) \in Seq(Ids) /\ Len(Append(topic, i)) = Len(topic) + 1
                /\ Append(topic, i)[Len(topic) + 1] = i
            BY <5>1
          <6>2. QED BY <5>1, <5>3, <6>1
        <5>4. QED BY <3>2, <5>2, <5>3
      <4>3. QED BY <2>2, <4>1, <4>2 DEF Topical
    <3>3. QED BY <1>2, <3>1, <3>2 DEF RelayNext, RelayStep, Publish, PublishRepeated
  <2>6. published' \subseteq Topical'
    <3>1. published' \subseteq published \union sent[r]
      BY <1>2 DEF RelayNext, RelayStep, SelectBatch, Publish, PublishRepeated, PublishFails, AfterWrite,
         StampAndCommit, RollBack
    <3>2. QED BY <2>2, <3>1
  <2>7. QED BY <2>1, <2>2, <2>4, <2>5, <2>6
<1>3. CASE UNCHANGED vars
  BY <1>3 DEF Topical, RowIds, vars, writerVars, relayVars
<1>4. QED BY <1>1, <1>2, <1>3, NextSplit

(* Every step keeps the inductive invariant. *)
LEMMA SafetyStep == SafetyInv /\ [Next]_vars => SafetyInv'
  BY TypeStep, LockStep, TopicStep DEF SafetyInv

(* Locks are exclusive, stamps follow publications, publications follow      *)
(* commits.                                                                  *)
THEOREM Safety == Spec => []SafetyInv
<1>1. Init => SafetyInv
  BY TypeInit DEF Init, SafetyInv, LockInv, SentInv, StampedIsPublished, PublishedIsCommitted, Topical
<1>2. QED BY <1>1, SafetyStep, PTL DEF Spec

(* At-least-once: whatever fails, a row is stamped only once it is in the     *)
(* topic, so that no event is forgotten.                                      *)
THEOREM StampsAreHonest == Spec => []StampedIsPublished
<1>1. SafetyInv => StampedIsPublished
  BY DEF SafetyInv
<1>2. QED BY <1>1, Safety, PTL

(* No event of a transaction that did not commit is ever published.           *)
THEOREM OnlyCommittedEvents == Spec => []PublishedIsCommitted
<1>1. SafetyInv => PublishedIsCommitted
  BY DEF SafetyInv
<1>2. QED BY <1>1, Safety, PTL

(* With any number of relays, a row whose stamp is committed is not published *)
(* again.                                                                     *)
THEOREM NoRepublish == Spec => NeverAfterStamp
<1>1. SafetyInv /\ [Next]_vars
        => [\A k \in Len(topic) + 1 .. Len(topic') : topic'[k] \notin published]_vars
  <2> SUFFICES ASSUME SafetyInv, Next
               PROVE  \A k \in Len(topic) + 1 .. Len(topic') : topic'[k] \notin published
    OBVIOUS
  <2>1. CASE WriterNext
    BY <2>1, WriterTypes DEF relayVars, SafetyInv, TypeOK
  <2>2. ASSUME NEW r \in Relays, RelayNext(r)
        PROVE  \A k \in Len(topic) + 1 .. Len(topic') : topic'[k] \notin published
    BY <2>2, TopicGrows DEF SafetyInv, LockInv, Pending
  <2>3. QED BY <2>1, <2>2, NextSplit
<1>2. QED BY <1>1, Safety, PTL DEF Spec, NeverAfterStamp

--------------------------------------------------------------------------------
(* The order of a delivery's events. *)

(* Identity values are drawn in increasing order, each by one transaction, *)
IdInv ==
  /\ \A e \in outbox : e.id < nextId
  /\ \A w \in Writers : \A i \in 1 .. Len(staged[w]) :
       staged[w][i] < nextId /\ staged[w][i] \notin RowIds
  /\ \A w \in Writers : \A i, j \in 1 .. Len(staged[w]) : i < j => staged[w][i] < staged[w][j]
  /\ \A v, w \in Writers : \A i \in 1 .. Len(staged[v]) : \A j \in 1 .. Len(staged[w]) :
       v # w => staged[v][i] # staged[w][j]

(* the rows of a delivery are committed together, *)
TogetherInv ==
  /\ \A v, w \in Writers : v # w => open[v] # open[w] \/ open[v] = None
  /\ \A w \in Writers : \A e \in outbox : e.delivery # open[w]

(* and in the order of their ids; *)
Earlier(a, b) == a.delivery = b.delivery /\ a.n < b.n

IdsFollowEvents == \A a, b \in outbox : Earlier(a, b) => a.id < b.id

(* so a batch that holds a row holds, or another one has stamped, the earlier *)
(* rows of its delivery.                                                     *)
BatchClosed ==
  \A r \in Relays : \A a, b \in outbox :
    Earlier(a, b) /\ b.id \in batch[r] => a.id \in batch[r] \union published

OrderInv ==
  /\ SafetyInv /\ IdInv /\ TogetherInv /\ IdsFollowEvents
  /\ SingleRelay => BatchClosed
  /\ EventsInOrder

(* No relay is deployed or withdrawn. *)
LEMMA SameRelays ==
  ASSUME TypeOK, [Next]_vars
  PROVE  \A r \in Relays : pc'[r] = "off" <=> pc[r] = "off"
<1>1. CASE WriterNext
  BY <1>1, WriterTypes DEF relayVars
<1>2. ASSUME NEW q \in Relays, RelayNext(q) PROVE \A r \in Relays : pc'[r] = "off" <=> pc[r] = "off"
  <2>1. pc[q] # "off" /\ pc'[q] # "off"
    BY <1>2 DEF TypeOK, RelayNext, RelayStep, SelectBatch, Publish, PublishRepeated, PublishFails,
       NextRow, AfterWrite, StampAndCommit, RollBack, Release
  <2>2. QED BY <1>2, <2>1, RelayFrame
<1>3. CASE UNCHANGED vars
  BY <1>3 DEF vars, relayVars
<1>4. QED BY <1>1, <1>2, <1>3, NextSplit

(* What a writer's step does to the rows. *)
LEMMA RowsAdded ==
  ASSUME TypeOK, NEW w \in Writers, WriterStep(w) \/ WriterAbort(w)
  PROVE  /\ outbox \subseteq outbox'
         /\ \A e \in outbox' \ outbox :
              /\ WriterCommit(w) /\ e.delivery = open[w] /\ open[w] # None
              /\ e.n \in 1 .. Len(staged[w]) /\ e.id = staged[w][e.n]
<1>1. CASE WriterCommit(w)
  <2>1. outbox' = outbox \union RowsOf(open[w], staged[w]) /\ open[w] # None
    BY <1>1 DEF WriterCommit
  <2>2. \A e \in RowsOf(open[w], staged[w]) :
          e.delivery = open[w] /\ e.n \in 1 .. Len(staged[w]) /\ e.id = staged[w][e.n]
    BY DEF RowsOf
  <2>3. QED BY <1>1, <2>1, <2>2
<1>2. CASE outbox' = outbox
  BY <1>2
<1>3. QED
  BY <1>1, <1>2 DEF WriterStep, WriterAbort, Begin, Insert

(* Ids stay in order, whatever the writers do. *)
LEMMA IdStep ==
  ASSUME TypeOK, IdInv, NEW w \in Writers, WriterStep(w) \/ WriterAbort(w)
  PROVE  IdInv'
<1>0. \A e \in outbox' : e \in outbox \/ \E i \in 1 .. Len(staged[w]) : e.id = staged[w][i]
  BY RowsAdded
<1> USE DEF TypeOK, Ids
<1>1. ASSUME NEW v \in Writers PROVE staged[v] \in Seq(Ids) /\ Len(staged[v]) \in Nat
  OBVIOUS
<1>2. ASSUME NEW d \in Deliveries, Begin(w, d) PROVE IdInv'
  BY <1>2 DEF Begin, IdInv, RowIds
<1>3. CASE Insert(w)
  <2>1. /\ staged'[w] = Append(staged[w], nextId) /\ nextId' = nextId + 1 /\ outbox' = outbox
        /\ \A v \in Writers \ {w} : staged'[v] = staged[v]
    BY <1>3 DEF Insert
  <2>2. /\ Len(staged'[w]) = Len(staged[w]) + 1
        /\ staged'[w][Len(staged[w]) + 1] = nextId
        /\ \A i \in 1 .. Len(staged[w]) : staged'[w][i] = staged[w][i]
    BY <1>1, <2>1
  <2>3. \A i \in 1 .. Len(staged'[w]) : i \in 1 .. Len(staged[w]) \/ i = Len(staged[w]) + 1
    BY <1>1, <2>2
  <2>4. nextId \notin RowIds /\ \A e \in outbox : e.id \in Nat
    BY DEF IdInv, RowIds, Rows
  <2>5. RowIds' = RowIds
    BY <2>1 DEF RowIds
  <2>6. \A e \in outbox' : e.id < nextId'
    BY <2>1, <2>4 DEF IdInv
  <2>7. \A v \in Writers : \A i \in 1 .. Len(staged[v]) : staged[v][i] \in Nat
    BY <1>1
  <2>0. /\ nextId \in Nat
        /\ \A v \in Writers : Len(staged[v]) \in Nat
        /\ \A v \in Writers : \A i \in 1 .. Len(staged[v]) :
             staged[v][i] < nextId /\ staged[v][i] \notin RowIds
        /\ \A v \in Writers : \A i, j \in 1 .. Len(staged[v]) : i < j => staged[v][i] < staged[v][j]
    BY <1>1 DEF IdInv
  <2> HIDE DEF TypeOK
  <2>8. ASSUME NEW v \in Writers, NEW i \in 1 .. Len(staged'[v])
        PROVE  staged'[v][i] < nextId' /\ staged'[v][i] \notin RowIds'
    <3>1. CASE v = w
      <4>1. CASE i \in 1 .. Len(staged[w])
        <5>1. staged'[w][i] = staged[w][i]
          BY <2>2, <4>1
        <5>2. staged[w][i] \in Nat /\ staged[w][i] < nextId /\ staged[w][i] \notin RowIds
          BY <2>0, <2>7, <4>1
        <5>3. nextId' = nextId + 1 /\ nextId \in Nat
          BY <2>0, <2>1
        <5>4. staged'[w][i] < nextId'
          BY <5>1, <5>2, <5>3
        <5>5. QED BY <2>5, <3>1, <5>1, <5>2, <5>4
      <4>2. CASE i = Len(staged[w]) + 1
        BY <2>0, <2>1, <2>2, <2>4, <2>5, <3>1, <4>2
      <4>3. QED BY <2>3, <2>8, <3>1, <4>1, <4>2
    <3>2. CASE v # w
      <4>1. staged'[v] = staged[v] /\ nextId' = nextId + 1
        BY <2>1, <3>2
      <4>2. staged[v][i] \in Nat /\ staged[v][i] < nextId /\ staged[v][i] \notin RowIds
        BY <2>0, <2>7, <4>1
      <4>3. staged[v][i] < nextId + 1
        BY <2>0, <4>2
      <4>4. QED BY <2>5, <4>1, <4>2, <4>3
    <3>3. QED BY <3>1, <3>2
  <2>9. ASSUME NEW v \in Writers, NEW i \in 1 .. Len(staged'[v]), NEW j \in 1 .. Len(staged'[v]), i < j
        PROVE  staged'[v][i] < staged'[v][j]
    <3>1. CASE v = w
      <4>1. i \in 1 .. Len(staged[w])
        BY <2>0, <2>2, <2>9, <3>1
      <4>2. CASE j \in 1 .. Len(staged[w])
        <5>1. staged[w][i] < staged[w][j]
          BY <2>0, <2>9, <4>1, <4>2
        <5>2. staged'[w][i] = staged[w][i] /\ staged'[w][j] = staged[w][j]
          BY <2>2, <4>1, <4>2
        <5>3. QED BY <3>1, <5>1, <5>2
      <4>3. CASE j = Len(staged[w]) + 1
        <5>1. staged[w][i] < nextId
          BY <2>0, <4>1
        <5>2. staged'[w][i] = staged[w][i] /\ staged'[w][j] = nextId
          BY <2>2, <4>1, <4>3
        <5>3. QED BY <3>1, <5>1, <5>2
      <4>4. QED BY <2>3, <2>9, <3>1, <4>2, <4>3
    <3>2. CASE v # w
      <4>1. staged'[v] = staged[v]
        BY <2>1, <3>2
      <4>2. i \in 1 .. Len(staged[v]) /\ j \in 1 .. Len(staged[v])
        BY <4>1
      <4>3. staged[v][i] < staged[v][j]
        BY <2>0, <2>9, <4>2
      <4>4. QED BY <4>1, <4>3
    <3>3. QED BY <3>1, <3>2
  <2>10. ASSUME NEW u \in Writers, NEW v \in Writers, u # v,
                NEW i \in 1 .. Len(staged'[u]), NEW j \in 1 .. Len(staged'[v])
         PROVE  staged'[u][i] # staged'[v][j]
    <3>1. CASE u = w
      <4>1. staged'[v] = staged[v] /\ staged[v][j] < nextId /\ staged[v][j] \in Nat
        BY <2>1, <2>7, <2>10, <3>1 DEF IdInv
      <4>2. CASE i \in 1 .. Len(staged[w])
        <5>1. v # w /\ j \in 1 .. Len(staged[v])
          BY <2>10, <3>1, <4>1
        <5>2. staged[w][i] # staged[v][j]
          BY <4>2, <5>1 DEF IdInv
        <5>3. QED BY <2>2, <3>1, <4>1, <4>2, <5>2
      <4>3. CASE i = Len(staged[w]) + 1
        BY <2>2, <3>1, <4>1, <4>3
      <4>4. QED BY <2>3, <2>10, <3>1, <4>2, <4>3
    <3>2. CASE v = w
      <4>1. staged'[u] = staged[u] /\ staged[u][i] < nextId /\ staged[u][i] \in Nat
        BY <2>1, <2>7, <2>10, <3>2 DEF IdInv
      <4>2. CASE j \in 1 .. Len(staged[w])
        <5>1. u # w /\ i \in 1 .. Len(staged[u])
          BY <2>10, <3>2, <4>1
        <5>2. staged[u][i] # staged[w][j]
          BY <4>2, <5>1 DEF IdInv
        <5>3. QED BY <2>2, <3>2, <4>1, <4>2, <5>2
      <4>3. CASE j = Len(staged[w]) + 1
        BY <2>2, <3>2, <4>1, <4>3
      <4>4. QED BY <2>3, <2>10, <3>2, <4>2, <4>3
    <3>3. CASE u # w /\ v # w
      <4>1. staged'[u] = staged[u] /\ staged'[v] = staged[v]
        BY <2>1, <3>3
      <4>2. i \in 1 .. Len(staged[u]) /\ j \in 1 .. Len(staged[v])
        BY <4>1
      <4>3. staged[u][i] # staged[v][j]
        BY <2>10, <4>2 DEF IdInv
      <4>4. QED BY <4>1, <4>3
    <3>4. QED BY <3>1, <3>2, <3>3
  <2>11. QED BY <2>6, <2>8, <2>9, <2>10 DEF IdInv
<1>4. CASE WriterCommit(w) \/ WriterAbort(w)
  <2>1. /\ nextId' = nextId /\ staged'[w] = <<>> /\ Len(staged'[w]) = 0
        /\ \A v \in Writers \ {w} : staged'[v] = staged[v]
    BY <1>4 DEF WriterCommit, WriterAbort, EndTx
  <2>3. \A e \in outbox' : e.id < nextId'
    BY <1>0, <2>1 DEF IdInv
  <2>4. ASSUME NEW v \in Writers, NEW i \in 1 .. Len(staged'[v])
        PROVE  staged'[v][i] < nextId' /\ staged'[v][i] \notin RowIds'
    <3>1. v # w /\ staged'[v] = staged[v]
      BY <2>1, <2>4
    <3>2. staged'[v][i] < nextId' /\ staged'[v][i] \notin RowIds
      BY <2>1, <2>4, <3>1 DEF IdInv
    <3>3. \A j \in 1 .. Len(staged[w]) : staged'[v][i] # staged[w][j]
      BY <2>4, <3>1 DEF IdInv
    <3>4. QED BY <1>0, <3>2, <3>3 DEF RowIds
  <2>5. \A v \in Writers : staged'[v] = staged[v] \/ Len(staged'[v]) = 0
    BY <2>1
  <2>6. ASSUME NEW v \in Writers, NEW i \in 1 .. Len(staged'[v]) PROVE staged'[v] = staged[v]
    BY <2>5, <2>6
  <2>7. \A v \in Writers : \A i, j \in 1 .. Len(staged'[v]) : i < j => staged'[v][i] < staged'[v][j]
    BY <2>6 DEF IdInv
  <2>8. \A u, v \in Writers : \A i \in 1 .. Len(staged'[u]) : \A j \in 1 .. Len(staged'[v]) :
          u # v => staged'[u][i] # staged'[v][j]
    BY <2>6 DEF IdInv
  <2>9. QED BY <2>3, <2>4, <2>7, <2>8 DEF IdInv
<1>5. QED BY <1>2, <1>3, <1>4 DEF WriterStep

(* The rows of one delivery become visible at once, in the order of their ids. *)
LEMMA RowsStep ==
  ASSUME TypeOK, IdInv, TogetherInv, IdsFollowEvents, NEW w \in Writers, WriterStep(w) \/ WriterAbort(w)
  PROVE  /\ TogetherInv' /\ IdsFollowEvents'
         /\ \A a, b \in outbox' : Earlier(a, b) => (a \in outbox <=> b \in outbox)
<1>0. /\ outbox \subseteq outbox'
      /\ \A e \in outbox' \ outbox :
           /\ WriterCommit(w) /\ e.delivery = open[w] /\ open[w] # None
           /\ e.n \in 1 .. Len(staged[w]) /\ e.id = staged[w][e.n]
  BY RowsAdded
<1> USE DEF TypeOK
<1>1. \A a, b \in outbox' : Earlier(a, b) => (a \in outbox <=> b \in outbox)
  BY <1>0 DEF TogetherInv, Earlier
<1>2. ASSUME NEW a \in outbox', NEW b \in outbox', Earlier(a, b) PROVE a.id < b.id
  <2>1. CASE b \in outbox
    BY <1>1, <1>2, <2>1 DEF IdsFollowEvents
  <2>2. CASE b \notin outbox
    <3>1. a \notin outbox
      BY <1>1, <1>2, <2>2
    <3>2. /\ a.n \in 1 .. Len(staged[w]) /\ a.id = staged[w][a.n]
          /\ b.n \in 1 .. Len(staged[w]) /\ b.id = staged[w][b.n]
      BY <1>0, <2>2, <3>1
    <3>3. QED BY <1>2, <3>2 DEF IdInv, Earlier
  <2>3. QED BY <2>1, <2>2
<1>3. TogetherInv'
  <2>1. ASSUME NEW d \in Deliveries, Begin(w, d) PROVE TogetherInv'
    BY <2>1 DEF Begin, TogetherInv
  <2>2. CASE Insert(w)
    BY <2>2 DEF Insert, TogetherInv
  <2>3. CASE WriterCommit(w) \/ WriterAbort(w)
    <3>1. open' = [open EXCEPT ![w] = None]
      BY <2>3 DEF WriterCommit, WriterAbort, EndTx
    <3>2. \A e \in outbox : e.delivery # None
      BY DEF Rows
    <3>3. \A v \in Writers \ {w} : \A e \in outbox' : e.delivery # open[v]
      BY <1>0 DEF TogetherInv
    <3>4. \A e \in outbox' : e.delivery # None
      BY <1>0, <3>2
    <3>5. QED BY <3>1, <3>3, <3>4 DEF TogetherInv
  <2>4. QED BY <2>1, <2>2, <2>3 DEF WriterStep
<1>4. QED BY <1>1, <1>2, <1>3 DEF IdsFollowEvents

(* A single relay holds nothing that another one may stamp. *)
LEMMA Alone ==
  ASSUME SafetyInv, SingleRelay, NEW r \in Relays, pc[r] # "off"
  PROVE  \A q \in Relays \ {r} : pc[q] = "off" /\ batch[q] = {}
  BY DEF SafetyInv, SingleRelay, LockInv

(* A batch holds the earlier rows of a delivery with the later ones. *)
LEMMA BatchStep ==
  ASSUME SafetyInv, SafetyInv', IdsFollowEvents, SingleRelay => BatchClosed, SingleRelay',
         NEW r \in Relays, RelayNext(r)
  PROVE  BatchClosed'
<1>1. TypeOK /\ TypeOK'
  BY DEF SafetyInv
<1>2. SingleRelay
  <2>1. \A q \in Relays : pc'[q] = "off" <=> pc[q] = "off"
    BY <1>1, NextSplit, SameRelays
  <2>2. QED BY <2>1 DEF SingleRelay
<1>3. pc[r] # "off"
  BY DEF RelayNext, RelayStep, SelectBatch, Publish, PublishRepeated, PublishFails, NextRow,
     StampAndCommit, RollBack
<1>4. outbox' = outbox /\ \A q \in Relays \ {r} : batch'[q] = {}
  BY <1>1, <1>2, <1>3, Alone, RelayFrame DEF writerVars
<1>5. ASSUME NEW a \in outbox, NEW b \in outbox, Earlier(a, b), b.id \in batch'[r]
      PROVE  a.id \in batch'[r] \union published'
  <2>1. a.id \in Nat /\ b.id \in Nat /\ a.id < b.id
    BY <1>1, <1>5 DEF TypeOK, Rows, Ids, IdsFollowEvents
  <2>2. CASE SelectBatch(r)
    <3>1. batch'[r] = FirstUpTo(BatchSize, Selectable) /\ published' = published
      BY <1>1, <2>2 DEF SelectBatch, TypeOK
    <3>2. Locked = batch[r] /\ batch[r] = {}
      BY <1>2, <1>3, <2>2, Alone DEF Locked, SelectBatch, SafetyInv, LockInv
    <3>3. Selectable = Pending /\ Pending \subseteq Ids
      BY <1>1, <3>2 DEF Selectable, Pending, RowIds, TypeOK, Rows
    <3>4. SUFFICES ASSUME a.id \notin published PROVE a.id \in FirstUpTo(BatchSize, Pending)
      BY <3>1, <3>3
    <3>5. a.id \in Pending
      BY <3>4 DEF Pending, RowIds
    <3>6. Cardinality({ j \in Pending : j <= b.id }) <= BatchSize
      BY <1>5, <3>1, <3>3 DEF FirstUpTo
    <3>7. /\ IsFiniteSet({ j \in Pending : j <= b.id })
          /\ { j \in Pending : j <= a.id } \subseteq { j \in Pending : j <= b.id }
      <4>1. IsFiniteSet(1 .. b.id)
        BY <2>1, FS_Interval
      <4>2. ASSUME NEW j \in Pending, j <= b.id PROVE j \in 1 .. b.id
        <5>1. j \in Nat /\ j # 0
          BY <3>3 DEF Ids
        <5>2. QED BY <2>1, <4>2, <5>1
      <4>3. \A j \in Pending : j <= a.id => j <= b.id
        BY <2>1, <3>3 DEF Ids
      <4>4. QED BY <4>1, <4>2, <4>3, FS_Subset
    <3>8. /\ Cardinality({ j \in Pending : j <= a.id }) <= Cardinality({ j \in Pending : j <= b.id })
          /\ Cardinality({ j \in Pending : j <= a.id }) \in Nat
          /\ Cardinality({ j \in Pending : j <= b.id }) \in Nat
      BY <3>7, FS_Subset, FS_CardinalityType
    <3>9. QED BY <3>5, <3>6, <3>8 DEF FirstUpTo
  <2>3. CASE Publish(r) \/ PublishRepeated(r) \/ PublishFails(r)
    <3>1. batch' = batch /\ published' = published
      BY <2>3 DEF Publish, PublishRepeated, PublishFails, AfterWrite
    <3>2. QED BY <1>2, <1>5, <3>1 DEF BatchClosed
  <2>4. CASE StampAndCommit(r) \/ RollBack(r)
    <3>1. batch'[r] = {}
      BY <1>1, <2>4 DEF StampAndCommit, RollBack, Release, TypeOK
    <3>2. QED BY <1>5, <3>1
  <2>5. QED BY <2>2, <2>3, <2>4 DEF RelayNext, RelayStep
<1>6. QED BY <1>4, <1>5 DEF BatchClosed

(* What a lone relay writes next is not ahead of an earlier row: that one is *)
(* stamped, or was sent before in the same batch.                            *)
LEMMA EarlierIsTopical ==
  ASSUME SafetyInv, BatchClosed, IdsFollowEvents, NEW r \in Relays, NEW i, NextRow(r, i),
         NEW a \in outbox, NEW b \in outbox, Earlier(a, b), b.id = i
  PROVE  a.id \in Topical
<1>1. a.id \in Nat /\ b.id \in Nat /\ a.id < b.id
  BY DEF SafetyInv, TypeOK, Rows, Ids, IdsFollowEvents
<1>2. a.id \in batch[r] \union published
  BY DEF BatchClosed, NextRow, IsLeast
<1>3. a.id \in sent[r] \union published
  BY <1>1, <1>2 DEF NextRow, IsLeast
<1>4. QED BY <1>3 DEF SafetyInv, SentInv, StampedIsPublished

(* Every step keeps the order of a single relay. *)
LEMMA OrderStep ==
  ASSUME OrderInv, [Next]_vars
  PROVE  OrderInv'
<1>1. SafetyInv /\ SafetyInv' /\ TypeOK /\ TypeOK'
  BY SafetyStep DEF OrderInv, SafetyInv
<1>2. SingleRelay' <=> SingleRelay
  BY <1>1, SameRelays DEF SingleRelay
<1>3. CASE WriterNext
  <2>1. PICK w \in Writers : WriterStep(w) \/ WriterAbort(w)
    BY <1>3 DEF WriterNext
  <2>2. /\ IdInv' /\ TogetherInv' /\ IdsFollowEvents'
        /\ \A a, b \in outbox' : Earlier(a, b) => (a \in outbox <=> b \in outbox)
    BY <1>1, <2>1, IdStep, RowsStep DEF OrderInv
  <2>3. UNCHANGED <<pc, batch, published, topic>>
    BY <1>1, <1>3, WriterTypes DEF relayVars
  <2>4. \A b \in outbox' : b.id \in RowIds => b \in outbox
    <3>1. \A b \in outbox' \ outbox : \E i \in 1 .. Len(staged[w]) : b.id = staged[w][i]
      BY <1>1, <2>1, RowsAdded
    <3>2. QED BY <3>1 DEF OrderInv, IdInv
  <2>5. SingleRelay' => BatchClosed'
    <3>1. \A r \in Relays : batch[r] \subseteq RowIds
      BY <1>1 DEF SafetyInv, LockInv, Pending
    <3>2. QED BY <1>2, <2>2, <2>3, <2>4, <3>1 DEF OrderInv, BatchClosed
  <2>6. EventsInOrder'
    <3>1. \A k \in 1 .. Len(topic) : topic[k] \in RowIds
      BY <1>1 DEF SafetyInv, PublishedIsCommitted, Topical
    <3>2. QED BY <1>2, <2>2, <2>3, <2>4, <3>1 DEF OrderInv, EventsInOrder, Earlier
  <2>7. QED BY <1>1, <2>2, <2>5, <2>6 DEF OrderInv
<1>4. ASSUME NEW r \in Relays, RelayNext(r) PROVE OrderInv'
  <2>1. UNCHANGED writerVars
    BY <1>1, <1>4, RelayFrame
  <2>2. IdInv' /\ TogetherInv' /\ IdsFollowEvents'
    BY <2>1 DEF OrderInv, IdInv, TogetherInv, IdsFollowEvents, writerVars, RowIds
  <2>3. SingleRelay' => BatchClosed'
    BY <1>1, <1>4, BatchStep DEF OrderInv
  <2>4. EventsInOrder'
    <3> SUFFICES ASSUME SingleRelay, NEW a \in outbox, NEW b \in outbox, Earlier(a, b),
                        NEW k \in 1 .. Len(topic'), topic'[k] = b.id
                 PROVE  \E j \in 1 .. k - 1 : topic'[j] = a.id
      BY <1>2, <2>1 DEF EventsInOrder, Earlier, writerVars
    <3>1. /\ Len(topic) \in Nat /\ Len(topic') \in Nat /\ Len(topic) <= Len(topic')
          /\ \A j \in 1 .. Len(topic) : topic'[j] = topic[j]
      BY <1>1, <1>4, TopicGrows DEF TypeOK
    <3>2. CASE k \in 1 .. Len(topic)
      <4>1. PICK j \in 1 .. k - 1 : topic[j] = a.id
        BY <3>1, <3>2 DEF OrderInv, EventsInOrder, Earlier
      <4>2. QED BY <3>1, <3>2, <4>1
    <3>3. CASE k \in Len(topic) + 1 .. Len(topic')
      <4>1. NextRow(r, b.id)
        BY <1>1, <1>4, <3>3, TopicGrows
      <4>2. a.id \in Topical
        BY <1>1, <4>1, EarlierIsTopical DEF OrderInv
      <4>3. PICK j \in 1 .. Len(topic) : topic[j] = a.id
        BY <4>2 DEF Topical
      <4>4. QED BY <3>1, <3>3, <4>3
    <3>4. QED BY <3>1, <3>2, <3>3
  <2>5. QED BY <1>1, <2>2, <2>3, <2>4 DEF OrderInv
<1>5. CASE UNCHANGED vars
  <2>1. UNCHANGED <<writerVars, pc, batch, published, topic>>
    BY <1>5 DEF vars, relayVars
  <2>2. IdInv' /\ TogetherInv' /\ IdsFollowEvents'
    BY <2>1 DEF OrderInv, IdInv, TogetherInv, IdsFollowEvents, writerVars, RowIds
  <2>3. (SingleRelay' => BatchClosed') /\ EventsInOrder'
    BY <1>2, <2>1 DEF OrderInv, BatchClosed, EventsInOrder, writerVars
  <2>4. QED BY <1>1, <2>2, <2>3 DEF OrderInv
<1>6. QED BY <1>3, <1>4, <1>5, NextSplit

(* While a single relay runs, the events of one delivery are first seen in   *)
(* the order they were staged, whatever fails, is repeated or rolled back.    *)
THEOREM SingleRelayOrder == Spec => []EventsInOrder
<1>1. Init => OrderInv
  <2> SUFFICES ASSUME Init PROVE OrderInv
    OBVIOUS
  <2>1. SafetyInv
    BY TypeInit DEF Init, SafetyInv, LockInv, SentInv, StampedIsPublished, PublishedIsCommitted, Topical
  <2>2. outbox = {} /\ (\A w \in Writers : Len(staged[w]) = 0 /\ open[w] = None)
    BY DEF Init
  <2>3. QED
    BY <2>1, <2>2 DEF OrderInv, IdInv, TogetherInv, IdsFollowEvents, BatchClosed, EventsInOrder
<1>2. OrderInv => EventsInOrder
  BY DEF OrderInv
<1>3. QED BY <1>1, <1>2, OrderStep, PTL DEF Spec

--------------------------------------------------------------------------------
(* How often an event is published. *)

Occurs(s, i) == Cardinality({ k \in 1 .. Len(s) : s[k] = i })

(* A row that is stamped, or that its relay knows to be published, accounts  *)
(* for one copy; every other one is due to a failure.                        *)
Counted == published \union UNION { sent[r] : r \in Relays }

CopiesInv ==
  \A i \in Ids : Copies(i) <= faults + (IF i \in Counted THEN 1 ELSE 0)

(* Occurrences in a sequence can be counted. *)
LEMMA OccursType ==
  ASSUME NEW s \in Seq(Ids), NEW i
  PROVE  /\ IsFiniteSet({ k \in 1 .. Len(s) : s[k] = i })
         /\ Occurs(s, i) \in Nat
<1>1. IsFiniteSet(1 .. Len(s))
  BY FS_Interval
<1>2. IsFiniteSet({ k \in 1 .. Len(s) : s[k] = i })
  BY <1>1, FS_Subset
<1>3. QED BY <1>2, FS_CardinalityType DEF Occurs

(* Appending adds an occurrence of what is appended only. *)
LEMMA OccursAppend ==
  ASSUME NEW s \in Seq(Ids), NEW i \in Ids, NEW j \in Ids
  PROVE  Occurs(Append(s, j), i) = Occurs(s, i) + (IF i = j THEN 1 ELSE 0)
<1> DEFINE S == { k \in 1 .. Len(s) : s[k] = i }
           T == { k \in 1 .. Len(Append(s, j)) : Append(s, j)[k] = i }
           n == Len(s) + 1
<1>1. /\ Len(Append(s, j)) = n /\ Append(s, j)[n] = j /\ n \in 1 .. n
      /\ \A k \in 1 .. Len(s) : Append(s, j)[k] = s[k]
      /\ 1 .. n = (1 .. Len(s)) \union {n} /\ n \notin 1 .. Len(s)
  OBVIOUS
<1>2. IsFiniteSet(S) /\ Cardinality(S) \in Nat /\ n \notin S
  BY <1>1, OccursType DEF Occurs
<1>3. CASE i = j
  <2>1. T = S \union {n}
    BY <1>1, <1>3
  <2>2. Cardinality(T) = Cardinality(S) + 1
    BY <1>2, <2>1, FS_AddElement
  <2>3. QED BY <1>3, <2>2 DEF Occurs
<1>4. CASE i # j
  <2>1. T = S
    BY <1>1, <1>4
  <2>2. Cardinality(T) = Cardinality(S)
    BY <2>1
  <2>3. Occurs(Append(s, j), i) = Cardinality(T) /\ Occurs(s, i) = Cardinality(S)
    BY DEF Occurs
  <2> HIDE DEF S, T
  <2>4. QED BY <1>2, <1>4, <2>2, <2>3
<1>5. QED BY <1>3, <1>4

(* The row that is published next does not count yet. *)
LEMMA NextIsUncounted ==
  ASSUME SafetyInv, NEW r \in Relays, NEW i, NextRow(r, i)
  PROVE  i \in Ids /\ i \notin Counted
<1>1. i \in batch[r] /\ i \notin sent[r]
  BY DEF NextRow, IsLeast
<1>2. i \in Ids
  BY <1>1 DEF SafetyInv, TypeOK
<1>3. i \notin published
  BY <1>1 DEF SafetyInv, LockInv, Pending
<1>4. \A q \in Relays : i \notin sent[q]
  BY <1>1 DEF SafetyInv, LockInv
<1>5. QED BY <1>2, <1>3, <1>4 DEF Counted

(* A relay that goes on with its batch counts what it counted before. *)
LEMMA CountedAfterWrite ==
  ASSUME SafetyInv, NEW r \in Relays, NEW i, AfterWrite(r, i)
  PROVE  Counted' = Counted \union {i}
<1>1. published' = published /\ sent' = [sent EXCEPT ![r] = @ \union {i}]
  BY DEF AfterWrite
<1>2. sent'[r] = sent[r] \union {i} /\ \A q \in Relays \ {r} : sent'[q] = sent[q]
  BY <1>1 DEF SafetyInv, TypeOK
<1>3. QED BY <1>1, <1>2 DEF Counted

(* Every step keeps copies within faults. *)
LEMMA CopiesStep ==
  ASSUME SafetyInv, CopiesInv, [Next]_vars
  PROVE  CopiesInv'
<1> USE DEF Fault
<1>1. faults \in Nat /\ topic \in Seq(Ids) /\ \A x \in Ids : Copies(x) = Occurs(topic, x) /\ Occurs(topic, x) \in Nat
  <2>1. faults \in Nat /\ topic \in Seq(Ids)
    BY DEF SafetyInv, TypeOK
  <2>2. \A x \in Ids : Copies(x) = Occurs(topic, x)
    BY DEF Copies, Occurs
  <2>3. QED BY <2>1, <2>2, OccursType
<1>2. \A x \in Ids : Occurs(topic, x) <= faults + (IF x \in Counted THEN 1 ELSE 0)
  BY <1>1 DEF CopiesInv
<1>3. SUFFICES ASSUME NEW x \in Ids
               PROVE  Occurs(topic', x) <= faults' + (IF x \in Counted' THEN 1 ELSE 0)
  BY DEF CopiesInv, Copies, Occurs
<1>4. CASE UNCHANGED <<topic, faults>> /\ Counted' = Counted
  BY <1>2, <1>4
<1>5. ASSUME NEW r \in Relays, Publish(r)
      PROVE  Occurs(topic', x) <= faults' + (IF x \in Counted' THEN 1 ELSE 0)
  <2>1. PICK i \in batch[r] : NextRow(r, i) /\ topic' = Append(topic, i) /\ AfterWrite(r, i)
    BY <1>5 DEF Publish
  <2>2. i \in Ids /\ i \notin Counted /\ Counted' = Counted \union {i} /\ faults' = faults
    BY <1>5, <2>1, NextIsUncounted, CountedAfterWrite DEF Publish
  <2>3. Occurs(topic', x) = Occurs(topic, x) + (IF x = i THEN 1 ELSE 0)
    BY <1>1, <2>1, <2>2, OccursAppend
  <2>4. QED BY <1>1, <1>2, <2>2, <2>3
<1>6. ASSUME NEW r \in Relays, PublishRepeated(r)
      PROVE  Occurs(topic', x) <= faults' + (IF x \in Counted' THEN 1 ELSE 0)
  <2>1. PICK i \in batch[r] : NextRow(r, i) /\ topic' = Append(Append(topic, i), i) /\ AfterWrite(r, i)
    BY <1>6 DEF PublishRepeated
  <2>2. i \in Ids /\ i \notin Counted /\ Counted' = Counted \union {i} /\ faults' = faults + 1
    BY <1>6, <2>1, NextIsUncounted, CountedAfterWrite DEF PublishRepeated
  <2>3. Occurs(Append(topic, i), x) = Occurs(topic, x) + (IF x = i THEN 1 ELSE 0)
    BY <1>1, <2>2, OccursAppend
  <2>4. Append(topic, i) \in Seq(Ids)
    BY <1>1, <2>2
  <2>5. Occurs(topic', x) = Occurs(Append(topic, i), x) + (IF x = i THEN 1 ELSE 0)
    BY <2>1, <2>2, <2>4, OccursAppend
  <2>6. QED BY <1>1, <1>2, <2>2, <2>3, <2>5
<1>7. ASSUME NEW r \in Relays, PublishFails(r)
      PROVE  Occurs(topic', x) <= faults' + (IF x \in Counted' THEN 1 ELSE 0)
  <2>1. PICK i \in batch[r] : NextRow(r, i) /\ topic' \in {topic, Append(topic, i)}
    BY <1>7 DEF PublishFails
  <2>2. i \in Ids /\ i \notin Counted
    BY <2>1, NextIsUncounted
  <2>3. Counted' = Counted /\ faults' = faults + 1
    BY <1>7 DEF PublishFails, Counted
  <2>4. \/ Occurs(topic', x) = Occurs(topic, x)
        \/ Occurs(topic', x) = Occurs(topic, x) + (IF x = i THEN 1 ELSE 0)
    BY <1>1, <2>1, <2>2, OccursAppend
  <2>5. QED BY <1>1, <1>2, <2>2, <2>3, <2>4
<1>8. ASSUME NEW r \in Relays, StampAndCommit(r)
      PROVE  Occurs(topic', x) <= faults' + (IF x \in Counted' THEN 1 ELSE 0)
  <2>1. /\ published' = published \union sent[r] /\ sent'[r] = {}
        /\ (\A q \in Relays \ {r} : sent'[q] = sent[q]) /\ UNCHANGED <<topic, faults>>
    BY <1>8 DEF StampAndCommit, Release, SafetyInv, TypeOK
  <2>2. Counted' = Counted
    BY <2>1 DEF Counted
  <2>3. QED BY <1>2, <2>1, <2>2
<1>9. ASSUME NEW r \in Relays, RollBack(r)
      PROVE  Occurs(topic', x) <= faults' + (IF x \in Counted' THEN 1 ELSE 0)
  <2>1. topic' = topic /\ faults' = faults + 1
    BY <1>9 DEF RollBack, Release
  <2>2. QED BY <1>1, <1>2, <2>1
<1>10. CASE WriterNext
  <2>1. UNCHANGED <<topic, faults, published, sent>>
    BY <1>10, WriterTypes DEF SafetyInv, relayVars
  <2>2. QED BY <1>4, <2>1 DEF Counted
<1>11. ASSUME NEW r \in Relays, SelectBatch(r)
       PROVE  Occurs(topic', x) <= faults' + (IF x \in Counted' THEN 1 ELSE 0)
  BY <1>4, <1>11 DEF SelectBatch, Counted
<1>12. CASE UNCHANGED vars
  BY <1>4, <1>12 DEF vars, relayVars, Counted
<1>13. QED
  BY <1>5, <1>6, <1>7, <1>8, <1>9, <1>10, <1>11, <1>12, NextSplit DEF RelayNext, RelayStep

(* No event is in the topic more often than once and once more per failure,   *)
(* with any number of relays: exactly once at most where nothing fails.       *)
THEOREM CopiesBounded == Spec => []CopiesWithinFaults
<1>1. Init => SafetyInv /\ CopiesInv
  <2> SUFFICES ASSUME Init PROVE SafetyInv /\ CopiesInv
    OBVIOUS
  <2>1. SafetyInv
    BY TypeInit DEF Init, SafetyInv, LockInv, SentInv, StampedIsPublished, PublishedIsCommitted, Topical
  <2>2. \A i \in Ids : Copies(i) = 0
    BY FS_EmptySet DEF Init, Copies
  <2>3. QED BY <2>1, <2>2 DEF Init, CopiesInv
<1>2. SafetyInv /\ CopiesInv => CopiesWithinFaults
  <2> SUFFICES ASSUME SafetyInv, CopiesInv, NEW i \in Topical PROVE Copies(i) <= 1 + faults
    BY DEF CopiesWithinFaults
  <2>1. i \in Ids /\ topic \in Seq(Ids) /\ faults \in Nat
    BY DEF SafetyInv, TypeOK, Topical
  <2>2. Copies(i) \in Nat
    BY <2>1, OccursType DEF Copies, Occurs
  <2>3. Copies(i) <= faults + (IF i \in Counted THEN 1 ELSE 0)
    BY <2>1 DEF CopiesInv
  <2>4. QED BY <2>1, <2>2, <2>3
<1>3. SafetyInv /\ CopiesInv /\ [Next]_vars => SafetyInv' /\ CopiesInv'
  BY SafetyStep, CopiesStep
<1>4. QED BY <1>1, <1>2, <1>3, PTL DEF Spec
================================================================================
