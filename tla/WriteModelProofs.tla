--------------------------- MODULE WriteModelProofs ----------------------------
(***************************************************************************)
(* Proofs about WriteModel, for any number of workers and any deliveries   *)
(* whose programs are of persist's form (WriteModelAssumption):            *)
(*   IInv, row locks are kept to the end of a transaction, and with it the *)
(*     outbox rows of one entity become visible in the order of their ids; *)
(*   AgreeInv, and with it the last event of a row says what it holds;     *)
(*   ResolveInv, and with it reviews lead to their rows;                   *)
(*   SerialInv, and with it concurrent transactions do what SerialWrites   *)
(*     promises: each delivery applied at once, one after another.         *)
(* And about Persist: what it makes of webhooks is of that form.           *)
(***************************************************************************)
EXTENDS WriteModel, FiniteSetTheorems, WellFoundedInduction, TLAPS

USE DEF Open

(* The invariant at the start. *)
LEMMA InitIInv == Init => IInv
<1> SUFFICES ASSUME Init PROVE IInv
  OBVIOUS
<1>1. TypeOK
  BY DEF Init, TypeOK
<1>2. IdsDrawn /\ OneWriter /\ StagedLocked /\ StagedAfterCommitted
  BY DEF Init, IdsDrawn, OneWriter, StagedLocked, StagedAfterCommitted
<1>3. LocksKept
  BY DEF Init, LocksKept
<1> QED
  BY <1>1, <1>2, <1>3 DEF IInv

--------------------------------------------------------------------------------
(* What the helpers do to the variables the invariant is about. *)

(* A row that is put is in the table, besides what was there. *)
LEMMA PutDomain ==
  ASSUME NEW table, NEW k, NEW row
  PROVE  DOMAIN Put(table, k, row) = DOMAIN table \union {k}
BY DEF Put

(* A row may be written that is not locked by another, or a new contributor. *)
Claimable(w, k) ==
  k[1] = "contributor" \/ \A v \in Workers : v # w => k \notin DOMAIN mine[v]

(* A write of a row that no other transaction holds keeps one writer per row. *)
LEMMA WriteKeeps ==
  ASSUME IInv, NEW w \in Workers, NEW k, NEW row, Claimable(w, k), Write(w, k, row)
  PROVE  /\ DOMAIN mine' = Workers
         /\ \A v \in Workers : v # w => mine'[v] = mine[v]
         /\ DOMAIN mine'[w] = DOMAIN mine[w] \union {k}
         /\ OneWriter'
<1>1. DOMAIN mine' = Workers /\ (\A v \in Workers : v # w => mine'[v] = mine[v])
  BY DEF IInv, TypeOK, Write
<1>2. mine'[w] = Put(mine[w], k, row)
  BY DEF IInv, TypeOK, Write
<1>3. DOMAIN mine'[w] = DOMAIN mine[w] \union {k}
  BY <1>2, PutDomain
<1>4. OneWriter'
  <2> SUFFICES ASSUME NEW u \in Workers, NEW v \in Workers, u # v,
                      NEW x \in DOMAIN mine'[u] \intersect DOMAIN mine'[v]
               PROVE  x[1] = "contributor"
    BY DEF OneWriter
  <2>1. CASE u # w /\ v # w
    BY <2>1, <1>1 DEF IInv, OneWriter
  <2>2. CASE u = w
    BY <2>2, <1>1, <1>3 DEF IInv, OneWriter, Claimable
  <2>3. CASE v = w
    BY <2>3, <1>1, <1>3 DEF IInv, OneWriter, Claimable
  <2> QED
    BY <2>1, <2>2, <2>3
<1> QED
  BY <1>1, <1>3, <1>4

(* A worker that waits for nobody may claim the row it wants. *)
LEMMA FreeClaims ==
  ASSUME NEW w \in Workers, Free(w), NEW k \in Wanted(w)
  PROVE  Claimable(w, k)
BY DEF Free, WaitsFor, Claimable

(* A statement that writes waits for the lock of its own row. *)
LEMMA WantedRow ==
  ASSUME NEW w \in Workers, NEW op \in Writes, At(w, op)
  PROVE  Statement(w).key \in Wanted(w)
<1>1. pc[w] # "mark" /\ pc[w] # "link"
  BY DEF At
<1>2. \E o \in Writes : At(w, o)
  OBVIOUS
<1> QED
  BY <1>1, <1>2 DEF Wanted

(* Writing a row disturbs no event that is staged or committed. *)
LEMMA WriteKeepsEvents ==
  ASSUME IInv, NEW w \in Workers, NEW k, NEW row, Claimable(w, k), Write(w, k, row),
         UNCHANGED <<staged, outbox, nextId>>
  PROVE  IdsDrawn' /\ StagedLocked' /\ StagedAfterCommitted'
<1>1. \A v \in Workers : DOMAIN mine[v] \subseteq DOMAIN mine'[v]
  BY WriteKeeps
<1>2. StagedLocked'
  BY <1>1 DEF IInv, StagedLocked
<1>3. IdsDrawn' /\ StagedAfterCommitted'
  BY DEF IInv, IdsDrawn, StagedAfterCommitted
<1> QED
  BY <1>2, <1>3

(* The executed statements of w keep their rows when w moves on. *)
LEMMA NextKeepsLocks ==
  ASSUME IInv, NEW w \in Workers, pc[w] \in {"run", "link"}, pc'[w] \in {"run", "link"},
         \A v \in Workers \ {w} : pc'[v] = pc[v] /\ ip'[v] = ip[v],
         cur' = cur, ip'[w] \in {ip[w], ip[w] + 1},
         \A v \in Workers : DOMAIN mine[v] \subseteq DOMAIN mine'[v],
         ip'[w] = ip[w] + 1 /\ Statement(w).op \in Writes => Statement(w).key \in DOMAIN mine'[w]
  PROVE  LocksKept'
<1> SUFFICES ASSUME NEW v \in Workers, pc'[v] \in {"run", "link"},
                    NEW i \in 1 .. Len(Program[cur[v]]), i < ip'[v],
                    Program[cur[v]][i].op \in Writes
             PROVE  Program[cur[v]][i].key \in DOMAIN mine'[v]
  BY DEF LocksKept
<1>1. pc[v] \in {"run", "link"}
  OBVIOUS
<1>2. CASE i < ip[v]
  BY <1>1, <1>2 DEF IInv, LocksKept
<1>3. CASE ~(i < ip[v])
  <2>1. cur[v] \in Deliveries /\ ip[v] \in Nat
    BY <1>1 DEF IInv, TypeOK
  <2>2. i \in Nat
    BY <2>1, WriteModelAssumption
  <2>3. v = w /\ ip'[w] = ip[w] + 1 /\ i = ip[w]
    BY <1>3, <2>1, <2>2
  <2> QED
    BY <2>3 DEF Statement
<1> QED
  BY <1>2, <1>3

(* A transaction that ends gives up its rows and its events. *)
LEMMA EndKeeps ==
  ASSUME IInv, NEW w \in Workers, EndTx(w)
  PROVE  TypeOK' /\ OneWriter' /\ LocksKept' /\ StagedLocked'
<1>1. /\ pc'[w] = "idle" /\ cur'[w] = None /\ ip'[w] = 1
      /\ mine'[w] = <<>> /\ staged'[w] = {} /\ UNCHANGED <<arrived, tries, nextId>>
      /\ DOMAIN mine' = Workers /\ DOMAIN staged' = Workers
  BY DEF EndTx, Goto, IInv, TypeOK
<1>2. \A v \in Workers \ {w} : /\ pc'[v] = pc[v] /\ cur'[v] = cur[v] /\ ip'[v] = ip[v]
                              /\ mine'[v] = mine[v] /\ staged'[v] = staged[v]
  BY DEF EndTx, Goto, IInv, TypeOK
<1>3. TypeOK'
  <2>1. /\ pc' \in [Workers -> {"idle", "mark", "run", "link"}]
        /\ cur' \in [Workers -> Deliveries \union {None}]
        /\ ip' \in [Workers -> Nat \ {0}]
    BY DEF EndTx, Goto, IInv, TypeOK
  <2>2. ASSUME NEW v \in Workers
        PROVE  /\ Open(v)' => cur'[v] \in Deliveries
               /\ ~Open(v)' => cur'[v] = None /\ mine'[v] = <<>> /\ staged'[v] = {}
               /\ pc'[v] \in {"idle", "mark"} => ip'[v] = 1
               /\ pc'[v] = "link" => Statement(v)'.op = "resolve"
    <3>1. CASE v = w
      BY <3>1, <1>1
    <3>2. CASE v # w
      BY <3>2, <1>2 DEF IInv, TypeOK, Statement
    <3> QED
      BY <3>1, <3>2
  <2> QED
    BY <1>1, <2>1, <2>2 DEF IInv, TypeOK
<1>4. OneWriter'
  BY <1>1, <1>2 DEF IInv, OneWriter
<1>5. LocksKept'
  BY <1>1, <1>2 DEF IInv, LocksKept
<1>6. StagedLocked'
  BY <1>1, <1>2 DEF IInv, StagedLocked
<1> QED
  BY <1>3, <1>4, <1>5, <1>6

--------------------------------------------------------------------------------
(* Each action keeps the invariant. *)

(* Beginning a transaction keeps the invariant: it holds nothing yet. *)
LEMMA BeginStep ==
  ASSUME IInv, NEW w \in Workers, NEW d \in Deliveries, Begin(w, d)
  PROVE  IInv'
<1>1. /\ pc' = [pc EXCEPT ![w] = "mark"] /\ cur' = [cur EXCEPT ![w] = d]
      /\ UNCHANGED <<store, outbox, nextId, ip, mine, staged>>
      /\ pc[w] = "idle" /\ tries' = tries + 1 /\ arrived' = arrived \union {d}
  BY DEF Begin, Goto, dbVars
<1>2. TypeOK'
  BY <1>1 DEF IInv, TypeOK, Statement
<1>3. OneWriter' /\ StagedLocked' /\ StagedAfterCommitted' /\ IdsDrawn'
  BY <1>1 DEF IInv, OneWriter, StagedLocked, StagedAfterCommitted, IdsDrawn
<1>4. LocksKept'
  BY <1>1 DEF IInv, TypeOK, LocksKept
<1> QED
  BY <1>2, <1>3, <1>4 DEF IInv

(* Marking a delivery, or finding it marked, keeps the invariant. *)
LEMMA MarkDeliveryStep ==
  ASSUME IInv, NEW w \in Workers, MarkDelivery(w)
  PROVE  IInv'
<1> USE DEF MarkDelivery
<1>1. CASE EndTx(w)
  <2>1. UNCHANGED <<outbox, nextId>> /\ \A v \in Workers : staged'[v] \subseteq staged[v]
    BY <1>1 DEF EndTx, IInv, TypeOK
  <2>2. IdsDrawn' /\ StagedAfterCommitted'
    BY <2>1 DEF IInv, IdsDrawn, StagedAfterCommitted
  <2> QED
    BY <1>1, <2>2, EndKeeps DEF IInv
<1>2. CASE /\ Write(w, MarkKey(cur[w]), [uuid |-> cur[w]])
           /\ Goto(w, "run")
           /\ UNCHANGED <<arrived, tries, nextId, cur, ip, staged, reviewer>>
  <2>1. MarkKey(cur[w]) \in Wanted(w)
    BY DEF Wanted, At
  <2>2. Claimable(w, MarkKey(cur[w]))
    BY <2>1, FreeClaims
  <2>3. OneWriter' /\ DOMAIN mine' = Workers
        /\ \A v \in Workers : v # w => mine'[v] = mine[v]
    BY <1>2, <2>2, WriteKeeps
  <2>4. IdsDrawn' /\ StagedLocked' /\ StagedAfterCommitted'
    BY <1>2, <2>2, WriteKeepsEvents
  <2>5. pc' = [pc EXCEPT ![w] = "run"]
    BY <1>2 DEF Goto
  <2>6. TypeOK'
    <3>1. pc[w] = "mark" /\ cur[w] \in Deliveries
      BY DEF IInv, TypeOK
    <3>2. \A v \in Workers : v # w => pc'[v] = pc[v]
      BY <2>5 DEF IInv, TypeOK
    <3>3. pc' \in [Workers -> {"idle", "mark", "run", "link"}] /\ pc'[w] = "run"
      BY <2>5 DEF IInv, TypeOK
    <3>4. ASSUME NEW v \in Workers
          PROVE  /\ Open(v)' => cur'[v] \in Deliveries
                 /\ ~Open(v)' => cur'[v] = None /\ mine'[v] = <<>> /\ staged'[v] = {}
                 /\ pc'[v] \in {"idle", "mark"} => ip'[v] = 1
                 /\ pc'[v] = "link" => Statement(v)'.op = "resolve"
      <4>1. CASE v = w
        BY <4>1, <3>1, <3>3, <1>2
      <4>2. CASE v # w
        BY <4>2, <3>2, <1>2, <2>3 DEF IInv, TypeOK, Statement
      <4> QED
        BY <4>1, <4>2
    <3> QED
      BY <1>2, <2>3, <3>3, <3>4 DEF IInv, TypeOK
  <2>7. LocksKept'
    BY <1>2, <2>3, <2>5 DEF IInv, TypeOK, LocksKept
  <2> QED
    BY <2>3, <2>4, <2>6, <2>7 DEF IInv
<1> QED
  BY <1>1, <1>2

(* The three upserts: a statement that writes the row it has locked.  *)
LEMMA WriteStatement ==
  ASSUME IInv, NEW w \in Workers, NEW op \in Writes, NEW row, At(w, op), Free(w),
         Write(w, Statement(w).key, row), NextStatement(w),
         UNCHANGED <<nextId, pc, staged, reviewer>>
  PROVE  IInv'
<1>1. Claimable(w, Statement(w).key)
  BY FreeClaims, WantedRow
<1>2. UNCHANGED <<arrived, tries, store, outbox, cur>> /\ ip' = [ip EXCEPT ![w] = @ + 1]
  BY DEF NextStatement
<1>3. /\ OneWriter' /\ DOMAIN mine' = Workers
      /\ \A v \in Workers : v # w => mine'[v] = mine[v]
      /\ DOMAIN mine'[w] = DOMAIN mine[w] \union {Statement(w).key}
  BY <1>1, WriteKeeps
<1>4. IdsDrawn' /\ StagedLocked' /\ StagedAfterCommitted'
  BY <1>1, <1>2, WriteKeepsEvents
<1>5. pc[w] = "run" /\ ip[w] \in Nat \ {0} /\ ip'[w] = ip[w] + 1
      /\ \A v \in Workers \ {w} : ip'[v] = ip[v]
  BY <1>2 DEF At, IInv, TypeOK
<1>6. TypeOK'
  <2>1. ip' \in [Workers -> Nat \ {0}]
    BY <1>2 DEF IInv, TypeOK
  <2>2. ASSUME NEW v \in Workers
        PROVE  /\ Open(v)' => cur'[v] \in Deliveries
               /\ ~Open(v)' => cur'[v] = None /\ mine'[v] = <<>> /\ staged'[v] = {}
               /\ pc'[v] \in {"idle", "mark"} => ip'[v] = 1
               /\ pc'[v] = "link" => Statement(v)'.op = "resolve"
    <3>1. CASE v = w
      BY <3>1, <1>2, <1>5 DEF IInv, TypeOK
    <3>2. CASE v # w
      BY <3>2, <1>2, <1>3, <1>5 DEF IInv, TypeOK, Statement
    <3> QED
      BY <3>1, <3>2
  <2> QED
    BY <1>2, <1>3, <2>1, <2>2 DEF IInv, TypeOK
<1>7. LocksKept'
  BY <1>2, <1>3, <1>5, NextKeepsLocks
<1> QED
  BY <1>3, <1>4, <1>6, <1>7 DEF IInv

(* An upsert keeps the invariant: it locks its row. *)
LEMMA UpsertStep ==
  ASSUME IInv, NEW w \in Workers, Upsert(w)
  PROVE  IInv'
BY WriteStatement DEF Upsert, Writes

(* An ensured row is locked as an upserted one is. *)
LEMMA EnsureStep ==
  ASSUME IInv, NEW w \in Workers, Ensure(w)
  PROVE  IInv'
BY WriteStatement DEF Ensure, Writes

(* A review is locked as an upserted row is. *)
LEMMA InsertReviewStep ==
  ASSUME IInv, NEW w \in Workers, InsertReview(w)
  PROVE  IInv'
BY WriteStatement DEF InsertReview, Writes

(* A statement that writes no row, or a row that is not the statement's.  *)
LEMMA OtherStatement ==
  ASSUME IInv, NEW w \in Workers, NEW stage \in {"run", "link"},
         pc[w] \in {"run", "link"}, Statement(w).op \notin Writes,
         pc' = [pc EXCEPT ![w] = stage],
         ip' = IF stage = "run" THEN [ip EXCEPT ![w] = @ + 1] ELSE ip,
         stage = "link" => Statement(w).op = "resolve",
         UNCHANGED <<store, outbox, nextId, cur, staged>>, tries' = tries, arrived' = arrived,
         mine' = mine \/ \E k, row : Claimable(w, k) /\ Write(w, k, row)
  PROVE  IInv'
<1>1. /\ OneWriter' /\ DOMAIN mine' = Workers
      /\ \A v \in Workers : v # w => mine'[v] = mine[v]
      /\ \A v \in Workers : DOMAIN mine[v] \subseteq DOMAIN mine'[v]
  <2>1. CASE mine' = mine
    BY <2>1 DEF IInv, TypeOK, OneWriter
  <2>2. CASE \E k, row : Claimable(w, k) /\ Write(w, k, row)
    BY <2>2, WriteKeeps
  <2> QED
    BY <2>1, <2>2
<1>2. IdsDrawn' /\ StagedAfterCommitted'
  BY DEF IInv, IdsDrawn, StagedAfterCommitted
<1>3. StagedLocked'
  BY <1>1 DEF IInv, StagedLocked
<1>4. /\ pc' \in [Workers -> {"idle", "mark", "run", "link"}]
      /\ ip' \in [Workers -> Nat \ {0}]
      /\ pc'[w] = stage /\ ip'[w] = IF stage = "run" THEN ip[w] + 1 ELSE ip[w]
      /\ \A v \in Workers \ {w} : pc'[v] = pc[v] /\ ip'[v] = ip[v]
  BY DEF IInv, TypeOK
<1>5. TypeOK'
  <2>1. ASSUME NEW v \in Workers
        PROVE  /\ Open(v)' => cur'[v] \in Deliveries
               /\ ~Open(v)' => cur'[v] = None /\ mine'[v] = <<>> /\ staged'[v] = {}
               /\ pc'[v] \in {"idle", "mark"} => ip'[v] = 1
               /\ pc'[v] = "link" => Statement(v)'.op = "resolve"
    <3>1. CASE v = w
      BY <3>1, <1>4 DEF IInv, TypeOK, Statement
    <3>2. CASE v # w
      BY <3>2, <1>1, <1>4 DEF IInv, TypeOK, Statement
    <3> QED
      BY <3>1, <3>2
  <2> QED
    BY <1>1, <1>4, <2>1 DEF IInv, TypeOK
<1>6. LocksKept'
  BY <1>1, <1>4, NextKeepsLocks
<1> QED
  BY <1>1, <1>2, <1>3, <1>5, <1>6 DEF IInv

(* Looking up a link keeps the invariant: it locks at most a new contributor. *)
LEMMA SelectLinkStep ==
  ASSUME IInv, NEW w \in Workers, SelectLink(w)
  PROVE  IInv'
<1> DEFINE k == Statement(w).key
           new == <<"contributor", cur[w], k>>
<1>1. pc[w] = "run" /\ Statement(w).op = "resolve" /\ "resolve" \notin Writes
  BY DEF SelectLink, At, Writes
<1>2. CASE NextStatement(w) /\ UNCHANGED <<pc, mine>>
  <2>1. pc' = [pc EXCEPT ![w] = "run"]
    BY <1>1, <1>2 DEF IInv, TypeOK
  <2>2. ip' = [ip EXCEPT ![w] = @ + 1] /\ UNCHANGED <<arrived, tries, store, outbox, cur>>
    BY <1>2 DEF NextStatement
  <2>3. UNCHANGED <<nextId, staged>>
    BY DEF SelectLink
  <2> QED
    BY <1>1, <1>2, <2>1, <2>2, <2>3, OtherStatement
<1>3. CASE /\ Write(w, new, [uuid |-> new]) /\ Goto(w, "link")
           /\ UNCHANGED <<arrived, tries, store, outbox, cur, ip>>
  <2>1. Claimable(w, new)
    BY DEF Claimable
  <2>2. pc' = [pc EXCEPT ![w] = "link"]
    BY <1>3 DEF Goto
  <2>3. UNCHANGED <<nextId, staged>>
    BY DEF SelectLink
  <2> QED
    BY <1>1, <1>3, <2>1, <2>2, <2>3, OtherStatement
<1> QED
  BY <1>2, <1>3 DEF SelectLink

(* Inserting a link, or losing the race for it, keeps the invariant. *)
LEMMA InsertLinkStep ==
  ASSUME IInv, NEW w \in Workers, InsertLink(w)
  PROVE  IInv'
<1> DEFINE k == Statement(w).key
<1>1. pc[w] = "link" /\ Statement(w).op = "resolve" /\ "resolve" \notin Writes
  BY DEF InsertLink, IInv, TypeOK, Writes
<1>2. k \in Wanted(w)
  BY <1>1 DEF Wanted, At
<1>3. Claimable(w, k)
  BY <1>2, FreeClaims DEF InsertLink
<1>4. mine' = mine \/ \E row : Write(w, k, row)
  BY DEF InsertLink
<1>5. /\ pc' = [pc EXCEPT ![w] = "run"] /\ ip' = [ip EXCEPT ![w] = @ + 1]
      /\ UNCHANGED <<arrived, tries, store, outbox, cur, nextId, staged>>
  BY DEF InsertLink, Goto, NextStatement
<1> QED
  BY <1>1, <1>3, <1>4, <1>5, OtherStatement

(* A staged event follows its write, so its row is locked and its id is the latest. *)
LEMMA EnqueueOutboxStep ==
  ASSUME IInv, NEW w \in Workers, EnqueueOutbox(w)
  PROVE  IInv'
<1> DEFINE new == [id |-> nextId, delivery |-> cur[w], event |-> Statement(w)]
<1>1. /\ pc[w] = "run" /\ ip[w] <= Len(Program[cur[w]]) /\ Statement(w).op = "emit"
      /\ nextId' = nextId + 1 /\ staged' = [staged EXCEPT ![w] = @ \union {new}]
      /\ ip' = [ip EXCEPT ![w] = @ + 1]
      /\ UNCHANGED <<arrived, tries, store, outbox, cur, pc, mine>>
  BY DEF EnqueueOutbox, At, NextStatement
<1>2. /\ cur[w] \in Deliveries /\ ip[w] \in Nat \ {0} /\ nextId \in Nat \ {0}
      /\ DOMAIN staged = Workers
  BY <1>1 DEF IInv, TypeOK
<1>3. /\ DOMAIN staged' = Workers /\ staged'[w] = staged[w] \union {new}
      /\ \A v \in Workers \ {w} : staged'[v] = staged[v] /\ ip'[v] = ip[v]
      /\ ip' \in [Workers -> Nat \ {0}] /\ ip'[w] = ip[w] + 1
  BY <1>1, <1>2 DEF IInv, TypeOK
<1>4. TypeOK'
  <2>1. ASSUME NEW v \in Workers
        PROVE  /\ Open(v)' => cur'[v] \in Deliveries
               /\ ~Open(v)' => cur'[v] = None /\ mine'[v] = <<>> /\ staged'[v] = {}
               /\ pc'[v] \in {"idle", "mark"} => ip'[v] = 1
               /\ pc'[v] = "link" => Statement(v)'.op = "resolve"
    <3>1. CASE v = w
      BY <3>1, <1>1, <1>2
    <3>2. CASE v # w
      BY <3>2, <1>1, <1>3 DEF IInv, TypeOK, Statement
    <3> QED
      BY <3>1, <3>2
  <2>2. nextId' \in Nat \ {0}
    BY <1>1, <1>2
  <2> QED
    BY <1>1, <1>3, <2>1, <2>2 DEF IInv, TypeOK
<1>5. new.id = nextId /\ new.event = Statement(w)
  OBVIOUS
<1>6. IdsDrawn'
  <2>1. 1 .. nextId - 1 \subseteq 1 .. nextId' - 1 /\ nextId \in 1 .. nextId' - 1
    BY <1>1, <1>2
  <2> QED
    BY <1>1, <1>3, <1>5, <2>1 DEF IInv, IdsDrawn
<1>7. HasRow(Statement(w).key) => Statement(w).key \in DOMAIN mine[w]
  <2> SUFFICES ASSUME HasRow(Statement(w).key)
               PROVE  Statement(w).key \in DOMAIN mine[w]
    OBVIOUS
  <2>1. ip[w] \in 1 .. Len(Program[cur[w]])
    BY <1>1, <1>2, WriteModelAssumption
  <2>2. ip[w] > 1 /\ SaysTheSame(Program[cur[w]][ip[w] - 1], Statement(w))
    BY <1>1, <1>2, <2>1, WriteModelAssumption DEF TellsItsWrites, Statement
  <2>3. ip[w] - 1 \in 1 .. Len(Program[cur[w]]) /\ ip[w] - 1 < ip[w]
    BY <1>2, <2>1, <2>2, WriteModelAssumption
  <2>4. Program[cur[w]][ip[w] - 1].op \in Writes
        /\ Program[cur[w]][ip[w] - 1].key = Statement(w).key
    BY <2>2 DEF SaysTheSame, Tells, Writes
  <2> QED
    BY <1>1, <2>3, <2>4 DEF IInv, LocksKept
<1>8. StagedLocked'
  BY <1>1, <1>3, <1>5, <1>7 DEF IInv, StagedLocked
<1>9. StagedAfterCommitted'
  <2>1. \A f \in outbox : f.id < nextId
    BY <1>2 DEF IInv, IdsDrawn
  <2> QED
    BY <1>1, <1>3, <1>5, <2>1 DEF IInv, StagedAfterCommitted
<1>10. OneWriter'
  BY <1>1 DEF IInv, OneWriter
<1>11. LocksKept'
  BY <1>1, <1>3, NextKeepsLocks DEF Writes
<1> QED
  BY <1>4, <1>6, <1>8, <1>9, <1>10, <1>11 DEF IInv

(* A commit keeps the invariant: no other transaction staged events of its rows. *)
LEMMA CommitTxStep ==
  ASSUME IInv, NEW w \in Workers, CommitTx(w)
  PROVE  IInv'
<1>1. EndTx(w) /\ outbox' = outbox \union staged[w] /\ nextId' = nextId
  BY DEF CommitTx, EndTx
<1>2. staged'[w] = {} /\ \A v \in Workers \ {w} : staged'[v] = staged[v]
  BY <1>1 DEF EndTx, IInv, TypeOK
<1>3. IdsDrawn'
  BY <1>1, <1>2 DEF IInv, IdsDrawn
<1>4. StagedAfterCommitted'
  <2> SUFFICES ASSUME NEW v \in Workers, NEW e \in staged'[v], NEW f \in outbox',
                      e.event.key = f.event.key, HasRow(e.event.key)
               PROVE  f.id < e.id
    BY DEF StagedAfterCommitted
  <2>1. v # w /\ e \in staged[v]
    BY <1>2
  <2>2. CASE f \in outbox
    BY <2>1, <2>2 DEF IInv, StagedAfterCommitted
  <2>3. CASE f \in staged[w]
    <3>1. e.event.key \in DOMAIN mine[v] \intersect DOMAIN mine[w]
      BY <2>1, <2>3 DEF IInv, StagedLocked
    <3> QED
      BY <2>1, <3>1 DEF IInv, OneWriter, HasRow
  <2> QED
    BY <1>1, <2>2, <2>3
<1> QED
  BY <1>1, <1>3, <1>4, EndKeeps DEF IInv

(* A roll back keeps the invariant: it only lets go. *)
LEMMA RollBackStep ==
  ASSUME IInv, NEW w \in Workers, RollBack(w)
  PROVE  IInv'
<1>1. EndTx(w) /\ UNCHANGED <<outbox, nextId>>
  BY DEF RollBack, EndTx
<1>2. \A v \in Workers : staged'[v] \subseteq staged[v]
  BY <1>1 DEF EndTx, IInv, TypeOK
<1>3. IdsDrawn' /\ StagedAfterCommitted'
  BY <1>1, <1>2 DEF IInv, IdsDrawn, StagedAfterCommitted
<1> QED
  BY <1>1, <1>3, EndKeeps DEF IInv

(* A stuttering step keeps the invariant. *)
LEMMA StutterStep ==
  ASSUME IInv, UNCHANGED vars
  PROVE  IInv'
BY DEF IInv, TypeOK, IdsDrawn, OneWriter, LocksKept, StagedLocked, StagedAfterCommitted,
       Statement, vars, dbVars, txVars

--------------------------------------------------------------------------------
(* The theorems. *)

(* Every step keeps the inductive invariant. *)
LEMMA NextKeepsIInv == IInv /\ [Next]_vars => IInv'
<1> SUFFICES ASSUME IInv, [Next]_vars PROVE IInv'
  OBVIOUS
<1>1. ASSUME NEW w \in Workers, NEW d \in Deliveries, Begin(w, d) PROVE IInv'
  BY <1>1, BeginStep
<1>2. ASSUME NEW w \in Workers, Step(w) PROVE IInv'
  BY <1>2, MarkDeliveryStep, UpsertStep, EnsureStep, SelectLinkStep, InsertLinkStep,
     InsertReviewStep, EnqueueOutboxStep, CommitTxStep DEF Step
<1>3. ASSUME NEW w \in Workers, RollBack(w) PROVE IInv'
  BY <1>3, RollBackStep
<1>4. CASE UNCHANGED vars
  BY <1>4, StutterStep
<1> QED
  BY <1>1, <1>2, <1>3, <1>4 DEF Next

(* Locks are exclusive and kept to the end of the transaction, and every     *)
(* staged event is younger than the committed ones of its entity.            *)
THEOREM InvariantHolds == Spec => []IInv
<1>1. Init => IInv
  BY InitIInv
<1>2. IInv /\ [Next]_vars => IInv'
  BY NextKeepsIInv
<1> QED
  BY <1>1, <1>2, PTL DEF Spec

(* An idle worker has no transaction open. *)
THEOREM TypeCorrect == Spec => []TypeOK
<1>1. IInv => TypeOK
  BY DEF IInv
<1> QED
  BY <1>1, InvariantHolds, PTL

(* Whatever deliveries write and however many workers there are, the events  *)
(* of one row become visible to the relay in the order of their ids.         *)
THEOREM EventsVisibleInIdOrder == Spec => VisibleInIdOrder
<1> DEFINE InOrder ==
      \A e \in outbox' \ outbox, f \in outbox :
        e.event.key = f.event.key /\ HasRow(e.event.key) => f.id < e.id
<1>1. IInv /\ [Next]_vars => InOrder
  <2> SUFFICES ASSUME IInv, [Next]_vars, NEW e \in outbox' \ outbox, NEW f \in outbox,
                      e.event.key = f.event.key, HasRow(e.event.key)
               PROVE  f.id < e.id
    OBVIOUS
  <2>1. PICK w \in Workers : CommitTx(w)
    BY DEF Next, Step, vars, dbVars, Begin, MarkDelivery, Upsert, Ensure, SelectLink, InsertLink,
           InsertReview, EnqueueOutbox, RollBack, NextStatement
  <2>2. e \in staged[w]
    BY <2>1 DEF CommitTx
  <2> QED
    BY <2>2 DEF IInv, StagedAfterCommitted
<1>2. IInv /\ [Next]_vars => [InOrder]_vars
  BY <1>1
<1> QED
  BY <1>2, InvariantHolds, PTL DEF Spec, VisibleInIdOrder

--------------------------------------------------------------------------------
(* LastEventIsRow needs to know what open transactions hold: the row of the  *)
(* event to be staged next, and of every other row they wrote, either what   *)
(* their last event of it says, or what is committed (ensureWorkItem).       *)

Untold(w, k) == At(w, "emit") /\ Statement(w).key = k
Latest(e, events) == \A f \in events : f.event.key = e.event.key => f.id <= e.id

RowOfNext(w) ==
  LET st == Statement(w) IN
  At(w, "emit") /\ HasRow(st.key) => st.key \in DOMAIN mine[w] /\ mine[w][st.key].data = st.data

ToldOrKept(w, k) ==
  /\ \A e \in staged[w] :
       e.event.key = k /\ Latest(e, staged[w]) => mine[w][k].data = e.event.data
  /\ (\A e \in staged[w] : e.event.key # k) /\ k \in DOMAIN store =>
       mine[w][k].data = store[k].data

WorkerAgrees(w) ==
  /\ \A k \in DOMAIN mine[w] : HasRow(k) => "data" \in DOMAIN mine[w][k]
  /\ RowOfNext(w)
  /\ pc[w] = "link" => ~HasRow(Statement(w).key)
  /\ \A k \in DOMAIN mine[w] : HasRow(k) /\ ~Untold(w, k) => ToldOrKept(w, k)

RowsHaveData == \A k \in DOMAIN store : HasRow(k) => "data" \in DOMAIN store[k]

AgreeInv == RowsHaveData /\ LastEventIsRow /\ \A w \in Workers : WorkerAgrees(w)

(* A worker agrees with itself after a step that leaves it and the rows it wrote alone. *)
LEMMA OthersAgree ==
  ASSUME NEW v, WorkerAgrees(v),
         pc'[v] = pc[v], cur'[v] = cur[v], ip'[v] = ip[v], mine'[v] = mine[v],
         staged'[v] = staged[v],
         \A k \in DOMAIN mine[v] : HasRow(k) =>
           (k \in DOMAIN store' <=> k \in DOMAIN store)
             /\ (k \in DOMAIN store => store'[k] = store[k])
  PROVE  WorkerAgrees(v)'
<1>1. Statement(v)' = Statement(v) /\ (At(v, "emit")' <=> At(v, "emit"))
  BY DEF Statement, At
<1>2. RowOfNext(v)'
  BY <1>1 DEF WorkerAgrees, RowOfNext
<1>3. ASSUME NEW k \in DOMAIN mine'[v], HasRow(k), ~Untold(v, k)'
      PROVE  ToldOrKept(v, k)'
  <2>1. ToldOrKept(v, k)
    BY <1>1, <1>3 DEF WorkerAgrees, Untold
  <2> QED
    BY <1>3, <2>1 DEF ToldOrKept, Latest
<1> QED
  BY <1>1, <1>2, <1>3 DEF WorkerAgrees

(* A worker that has written nothing yet. *)
LEMMA FreshAgrees ==
  ASSUME NEW v, mine'[v] = <<>>, pc'[v] \in {"idle", "mark"}
  PROVE  WorkerAgrees(v)'
<1>1. DOMAIN mine'[v] = {}
  OBVIOUS
<1>2. RowOfNext(v)'
  BY DEF RowOfNext, At
<1> QED
  BY <1>1, <1>2 DEF WorkerAgrees

(* The tables stay, and with them what is committed agrees. *)
LEMMA StoreAgrees ==
  ASSUME AgreeInv, UNCHANGED <<store, outbox>>
  PROVE  RowsHaveData' /\ LastEventIsRow'
BY DEF AgreeInv, RowsHaveData, LastEventIsRow

(* What a write does to the rows of its transaction, and of the others. *)
LEMMA WrittenRow ==
  ASSUME IInv, NEW w \in Workers, NEW k, NEW row, Write(w, k, row)
  PROVE  /\ DOMAIN mine'[w] = DOMAIN mine[w] \union {k}
         /\ mine'[w][k] = row
         /\ \A x \in DOMAIN mine[w] : x # k => mine'[w][x] = mine[w][x]
         /\ \A v \in Workers : v # w => mine'[v] = mine[v]
<1>1. mine'[w] = Put(mine[w], k, row) /\ \A v \in Workers : v # w => mine'[v] = mine[v]
  BY DEF IInv, TypeOK, Write
<1> QED
  BY <1>1 DEF Put

(* Of the statement w moves on to: its event is that of the write before. *)
LEMMA NextTells ==
  ASSUME IInv, NEW w \in Workers, pc[w] \in {"run", "link"}, cur' = cur,
         ip'[w] = ip[w] + 1
  PROVE  /\ At(w, "emit")' /\ HasRow(Statement(w)'.key) => SaysTheSame(Statement(w), Statement(w)')
         /\ pc'[w] = "run" /\ ip[w] <= Len(Program[cur[w]]) /\ Statement(w).op \in Tells =>
              At(w, "emit")' /\ SaysTheSame(Statement(w), Statement(w)')
<1>1. cur[w] \in Deliveries /\ ip[w] \in Nat \ {0} /\ Len(Program[cur[w]]) \in Nat
  BY WriteModelAssumption DEF IInv, TypeOK
<1>2. /\ Statement(w) = Program[cur[w]][ip[w]]
      /\ Statement(w)' = Program[cur[w]][ip[w] + 1]
  BY DEF Statement
<1>3. TellsItsWrites(Program[cur[w]])
  BY <1>1, WriteModelAssumption
<1>4. ASSUME At(w, "emit")', HasRow(Statement(w)'.key)
      PROVE  SaysTheSame(Statement(w), Statement(w)')
  <2>1. ip[w] + 1 \in 1 .. Len(Program[cur[w]]) /\ Statement(w)'.op = "emit"
    BY <1>1, <1>4 DEF At
  <2>2. SaysTheSame(Program[cur[w]][(ip[w] + 1) - 1], Program[cur[w]][ip[w] + 1])
    BY <1>2, <1>3, <1>4, <2>1 DEF TellsItsWrites
  <2>3. (ip[w] + 1) - 1 = ip[w]
    BY <1>1
  <2> QED
    BY <1>2, <2>2, <2>3
<1>5. ASSUME pc'[w] = "run", ip[w] <= Len(Program[cur[w]]), Statement(w).op \in Tells
      PROVE  At(w, "emit")' /\ SaysTheSame(Statement(w), Statement(w)')
  <2>1. ip[w] \in 1 .. Len(Program[cur[w]])
    BY <1>1, <1>5
  <2>2. ip[w] < Len(Program[cur[w]])
        /\ SaysTheSame(Program[cur[w]][ip[w]], Program[cur[w]][ip[w] + 1])
    BY <1>2, <1>3, <1>5, <2>1 DEF TellsItsWrites
  <2>3. ip'[w] <= Len(Program[cur'[w]])
    BY <1>1, <2>2
  <2>4. Statement(w)'.op = "emit"
    BY <1>2, <2>2 DEF SaysTheSame
  <2> QED
    BY <1>2, <1>5, <2>2, <2>3, <2>4 DEF At
<1> QED
  BY <1>4, <1>5

(* upsertWorkItem, upsertCheckRun and insertReview: the event comes next. *)
LEMMA TellsStatement ==
  ASSUME IInv, AgreeInv, NEW w \in Workers, NEW op \in Tells, NEW row, At(w, op),
         "data" \in DOMAIN row, row.data = Statement(w).data,
         Write(w, Statement(w).key, row), NextStatement(w), UNCHANGED <<pc, staged>>
  PROVE  AgreeInv'
<1> DEFINE k == Statement(w).key
<1>1. /\ UNCHANGED <<store, outbox, cur, pc, staged>> /\ ip'[w] = ip[w] + 1
      /\ \A v \in Workers \ {w} : ip'[v] = ip[v]
  BY DEF NextStatement, IInv, TypeOK
<1>2. /\ DOMAIN mine'[w] = DOMAIN mine[w] \union {k} /\ mine'[w][k] = row
      /\ \A x \in DOMAIN mine[w] : x # k => mine'[w][x] = mine[w][x]
      /\ \A v \in Workers : v # w => mine'[v] = mine[v]
  BY WrittenRow
<1>3. pc'[w] = "run" /\ ip[w] <= Len(Program[cur[w]]) /\ Statement(w).op \in Tells
  BY <1>1 DEF At
<1>4. At(w, "emit")' /\ SaysTheSame(Statement(w), Statement(w)')
  BY <1>1, <1>3, NextTells
<1>5. RowOfNext(w)'
  BY <1>2, <1>4 DEF RowOfNext, SaysTheSame
<1>6. ASSUME NEW x \in DOMAIN mine'[w], HasRow(x), ~Untold(w, x)'
      PROVE  ToldOrKept(w, x)'
  <2>1. x # k
    BY <1>4, <1>6 DEF Untold, SaysTheSame
  <2>2. ~Untold(w, x)
    BY DEF Untold, At, Tells
  <2>3. ToldOrKept(w, x) /\ mine'[w][x] = mine[w][x]
    BY <1>2, <1>6, <2>1, <2>2 DEF AgreeInv, WorkerAgrees
  <2> QED
    BY <1>1, <2>3 DEF ToldOrKept, Latest
<1>7. WorkerAgrees(w)'
  BY <1>2, <1>3, <1>5, <1>6 DEF AgreeInv, WorkerAgrees
<1>8. ASSUME NEW v \in Workers, v # w PROVE WorkerAgrees(v)'
  BY <1>1, <1>2, <1>8, OthersAgree DEF AgreeInv
<1> QED
  BY <1>1, <1>7, <1>8, StoreAgrees DEF AgreeInv

(* A transaction sees its own rows, and the committed ones it did not write. *)
LEMMA ViewOf ==
  ASSUME NEW w, NEW k
  PROVE  /\ DOMAIN View(w) = DOMAIN mine[w] \union DOMAIN store
         /\ k \in DOMAIN mine[w] => View(w)[k] = mine[w][k]
         /\ k \in DOMAIN store /\ k \notin DOMAIN mine[w] => View(w)[k] = store[k]
BY DEF View, Over

(* A refreshed row has the data it was refreshed with. *)
LEMMA RefreshedHasData ==
  ASSUME AgreeInv, NEW w \in Workers, NEW k \in DOMAIN View(w), HasRow(k), NEW d
  PROVE  /\ "data" \in DOMAIN [View(w)[k] EXCEPT !.data = d]
         /\ [View(w)[k] EXCEPT !.data = d].data = d
<1>1. "data" \in DOMAIN View(w)[k]
  <2>1. CASE k \in DOMAIN mine[w]
    BY <2>1, ViewOf DEF AgreeInv, WorkerAgrees
  <2>2. CASE k \notin DOMAIN mine[w]
    BY <2>2, ViewOf DEF AgreeInv, RowsHaveData
  <2> QED
    BY <2>1, <2>2
<1> QED
  BY <1>1

(* Statements that are told of are about an entity with a row. *)
LEMMA ToldHasRow ==
  ASSUME IInv, NEW w \in Workers, NEW op \in Tells, At(w, op)
  PROVE  HasRow(Statement(w).key)
<1>1. cur[w] \in Deliveries /\ ip[w] \in Nat \ {0} /\ Len(Program[cur[w]]) \in Nat
  BY WriteModelAssumption DEF IInv, TypeOK, At
<1>2. ip[w] \in 1 .. Len(Program[cur[w]])
  BY <1>1 DEF At
<1> QED
  BY <1>1, <1>2, WriteModelAssumption DEF KeyFits, HasRow, Tells, Statement, At

(* An upsert keeps the agreement: its event is the next statement. *)
LEMMA UpsertAgrees ==
  ASSUME IInv, AgreeInv, NEW w \in Workers, Upsert(w)
  PROVE  AgreeInv'
<1> DEFINE st == Statement(w)
           row == IF st.key \in DOMAIN View(w) THEN [View(w)[st.key] EXCEPT !.data = st.data]
                  ELSE [uuid |-> cur[w], data |-> st.data]
<1>1. At(w, "upsert") /\ "upsert" \in Tells
  BY DEF Upsert, Tells
<1>2. "data" \in DOMAIN row /\ row.data = st.data
  <2>1. HasRow(st.key)
    BY <1>1, ToldHasRow
  <2>2. CASE st.key \in DOMAIN View(w)
    BY <2>1, <2>2, RefreshedHasData
  <2>3. CASE st.key \notin DOMAIN View(w)
    BY <2>3
  <2> QED
    BY <2>2, <2>3
<1> QED
  BY <1>1, <1>2, TellsStatement DEF Upsert

(* A review keeps the agreement as an upsert does. *)
LEMMA InsertReviewAgrees ==
  ASSUME IInv, AgreeInv, NEW w \in Workers, InsertReview(w)
  PROVE  AgreeInv'
<1> DEFINE st == Statement(w)
           row == IF st.key \in DOMAIN View(w) THEN [View(w)[st.key] EXCEPT !.data = st.data]
                  ELSE [ uuid |-> cur[w], data |-> st.data,
                         item |-> View(w)[st.item].uuid, reviewer |-> reviewer[w] ]
<1>1. At(w, "review") /\ "review" \in Tells
  BY DEF InsertReview, Tells
<1>2. "data" \in DOMAIN row /\ row.data = st.data
  <2>1. HasRow(st.key)
    BY <1>1, ToldHasRow
  <2>2. CASE st.key \in DOMAIN View(w)
    BY <2>1, <2>2, RefreshedHasData
  <2>3. CASE st.key \notin DOMAIN View(w)
    BY <2>3
  <2> QED
    BY <2>2, <2>3
<1> QED
  BY <1>1, <1>2, TellsStatement DEF InsertReview

(* ensureWorkItem: a row as it is committed, or as w wrote it before. *)
LEMMA EnsureStatement ==
  ASSUME IInv, AgreeInv, NEW w \in Workers, NEW k, NEW row, NEW fresh,
         At(w, "ensure"), k = Statement(w).key, Write(w, k, row), NextStatement(w),
         UNCHANGED <<pc, staged>>, "data" \in DOMAIN fresh,
         k \in DOMAIN mine[w] => row = mine[w][k],
         k \in DOMAIN store /\ k \notin DOMAIN mine[w] => row = store[k],
         k \notin DOMAIN store /\ k \notin DOMAIN mine[w] => row = fresh
  PROVE  AgreeInv'
<1>1. Statement(w).op \notin Tells /\ pc[w] = "run" /\ ip[w] <= Len(Program[cur[w]])
  BY DEF Tells, At
<1>2. /\ UNCHANGED <<store, outbox, cur, pc, staged>> /\ ip'[w] = ip[w] + 1
      /\ \A v \in Workers \ {w} : ip'[v] = ip[v]
  BY DEF NextStatement, IInv, TypeOK
<1>3. /\ DOMAIN mine'[w] = DOMAIN mine[w] \union {k} /\ mine'[w][k] = row
      /\ \A x \in DOMAIN mine[w] : x # k => mine'[w][x] = mine[w][x]
      /\ \A v \in Workers : v # w => mine'[v] = mine[v]
  BY WrittenRow
<1>4. ~(At(w, "emit")' /\ HasRow(Statement(w)'.key))
  BY <1>1, <1>2, NextTells DEF SaysTheSame
<1>5. ASSUME NEW x \in DOMAIN mine[w], HasRow(x)
      PROVE  "data" \in DOMAIN mine[w][x] /\ ToldOrKept(w, x)
  BY <1>5 DEF AgreeInv, WorkerAgrees, Untold, At
<1>6. ASSUME NEW x \in DOMAIN mine'[w], HasRow(x)
      PROVE  "data" \in DOMAIN mine'[w][x] /\ ToldOrKept(w, x)'
  <2>1. CASE x \in DOMAIN mine[w]
    <3>1. mine'[w][x] = mine[w][x]
      <4>1. CASE x = k
        BY <1>3, <2>1, <4>1
      <4>2. CASE x # k
        BY <1>3, <2>1, <4>2
      <4> QED
        BY <4>1, <4>2
    <3> QED
      BY <1>2, <1>5, <1>6, <2>1, <3>1 DEF ToldOrKept, Latest
  <2>2. CASE x \notin DOMAIN mine[w]
    <3>1. x = k /\ mine'[w][k] = row
      BY <1>3, <2>2
    <3>2. \A e \in staged[w] : e.event.key # k
      BY <1>6, <2>2, <3>1 DEF IInv, StagedLocked
    <3>3. CASE k \in DOMAIN store
      <4>1. row = store[k]
        BY <2>2, <3>1, <3>3
      <4> QED
        BY <1>2, <1>6, <3>1, <3>2, <3>3, <4>1 DEF ToldOrKept, AgreeInv, RowsHaveData
    <3>4. CASE k \notin DOMAIN store
      <4>1. row = fresh
        BY <2>2, <3>1, <3>4
      <4> QED
        BY <1>2, <3>1, <3>2, <3>4, <4>1 DEF ToldOrKept
    <3> QED
      BY <3>3, <3>4
  <2> QED
    BY <2>1, <2>2
<1>7. WorkerAgrees(w)'
  BY <1>1, <1>2, <1>4, <1>6 DEF WorkerAgrees, RowOfNext
<1>8. ASSUME NEW v \in Workers, v # w PROVE WorkerAgrees(v)'
  BY <1>2, <1>3, <1>8, OthersAgree DEF AgreeInv
<1> QED
  BY <1>2, <1>7, <1>8, StoreAgrees DEF AgreeInv

(* An ensured row keeps the agreement: it has the data it had, or no event yet. *)
LEMMA EnsureAgrees ==
  ASSUME IInv, AgreeInv, NEW w \in Workers, Ensure(w)
  PROVE  AgreeInv'
<1> DEFINE k == Statement(w).key
           fresh == [uuid |-> cur[w], data |-> Statement(w).data]
           row == IF k \in DOMAIN View(w) THEN View(w)[k] ELSE fresh
<1>1. /\ At(w, "ensure") /\ Write(w, k, row) /\ NextStatement(w) /\ UNCHANGED <<pc, staged>>
  BY DEF Ensure
<1>2. "data" \in DOMAIN fresh
  OBVIOUS
<1>3. /\ DOMAIN View(w) = DOMAIN mine[w] \union DOMAIN store
      /\ k \in DOMAIN mine[w] => View(w)[k] = mine[w][k]
      /\ k \in DOMAIN store /\ k \notin DOMAIN mine[w] => View(w)[k] = store[k]
  BY ViewOf
<1> HIDE DEF k, fresh
<1>4. /\ k \in DOMAIN mine[w] => row = mine[w][k]
      /\ k \in DOMAIN store /\ k \notin DOMAIN mine[w] => row = store[k]
      /\ k \notin DOMAIN store /\ k \notin DOMAIN mine[w] => row = fresh
  BY <1>3
<1>5. k = Statement(w).key
  BY DEF k
<1> HIDE DEF row
<1> QED
  BY <1>1, <1>2, <1>4, <1>5, EnsureStatement

(* A step that writes no row of an entity and is not about an event. *)
LEMMA OtherAgrees ==
  ASSUME IInv, AgreeInv, NEW w \in Workers,
         UNCHANGED <<store, outbox, cur, staged>>,
         \A v \in Workers : v # w => pc'[v] = pc[v] /\ ip'[v] = ip[v],
         ~At(w, "emit"), ~(At(w, "emit")' /\ HasRow(Statement(w)'.key)),
         pc'[w] = "link" => ~HasRow(Statement(w)'.key),
         mine' = mine \/ \E k, row : ~HasRow(k) /\ Write(w, k, row)
  PROVE  AgreeInv'
<1>1. /\ \A x \in DOMAIN mine'[w] : HasRow(x) => x \in DOMAIN mine[w] /\ mine'[w][x] = mine[w][x]
      /\ \A v \in Workers : v # w => mine'[v] = mine[v]
  <2>1. CASE mine' = mine
    BY <2>1
  <2>2. CASE \E k, row : ~HasRow(k) /\ Write(w, k, row)
    <3>1. PICK k, row : ~HasRow(k) /\ Write(w, k, row)
      BY <2>2
    <3> QED
      BY <3>1, WrittenRow
  <2> QED
    BY <2>1, <2>2
<1>2. ASSUME NEW x \in DOMAIN mine'[w], HasRow(x)
      PROVE  "data" \in DOMAIN mine'[w][x] /\ ToldOrKept(w, x)'
  <2>1. x \in DOMAIN mine[w] /\ mine'[w][x] = mine[w][x]
    BY <1>1, <1>2
  <2>2. "data" \in DOMAIN mine[w][x] /\ ToldOrKept(w, x)
    BY <1>2, <2>1 DEF AgreeInv, WorkerAgrees, Untold
  <2> QED
    BY <2>1, <2>2 DEF ToldOrKept, Latest
<1>3. WorkerAgrees(w)'
  BY <1>2 DEF WorkerAgrees, RowOfNext
<1>4. ASSUME NEW v \in Workers, v # w PROVE WorkerAgrees(v)'
  BY <1>1, <1>4, OthersAgree DEF AgreeInv
<1> QED
  BY <1>3, <1>4, StoreAgrees DEF AgreeInv

(* resolveContributor: links and contributors have no events. *)
LEMMA SelectLinkAgrees ==
  ASSUME IInv, AgreeInv, NEW w \in Workers, SelectLink(w)
  PROVE  AgreeInv'
<1> DEFINE k == Statement(w).key
           new == <<"contributor", cur[w], k>>
<1>1. /\ At(w, "resolve") /\ pc[w] = "run" /\ Statement(w).op = "resolve" /\ ~At(w, "emit")
      /\ Statement(w).op \notin Tells /\ staged' = staged
  BY DEF SelectLink, At, Tells
<1>2. ~HasRow(k) /\ ~HasRow(new)
  <2>1. cur[w] \in Deliveries /\ ip[w] \in 1 .. Len(Program[cur[w]])
    BY <1>1, WriteModelAssumption DEF IInv, TypeOK, At
  <2> QED
    BY <1>1, <2>1, WriteModelAssumption DEF KeyFits, Statement, HasRow
<1>3. CASE NextStatement(w) /\ UNCHANGED <<pc, mine>>
  <2>1. /\ UNCHANGED <<store, outbox, cur>> /\ ip'[w] = ip[w] + 1
        /\ \A v \in Workers : v # w => ip'[v] = ip[v]
    BY <1>3 DEF NextStatement, IInv, TypeOK
  <2>2. ~(At(w, "emit")' /\ HasRow(Statement(w)'.key))
    BY <1>1, <2>1, NextTells DEF SaysTheSame
  <2> QED
    BY <1>1, <1>3, <2>1, <2>2, OtherAgrees
<1>4. CASE /\ Write(w, new, [uuid |-> new]) /\ Goto(w, "link")
           /\ UNCHANGED <<arrived, tries, store, outbox, cur, ip>>
  <2>1. pc'[w] = "link" /\ \A v \in Workers : v # w => pc'[v] = pc[v]
    BY <1>4 DEF Goto, IInv, TypeOK
  <2>2. Statement(w)' = Statement(w) /\ ~At(w, "emit")'
    BY <1>4, <2>1 DEF Statement, At
  <2> QED
    BY <1>1, <1>2, <1>4, <2>1, <2>2, OtherAgrees
<1> QED
  BY <1>3, <1>4 DEF SelectLink

(* Links are about no entity that events are about. *)
LEMMA InsertLinkAgrees ==
  ASSUME IInv, AgreeInv, NEW w \in Workers, InsertLink(w)
  PROVE  AgreeInv'
<1> DEFINE k == Statement(w).key
<1>1. /\ pc[w] = "link" /\ Statement(w).op \notin Tells /\ ~At(w, "emit") /\ staged' = staged
  BY DEF InsertLink, At, Tells, IInv, TypeOK
<1>2. ~HasRow(k)
  BY <1>1 DEF AgreeInv, WorkerAgrees
<1>3. /\ UNCHANGED <<store, outbox, cur>> /\ ip'[w] = ip[w] + 1 /\ pc'[w] = "run"
      /\ \A v \in Workers : v # w => pc'[v] = pc[v] /\ ip'[v] = ip[v]
  BY DEF InsertLink, Goto, NextStatement, IInv, TypeOK
<1>4. ~(At(w, "emit")' /\ HasRow(Statement(w)'.key))
  BY <1>1, <1>3, NextTells DEF SaysTheSame
<1>5. mine' = mine \/ \E row : Write(w, k, row)
  BY DEF InsertLink
<1> QED
  BY <1>1, <1>2, <1>3, <1>4, <1>5, OtherAgrees

(* Beginning a transaction keeps the agreement. *)
LEMMA BeginAgrees ==
  ASSUME IInv, AgreeInv, NEW w \in Workers, NEW d \in Deliveries, Begin(w, d)
  PROVE  AgreeInv'
<1>1. /\ pc' = [pc EXCEPT ![w] = "mark"] /\ cur' = [cur EXCEPT ![w] = d] /\ pc[w] = "idle"
      /\ UNCHANGED <<store, outbox, ip, mine, staged>>
  BY DEF Begin, Goto, dbVars
<1>2. WorkerAgrees(w)'
  BY <1>1, FreshAgrees DEF IInv, TypeOK
<1>3. ASSUME NEW v \in Workers, v # w PROVE WorkerAgrees(v)'
  <2>1. pc'[v] = pc[v] /\ cur'[v] = cur[v]
    BY <1>1, <1>3 DEF IInv, TypeOK
  <2> QED
    BY <1>1, <2>1, OthersAgree DEF AgreeInv
<1> QED
  BY <1>1, <1>2, <1>3, StoreAgrees DEF AgreeInv

(* A transaction that ends and leaves the tables as they are. *)
LEMMA EndAgrees ==
  ASSUME IInv, AgreeInv, NEW w \in Workers, EndTx(w),
         RowsHaveData', LastEventIsRow',
         \A v \in Workers : v # w => \A k \in DOMAIN mine[v] : HasRow(k) =>
           (k \in DOMAIN store' <=> k \in DOMAIN store)
             /\ (k \in DOMAIN store => store'[k] = store[k])
  PROVE  AgreeInv'
<1>1. /\ pc'[w] = "idle" /\ mine'[w] = <<>>
      /\ \A v \in Workers : v # w =>
           /\ pc'[v] = pc[v] /\ cur'[v] = cur[v] /\ ip'[v] = ip[v]
           /\ mine'[v] = mine[v] /\ staged'[v] = staged[v]
  BY DEF EndTx, Goto, IInv, TypeOK
<1>2. WorkerAgrees(w)'
  BY <1>1, FreshAgrees
<1>3. ASSUME NEW v \in Workers, v # w PROVE WorkerAgrees(v)'
  BY <1>1, <1>3, OthersAgree DEF AgreeInv
<1> QED
  BY <1>2, <1>3 DEF AgreeInv

(* A roll back keeps the agreement: it takes rows and events back together. *)
LEMMA RollBackAgrees ==
  ASSUME IInv, AgreeInv, NEW w \in Workers, RollBack(w)
  PROVE  AgreeInv'
BY EndAgrees, StoreAgrees DEF RollBack

(* Marks are about no entity that events are about. *)
LEMMA MarkDeliveryAgrees ==
  ASSUME IInv, AgreeInv, NEW w \in Workers, MarkDelivery(w)
  PROVE  AgreeInv'
<1>1. UNCHANGED <<store, outbox>> /\ pc[w] = "mark"
  BY DEF MarkDelivery
<1>2. CASE EndTx(w)
  BY <1>1, <1>2, EndAgrees, StoreAgrees
<1>3. CASE /\ Write(w, MarkKey(cur[w]), [uuid |-> cur[w]])
           /\ Goto(w, "run")
           /\ UNCHANGED <<arrived, tries, nextId, cur, ip, staged, reviewer>>
  <2>1. pc'[w] = "run" /\ \A v \in Workers : v # w => pc'[v] = pc[v]
    BY <1>3 DEF Goto, IInv, TypeOK
  <2>2. ~HasRow(MarkKey(cur[w]))
    BY DEF HasRow, MarkKey
  <2>3. ip[w] = 1 /\ cur[w] \in Deliveries
    BY <1>1 DEF IInv, TypeOK
  <2>4. ~(At(w, "emit")' /\ HasRow(Statement(w)'.key))
    <3> SUFFICES ASSUME At(w, "emit")', HasRow(Statement(w)'.key) PROVE FALSE
      OBVIOUS
    <3>1. Statement(w)' = Program[cur[w]][1] /\ 1 \in 1 .. Len(Program[cur[w]])
      BY <1>3, <2>3, WriteModelAssumption DEF At, Statement
    <3> QED
      BY <2>3, <3>1, WriteModelAssumption DEF TellsItsWrites, At
  <2>5. ~At(w, "emit")
    BY <1>1 DEF At
  <2> QED
    BY <1>1, <1>3, <2>1, <2>2, <2>4, <2>5, OtherAgrees
<1> QED
  BY <1>2, <1>3 DEF MarkDelivery

(* The new event is the last that w staged, and says what the row holds. *)
LEMMA EnqueueOutboxAgrees ==
  ASSUME IInv, AgreeInv, NEW w \in Workers, EnqueueOutbox(w)
  PROVE  AgreeInv'
<1> DEFINE st == Statement(w)
           new == [id |-> nextId, delivery |-> cur[w], event |-> st]
<1>1. /\ At(w, "emit") /\ pc[w] = "run" /\ st.op \notin Tells
      /\ UNCHANGED <<store, outbox, cur, pc, mine>> /\ ip'[w] = ip[w] + 1
      /\ \A v \in Workers : v # w => ip'[v] = ip[v] /\ staged'[v] = staged[v]
      /\ staged'[w] = staged[w] \union {new}
  BY DEF EnqueueOutbox, NextStatement, At, Tells, IInv, TypeOK
<1>2. new.id = nextId /\ new.event = st
  OBVIOUS
<1>3. \A e \in staged[w] : e.id < nextId
  BY DEF IInv, IdsDrawn, TypeOK
<1> HIDE DEF new
<1>4. ~(At(w, "emit")' /\ HasRow(Statement(w)'.key))
  BY <1>1, NextTells DEF SaysTheSame
<1>5. ASSUME NEW k \in DOMAIN mine[w], HasRow(k)
      PROVE  ToldOrKept(w, k)'
  <2>1. CASE k = st.key
    <3>1. mine[w][k].data = st.data
      BY <1>1, <1>5, <2>1 DEF AgreeInv, WorkerAgrees, RowOfNext
    <3>2. ASSUME NEW e \in staged'[w], e.event.key = k, Latest(e, staged'[w])
          PROVE  e = new
      <4>1. nextId <= e.id
        BY <1>1, <1>2, <2>1, <3>2 DEF Latest
      <4>2. \A d \in staged[w] : d.id \in Nat /\ d.id < nextId /\ nextId \in Nat
        BY DEF IInv, IdsDrawn, TypeOK
      <4> QED
        BY <1>1, <3>2, <4>1, <4>2
    <3> QED
      BY <1>1, <1>2, <2>1, <3>1, <3>2 DEF ToldOrKept, Latest
  <2>2. CASE k # st.key
    <3>1. ToldOrKept(w, k)
      BY <1>5, <2>2 DEF AgreeInv, WorkerAgrees, Untold
    <3>2. \A e \in staged'[w] : e.event.key = k => e \in staged[w]
      BY <1>1, <1>2, <2>2
    <3> QED
      BY <1>1, <3>1, <3>2 DEF ToldOrKept, Latest
  <2> QED
    BY <2>1, <2>2
<1>6. WorkerAgrees(w)'
  BY <1>1, <1>4, <1>5 DEF AgreeInv, WorkerAgrees, RowOfNext
<1>7. ASSUME NEW v \in Workers, v # w PROVE WorkerAgrees(v)'
  BY <1>1, <1>7, OthersAgree DEF AgreeInv
<1> QED
  BY <1>1, <1>6, <1>7, StoreAgrees DEF AgreeInv

(* What w holds becomes what is committed, of rows that no other holds. *)
LEMMA CommitTxAgrees ==
  ASSUME IInv, AgreeInv, NEW w \in Workers, CommitTx(w)
  PROVE  AgreeInv'
<1>1. EndTx(w) /\ store' = Over(mine[w], store) /\ outbox' = outbox \union staged[w]
  BY DEF CommitTx
<1>2. /\ DOMAIN store' = DOMAIN mine[w] \union DOMAIN store
      /\ \A k \in DOMAIN mine[w] : store'[k] = mine[w][k]
      /\ \A k \in DOMAIN store : k \notin DOMAIN mine[w] => store'[k] = store[k]
  BY <1>1 DEF Over
<1>3. \A k \in DOMAIN mine[w] : HasRow(k) => "data" \in DOMAIN mine[w][k] /\ ToldOrKept(w, k)
  <2>1. pc[w] = "run" /\ ip[w] > Len(Program[cur[w]])
    BY DEF CommitTx
  <2>2. ip[w] \in Nat /\ Len(Program[cur[w]]) \in Nat
    BY <2>1, WriteModelAssumption DEF IInv, TypeOK
  <2>3. ~At(w, "emit")
    BY <2>1, <2>2 DEF At
  <2> QED
    BY <2>3 DEF AgreeInv, WorkerAgrees, Untold
<1>4. RowsHaveData'
  BY <1>2, <1>3 DEF AgreeInv, RowsHaveData
<1>5. LastEventIsRow'
  <2> SUFFICES ASSUME NEW e \in outbox', HasRow(e.event.key),
                      \A f \in outbox' : f.event.key = e.event.key => f.id <= e.id
               PROVE  e.event.key \in DOMAIN store' /\ store'[e.event.key].data = e.event.data
    BY DEF LastEventIsRow
  <2> DEFINE k == e.event.key
  <2>1. CASE e \in staged[w]
    <3>1. k \in DOMAIN mine[w]
      BY <2>1 DEF IInv, StagedLocked
    <3>2. Latest(e, staged[w])
      BY <1>1 DEF Latest
    <3> QED
      BY <1>2, <1>3, <2>1, <3>1, <3>2 DEF ToldOrKept
  <2>2. CASE e \in outbox
    <3>1. k \in DOMAIN store /\ store[k].data = e.event.data
      BY <1>1, <2>2 DEF AgreeInv, LastEventIsRow
    <3>2. \A f \in staged[w] : f.event.key # k
      <4> SUFFICES ASSUME NEW f \in staged[w], f.event.key = k PROVE FALSE
        OBVIOUS
      <4>1. e.id < f.id /\ f.id <= e.id
        BY <1>1, <2>2 DEF IInv, StagedAfterCommitted
      <4>2. e.id \in Nat /\ f.id \in Nat
        BY <2>2 DEF IInv, IdsDrawn
      <4> QED
        BY <4>1, <4>2
    <3>3. CASE k \in DOMAIN mine[w]
      <4>1. mine[w][k].data = store[k].data
        BY <1>3, <3>1, <3>2, <3>3 DEF ToldOrKept
      <4> QED
        BY <1>2, <3>1, <3>3, <4>1
    <3>4. CASE k \notin DOMAIN mine[w]
      BY <1>2, <3>1, <3>4
    <3> QED
      BY <3>3, <3>4
  <2> QED
    BY <1>1, <2>1, <2>2
<1>6. ASSUME NEW v \in Workers, v # w, NEW k \in DOMAIN mine[v], HasRow(k)
      PROVE  (k \in DOMAIN store' <=> k \in DOMAIN store)
             /\ (k \in DOMAIN store => store'[k] = store[k])
  <2>1. k \notin DOMAIN mine[w]
    BY <1>6 DEF IInv, OneWriter, HasRow
  <2>2. CASE k \in DOMAIN store
    BY <1>2, <2>1, <2>2
  <2>3. CASE k \notin DOMAIN store
    BY <1>2, <2>1, <2>3
  <2> QED
    BY <2>2, <2>3
<1> QED
  BY <1>1, <1>4, <1>5, <1>6, EndAgrees

(* Every step keeps the agreement of rows and events. *)
LEMMA NextKeepsAgreeInv == IInv /\ AgreeInv /\ [Next]_vars => AgreeInv'
<1> SUFFICES ASSUME IInv, AgreeInv, [Next]_vars PROVE AgreeInv'
  OBVIOUS
<1>1. ASSUME NEW w \in Workers, NEW d \in Deliveries, Begin(w, d) PROVE AgreeInv'
  BY <1>1, BeginAgrees
<1>2. ASSUME NEW w \in Workers, Step(w) PROVE AgreeInv'
  BY <1>2, MarkDeliveryAgrees, UpsertAgrees, EnsureAgrees, SelectLinkAgrees, InsertLinkAgrees,
     InsertReviewAgrees, EnqueueOutboxAgrees, CommitTxAgrees DEF Step
<1>3. ASSUME NEW w \in Workers, RollBack(w) PROVE AgreeInv'
  BY <1>3, RollBackAgrees
<1>4. CASE UNCHANGED vars
  <2>1. UNCHANGED <<store, outbox, pc, cur, ip, mine, staged>>
    BY <1>4 DEF vars, dbVars, txVars
  <2> QED
    BY <2>1, StoreAgrees, OthersAgree DEF AgreeInv
<1> QED
  BY <1>1, <1>2, <1>3, <1>4 DEF Next

(* Whatever the order, the interleaving and the failures of deliveries that  *)
(* write the same rows, the last event of a row says what the row holds.     *)
THEOREM EventsEndAtRow == Spec => []LastEventIsRow
<1>1. Init => AgreeInv
  BY DEF Init, AgreeInv, RowsHaveData, LastEventIsRow, WorkerAgrees, RowOfNext, At
<1>2. IInv /\ AgreeInv /\ [Next]_vars => AgreeInv'
  BY NextKeepsAgreeInv
<1>3. AgreeInv => LastEventIsRow
  BY DEF AgreeInv
<1> QED
  BY <1>1, <1>2, <1>3, InvariantHolds, PTL DEF Spec

--------------------------------------------------------------------------------
(* ReviewersResolved needs to know what an open transaction sees: tables in  *)
(* which reviews lead to their rows, and in which what is committed is still *)
(* identified as it was.                                                     *)

Items == {"work_item", "check_run"}

WellFormed(tables) ==
  \A k \in DOMAIN tables :
    /\ k[1] \in Items => "uuid" \in DOMAIN tables[k]
    /\ k[1] = "review" => {"item", "reviewer"} \subseteq DOMAIN tables[k]

LinkedIn(st, tables) ==
  /\ {st.item, st.login} \subseteq DOMAIN tables
  /\ tables[st.key].item = tables[st.item].uuid
  /\ tables[st.key].reviewer = tables[st.login].contributor

ReviewsLinked(tables) ==
  \A d \in Deliveries : \A i \in 1 .. Len(Program[d]) :
    Program[d][i].op = "review" /\ Program[d][i].key \in DOMAIN tables =>
      LinkedIn(Program[d][i], tables)

LinksLead(tables) ==
  \A k \in DOMAIN tables : k[1] = "identity_link" => tables[k].contributor \in DOMAIN tables

GoodTables(tables) == WellFormed(tables) /\ ReviewsLinked(tables) /\ LinksLead(tables)

(* No row is lost or gets another identity. *)
Extends(tables, more) ==
  \A k \in DOMAIN tables :
    /\ k \in DOMAIN more
    /\ k[1] \in Items => more[k].uuid = tables[k].uuid
    /\ k[1] = "review" => more[k].item = tables[k].item /\ more[k].reviewer = tables[k].reviewer
    /\ k[1] = "identity_link" => more[k].contributor = tables[k].contributor

ReviewerKnown(w) ==
  /\ pc[w] = "link" => /\ reviewer[w] \in DOMAIN View(w)
                       /\ Statement(w).key \notin DOMAIN mine[w]
                       /\ Statement(w).key[1] = "identity_link"
  /\ At(w, "review") => /\ Statement(w).login \in DOMAIN View(w)
                        /\ reviewer[w] = View(w)[Statement(w).login].contributor

OwnMark(w) ==
  \A d \in Deliveries : MarkKey(d) \in DOMAIN mine[w] => d = cur[w] /\ pc[w] \in {"run", "link"}

WorkerResolves(w) ==
  GoodTables(View(w)) /\ Extends(store, View(w)) /\ ReviewerKnown(w) /\ OwnMark(w)

MarkedHasReviews ==
  \A d \in Deliveries : \A i \in 1 .. Len(Program[d]) :
    Marked(d) /\ Program[d][i].op = "review" => Program[d][i].key \in DOMAIN store

ResolveInv ==
  /\ DOMAIN reviewer = Workers
  /\ GoodTables(store)
  /\ MarkedHasReviews
  /\ \A w \in Workers : WorkerResolves(w)

(* The keys of a review, of its pull request and of its author are of three tables. *)
LEMMA ReviewKeys ==
  ASSUME NEW d \in Deliveries, NEW i \in 1 .. Len(Program[d]), Program[d][i].op = "review"
  PROVE  /\ Program[d][i].key[1] = "review"
         /\ Program[d][i].item[1] \in Items
         /\ Program[d][i].login[1] = "identity_link"
<1>1. Len(Program[d]) \in Nat /\ \A j \in 1 .. Len(Program[d]) : KeyFits(Program[d][j])
  BY WriteModelAssumption
<1>2. /\ i > 1 /\ Program[d][i - 1].op = "resolve" /\ Program[d][i - 1].key = Program[d][i].login
      /\ \E j \in 1 .. i - 1 : /\ Program[d][j].op \in {"upsert", "ensure"}
                               /\ Program[d][j].key = Program[d][i].item
  BY WriteModelAssumption DEF ResolvesReviews
<1>3. i - 1 \in 1 .. Len(Program[d]) /\ \A j \in 1 .. i - 1 : j \in 1 .. Len(Program[d])
  BY <1>1, <1>2
<1> QED
  BY <1>1, <1>2, <1>3 DEF KeyFits, Items

(* A review stays linked in tables that keep their rows. *)
LEMMA LinkedExtends ==
  ASSUME NEW tables, NEW more, Extends(tables, more),
         NEW d \in Deliveries, NEW i \in 1 .. Len(Program[d]), Program[d][i].op = "review",
         Program[d][i].key \in DOMAIN tables, LinkedIn(Program[d][i], tables)
  PROVE  LinkedIn(Program[d][i], more)
BY ReviewKeys DEF LinkedIn, Extends

(* Keeping rows is transitive. *)
LEMMA ExtendsOnward ==
  ASSUME NEW a, NEW b, NEW c, Extends(a, b), Extends(b, c)
  PROVE  Extends(a, c)
BY DEF Extends

(* Good tables stay good when a row is added or refreshed. *)
LEMMA GoodWrite ==
  ASSUME NEW tables, NEW more, NEW k, NEW row, GoodTables(tables), Extends(tables, more),
         DOMAIN more = DOMAIN tables \union {k}, more[k] = row,
         \A x \in DOMAIN tables : x # k => more[x] = tables[x],
         k[1] \in Items => "uuid" \in DOMAIN row,
         k[1] = "review" => {"item", "reviewer"} \subseteq DOMAIN row,
         k[1] = "identity_link" => row.contributor \in DOMAIN more,
         \A d \in Deliveries : \A i \in 1 .. Len(Program[d]) :
           Program[d][i].op = "review" /\ Program[d][i].key = k => LinkedIn(Program[d][i], more)
  PROVE  GoodTables(more)
<1>1. WellFormed(more)
  BY DEF GoodTables, WellFormed
<1>2. LinksLead(more)
  BY DEF GoodTables, LinksLead
<1>3. ReviewsLinked(more)
  <2> SUFFICES ASSUME NEW d \in Deliveries, NEW i \in 1 .. Len(Program[d]),
                      Program[d][i].op = "review", Program[d][i].key \in DOMAIN more
               PROVE  LinkedIn(Program[d][i], more)
    BY DEF ReviewsLinked
  <2>1. CASE Program[d][i].key \in DOMAIN tables
    BY <2>1, LinkedExtends DEF GoodTables, ReviewsLinked
  <2>2. CASE Program[d][i].key \notin DOMAIN tables
    BY <2>2
  <2> QED
    BY <2>1, <2>2
<1> QED
  BY <1>1, <1>2, <1>3 DEF GoodTables

(* Good tables are good by their rows. *)
LEMMA GoodCopy ==
  ASSUME NEW tables, NEW copy, GoodTables(tables), DOMAIN copy = DOMAIN tables,
         \A x \in DOMAIN tables : copy[x] = tables[x]
  PROVE  GoodTables(copy) /\ Extends(tables, copy) /\ Extends(copy, tables)
<1>1. Extends(tables, copy) /\ Extends(copy, tables)
  BY DEF Extends
<1>2. WellFormed(copy) /\ LinksLead(copy)
  BY DEF GoodTables, WellFormed, LinksLead
<1>3. ReviewsLinked(copy)
  BY <1>1, LinkedExtends DEF GoodTables, ReviewsLinked
<1> QED
  BY <1>1, <1>2, <1>3 DEF GoodTables

(* A worker that a step leaves alone has resolved what it had. *)
LEMMA OthersResolve ==
  ASSUME NEW v, WorkerResolves(v), store' = store, pc'[v] = pc[v], cur'[v] = cur[v],
         ip'[v] = ip[v], mine'[v] = mine[v], reviewer'[v] = reviewer[v]
  PROVE  WorkerResolves(v)'
<1>1. View(v)' = View(v) /\ Statement(v)' = Statement(v) /\ (At(v, "review")' <=> At(v, "review"))
  BY DEF View, Statement, At
<1>2. ReviewerKnown(v)'
  BY <1>1 DEF WorkerResolves, ReviewerKnown
<1>3. OwnMark(v)'
  BY DEF WorkerResolves, OwnMark
<1>4. GoodTables(View(v))' /\ Extends(store, View(v))'
  BY <1>1 DEF WorkerResolves, GoodTables, WellFormed, ReviewsLinked, LinksLead, LinkedIn, Extends
<1> QED
  BY <1>2, <1>3, <1>4 DEF WorkerResolves

(* The statement after w's is a review only if w resolved its login. *)
LEMMA NextReview ==
  ASSUME IInv, NEW w \in Workers, pc[w] \in {"run", "link"}, cur' = cur, ip'[w] = ip[w] + 1,
         At(w, "review")'
  PROVE  Statement(w).op = "resolve" /\ Statement(w).key = Statement(w)'.login
<1>1. cur[w] \in Deliveries /\ ip[w] \in Nat \ {0} /\ Len(Program[cur[w]]) \in Nat
  BY WriteModelAssumption DEF IInv, TypeOK
<1>2. /\ Statement(w) = Program[cur[w]][ip[w]]
      /\ Statement(w)' = Program[cur[w]][ip[w] + 1]
  BY DEF Statement
<1>3. ip[w] + 1 \in 1 .. Len(Program[cur[w]]) /\ Statement(w)'.op = "review"
  BY <1>1 DEF At
<1>4. ResolvesReviews(Program[cur[w]]) /\ (ip[w] + 1) - 1 = ip[w]
  BY <1>1, WriteModelAssumption
<1>5. /\ Program[cur[w]][(ip[w] + 1) - 1].op = "resolve"
      /\ Program[cur[w]][(ip[w] + 1) - 1].key = Program[cur[w]][ip[w] + 1].login
  BY <1>2, <1>3, <1>4 DEF ResolvesReviews
<1> QED
  BY <1>2, <1>4, <1>5

(* A step of w's transaction that writes a row, or none. *)
LEMMA WriteResolves ==
  ASSUME IInv, ResolveInv, NEW w \in Workers, NEW k, NEW row, Write(w, k, row),
         UNCHANGED <<store, cur>>, DOMAIN reviewer' = Workers,
         \A v \in Workers : v # w =>
           pc'[v] = pc[v] /\ ip'[v] = ip[v] /\ reviewer'[v] = reviewer[v],
         GoodTables(View(w)'), Extends(View(w), View(w)'), ReviewerKnown(w)', OwnMark(w)'
  PROVE  ResolveInv'
<1>1. \A v \in Workers : v # w => mine'[v] = mine[v]
  BY WrittenRow
<1>2. ASSUME NEW v \in Workers, v # w PROVE WorkerResolves(v)'
  BY <1>1, <1>2, OthersResolve DEF ResolveInv
<1>3. Extends(store, View(w)')
  BY ExtendsOnward DEF ResolveInv, WorkerResolves
<1>4. WorkerResolves(w)'
  BY <1>3 DEF WorkerResolves
<1>5. GoodTables(store)' /\ MarkedHasReviews'
  BY DEF ResolveInv, MarkedHasReviews, Marked
<1> QED
  BY <1>2, <1>4, <1>5 DEF ResolveInv

(* A step that only reads keeps what is resolved. *)
LEMMA ReadResolves ==
  ASSUME IInv, ResolveInv, NEW w \in Workers, UNCHANGED <<store, mine>>, DOMAIN reviewer' = Workers,
         \A v \in Workers : v # w =>
           pc'[v] = pc[v] /\ cur'[v] = cur[v] /\ ip'[v] = ip[v] /\ reviewer'[v] = reviewer[v],
         ReviewerKnown(w)', OwnMark(w)'
  PROVE  ResolveInv'
<1>1. ASSUME NEW v \in Workers, v # w PROVE WorkerResolves(v)'
  BY <1>1, OthersResolve DEF ResolveInv
<1>2. View(w)' = View(w)
  BY DEF View
<1>3. WorkerResolves(w)'
  BY <1>2 DEF ResolveInv, WorkerResolves
<1>4. GoodTables(store)' /\ MarkedHasReviews'
  BY DEF ResolveInv, MarkedHasReviews, Marked
<1> QED
  BY <1>1, <1>3, <1>4 DEF ResolveInv

(* The step of a statement that writes the row it wants and goes on. *)
LEMMA StatementResolves ==
  ASSUME IInv, ResolveInv, NEW w \in Workers, NEW op \in Writes, At(w, op),
         NEW k, NEW row, k = Statement(w).key, Write(w, k, row),
         NextStatement(w), UNCHANGED <<pc, reviewer>>,
         DOMAIN View(w)' = DOMAIN View(w) \union {k}, View(w)'[k] = row,
         \A x \in DOMAIN View(w) : x # k => View(w)'[x] = View(w)[x],
         Extends(View(w), View(w)'),
         k[1] \in Items => "uuid" \in DOMAIN row,
         k[1] = "review" => {"item", "reviewer"} \subseteq DOMAIN row,
         k[1] # "identity_link",
         k[1] # "processed_delivery",
         \A d \in Deliveries : \A i \in 1 .. Len(Program[d]) :
           Program[d][i].op = "review" /\ Program[d][i].key = k =>
             LinkedIn(Program[d][i], View(w)')
  PROVE  ResolveInv'
<1>1. /\ UNCHANGED <<store, cur, pc, reviewer>> /\ ip'[w] = ip[w] + 1
      /\ \A v \in Workers : v # w => ip'[v] = ip[v]
  BY DEF NextStatement, IInv, TypeOK
<1>2. pc[w] = "run" /\ Statement(w).op # "resolve"
  BY DEF At, Writes
<1>3. GoodTables(View(w)) /\ OwnMark(w) /\ DOMAIN reviewer = Workers
  BY DEF ResolveInv, WorkerResolves
<1>4. GoodTables(View(w)')
  BY <1>3, GoodWrite
<1>5. ReviewerKnown(w)'
  <2>1. ~At(w, "review")'
    BY <1>1, <1>2, NextReview
  <2> QED
    BY <1>1, <1>2, <2>1 DEF ReviewerKnown
<1>6. OwnMark(w)'
  <2>1. DOMAIN mine'[w] = DOMAIN mine[w] \union {k}
    BY WrittenRow
  <2> QED
    BY <1>1, <1>3, <2>1 DEF OwnMark, MarkKey
<1> QED
  BY <1>1, <1>3, <1>4, <1>5, <1>6, WriteResolves

(* The statement a worker is at is one of its program, about the right table. *)
LEMMA StatementKey ==
  ASSUME IInv, NEW w \in Workers, NEW op, At(w, op)
  PROVE  /\ cur[w] \in Deliveries /\ ip[w] \in 1 .. Len(Program[cur[w]])
         /\ Statement(w) = Program[cur[w]][ip[w]]
         /\ KeyFits(Statement(w)) /\ Statement(w).op = op
<1>1. cur[w] \in Deliveries /\ ip[w] \in Nat \ {0} /\ Len(Program[cur[w]]) \in Nat
  BY WriteModelAssumption DEF IInv, TypeOK, At
<1>2. ip[w] \in 1 .. Len(Program[cur[w]])
  BY <1>1 DEF At
<1> QED
  BY <1>1, <1>2, WriteModelAssumption DEF Statement, At

(* Writing a work item or check run that keeps its uuid keeps what is resolved. *)
LEMMA ItemResolves ==
  ASSUME IInv, ResolveInv, NEW w \in Workers, NEW op \in {"upsert", "ensure"}, At(w, op),
         NEW k, NEW row, k = Statement(w).key, Write(w, k, row),
         NextStatement(w), UNCHANGED <<pc, reviewer>>,
         "uuid" \in DOMAIN row,
         k \in DOMAIN View(w) => row.uuid = View(w)[k].uuid
  PROVE  ResolveInv'
<1>1. k[1] \in Items
  BY StatementKey DEF KeyFits, Items
<1>2. k[1] # "review" /\ k[1] # "identity_link" /\ k[1] # "processed_delivery" /\ op \in Writes
  BY <1>1 DEF Items, Writes
<1>3. store' = store
  BY DEF NextStatement
<1>4. /\ DOMAIN View(w)' = DOMAIN View(w) \union {k} /\ View(w)'[k] = row
      /\ \A x \in DOMAIN View(w) : x # k => View(w)'[x] = View(w)[x]
  BY <1>3, WrittenRow DEF View, Over
<1>5. Extends(View(w), View(w)')
  BY <1>2, <1>4 DEF Extends
<1>6. \A d \in Deliveries : \A i \in 1 .. Len(Program[d]) :
        ~(Program[d][i].op = "review" /\ Program[d][i].key = k)
  BY <1>2, ReviewKeys
<1> QED
  BY <1>2, <1>4, <1>5, <1>6, StatementResolves

(* A refreshed row keeps its uuid. *)
LEMMA RefreshedItem ==
  ASSUME ResolveInv, NEW w \in Workers, NEW k \in DOMAIN View(w), k[1] \in Items, NEW d
  PROVE  /\ "uuid" \in DOMAIN [View(w)[k] EXCEPT !.data = d]
         /\ [View(w)[k] EXCEPT !.data = d].uuid = View(w)[k].uuid
<1>1. "uuid" \in DOMAIN View(w)[k]
  BY DEF ResolveInv, WorkerResolves, GoodTables, WellFormed
<1> QED
  BY <1>1

(* An upsert keeps what is resolved: the uuid of a row that is there stays. *)
LEMMA UpsertResolves ==
  ASSUME IInv, ResolveInv, NEW w \in Workers, Upsert(w)
  PROVE  ResolveInv'
<1> DEFINE k == Statement(w).key
           fresh == [uuid |-> cur[w], data |-> Statement(w).data]
           row == IF k \in DOMAIN View(w) THEN [View(w)[k] EXCEPT !.data = Statement(w).data]
                  ELSE fresh
<1>1. /\ At(w, "upsert") /\ Write(w, k, row) /\ NextStatement(w) /\ UNCHANGED <<pc, reviewer>>
  BY DEF Upsert
<1>2. k[1] \in Items
  BY <1>1, StatementKey DEF KeyFits, Items
<1>3. "uuid" \in DOMAIN row /\ (k \in DOMAIN View(w) => row.uuid = View(w)[k].uuid)
  <2>1. CASE k \in DOMAIN View(w)
    BY <1>2, <2>1, RefreshedItem
  <2>2. CASE k \notin DOMAIN View(w)
    BY <2>2
  <2> QED
    BY <2>1, <2>2
<1> HIDE DEF row
<1> QED
  BY <1>1, <1>3, ItemResolves

(* An ensured row keeps its uuid too. *)
LEMMA EnsureResolves ==
  ASSUME IInv, ResolveInv, NEW w \in Workers, Ensure(w)
  PROVE  ResolveInv'
<1> DEFINE k == Statement(w).key
           fresh == [uuid |-> cur[w], data |-> Statement(w).data]
           row == IF k \in DOMAIN View(w) THEN View(w)[k] ELSE fresh
<1>1. /\ At(w, "ensure") /\ Write(w, k, row) /\ NextStatement(w) /\ UNCHANGED <<pc, reviewer>>
  BY DEF Ensure
<1>2. k[1] \in Items
  BY <1>1, StatementKey DEF KeyFits, Items
<1>3. "uuid" \in DOMAIN row /\ (k \in DOMAIN View(w) => row.uuid = View(w)[k].uuid)
  <2>1. CASE k \in DOMAIN View(w)
    BY <1>2, <2>1 DEF ResolveInv, WorkerResolves, GoodTables, WellFormed
  <2>2. CASE k \notin DOMAIN View(w)
    BY <2>2
  <2> QED
    BY <2>1, <2>2
<1> HIDE DEF row
<1> QED
  BY <1>1, <1>3, ItemResolves

(* A review that is new is linked to what its transaction resolved, one that *)
(* is there keeps its links.                                                 *)
LEMMA InsertReviewResolves ==
  ASSUME IInv, ResolveInv, NEW w \in Workers, InsertReview(w)
  PROVE  ResolveInv'
<1> DEFINE st == Statement(w)
           fresh == [ uuid |-> cur[w], data |-> st.data,
                      item |-> View(w)[st.item].uuid, reviewer |-> reviewer[w] ]
           row == IF st.key \in DOMAIN View(w) THEN [View(w)[st.key] EXCEPT !.data = st.data]
                  ELSE fresh
<1>1. /\ At(w, "review") /\ Write(w, st.key, row) /\ NextStatement(w)
      /\ UNCHANGED <<pc, reviewer>> /\ store' = store
  BY DEF InsertReview, NextStatement
<1>2. /\ cur[w] \in Deliveries /\ ip[w] \in 1 .. Len(Program[cur[w]])
      /\ st = Program[cur[w]][ip[w]] /\ st.op = "review"
  BY <1>1, StatementKey
<1>3. st.key[1] = "review" /\ st.item[1] \in Items /\ st.login[1] = "identity_link"
  BY <1>2, ReviewKeys
<1>4. /\ st.login \in DOMAIN View(w) /\ reviewer[w] = View(w)[st.login].contributor
      /\ GoodTables(View(w))
  BY <1>1 DEF ResolveInv, WorkerResolves, ReviewerKnown
<1>5. st.item \in DOMAIN View(w)
  <2>1. ResolvesReviews(Program[cur[w]]) /\ Len(Program[cur[w]]) \in Nat
    BY <1>2, WriteModelAssumption
  <2>2. PICK j \in 1 .. ip[w] - 1 : /\ Program[cur[w]][j].op \in {"upsert", "ensure"}
                                    /\ Program[cur[w]][j].key = st.item
    BY <1>2, <2>1 DEF ResolvesReviews
  <2>3. j \in 1 .. Len(Program[cur[w]]) /\ j < ip[w] /\ Program[cur[w]][j].op \in Writes
    BY <1>2, <2>1, <2>2 DEF Writes
  <2>4. st.item \in DOMAIN mine[w]
    BY <1>1, <2>2, <2>3 DEF IInv, LocksKept, At
  <2> QED
    BY <2>4 DEF View, Over
<1>6. /\ {"item", "reviewer"} \subseteq DOMAIN row
      /\ st.key \in DOMAIN View(w) =>
           row.item = View(w)[st.key].item /\ row.reviewer = View(w)[st.key].reviewer
      /\ st.key \notin DOMAIN View(w) =>
           row.item = View(w)[st.item].uuid /\ row.reviewer = reviewer[w]
  <2>1. CASE st.key \in DOMAIN View(w)
    <3>1. {"item", "reviewer"} \subseteq DOMAIN View(w)[st.key]
      BY <1>3, <1>4, <2>1 DEF GoodTables, WellFormed
    <3> QED
      BY <2>1, <3>1
  <2>2. CASE st.key \notin DOMAIN View(w)
    BY <2>2
  <2> QED
    BY <2>1, <2>2
<1> HIDE DEF row
<1>7. /\ DOMAIN View(w)' = DOMAIN View(w) \union {st.key} /\ View(w)'[st.key] = row
      /\ \A x \in DOMAIN View(w) : x # st.key => View(w)'[x] = View(w)[x]
  BY <1>1, WrittenRow DEF View, Over
<1>8. st.item # st.key /\ st.login # st.key
  BY <1>3 DEF Items
<1>9. Extends(View(w), View(w)')
  <2> SUFFICES ASSUME NEW x \in DOMAIN View(w)
               PROVE  /\ x \in DOMAIN View(w)'
                      /\ x[1] \in Items => View(w)'[x].uuid = View(w)[x].uuid
                      /\ x[1] = "review" => /\ View(w)'[x].item = View(w)[x].item
                                            /\ View(w)'[x].reviewer = View(w)[x].reviewer
                      /\ x[1] = "identity_link" =>
                           View(w)'[x].contributor = View(w)[x].contributor
    BY DEF Extends
  <2>1. CASE x = st.key
    BY <1>3, <1>6, <1>7, <2>1 DEF Items
  <2>2. CASE x # st.key
    BY <1>7, <2>2
  <2> QED
    BY <2>1, <2>2
<1>10. ASSUME NEW d \in Deliveries, NEW i \in 1 .. Len(Program[d]),
              Program[d][i].op = "review", Program[d][i].key = st.key
       PROVE  LinkedIn(Program[d][i], View(w)')
  <2>1. Program[d][i].item = st.item /\ Program[d][i].login = st.login
    BY <1>2, <1>10, WriteModelAssumption DEF SameReview
  <2>2. CASE st.key \in DOMAIN View(w)
    BY <1>4, <1>9, <1>10, <2>2, LinkedExtends DEF GoodTables, ReviewsLinked
  <2>3. CASE st.key \notin DOMAIN View(w)
    BY <1>4, <1>5, <1>6, <1>7, <1>8, <1>10, <2>1, <2>3 DEF LinkedIn
  <2> QED
    BY <2>2, <2>3
<1>11. "review" \in Writes /\ st.key[1] \notin Items
       /\ st.key[1] # "identity_link" /\ st.key[1] # "processed_delivery"
  BY <1>3 DEF Writes, Items
<1> HIDE DEF st
<1>12. st.key = Statement(w).key
  BY DEF st
<1> QED
  BY <1>1, <1>6, <1>7, <1>9, <1>10, <1>11, <1>12, StatementResolves

(* The login is resolved: to the link w sees, or after InsertLink to the one *)
(* that is there or that w inserts.                                          *)
LEMMA SelectLinkResolves ==
  ASSUME IInv, ResolveInv, NEW w \in Workers, SelectLink(w)
  PROVE  ResolveInv'
<1> DEFINE k == Statement(w).key
           new == <<"contributor", cur[w], k>>
<1>1. At(w, "resolve") /\ pc[w] = "run" /\ DOMAIN reviewer' = Workers
  BY DEF SelectLink, At, ResolveInv
<1>2. k[1] = "identity_link"
  BY <1>1, StatementKey DEF KeyFits
<1>3. OwnMark(w) /\ GoodTables(View(w)) /\ DOMAIN reviewer = Workers
  BY DEF ResolveInv, WorkerResolves
<1>4. CASE /\ k \in DOMAIN View(w) /\ reviewer' = [reviewer EXCEPT ![w] = View(w)[k].contributor]
           /\ NextStatement(w) /\ UNCHANGED <<pc, mine>>
  <2>1. /\ UNCHANGED <<store, cur, pc, mine>> /\ ip'[w] = ip[w] + 1
        /\ reviewer'[w] = View(w)[k].contributor
        /\ \A v \in Workers : v # w => ip'[v] = ip[v] /\ reviewer'[v] = reviewer[v]
    BY <1>3, <1>4 DEF NextStatement, IInv, TypeOK
  <2>2. View(w)' = View(w)
    BY <2>1 DEF View
  <2>3. At(w, "review")' => Statement(w)'.login = k
    BY <1>1, <2>1, NextReview
  <2>4. ReviewerKnown(w)'
    BY <1>1, <1>4, <2>1, <2>2, <2>3 DEF ReviewerKnown
  <2>5. OwnMark(w)'
    BY <1>3, <2>1 DEF OwnMark
  <2> QED
    BY <1>1, <2>1, <2>4, <2>5, ReadResolves
<1>5. CASE /\ k \notin DOMAIN View(w) /\ reviewer' = [reviewer EXCEPT ![w] = new]
           /\ Write(w, new, [uuid |-> new]) /\ Goto(w, "link")
           /\ UNCHANGED <<arrived, tries, store, outbox, cur, ip>>
  <2>1. new[1] = "contributor" /\ new # k
    BY <1>2
  <2> HIDE DEF new
  <2>2. /\ UNCHANGED <<store, cur, ip>> /\ pc'[w] = "link" /\ reviewer'[w] = new
        /\ \A v \in Workers : v # w => pc'[v] = pc[v] /\ reviewer'[v] = reviewer[v]
    BY <1>3, <1>5 DEF Goto, IInv, TypeOK
  <2>3. /\ DOMAIN View(w)' = DOMAIN View(w) \union {new} /\ View(w)'[new] = [uuid |-> new]
        /\ \A x \in DOMAIN View(w) : x # new => View(w)'[x] = View(w)[x]
    BY <1>5, <2>2, WrittenRow DEF View, Over
  <2>4. DOMAIN mine'[w] = DOMAIN mine[w] \union {new}
    BY <1>5, WrittenRow
  <2>5. Extends(View(w), View(w)')
    BY <2>1, <2>3 DEF Extends, Items
  <2>6. GoodTables(View(w)')
    <3>1. \A d \in Deliveries : \A i \in 1 .. Len(Program[d]) :
            ~(Program[d][i].op = "review" /\ Program[d][i].key = new)
      BY <2>1, ReviewKeys
    <3> QED
      BY <1>3, <2>1, <2>3, <2>5, <3>1, GoodWrite DEF Items
  <2>7. ReviewerKnown(w)'
    <3>1. Statement(w)' = Statement(w) /\ ~At(w, "review")'
      BY <2>2 DEF Statement, At
    <3>2. k \notin DOMAIN mine'[w]
      BY <1>5, <2>1, <2>4 DEF View, Over
    <3> QED
      BY <1>2, <2>2, <2>3, <3>1, <3>2 DEF ReviewerKnown
  <2>8. OwnMark(w)'
    BY <1>3, <2>1, <2>2, <2>4 DEF OwnMark, MarkKey
  <2> QED
    BY <1>1, <1>5, <2>2, <2>5, <2>6, <2>7, <2>8, WriteResolves
<1> QED
  BY <1>4, <1>5 DEF SelectLink

(* The link that is there in the end, the own or the winner's, is what is resolved. *)
LEMMA InsertLinkResolves ==
  ASSUME IInv, ResolveInv, NEW w \in Workers, InsertLink(w)
  PROVE  ResolveInv'
<1> DEFINE k == Statement(w).key
<1>1. /\ pc[w] = "link" /\ pc'[w] = "run" /\ ip'[w] = ip[w] + 1
      /\ UNCHANGED <<store, cur>> /\ DOMAIN reviewer' = Workers
      /\ \A v \in Workers : v # w => pc'[v] = pc[v] /\ ip'[v] = ip[v] /\ reviewer'[v] = reviewer[v]
  BY DEF InsertLink, Goto, NextStatement, IInv, TypeOK, ResolveInv
<1>2. /\ OwnMark(w) /\ GoodTables(View(w)) /\ Extends(store, View(w))
      /\ reviewer[w] \in DOMAIN View(w) /\ k \notin DOMAIN mine[w] /\ k[1] = "identity_link"
  BY <1>1 DEF ResolveInv, WorkerResolves, ReviewerKnown
<1>3. At(w, "review")' => Statement(w).op = "resolve" /\ Statement(w)'.login = k
  BY <1>1, NextReview
<1>4. CASE /\ k \in DOMAIN store /\ reviewer' = [reviewer EXCEPT ![w] = store[k].contributor]
           /\ mine' = mine
  <2>1. View(w)' = View(w) /\ k \in DOMAIN View(w) /\ View(w)[k] = store[k]
        /\ reviewer'[w] = store[k].contributor
    BY <1>1, <1>2, <1>4 DEF View, Over
  <2>2. ReviewerKnown(w)'
    BY <1>1, <1>3, <2>1 DEF ReviewerKnown
  <2>3. OwnMark(w)'
    BY <1>1, <1>2, <1>4 DEF OwnMark
  <2> QED
    BY <1>1, <1>4, <2>2, <2>3, ReadResolves
<1>5. CASE /\ k \notin DOMAIN store /\ Write(w, k, [contributor |-> reviewer[w]])
           /\ reviewer' = reviewer
  <2> DEFINE row == [contributor |-> reviewer[w]]
  <2>1. Write(w, k, row) /\ row.contributor = reviewer[w] /\ k \notin DOMAIN View(w)
    BY <1>2, <1>5 DEF View, Over
  <2>2. k[1] = "identity_link"
    BY <1>2
  <2> HIDE DEF row
  <2>3. /\ DOMAIN View(w)' = DOMAIN View(w) \union {k} /\ View(w)'[k] = row
        /\ \A x \in DOMAIN View(w) : x # k => View(w)'[x] = View(w)[x]
    BY <1>1, <2>1, WrittenRow DEF View, Over
  <2>4. DOMAIN mine'[w] = DOMAIN mine[w] \union {k}
    BY <2>1, WrittenRow
  <2>5. Extends(View(w), View(w)')
    BY <2>1, <2>3 DEF Extends
  <2>6. GoodTables(View(w)')
    <3>1. \A d \in Deliveries : \A i \in 1 .. Len(Program[d]) :
            ~(Program[d][i].op = "review" /\ Program[d][i].key = k)
      BY <2>2, ReviewKeys
    <3>2. row.contributor \in DOMAIN View(w)'
      BY <1>2, <2>1, <2>3
    <3> QED
      BY <1>2, <2>2, <2>3, <2>5, <3>1, <3>2, GoodWrite DEF Items
  <2>7. ReviewerKnown(w)'
    BY <1>1, <1>3, <1>5, <2>1, <2>3 DEF ReviewerKnown
  <2>8. OwnMark(w)'
    BY <1>1, <1>2, <2>2, <2>4 DEF OwnMark, MarkKey
  <2> QED
    BY <1>1, <2>1, <2>5, <2>6, <2>7, <2>8, WriteResolves
<1> QED
  BY <1>4, <1>5 DEF InsertLink

(* Staging an event keeps what is resolved. *)
LEMMA EnqueueOutboxResolves ==
  ASSUME IInv, ResolveInv, NEW w \in Workers, EnqueueOutbox(w)
  PROVE  ResolveInv'
<1>1. /\ At(w, "emit") /\ pc[w] = "run" /\ Statement(w).op = "emit" /\ ip'[w] = ip[w] + 1
      /\ UNCHANGED <<store, mine, cur, pc, reviewer>>
      /\ \A v \in Workers : v # w => ip'[v] = ip[v]
  BY DEF EnqueueOutbox, NextStatement, At, IInv, TypeOK
<1>2. OwnMark(w) /\ DOMAIN reviewer' = Workers
  BY <1>1 DEF ResolveInv, WorkerResolves
<1>3. OwnMark(w)'
  BY <1>1, <1>2 DEF OwnMark
<1>4. ~At(w, "review")'
  BY <1>1, NextReview
<1>5. ReviewerKnown(w)'
  BY <1>1, <1>4 DEF ReviewerKnown
<1> QED
  BY <1>1, <1>2, <1>3, <1>5, ReadResolves

(* Beginning a transaction keeps what is resolved. *)
LEMMA BeginResolves ==
  ASSUME IInv, ResolveInv, NEW w \in Workers, NEW d \in Deliveries, Begin(w, d)
  PROVE  ResolveInv'
<1>1. /\ pc[w] = "idle" /\ pc'[w] = "mark" /\ UNCHANGED <<store, mine, ip, reviewer>>
      /\ \A v \in Workers : v # w => pc'[v] = pc[v] /\ cur'[v] = cur[v]
  BY DEF Begin, Goto, dbVars, IInv, TypeOK
<1>2. mine'[w] = <<>>
  BY <1>1 DEF IInv, TypeOK
<1>3. OwnMark(w)'
  BY <1>2 DEF OwnMark
<1>4. ReviewerKnown(w)'
  BY <1>1 DEF ReviewerKnown, At
<1>5. DOMAIN reviewer' = Workers
  BY <1>1 DEF ResolveInv
<1> QED
  BY <1>1, <1>3, <1>4, <1>5, ReadResolves

(* Inserting the mark keeps what is resolved: no review of the delivery is committed by it yet. *)
LEMMA MarkResolves ==
  ASSUME IInv, ResolveInv, NEW w \in Workers, pc[w] = "mark",
         NEW k, NEW row, k = MarkKey(cur[w]), Write(w, k, row), Goto(w, "run"),
         store' = store, UNCHANGED <<cur, ip, reviewer>>
  PROVE  ResolveInv'
<1>1. k = <<"processed_delivery", cur[w]>> /\ k[1] = "processed_delivery"
  BY DEF MarkKey
<1>2. pc'[w] = "run" /\ \A v \in Workers : v # w => pc'[v] = pc[v]
  BY DEF Goto, IInv, TypeOK
<1>3. OwnMark(w) /\ GoodTables(View(w)) /\ DOMAIN reviewer' = Workers
  BY DEF ResolveInv, WorkerResolves
<1>4. /\ DOMAIN View(w)' = DOMAIN View(w) \union {k} /\ View(w)'[k] = row
      /\ \A x \in DOMAIN View(w) : x # k => View(w)'[x] = View(w)[x]
  BY WrittenRow DEF View, Over
<1>5. Extends(View(w), View(w)')
  BY <1>1, <1>4 DEF Extends, Items
<1>6. GoodTables(View(w)')
  <2>1. \A d \in Deliveries : \A i \in 1 .. Len(Program[d]) :
          ~(Program[d][i].op = "review" /\ Program[d][i].key = k)
    BY <1>1, ReviewKeys
  <2> QED
    BY <1>1, <1>3, <1>4, <1>5, <2>1, GoodWrite DEF Items
<1>7. ReviewerKnown(w)'
  <2>1. ip[w] = 1 /\ cur[w] \in Deliveries
    BY DEF IInv, TypeOK
  <2>2. ~At(w, "review")'
    <3> SUFFICES ASSUME At(w, "review")' PROVE FALSE
      OBVIOUS
    <3>1. Program[cur[w]][1].op = "review" /\ 1 \in 1 .. Len(Program[cur[w]])
      BY <2>1, WriteModelAssumption DEF At, Statement
    <3> QED
      BY <2>1, <3>1, WriteModelAssumption DEF ResolvesReviews
  <2> QED
    BY <1>2, <2>2 DEF ReviewerKnown
<1>8. OwnMark(w)'
  <2>1. DOMAIN mine'[w] = DOMAIN mine[w] \union {k}
    BY WrittenRow
  <2>2. ASSUME NEW d \in Deliveries, MarkKey(d) = k PROVE d = cur[w]
    BY <1>1, <2>2 DEF MarkKey
  <2> QED
    BY <1>2, <1>3, <2>1, <2>2 DEF OwnMark
<1> QED
  BY <1>1, <1>2, <1>3, <1>5, <1>6, <1>7, <1>8, WriteResolves

(* A transaction ends, and the tables were extended or left alone. *)
LEMMA EndResolves ==
  ASSUME IInv, ResolveInv, NEW w \in Workers, EndTx(w),
         GoodTables(store)', MarkedHasReviews',
         \A v \in Workers : v # w => GoodTables(View(v))' /\ Extends(store, View(v))'
                                     /\ Extends(View(v), View(v)')
  PROVE  ResolveInv'
<1>1. /\ pc'[w] = "idle" /\ mine'[w] = <<>> /\ DOMAIN reviewer' = Workers
      /\ \A v \in Workers : v # w =>
           /\ pc'[v] = pc[v] /\ cur'[v] = cur[v] /\ ip'[v] = ip[v]
           /\ mine'[v] = mine[v] /\ reviewer'[v] = reviewer[v]
  BY DEF EndTx, Goto, IInv, TypeOK, ResolveInv
<1>2. WorkerResolves(w)'
  <2>1. DOMAIN View(w)' = DOMAIN store' /\ \A x \in DOMAIN store' : View(w)'[x] = store'[x]
    BY <1>1 DEF View, Over
  <2>2. GoodTables(View(w)') /\ Extends(store', View(w)')
    BY <2>1, GoodCopy
  <2>3. OwnMark(w)' /\ ReviewerKnown(w)'
    BY <1>1 DEF OwnMark, ReviewerKnown, At
  <2> QED
    BY <2>2, <2>3 DEF WorkerResolves
<1>3. ASSUME NEW v \in Workers, v # w PROVE WorkerResolves(v)'
  <2>1. OwnMark(v)'
    BY <1>1, <1>3 DEF ResolveInv, WorkerResolves, OwnMark
  <2>2. Statement(v)' = Statement(v) /\ (At(v, "review")' <=> At(v, "review"))
    BY <1>1, <1>3 DEF Statement, At
  <2>3. ReviewerKnown(v)'
    <3>1. CASE pc[v] = "link"
      BY <1>1, <1>3, <2>2, <3>1 DEF ResolveInv, WorkerResolves, ReviewerKnown, Extends, At
    <3>2. CASE At(v, "review")
      <4>1. /\ Statement(v).login \in DOMAIN View(v) /\ pc[v] # "link"
            /\ reviewer[v] = View(v)[Statement(v).login].contributor
        BY <1>3, <3>2 DEF ResolveInv, WorkerResolves, ReviewerKnown, At
      <4>2. Statement(v).login[1] = "identity_link"
        BY <3>2, StatementKey, ReviewKeys
      <4> QED
        BY <1>1, <1>3, <2>2, <4>1, <4>2 DEF ReviewerKnown, Extends
    <3>3. CASE pc[v] # "link" /\ ~At(v, "review")
      BY <1>1, <1>3, <2>2, <3>3 DEF ReviewerKnown
    <3> QED
      BY <3>1, <3>2, <3>3
  <2> QED
    BY <1>3, <2>1, <2>3 DEF WorkerResolves
<1> QED
  BY <1>1, <1>2, <1>3 DEF ResolveInv

(* The end of a transaction that changes no table keeps what is resolved. *)
LEMMA UnchangedTables ==
  ASSUME IInv, ResolveInv, NEW w \in Workers, EndTx(w), store' = store
  PROVE  ResolveInv'
<1>1. GoodTables(store)' /\ MarkedHasReviews'
  BY DEF ResolveInv, MarkedHasReviews, Marked
<1>2. ASSUME NEW v \in Workers, v # w
      PROVE  GoodTables(View(v))' /\ Extends(store, View(v))' /\ Extends(View(v), View(v)')
  <2>1. mine'[v] = mine[v]
    BY <1>2 DEF EndTx, IInv, TypeOK
  <2>2. View(v)' = View(v)
    BY <2>1 DEF View
  <2> QED
    BY <2>2 DEF ResolveInv, WorkerResolves, Extends
<1> QED
  BY <1>1, <1>2, EndResolves

(* Marking a delivery, or finding it marked, keeps what is resolved. *)
LEMMA MarkDeliveryResolves ==
  ASSUME IInv, ResolveInv, NEW w \in Workers, MarkDelivery(w)
  PROVE  ResolveInv'
<1>1. CASE EndTx(w)
  BY <1>1, UnchangedTables DEF MarkDelivery
<1>2. CASE /\ Write(w, MarkKey(cur[w]), [uuid |-> cur[w]])
           /\ Goto(w, "run")
           /\ UNCHANGED <<arrived, tries, nextId, cur, ip, staged, reviewer>>
  BY <1>2, MarkResolves DEF MarkDelivery
<1> QED
  BY <1>1, <1>2 DEF MarkDelivery

(* A roll back keeps what is resolved. *)
LEMMA RollBackResolves ==
  ASSUME IInv, ResolveInv, NEW w \in Workers, RollBack(w)
  PROVE  ResolveInv'
BY UnchangedTables DEF RollBack

(* What w saw is what is committed; the others see it around their own rows. *)
LEMMA CommitTxResolves ==
  ASSUME IInv, ResolveInv, NEW w \in Workers, CommitTx(w)
  PROVE  ResolveInv'
<1>1. EndTx(w) /\ store' = View(w)
  BY DEF CommitTx, View
<1>2. GoodTables(View(w)) /\ Extends(store, View(w)) /\ OwnMark(w)
  BY DEF ResolveInv, WorkerResolves
<1>3. GoodTables(store)'
  BY <1>1, <1>2
<1>4. MarkedHasReviews'
  <2> SUFFICES ASSUME NEW d \in Deliveries, NEW i \in 1 .. Len(Program[d]),
                      Marked(d)', Program[d][i].op = "review"
               PROVE  Program[d][i].key \in DOMAIN store'
    BY DEF MarkedHasReviews
  <2>1. MarkKey(d) \in DOMAIN mine[w] \union DOMAIN store
    BY <1>1 DEF Marked, View, Over
  <2>2. CASE MarkKey(d) \in DOMAIN store
    BY <1>1, <1>2, <2>2 DEF ResolveInv, MarkedHasReviews, Marked, Extends
  <2>3. CASE MarkKey(d) \in DOMAIN mine[w]
    <3>1. d = cur[w]
      BY <1>2, <2>3 DEF OwnMark
    <3>2. pc[w] = "run" /\ ip[w] > Len(Program[cur[w]])
      BY DEF CommitTx
    <3>3. i < ip[w]
      <4>1. ip[w] \in Nat /\ Len(Program[d]) \in Nat
        BY <3>1, <3>2, WriteModelAssumption DEF IInv, TypeOK
      <4> QED
        BY <3>1, <3>2, <4>1
    <3>4. Program[d][i].key \in DOMAIN mine[w]
      BY <3>1, <3>2, <3>3 DEF IInv, LocksKept, Writes
    <3> QED
      BY <1>1, <3>4 DEF View, Over
  <2> QED
    BY <2>1, <2>2, <2>3
<1>5. ASSUME NEW v \in Workers, v # w
      PROVE  GoodTables(View(v))' /\ Extends(store, View(v))' /\ Extends(View(v), View(v)')
  <2>1. mine'[v] = mine[v]
    BY <1>1, <1>5 DEF EndTx, IInv, TypeOK
  <2>2. /\ DOMAIN View(v)' = DOMAIN mine[v] \union DOMAIN View(w)
        /\ \A x \in DOMAIN mine[v] : View(v)'[x] = mine[v][x] /\ View(v)[x] = mine[v][x]
        /\ \A x \in DOMAIN View(w) : x \notin DOMAIN mine[v] => View(v)'[x] = View(w)[x]
        /\ \A x \in DOMAIN store : x \notin DOMAIN mine[v] => View(v)[x] = store[x]
        /\ DOMAIN View(v) = DOMAIN mine[v] \union DOMAIN store
        /\ DOMAIN store \subseteq DOMAIN View(w)
    BY <1>1, <2>1 DEF View, Over
  <2>3. GoodTables(View(v)) /\ Extends(store, View(v))
    BY DEF ResolveInv, WorkerResolves
  <2>4. Extends(View(v), View(v)')
    BY <1>2, <2>2 DEF Extends
  <2>5. Extends(View(w), View(v)')
    <3> SUFFICES ASSUME NEW x \in DOMAIN View(w)
                 PROVE  /\ x \in DOMAIN View(v)'
                        /\ x[1] \in Items => View(v)'[x].uuid = View(w)[x].uuid
                        /\ x[1] = "review" => /\ View(v)'[x].item = View(w)[x].item
                                              /\ View(v)'[x].reviewer = View(w)[x].reviewer
                        /\ x[1] = "identity_link" =>
                             View(v)'[x].contributor = View(w)[x].contributor
      BY DEF Extends
    <3>1. CASE x \notin DOMAIN mine[v]
      BY <2>2, <3>1
    <3>2. CASE x \in DOMAIN mine[v] /\ x \in DOMAIN mine[w]
      BY <1>5, <2>2, <3>2 DEF IInv, OneWriter, Items
    <3>3. CASE x \in DOMAIN mine[v] /\ x \notin DOMAIN mine[w]
      <4>1. x \in DOMAIN store /\ View(w)[x] = store[x]
        BY <3>3 DEF View, Over
      <4> QED
        BY <2>2, <2>3, <3>3, <4>1 DEF Extends
    <3> QED
      BY <3>1, <3>2, <3>3
  <2>6. GoodTables(View(v)')
    <3>1. WellFormed(View(v)')
      BY <1>2, <2>2, <2>3 DEF GoodTables, WellFormed
    <3>2. LinksLead(View(v)')
      <4> SUFFICES ASSUME NEW x \in DOMAIN View(v)', x[1] = "identity_link"
                   PROVE  View(v)'[x].contributor \in DOMAIN View(v)'
        BY DEF LinksLead
      <4>1. CASE x \in DOMAIN mine[v]
        BY <2>2, <2>3, <2>4, <4>1 DEF GoodTables, LinksLead, Extends
      <4>2. CASE x \notin DOMAIN mine[v]
        BY <1>2, <2>2, <2>5, <4>2 DEF GoodTables, LinksLead, Extends
      <4> QED
        BY <4>1, <4>2
    <3>3. ReviewsLinked(View(v)')
      <4> SUFFICES ASSUME NEW d \in Deliveries, NEW i \in 1 .. Len(Program[d]),
                          Program[d][i].op = "review", Program[d][i].key \in DOMAIN View(v)'
                   PROVE  LinkedIn(Program[d][i], View(v)')
        BY DEF ReviewsLinked
      <4>1. CASE Program[d][i].key \in DOMAIN View(v)
        BY <2>3, <2>4, <4>1, LinkedExtends DEF GoodTables, ReviewsLinked
      <4>2. CASE Program[d][i].key \in DOMAIN View(w)
        BY <1>2, <2>5, <4>2, LinkedExtends DEF GoodTables, ReviewsLinked
      <4> QED
        BY <2>2, <4>1, <4>2
    <3> QED
      BY <3>1, <3>2, <3>3 DEF GoodTables
  <2>7. Extends(store', View(v)')
    BY <1>1, <2>5
  <2> QED
    BY <2>4, <2>6, <2>7
<1> QED
  BY <1>1, <1>3, <1>4, <1>5, EndResolves

(* Every step keeps what is resolved. *)
LEMMA NextKeepsResolveInv == IInv /\ ResolveInv /\ [Next]_vars => ResolveInv'
<1> SUFFICES ASSUME IInv, ResolveInv, [Next]_vars PROVE ResolveInv'
  OBVIOUS
<1>1. ASSUME NEW w \in Workers, NEW d \in Deliveries, Begin(w, d) PROVE ResolveInv'
  BY <1>1, BeginResolves
<1>2. ASSUME NEW w \in Workers, Step(w) PROVE ResolveInv'
  BY <1>2, MarkDeliveryResolves, UpsertResolves, EnsureResolves, SelectLinkResolves,
     InsertLinkResolves, InsertReviewResolves, EnqueueOutboxResolves, CommitTxResolves DEF Step
<1>3. ASSUME NEW w \in Workers, RollBack(w) PROVE ResolveInv'
  BY <1>3, RollBackResolves
<1>4. CASE UNCHANGED vars
  <2>1. UNCHANGED <<store, pc, cur, ip, mine, reviewer>>
    BY <1>4 DEF vars, dbVars, txVars
  <2>2. GoodTables(store)' /\ MarkedHasReviews'
    BY <2>1 DEF ResolveInv, MarkedHasReviews, Marked
  <2> QED
    BY <2>1, <2>2, OthersResolve DEF ResolveInv
<1> QED
  BY <1>1, <1>2, <1>3, <1>4 DEF Next

(* Nothing is resolved at the start. *)
LEMMA InitResolves == Init => ResolveInv
<1> SUFFICES ASSUME Init PROVE ResolveInv
  OBVIOUS
<1>1. DOMAIN store = {} /\ \A w \in Workers : DOMAIN mine[w] = {} /\ pc[w] = "idle"
  BY DEF Init
<1>2. \A w \in Workers : DOMAIN View(w) = {}
  BY <1>1 DEF View, Over
<1>3. ASSUME NEW tables, DOMAIN tables = {} PROVE GoodTables(tables)
  BY <1>3 DEF GoodTables, WellFormed, ReviewsLinked, LinksLead
<1>4. \A w \in Workers : WorkerResolves(w)
  BY <1>1, <1>2, <1>3 DEF WorkerResolves, Extends, ReviewerKnown, OwnMark, At
<1> QED
  BY <1>1, <1>3, <1>4 DEF Init, ResolveInv, MarkedHasReviews, Marked

(* Every persisted review leads to the row of its pull request and to the    *)
(* one contributor of its reviewer's login, however many workers see the     *)
(* login first at once.                                                      *)
THEOREM ReviewsLeadToReviewers == Spec => []ReviewersResolved
<1>1. Init => ResolveInv
  BY InitResolves
<1>2. IInv /\ ResolveInv /\ [Next]_vars => ResolveInv'
  BY NextKeepsResolveInv
<1>3. ResolveInv => ReviewersResolved
  <2> SUFFICES ASSUME ResolveInv, NEW d \in Deliveries, NEW i \in 1 .. Len(Program[d]),
                      Program[d][i].op = "review", Marked(d)
               PROVE  LET st == Program[d][i] IN
                      /\ {st.key, st.item, st.login} \subseteq DOMAIN store
                      /\ store[st.key].item = store[st.item].uuid
                      /\ store[st.key].reviewer = store[st.login].contributor
                      /\ store[st.key].reviewer \in DOMAIN store
    BY DEF ReviewersResolved
  <2> DEFINE st == Program[d][i]
  <2>1. st.key \in DOMAIN store
    BY DEF ResolveInv, MarkedHasReviews
  <2>2. LinkedIn(st, store)
    BY <2>1 DEF ResolveInv, GoodTables, ReviewsLinked
  <2>3. store[st.login].contributor \in DOMAIN store
    BY <2>2, ReviewKeys DEF ResolveInv, GoodTables, LinksLead, LinkedIn
  <2> QED
    BY <2>1, <2>2, <2>3 DEF LinkedIn
<1> QED
  BY <1>1, <1>2, <1>3, InvariantHolds, PTL DEF Spec

--------------------------------------------------------------------------------
(* Induction on the statements of a program. *)

(* Natural numbers have no smallest one missing. *)
LEMMA LeastNumber ==
  ASSUME NEW S \in SUBSET Nat, S # {}
  PROVE  \E m \in S : \A k \in S : ~(k < m)
<1> DEFINE R == OpToRel(<, Nat)
<1>1. IsWellFoundedOn(R, Nat)
  BY NatLessThanWellFounded
<1> HIDE DEF R
<1>2. \E x \in S : \A y \in S : ~ (<<y, x>> \in R)
  BY <1>1, WFMin
<1>3. \A x, y \in Nat : x < y => <<x, y>> \in R
  BY DEF R, OpToRel
<1> QED
  BY <1>2, <1>3

(* A set with 0 and the successors of its numbers has every number. *)
LEMMA Inductive ==
  ASSUME NEW S, 0 \in S, \A n \in Nat : n \in S => n + 1 \in S
  PROVE  Nat \subseteq S
<1> SUFFICES ASSUME Nat \ S # {} PROVE FALSE
  OBVIOUS
<1>1. PICK m \in Nat \ S : \A k \in Nat \ S : ~(k < m)
  BY LeastNumber
<1>2. m # 0 /\ m - 1 \in Nat /\ m - 1 < m
  BY <1>1
<1>3. m - 1 \in S
  BY <1>1, <1>2
<1>4. (m - 1) + 1 \in S
  BY <1>2, <1>3
<1> QED
  BY <1>1, <1>4

(* The same up to a bound. *)
LEMMA InductiveUpTo ==
  ASSUME NEW N \in Nat, NEW S, 0 \in S, \A n \in 0 .. N - 1 : n \in S => n + 1 \in S
  PROVE  0 .. N \subseteq S
<1> DEFINE T == { n \in Nat : n \in S \/ n > N }
<1>1. 0 \in T
  OBVIOUS
<1>2. ASSUME NEW n \in Nat, n \in T PROVE n + 1 \in T
  BY <1>2
<1> HIDE DEF T
<1>3. Nat \subseteq T
  BY <1>1, <1>2, Inductive
<1> QED
  BY <1>3 DEF T

--------------------------------------------------------------------------------
(* What Executed and Told compute, statement by statement. *)

(* g has what the statements make of first, up to the N-th. *)
Executes(g, d, first, N) ==
  g = [n \in 0 .. N |-> IF n = 0 THEN first ELSE Serial!Execute(d, g[n - 1], Program[d][n])]

TellsOf(g, d, first, N) ==
  g = [n \in 0 .. N |-> IF n = 0 THEN first ELSE Serial!Tell(g[n - 1], Program[d][n])]

(* The tables after a program are defined from those one statement before. *)
LEMMA ExecutedExists ==
  ASSUME NEW d, NEW first, NEW N \in Nat
  PROVE  \E g : Executes(g, d, first, N)
<1> DEFINE Upto(g, k) == Executes(g, d, first, k)
           S == { k \in Nat : \E g : Upto(g, k) }
<1>1. 0 \in S
  <2>1. Upto([n \in 0 .. 0 |-> first], 0)
    BY DEF Executes
  <2> QED
    BY <2>1
<1>2. ASSUME NEW k \in Nat, k \in S PROVE k + 1 \in S
  <2>1. PICK g : Upto(g, k)
    BY <1>2
  <2> DEFINE h == [n \in 0 .. k + 1 |->
                     IF n = k + 1 THEN Serial!Execute(d, g[k], Program[d][k + 1]) ELSE g[n]]
  <2>2. ASSUME NEW n \in 0 .. k + 1
        PROVE  h[n] = IF n = 0 THEN first ELSE Serial!Execute(d, h[n - 1], Program[d][n])
    <3>1. CASE n = k + 1
      <4>1. h[n - 1] = g[k]
        BY <3>1
      <4> QED
        BY <3>1, <4>1
    <3>2. CASE n \in 1 .. k
      <4>1. h[n] = g[n] /\ h[n - 1] = g[n - 1]
        BY <3>2
      <4>2. g[n] = Serial!Execute(d, g[n - 1], Program[d][n])
        BY <2>1, <3>2 DEF Executes
      <4> QED
        BY <3>2, <4>1, <4>2
    <3>3. CASE n = 0
      BY <2>1, <3>3 DEF Executes
    <3> QED
      BY <3>1, <3>2, <3>3
  <2>3. Upto(h, k + 1)
    BY <2>2 DEF Executes
  <2> HIDE DEF h, Upto
  <2> QED
    BY <2>3
<1> HIDE DEF S
<1>3. N \in S
  BY <1>1, <1>2, Inductive
<1> QED
  BY <1>3 DEF S

(* The mark comes first, then each statement works on what the one before left. *)
LEMMA ExecutedSteps ==
  ASSUME NEW d \in Deliveries, NEW tables
  PROVE  /\ Serial!Executed(d, tables)[0] = Put(tables, MarkKey(d), [uuid |-> d])
         /\ \A n \in 1 .. Len(Program[d]) :
              Serial!Executed(d, tables)[n]
                = Serial!Execute(d, Serial!Executed(d, tables)[n - 1], Program[d][n])
<1> DEFINE N == Len(Program[d])
           first == Put(tables, MarkKey(d), [uuid |-> d])
           Is(g) == Executes(g, d, first, N)
<1>1. N \in Nat
  BY WriteModelAssumption
<1>2. \E g : Is(g)
  <2> HIDE DEF first, N
  <2> QED
    BY <1>1, ExecutedExists
<1>3. Serial!Executed(d, tables) = CHOOSE g : Is(g)
  BY DEF Executes, Serial!Executed, Serial!Put, Put, Serial!MarkKey, MarkKey
<1>4. Is(Serial!Executed(d, tables))
  BY <1>2, <1>3
<1> QED
  BY <1>1, <1>4 DEF Executes

(* The same of the stories. *)
LEMMA ToldExists ==
  ASSUME NEW d, NEW first, NEW N \in Nat
  PROVE  \E g : TellsOf(g, d, first, N)
<1> DEFINE Upto(g, k) == TellsOf(g, d, first, k)
           S == { k \in Nat : \E g : Upto(g, k) }
<1>1. 0 \in S
  <2>1. Upto([n \in 0 .. 0 |-> first], 0)
    BY DEF TellsOf
  <2> QED
    BY <2>1
<1>2. ASSUME NEW k \in Nat, k \in S PROVE k + 1 \in S
  <2>1. PICK g : Upto(g, k)
    BY <1>2
  <2> DEFINE h == [n \in 0 .. k + 1 |->
                     IF n = k + 1 THEN Serial!Tell(g[k], Program[d][k + 1]) ELSE g[n]]
  <2>2. ASSUME NEW n \in 0 .. k + 1
        PROVE  h[n] = IF n = 0 THEN first ELSE Serial!Tell(h[n - 1], Program[d][n])
    <3>1. CASE n = k + 1
      <4>1. h[n - 1] = g[k]
        BY <3>1
      <4> QED
        BY <3>1, <4>1
    <3>2. CASE n \in 1 .. k
      <4>1. h[n] = g[n] /\ h[n - 1] = g[n - 1]
        BY <3>2
      <4>2. g[n] = Serial!Tell(g[n - 1], Program[d][n])
        BY <2>1, <3>2 DEF TellsOf
      <4> QED
        BY <3>2, <4>1, <4>2
    <3>3. CASE n = 0
      BY <2>1, <3>3 DEF TellsOf
    <3> QED
      BY <3>1, <3>2, <3>3
  <2>3. Upto(h, k + 1)
    BY <2>2 DEF TellsOf
  <2> HIDE DEF h, Upto
  <2> QED
    BY <2>3
<1> HIDE DEF S
<1>3. N \in S
  BY <1>1, <1>2, Inductive
<1> QED
  BY <1>3 DEF S

(* Each statement adds to the stories what it tells. *)
LEMMA ToldSteps ==
  ASSUME NEW d \in Deliveries, NEW stories
  PROVE  /\ Serial!Told(d, stories)[0] = stories
         /\ \A n \in 1 .. Len(Program[d]) :
              Serial!Told(d, stories)[n]
                = Serial!Tell(Serial!Told(d, stories)[n - 1], Program[d][n])
<1> DEFINE N == Len(Program[d])
           Is(g) == TellsOf(g, d, stories, N)
<1>1. N \in Nat
  BY WriteModelAssumption
<1>2. \E g : Is(g)
  <2> HIDE DEF N
  <2> QED
    BY <1>1, ToldExists
<1>3. Serial!Told(d, stories) = CHOOSE g : Is(g)
  BY DEF TellsOf, Serial!Told
<1>4. Is(Serial!Told(d, stories))
  BY <1>2, <1>3
<1> QED
  BY <1>1, <1>4 DEF TellsOf

--------------------------------------------------------------------------------
(* A transaction that leaves alone what another commits commutes with it. *)

(* What a statement of persist writes or reads by key. *)
Touched(st) ==
  (IF st.op \in Writes \union {"resolve"} THEN {st.key} ELSE {})
    \union (IF st.op = "review" THEN {st.item, st.login} ELSE {})

(* A row outside M is put under M as it is put over it. *)
LEMMA PutFrame ==
  ASSUME NEW M, NEW T, NEW k, NEW row, k \notin DOMAIN M
  PROVE  Put(Over(M, T), k, row) = Over(M, Put(T, k, row))
BY DEF Put, Over

(* The promise puts rows as the write model does. *)
LEMMA SamePut ==
  ASSUME NEW T, NEW k, NEW row
  PROVE  Serial!Put(T, k, row) = Put(T, k, row)
BY DEF Serial!Put, Put

(* So is a row that is refreshed or kept. *)
LEMMA RefreshFrame ==
  ASSUME NEW M, NEW T, NEW k, k \notin DOMAIN M, NEW fresh, NEW data
  PROVE  /\ Serial!Refresh(Over(M, T), k, fresh, data) = Over(M, Serial!Refresh(T, k, fresh, data))
         /\ Serial!Keep(Over(M, T), k, fresh) = Over(M, Serial!Keep(T, k, fresh))
<1> DEFINE O == Over(M, T)
<1>1. (k \in DOMAIN O <=> k \in DOMAIN T) /\ (k \in DOMAIN T => O[k] = T[k])
  BY DEF Over
<1>2. ASSUME NEW row PROVE Serial!Put(O, k, row) = Over(M, Serial!Put(T, k, row))
  <2>1. Put(O, k, row) = Over(M, Put(T, k, row))
    BY PutFrame
  <2> QED
    BY <2>1, SamePut
<1> HIDE DEF O
<1>3. CASE k \in DOMAIN T
  BY <1>1, <1>2, <1>3 DEF Serial!Refresh, Serial!Keep, O
<1>4. CASE k \notin DOMAIN T
  BY <1>1, <1>2, <1>4 DEF Serial!Refresh, Serial!Keep, O
<1> QED
  BY <1>3, <1>4

(* So is a statement executed, if what it reads is there. *)
LEMMA ExecuteFrame ==
  ASSUME NEW d, NEW M, NEW T, NEW st, Touched(st) \intersect DOMAIN M = {},
         st.op = "review" => {st.item, st.login} \subseteq DOMAIN T
  PROVE  Serial!Execute(d, Over(M, T), st) = Over(M, Serial!Execute(d, T, st))
<1> DEFINE O == Over(M, T)
<1>1. CASE st.op = "upsert"
  <2>1. st.key \notin DOMAIN M
    BY <1>1 DEF Touched, Writes
  <2> QED
    BY <1>1, <2>1, RefreshFrame DEF Serial!Execute
<1>2. CASE st.op \in {"ensure", "resolve"}
  <2>1. st.key \notin DOMAIN M
    BY <1>2 DEF Touched, Writes
  <2> QED
    BY <1>2, <2>1, RefreshFrame DEF Serial!Execute
<1>3. CASE st.op = "review"
  <2>1. {st.key, st.item, st.login} \intersect DOMAIN M = {}
    BY <1>3 DEF Touched, Writes
  <2>2. O[st.item] = T[st.item] /\ O[st.login] = T[st.login]
    BY <1>3, <2>1 DEF Over
  <2> DEFINE fresh == [ uuid |-> d, data |-> st.data, item |-> T[st.item].uuid,
                        reviewer |-> T[st.login].contributor ]
  <2>3. /\ Serial!Execute(d, O, st) = Serial!Refresh(O, st.key, fresh, st.data)
        /\ Serial!Execute(d, T, st) = Serial!Refresh(T, st.key, fresh, st.data)
    BY <1>3, <2>2 DEF Serial!Execute
  <2> QED
    BY <2>1, <2>3, RefreshFrame
<1>4. CASE st.op \notin {"upsert", "ensure", "resolve", "review"}
  BY <1>4 DEF Serial!Execute
<1> QED
  BY <1>1, <1>2, <1>3, <1>4

(* A statement loses no row, and its own is there. *)
LEMMA ExecuteKeeps ==
  ASSUME NEW d, NEW T, NEW st
  PROVE  /\ DOMAIN T \subseteq DOMAIN Serial!Execute(d, T, st)
         /\ st.op \in Writes \union {"resolve"} => st.key \in DOMAIN Serial!Execute(d, T, st)
<1>1. CASE st.op \in {"upsert", "review"}
  BY <1>1 DEF Serial!Execute, Serial!Refresh, Serial!Put
<1>2. CASE st.op \in {"ensure", "resolve"}
  BY <1>2 DEF Serial!Execute, Serial!Keep, Serial!Put
<1>3. CASE st.op \notin {"upsert", "ensure", "resolve", "review"}
  BY <1>3 DEF Serial!Execute, Writes
<1> QED
  BY <1>1, <1>2, <1>3

(* The rows a review reads were written or resolved before it. *)
LEMMA ReviewReads ==
  ASSUME NEW d \in Deliveries, NEW n \in 1 .. Len(Program[d]), Program[d][n].op = "review"
  PROVE  \A k \in {Program[d][n].item, Program[d][n].login} :
           \E i \in 1 .. n - 1 : /\ Program[d][i].op \in Writes \union {"resolve"}
                                /\ Program[d][i].key = k
<1>1. Len(Program[d]) \in Nat
  BY WriteModelAssumption
<1>2. /\ n > 1 /\ Program[d][n - 1].op = "resolve" /\ Program[d][n - 1].key = Program[d][n].login
      /\ \E j \in 1 .. n - 1 : /\ Program[d][j].op \in {"upsert", "ensure"}
                               /\ Program[d][j].key = Program[d][n].item
  BY WriteModelAssumption DEF ResolvesReviews
<1>3. n - 1 \in 1 .. n - 1
  BY <1>1, <1>2
<1> QED
  BY <1>2, <1>3 DEF Writes

(* And so is a whole program, up to any statement. *)
LEMMA ExecutedFrame ==
  ASSUME NEW d \in Deliveries, NEW M, NEW T, NEW N \in 0 .. Len(Program[d]),
         MarkKey(d) \notin DOMAIN M,
         \A i \in 1 .. N : Touched(Program[d][i]) \intersect DOMAIN M = {}
  PROVE  Serial!Executed(d, Over(M, T))[N] = Over(M, Serial!Executed(d, T)[N])
<1> DEFINE E(n) == Serial!Executed(d, T)[n]
           F(n) == Serial!Executed(d, Over(M, T))[n]
           Same(n) == F(n) = Over(M, E(n))
           Rows(n) == \A i \in 1 .. n : Program[d][i].op \in Writes \union {"resolve"} =>
                                         Program[d][i].key \in DOMAIN E(n)
           S == { n \in 0 .. N : Same(n) /\ Rows(n) }
<1>1. N \in Nat /\ Len(Program[d]) \in Nat
  BY WriteModelAssumption
<1>2. 0 \in S
  <2>1. E(0) = Put(T, MarkKey(d), [uuid |-> d]) /\ F(0) = Put(Over(M, T), MarkKey(d), [uuid |-> d])
    BY ExecutedSteps
  <2>2. Same(0)
    BY <2>1, PutFrame
  <2>3. Rows(0)
    OBVIOUS
  <2> HIDE DEF Same, Rows
  <2> QED
    BY <1>1, <2>2, <2>3
<1>3. ASSUME NEW n \in 0 .. N - 1, n \in S PROVE n + 1 \in S
  <2> DEFINE st == Program[d][n + 1]
  <2>1. n + 1 \in 1 .. Len(Program[d]) /\ n + 1 \in 1 .. N /\ n + 1 \in 0 .. N /\ (n + 1) - 1 = n
    BY <1>1
  <2>2. E(n + 1) = Serial!Execute(d, E(n), st) /\ F(n + 1) = Serial!Execute(d, F(n), st)
    <3> HIDE DEF st
    <3> QED
      BY <2>1, ExecutedSteps DEF st
  <2>3. Same(n) /\ Rows(n)
    BY <1>3
  <2>4. st.op = "review" => {st.item, st.login} \subseteq DOMAIN E(n)
    <3> SUFFICES ASSUME st.op = "review", NEW k \in {st.item, st.login} PROVE k \in DOMAIN E(n)
      OBVIOUS
    <3>1. PICK i \in 1 .. (n + 1) - 1 : /\ Program[d][i].op \in Writes \union {"resolve"}
                                        /\ Program[d][i].key = k
      BY <2>1, ReviewReads
    <3> QED
      BY <2>1, <2>3, <3>1
  <2>5. Same(n + 1)
    <3>1. Touched(st) \intersect DOMAIN M = {}
      BY <2>1
    <3>2. Serial!Execute(d, Over(M, E(n)), st) = Over(M, Serial!Execute(d, E(n), st))
      <4> HIDE DEF E, st
      <4> QED
        BY <2>4, <3>1, ExecuteFrame
    <3> HIDE DEF E, F, st
    <3> QED
      BY <2>2, <2>3, <3>2
  <2>6. Rows(n + 1)
    <3>1. ASSUME NEW i \in 1 .. n + 1, Program[d][i].op \in Writes \union {"resolve"}
          PROVE  Program[d][i].key \in DOMAIN E(n + 1)
      <4>1. CASE i = n + 1
        <5> HIDE DEF E
        <5> QED
          BY <2>2, <3>1, <4>1, ExecuteKeeps
      <4>2. CASE i \in 1 .. n
        <5>1. Program[d][i].key \in DOMAIN E(n)
          BY <2>3, <3>1, <4>2
        <5> HIDE DEF E
        <5> QED
          BY <2>2, <5>1, ExecuteKeeps
      <4> QED
        BY <1>1, <4>1, <4>2
    <3> QED
      BY <3>1
  <2> HIDE DEF Same, Rows
  <2> QED
    BY <2>1, <2>5, <2>6
<1> HIDE DEF S
<1>4. 0 .. N \subseteq S
  BY <1>1, <1>2, <1>3, InductiveUpTo
<1>5. N \in S
  BY <1>1, <1>4
<1> QED
  BY <1>5 DEF S

(* Stories of which M tells nothing are told under M as they are over it. *)
LEMMA TellFrame ==
  ASSUME NEW M, NEW T, NEW st, st.op = "emit" => st.key \notin DOMAIN M
  PROVE  Serial!Tell(Over(M, T), st) = Over(M, Serial!Tell(T, st))
<1> DEFINE O == Over(M, T)
<1>1. CASE st.op = "emit"
  <2> DEFINE k == st.key
  <2>1. (k \in DOMAIN O <=> k \in DOMAIN T) /\ (k \in DOMAIN T => O[k] = T[k])
    BY <1>1 DEF Over
  <2>2. ASSUME NEW row PROVE Serial!Put(O, k, row) = Over(M, Serial!Put(T, k, row))
    <3>1. Put(O, k, row) = Over(M, Put(T, k, row))
      BY <1>1, PutFrame
    <3> QED
      BY <3>1, SamePut
  <2> HIDE DEF O
  <2>3. CASE k \in DOMAIN T
    BY <1>1, <2>1, <2>2, <2>3 DEF Serial!Tell, O
  <2>4. CASE k \notin DOMAIN T
    BY <1>1, <2>1, <2>2, <2>4 DEF Serial!Tell, O
  <2> QED
    BY <2>3, <2>4
<1>2. CASE st.op # "emit"
  BY <1>2 DEF Serial!Tell
<1> QED
  BY <1>1, <1>2

(* And so is what a whole program tells. *)
LEMMA ToldFrame ==
  ASSUME NEW d \in Deliveries, NEW M, NEW T, NEW N \in 0 .. Len(Program[d]),
         \A i \in 1 .. N : Program[d][i].op = "emit" => Program[d][i].key \notin DOMAIN M
  PROVE  Serial!Told(d, Over(M, T))[N] = Over(M, Serial!Told(d, T)[N])
<1> DEFINE E(n) == Serial!Told(d, T)[n]
           F(n) == Serial!Told(d, Over(M, T))[n]
           Same(n) == F(n) = Over(M, E(n))
           S == { n \in 0 .. N : Same(n) }
<1>1. N \in Nat /\ Len(Program[d]) \in Nat
  BY WriteModelAssumption
<1>2. 0 \in S
  <2>1. Same(0)
    BY ToldSteps
  <2> HIDE DEF Same
  <2> QED
    BY <1>1, <2>1
<1>3. ASSUME NEW n \in 0 .. N - 1, n \in S PROVE n + 1 \in S
  <2> DEFINE st == Program[d][n + 1]
  <2>1. n + 1 \in 1 .. Len(Program[d]) /\ n + 1 \in 1 .. N /\ n + 1 \in 0 .. N /\ (n + 1) - 1 = n
    BY <1>1
  <2>2. E(n + 1) = Serial!Tell(E(n), st) /\ F(n + 1) = Serial!Tell(F(n), st)
    <3> HIDE DEF st
    <3> QED
      BY <2>1, ToldSteps DEF st
  <2>3. Same(n)
    BY <1>3
  <2>4. Serial!Tell(Over(M, E(n)), st) = Over(M, Serial!Tell(E(n), st))
    <3>1. st.op = "emit" => st.key \notin DOMAIN M
      BY <2>1
    <3> HIDE DEF E, st
    <3> QED
      BY <3>1, TellFrame
  <2>5. Same(n + 1)
    <3> HIDE DEF E, F, st
    <3> QED
      BY <2>2, <2>3, <2>4
  <2> HIDE DEF Same
  <2> QED
    BY <2>1, <2>5
<1> HIDE DEF S
<1>4. 0 .. N \subseteq S
  BY <1>1, <1>2, <1>3, InductiveUpTo
<1>5. N \in S
  BY <1>1, <1>4
<1> QED
  BY <1>5 DEF S

--------------------------------------------------------------------------------
(* The stories of the outbox in the order of ids. *)

(* An event with a greater id than all the others comes last. *)
LEMMA LastInOrder ==
  ASSUME NEW A, IsFiniteSet(A), NEW e, e.id \in Nat, \A f \in A : f.id \in Nat /\ f.id < e.id
  PROVE  /\ Cardinality(A) \in Nat /\ Cardinality(A \union {e}) = Cardinality(A) + 1
         /\ \A n \in 1 .. Cardinality(A) : InIdOrder(A \union {e})[n] = InIdOrder(A)[n]
         /\ InIdOrder(A \union {e})[Cardinality(A) + 1] = e
<1> DEFINE B == A \union {e}  c == Cardinality(A)
           UpTo(X, x) == { f \in X : f.id <= x.id }
           Nth(X, n) == { x \in X : Cardinality(UpTo(X, x)) = n }
<1>1. e \notin A
  OBVIOUS
<1>2. c \in Nat /\ Cardinality(B) = c + 1
  BY <1>1, FS_CardinalityType, FS_AddElement
<1>3. \A x \in A : UpTo(B, x) = UpTo(A, x)
  OBVIOUS
<1>4. UpTo(B, e) = B
  OBVIOUS
<1>5. ASSUME NEW x \in A PROVE Cardinality(UpTo(A, x)) \in Nat /\ Cardinality(UpTo(A, x)) <= c
  <2>1. UpTo(A, x) \in SUBSET A
    OBVIOUS
  <2>2. IsFiniteSet(UpTo(A, x)) /\ Cardinality(UpTo(A, x)) <= c
    BY <2>1, FS_Subset
  <2> QED
    BY <2>2, FS_CardinalityType
<1> HIDE DEF UpTo, B, c
<1>6. ASSUME NEW n \in 1 .. c PROVE Nth(B, n) = Nth(A, n)
  <2>1. Cardinality(UpTo(B, e)) # n
    BY <1>2, <1>4
  <2> QED
    BY <1>3, <2>1 DEF B
<1>7. Nth(B, c + 1) = {e}
  <2>1. ASSUME NEW x \in A PROVE Cardinality(UpTo(B, x)) # c + 1
    BY <1>2, <1>3, <1>5
  <2>2. Cardinality(UpTo(B, e)) = c + 1
    BY <1>2, <1>4
  <2> QED
    BY <2>1, <2>2 DEF B
<1> HIDE DEF Nth
<1>8. ASSUME NEW X, NEW n \in 1 .. Cardinality(X)
      PROVE  InIdOrder(X)[n] = CHOOSE x \in Nth(X, n) : TRUE
  BY DEF InIdOrder, Nth, UpTo
<1>9. ASSUME NEW n \in 1 .. c PROVE InIdOrder(B)[n] = InIdOrder(A)[n]
  <2>1. n \in 1 .. Cardinality(A) /\ n \in 1 .. Cardinality(B)
    BY <1>2 DEF c
  <2> QED
    BY <1>6, <1>8, <2>1
<1>10. InIdOrder(B)[c + 1] = e
  <2>1. c + 1 \in 1 .. Cardinality(B)
    BY <1>2
  <2>2. InIdOrder(B)[c + 1] = CHOOSE x \in {e} : TRUE
    BY <1>7, <1>8, <2>1
  <2> QED
    BY <2>2
<1> QED
  BY <1>2, <1>9, <1>10 DEF B, c

(* s is a sequence of c elements. *)
Elements(s, c) == s = [n \in 1 .. c |-> s[n]]

(* A sequence with the elements of another and one more is that one appended. *)
LEMMA AppendElement ==
  ASSUME NEW c \in Nat, NEW s, Elements(s, c), NEW t, NEW x,
         Elements(t, c + 1), \A n \in 1 .. c : t[n] = s[n], t[c + 1] = x
  PROVE  t = Append(s, x)
<1> DEFINE D == { s[n] : n \in 1 .. c } \union {x}
<1>1. s \in Seq(D) /\ x \in D
  BY DEF Elements
<1>2. Len(s) = c
  BY <1>1 DEF Elements
<1> HIDE DEF D
<1>3. /\ Append(s, x) \in Seq(D) /\ Len(Append(s, x)) = c + 1
      /\ \A n \in 1 .. c : Append(s, x)[n] = s[n]
      /\ Append(s, x)[c + 1] = x
  BY <1>1, <1>2
<1>4. Append(s, x) = [n \in 1 .. c + 1 |-> Append(s, x)[n]]
  BY <1>3 DEF Elements
<1>5. ASSUME NEW n \in 1 .. c + 1 PROVE Append(s, x)[n] = t[n]
  <2>1. CASE n = c + 1
    BY <1>3, <2>1
  <2>2. CASE n \in 1 .. c
    BY <1>3, <2>2
  <2> QED
    BY <2>1, <2>2 DEF Elements
<1> QED
  BY <1>4, <1>5 DEF Elements

(* An event that comes last is told after the others about its entity. *)
LEMMA StoryAppend ==
  ASSUME NEW A, IsFiniteSet(A), NEW e, e.id \in Nat, \A f \in A : f.id \in Nat /\ f.id < e.id
  PROVE  /\ Story(A \union {e}) = Append(Story(A), e.event.data)
         /\ A = {} => Story(A \union {e}) = <<e.event.data>>
<1> DEFINE B == A \union {e}  c == Cardinality(A)  s == Story(A)  t == Story(B)
<1>1. /\ c \in Nat /\ Cardinality(B) = c + 1
      /\ \A n \in 1 .. c : InIdOrder(B)[n] = InIdOrder(A)[n]
      /\ InIdOrder(B)[c + 1] = e
  BY LastInOrder
<1> HIDE DEF B, c
<1>2. /\ s = [n \in 1 .. c |-> InIdOrder(A)[n].event.data]
      /\ t = [n \in 1 .. c + 1 |-> InIdOrder(B)[n].event.data]
  BY <1>1 DEF Story, c
<1>3. \A n \in 1 .. c : n \in 1 .. c + 1
  BY <1>1
<1>4. /\ \A n \in 1 .. c : t[n] = s[n]
      /\ t[c + 1] = e.event.data
  BY <1>1, <1>2, <1>3
<1>5. Elements(s, c) /\ Elements(t, c + 1)
  BY <1>2 DEF Elements
<1> HIDE DEF s, t
<1>6. t = Append(s, e.event.data)
  BY ONLY <1>1, <1>4, <1>5, AppendElement
<1>7. A = {} => t = <<e.event.data>>
  <2> SUFFICES ASSUME A = {} PROVE t = <<e.event.data>>
    OBVIOUS
  <2>1. c = 0
    BY FS_EmptySet DEF c
  <2>2. t = [n \in 1 .. 1 |-> t[n]] /\ t[1] = e.event.data
    BY <1>4, <1>5, <2>1 DEF Elements
  <2> QED
    BY <2>2
<1> QED
  BY <1>6, <1>7 DEF s, t, B

(* So it is among all the stories. *)
LEMMA StoriesAppend ==
  ASSUME NEW A, IsFiniteSet(A), NEW e, e.id \in Nat, \A f \in A : f.id \in Nat /\ f.id < e.id,
         e.event.op = "emit"
  PROVE  Stories(A \union {e}) = Serial!Tell(Stories(A), e.event)
<1> DEFINE B == A \union {e}  k == e.event.key  X == AboutKey(A, k)  data == e.event.data
<1>1. /\ Stories(A) = [x \in Keyed(A) |-> Story(AboutKey(A, x))]
      /\ Stories(B) = [x \in Keyed(B) |-> Story(AboutKey(B, x))]
  BY DEF Stories
<1>2. Keyed(B) = Keyed(A) \union {k}
  BY DEF Keyed
<1>3. AboutKey(B, k) = X \union {e} /\ \A x : x # k => AboutKey(B, x) = AboutKey(A, x)
  BY DEF AboutKey
<1>4. X \subseteq A /\ (k \notin Keyed(A) => X = {})
  BY DEF AboutKey, Keyed
<1>5. IsFiniteSet(X) /\ \A f \in X : f.id \in Nat /\ f.id < e.id
  BY <1>4, FS_Subset
<1> HIDE DEF B, X
<1>6. /\ Story(AboutKey(B, k)) = Append(Story(X), data)
      /\ k \notin Keyed(A) => Story(AboutKey(B, k)) = <<data>>
  BY <1>3, <1>4, <1>5, StoryAppend
<1> HIDE DEF k, data
<1>7. CASE k \in Keyed(A)
  <2>1. Stories(A)[k] = Story(X)
    BY <1>1, <1>7 DEF X
  <2>2. Serial!Tell(Stories(A), e.event) = Serial!Put(Stories(A), k, Append(Story(X), data))
    BY <1>1, <1>7, <2>1 DEF Serial!Tell, k, data
  <2>3. DOMAIN Stories(A) = Keyed(A) /\ DOMAIN Stories(B) = Keyed(A) \union {k}
    BY <1>1, <1>2
  <2>4. ASSUME NEW x \in Keyed(A) \union {k}
        PROVE  Stories(B)[x] = IF x = k THEN Append(Story(X), data) ELSE Stories(A)[x]
    BY <1>1, <1>2, <1>3, <1>6
  <2>5. Stories(B) = Serial!Put(Stories(A), k, Append(Story(X), data))
    BY <1>1, <1>2, <2>3, <2>4 DEF Serial!Put
  <2> QED
    BY <2>2, <2>5 DEF B
<1>8. CASE k \notin Keyed(A)
  <2>1. Serial!Tell(Stories(A), e.event) = Serial!Put(Stories(A), k, <<data>>)
    BY <1>1, <1>8 DEF Serial!Tell, k, data
  <2>2. DOMAIN Stories(A) = Keyed(A) /\ DOMAIN Stories(B) = Keyed(A) \union {k}
    BY <1>1, <1>2
  <2>3. ASSUME NEW x \in Keyed(A) \union {k}
        PROVE  Stories(B)[x] = IF x = k THEN <<data>> ELSE Stories(A)[x]
    BY <1>1, <1>2, <1>3, <1>6, <1>8
  <2>4. Stories(B) = Serial!Put(Stories(A), k, <<data>>)
    BY <1>1, <1>2, <2>2, <2>3 DEF Serial!Put
  <2> QED
    BY <2>1, <2>4 DEF B
<1> QED
  BY <1>7, <1>8

(* What is told of the entities that events B are about once they join A. *)
Retold(A, B) == [k \in Keyed(B) |-> Story(AboutKey(A \union B, k))]

(* A set of events that joins is told over what was told before, and under   *)
(* the events of others that are about other entities.                       *)
LEMMA StoriesJoin ==
  ASSUME NEW A, NEW B, NEW C, Keyed(B) \intersect Keyed(C) = {}
  PROVE  /\ Stories(A \union B) = Over(Retold(A, B), Stories(A))
         /\ Stories((A \union B) \union C) = Over(Retold(A, B), Stories(A \union C))
<1> DEFINE M == Retold(A, B)
<1>1. /\ Keyed(A \union B) = Keyed(B) \union Keyed(A)
      /\ Keyed(A \union C) = Keyed(A) \union Keyed(C)
      /\ Keyed((A \union B) \union C) = Keyed(B) \union Keyed(A \union C)
  BY DEF Keyed
<1>2. ASSUME NEW k, k \notin Keyed(B)
      PROVE  /\ AboutKey(A \union B, k) = AboutKey(A, k)
             /\ AboutKey((A \union B) \union C, k) = AboutKey(A \union C, k)
  BY <1>2 DEF Keyed, AboutKey
<1>3. ASSUME NEW k \in Keyed(B)
      PROVE  AboutKey((A \union B) \union C, k) = AboutKey(A \union B, k)
  BY DEF Keyed, AboutKey
<1>4. ASSUME NEW X, NEW Y, Keyed(Y) = Keyed(B) \union Keyed(X),
             \A k \in Keyed(B) : Story(AboutKey(Y, k)) = M[k],
             \A k \in Keyed(X) : k \notin Keyed(B) => AboutKey(Y, k) = AboutKey(X, k)
      PROVE  Stories(Y) = Over(M, Stories(X))
  <2>1. /\ Stories(X) = [k \in Keyed(X) |-> Story(AboutKey(X, k))]
        /\ Stories(Y) = [k \in Keyed(Y) |-> Story(AboutKey(Y, k))]
    BY DEF Stories
  <2>2. DOMAIN M = Keyed(B) /\ DOMAIN Stories(X) = Keyed(X)
    BY <2>1 DEF Retold
  <2>3. ASSUME NEW k \in Keyed(Y)
        PROVE  Stories(Y)[k] = IF k \in Keyed(B) THEN M[k] ELSE Stories(X)[k]
    BY <1>4, <2>1
  <2> QED
    BY <1>4, <2>1, <2>2, <2>3 DEF Over
<1>5. \A k \in Keyed(B) : M[k] = Story(AboutKey(A \union B, k))
  BY DEF Retold
<1> HIDE DEF M
<1>6. Stories(A \union B) = Over(M, Stories(A))
  BY <1>1, <1>2, <1>4, <1>5
<1>7. Stories((A \union B) \union C) = Over(M, Stories(A \union C))
  BY <1>1, <1>2, <1>3, <1>4, <1>5
<1> QED
  BY <1>6, <1>7 DEF M

--------------------------------------------------------------------------------
(* What an open transaction made of the tables and stories, besides new      *)
(* contributors, is what its delivery's mark and the statements executed so  *)
(* far make of what is committed now, whenever it was that they saw it.      *)

Running(w) == pc[w] \in {"run", "link"}

HoldsMark(w) ==
  /\ pc[w] \in {"idle", "mark"} => mine[w] = <<>> /\ staged[w] = {}
  /\ Running(w) => MarkKey(cur[w]) \in DOMAIN mine[w] /\ ~Marked(cur[w])

InProgram(w) ==
  /\ Running(w) => ip[w] \in 1 .. Len(Program[cur[w]]) + 1
  /\ pc[w] = "link" => ip[w] <= Len(Program[cur[w]])

(* A link is there once it is resolved, and new if the transaction made it. *)
LinksHeld(w) ==
  /\ Running(w) => \A i \in 1 .. ip[w] - 1 :
       Program[cur[w]][i].op = "resolve" => Program[cur[w]][i].key \in DOMAIN View(w)
  /\ \A k \in DOMAIN mine[w] : k[1] = "identity_link" => k \notin DOMAIN store
  /\ pc[w] = "link" => reviewer[w] = <<"contributor", cur[w], Statement(w).key>>

(* The staged events are those of the statements executed. *)
EventsStaged(w) ==
  /\ IsFiniteSet(staged[w])
  /\ \A e \in staged[w] : /\ Running(w) /\ e.event.op = "emit"
                          /\ \E i \in 1 .. Len(Program[cur[w]]) : e.event = Program[cur[w]][i]
  /\ Running(w) => \A i \in 1 .. ip[w] - 1 :
       Program[cur[w]][i].op = "emit" => Program[cur[w]][i].key \in Keyed(staged[w])

AsIfAlone(w) ==
  /\ Kept(View(w)) = Serial!Executed(cur[w], Kept(store))[ip[w] - 1]
  /\ Stories(outbox \union staged[w]) = Serial!Told(cur[w], Stories(outbox))[ip[w] - 1]

WorkerSerial(w) ==
  /\ HoldsMark(w) /\ InProgram(w) /\ LinksHeld(w) /\ EventsStaged(w)
  /\ Running(w) => AsIfAlone(w)

SerialInv == IsFiniteSet(outbox) /\ \A w \in Workers : WorkerSerial(w)

(* Which rows are kept, and that they are the same. *)
LEMMA KeptRows ==
  ASSUME NEW T
  PROVE  /\ DOMAIN Kept(T) = { k \in DOMAIN T : k[1] # "contributor" }
         /\ \A k \in DOMAIN T : k[1] # "contributor" => k \in DOMAIN Kept(T) /\ Kept(T)[k] = T[k]
         /\ Kept(T) = [k \in DOMAIN Kept(T) |-> Kept(T)[k]]
BY DEF Kept

(* Rows are kept of each table as they are of one over the other. *)
LEMMA KeptOver ==
  ASSUME NEW M, NEW T
  PROVE  Kept(Over(M, T)) = Over(Kept(M), Kept(T))
BY DEF Kept, Over

(* A row that is put is kept, unless it is a contributor. *)
LEMMA KeptPut ==
  ASSUME NEW T, NEW k, NEW row
  PROVE  /\ k[1] # "contributor" => Kept(Put(T, k, row)) = Put(Kept(T), k, row)
         /\ k[1] = "contributor" => Kept(Put(T, k, row)) = Kept(T)
BY DEF Kept, Put

(* Putting the row that is there changes nothing. *)
LEMMA PutSame ==
  ASSUME NEW T, NEW k \in DOMAIN Kept(T), NEW row, row = Kept(T)[k]
  PROVE  Put(Kept(T), k, row) = Kept(T)
BY DEF Kept, Put

(* Tables that share no row may be laid over a third in any order. *)
LEMMA OverCommutes ==
  ASSUME NEW M, NEW N, NEW T, DOMAIN M \intersect DOMAIN N = {}
  PROVE  Over(M, Over(N, T)) = Over(N, Over(M, T))
BY DEF Over

(* What a transaction sees after it wrote a row. *)
LEMMA ViewWritten ==
  ASSUME IInv, NEW w \in Workers, NEW k, NEW row, Write(w, k, row), store' = store
  PROVE  View(w)' = Put(View(w), k, row)
<1>1. mine'[w] = Put(mine[w], k, row)
  BY DEF Write, IInv, TypeOK
<1> QED
  BY <1>1 DEF View, Over, Put

(* Of two transactions, neither is the other's delivery. *)
LEMMA OwnDelivery ==
  ASSUME IInv, NEW v \in Workers, NEW w \in Workers, v # w, Running(v), Running(w),
         HoldsMark(v), HoldsMark(w)
  PROVE  cur[v] # cur[w] /\ MarkKey(cur[w]) \notin DOMAIN mine[v]
<1>1. MarkKey(cur[w])[1] # "contributor"
  BY DEF MarkKey
<1>2. MarkKey(cur[w]) \notin DOMAIN mine[v]
  BY <1>1 DEF HoldsMark, IInv, OneWriter
<1> QED
  BY <1>2 DEF HoldsMark

(* Two transactions stage events of different entities: of one that has a    *)
(* row by its lock, of another since it is told of once.                     *)
LEMMA StagedApart ==
  ASSUME IInv, NEW v \in Workers, NEW w \in Workers, v # w,
         WorkerSerial(v), WorkerSerial(w)
  PROVE  Keyed(staged[v]) \intersect Keyed(staged[w]) = {}
<1> SUFFICES ASSUME NEW e \in staged[v], NEW f \in staged[w], e.event.key = f.event.key PROVE FALSE
  BY DEF Keyed
<1>1. /\ Running(v) /\ Running(w) /\ HoldsMark(v) /\ HoldsMark(w)
      /\ e.event.op = "emit" /\ f.event.op = "emit"
      /\ \E i \in 1 .. Len(Program[cur[v]]) : e.event = Program[cur[v]][i]
      /\ \E i \in 1 .. Len(Program[cur[w]]) : f.event = Program[cur[w]][i]
  BY DEF WorkerSerial, EventsStaged
<1>2. cur[v] # cur[w] /\ cur[v] \in Deliveries /\ cur[w] \in Deliveries
  BY <1>1, OwnDelivery DEF IInv, TypeOK, Running
<1>3. CASE HasRow(e.event.key)
  <2>1. e.event.key \in DOMAIN mine[v] /\ e.event.key \in DOMAIN mine[w]
    BY <1>3 DEF IInv, StagedLocked
  <2>2. e.event.key[1] # "contributor"
    BY <1>3 DEF HasRow
  <2> QED
    BY <2>1, <2>2 DEF IInv, OneWriter
<1>4. CASE ~HasRow(e.event.key)
  BY <1>1, <1>2, <1>4, CreatedOnce
<1> QED
  BY <1>3, <1>4

(* What one transaction executed touches no row that another wrote. *)
LEMMA TouchedApart ==
  ASSUME IInv, NEW v \in Workers, NEW w \in Workers, v # w, Running(w),
         WorkerSerial(v), WorkerSerial(w), NEW n \in 1 .. ip[w] - 1
  PROVE  Touched(Program[cur[w]][n]) \intersect DOMAIN mine[v] = {}
<1> DEFINE prog == Program[cur[w]]
<1>1. cur[w] \in Deliveries /\ ip[w] \in Nat /\ Len(prog) \in Nat /\ ip[w] - 1 \in 0 .. Len(prog)
  <2>1. cur[w] \in Deliveries /\ ip[w] \in Nat \ {0}
    BY DEF IInv, TypeOK, Running, Open
  <2>2. ip[w] \in 1 .. Len(prog) + 1
    BY DEF WorkerSerial, InProgram
  <2>3. Len(prog) \in Nat
    BY <2>1, WriteModelAssumption
  <2> QED
    BY <2>1, <2>2, <2>3
<1>2. n \in 1 .. Len(prog)
  BY <1>1
<1>3. ASSUME NEW i \in 1 .. n, prog[i].op \in Writes \union {"resolve"}
      PROVE  prog[i].key \notin DOMAIN mine[v]
  <2>1. i \in 1 .. Len(prog) /\ i < ip[w] /\ i \in 1 .. ip[w] - 1
    BY <1>1, <1>2
  <2>2. KeyFits(prog[i])
    BY <1>1, <2>1, WriteModelAssumption
  <2>3. CASE prog[i].op \in Writes
    <3>1. prog[i].key \in DOMAIN mine[w]
      BY <2>1, <2>3 DEF IInv, LocksKept, Running
    <3>2. prog[i].key[1] # "contributor"
      BY <2>2, <2>3 DEF KeyFits, Writes
    <3> QED
      BY <3>1, <3>2 DEF IInv, OneWriter
  <2>4. CASE prog[i].op = "resolve"
    <3>1. prog[i].key[1] = "identity_link"
      BY <2>2, <2>4 DEF KeyFits
    <3>2. prog[i].key \in DOMAIN mine[w] \union DOMAIN store
      BY <2>1, <2>4, ViewOf DEF WorkerSerial, LinksHeld
    <3>3. prog[i].key \in DOMAIN mine[v] => prog[i].key \notin DOMAIN store
      BY <3>1 DEF WorkerSerial, LinksHeld
    <3> QED
      BY <3>1, <3>2, <3>3 DEF IInv, OneWriter
  <2> QED
    BY <1>3, <2>3, <2>4
<1>4. prog[n].op \in Writes \union {"resolve"} => prog[n].key \notin DOMAIN mine[v]
  BY <1>2, <1>3
<1>5. prog[n].op = "review" =>
        {prog[n].item, prog[n].login} \intersect DOMAIN mine[v] = {}
  <2> SUFFICES ASSUME prog[n].op = "review", NEW k \in {prog[n].item, prog[n].login}
               PROVE  k \notin DOMAIN mine[v]
    OBVIOUS
  <2>1. PICK i \in 1 .. n - 1 : prog[i].op \in Writes \union {"resolve"} /\ prog[i].key = k
    BY <1>1, <1>2, ReviewReads
  <2>2. i \in 1 .. n
    BY <1>2
  <2> QED
    BY <1>3, <2>1, <2>2
<1> QED
  BY <1>4, <1>5 DEF Touched

--------------------------------------------------------------------------------
(* Steps keep it: first, what a step does not touch. *)

(* A worker that a step leaves alone, with tables and outbox, is as it was. *)
LEMMA OthersSerial ==
  ASSUME NEW v, WorkerSerial(v), UNCHANGED <<store, outbox>>, pc'[v] = pc[v], cur'[v] = cur[v],
         ip'[v] = ip[v], mine'[v] = mine[v], staged'[v] = staged[v], reviewer'[v] = reviewer[v]
  PROVE  WorkerSerial(v)'
<1>1. /\ View(v)' = View(v) /\ Statement(v)' = Statement(v) /\ (Running(v)' <=> Running(v))
      /\ \A d : Marked(d)' <=> Marked(d)
  BY DEF View, Statement, Running, Marked
<1>2. HoldsMark(v)' /\ InProgram(v)'
  BY <1>1 DEF WorkerSerial, HoldsMark, InProgram
<1>3. LinksHeld(v)'
  BY <1>1 DEF WorkerSerial, LinksHeld
<1>4. EventsStaged(v)'
  BY <1>1 DEF WorkerSerial, EventsStaged
<1>5. Running(v)' => AsIfAlone(v)'
  BY <1>1 DEF WorkerSerial, AsIfAlone
<1> QED
  BY <1>2, <1>3, <1>4, <1>5 DEF WorkerSerial

(* A worker that holds nothing has nothing to account for. *)
LEMMA FreshSerial ==
  ASSUME NEW v, pc'[v] \in {"idle", "mark"}, mine'[v] = <<>>, staged'[v] = {}
  PROVE  WorkerSerial(v)'
<1>1. ~Running(v)' /\ pc'[v] # "link"
  BY DEF Running
<1>2. IsFiniteSet(staged'[v])
  BY FS_EmptySet
<1>3. DOMAIN mine'[v] = {}
  OBVIOUS
<1> QED
  BY <1>1, <1>2, <1>3 DEF WorkerSerial, HoldsMark, InProgram, LinksHeld, EventsStaged

(* A worker at a statement is in its program. *)
LEMMA InStatement ==
  ASSUME IInv, NEW w \in Workers, Running(w), ip[w] <= Len(Program[cur[w]])
  PROVE  /\ cur[w] \in Deliveries /\ Len(Program[cur[w]]) \in Nat
         /\ ip[w] \in 1 .. Len(Program[cur[w]]) /\ Statement(w) = Program[cur[w]][ip[w]]
         /\ (ip[w] + 1) - 1 = ip[w]
         /\ ip[w] - 1 \in Nat /\ ip[w] + 1 \in 1 .. Len(Program[cur[w]]) + 1
         /\ \A i \in 1 .. ip[w] : i \in 1 .. ip[w] - 1 \/ i = ip[w]
<1>1. cur[w] \in Deliveries /\ ip[w] \in Nat \ {0}
  BY DEF IInv, TypeOK, Running, Open
<1>2. Len(Program[cur[w]]) \in Nat
  BY <1>1, WriteModelAssumption
<1> QED
  BY <1>1, <1>2 DEF Statement

(* A statement that makes of w's view what it makes of tables and stories    *)
(* when deliveries are applied one after another keeps the invariant.        *)
LEMMA StatementSerial ==
  ASSUME IInv, NEW w \in Workers, WorkerSerial(w), Running(w), ip[w] <= Len(Program[cur[w]]),
         UNCHANGED <<store, outbox, cur>>, pc'[w] = "run", ip'[w] = ip[w] + 1,
         DOMAIN mine[w] \subseteq DOMAIN mine'[w],
         Statement(w).op = "resolve" => Statement(w).key \in DOMAIN View(w)',
         \A k \in DOMAIN mine'[w] : k[1] = "identity_link" => k \notin DOMAIN store,
         EventsStaged(w)',
         Kept(View(w)') = Serial!Execute(cur[w], Kept(View(w)), Statement(w)),
         Stories(outbox \union staged'[w])
           = Serial!Tell(Stories(outbox \union staged[w]), Statement(w))
  PROVE  WorkerSerial(w)'
<1> DEFINE d == cur[w]  n == ip[w]
<1>1. /\ d \in Deliveries /\ Len(Program[d]) \in Nat
      /\ n \in 1 .. Len(Program[d]) /\ Statement(w) = Program[d][n]
      /\ (n + 1) - 1 = n
      /\ n - 1 \in Nat /\ n + 1 \in 1 .. Len(Program[d]) + 1
      /\ \A i \in 1 .. n : i \in 1 .. n - 1 \/ i = n
  BY InStatement
<1>2. Running(w)' /\ pc'[w] # "link" /\ cur'[w] = d /\ ip'[w] = n + 1
  BY DEF Running
<1>3. HoldsMark(w)' /\ InProgram(w)'
  BY <1>1, <1>2 DEF WorkerSerial, HoldsMark, InProgram, Marked, Running
<1>4. LinksHeld(w)'
  <2>1. DOMAIN View(w) \subseteq DOMAIN View(w)'
    BY DEF View, Over
  <2>2. ASSUME NEW i \in 1 .. n, Program[d][i].op = "resolve"
        PROVE  Program[d][i].key \in DOMAIN View(w)'
    <3>1. CASE i = n
      BY <1>1, <2>2, <3>1
    <3>2. CASE i \in 1 .. n - 1
      BY <2>1, <2>2, <3>2 DEF WorkerSerial, LinksHeld
    <3> QED
      BY <1>1, <3>1, <3>2
  <2> QED
    BY <1>1, <1>2, <2>2 DEF LinksHeld
<1>5. AsIfAlone(w)'
  <2>1. /\ Kept(View(w)) = Serial!Executed(d, Kept(store))[n - 1]
        /\ Stories(outbox \union staged[w]) = Serial!Told(d, Stories(outbox))[n - 1]
    BY DEF WorkerSerial, AsIfAlone
  <2>2. /\ Serial!Executed(d, Kept(store))[n]
             = Serial!Execute(d, Serial!Executed(d, Kept(store))[n - 1], Program[d][n])
        /\ Serial!Told(d, Stories(outbox))[n]
             = Serial!Tell(Serial!Told(d, Stories(outbox))[n - 1], Program[d][n])
    <3> DEFINE T == Kept(store)  S == Stories(outbox)
    <3> HIDE DEF T, S, d, n
    <3>1. Serial!Executed(d, T)[n] = Serial!Execute(d, Serial!Executed(d, T)[n - 1], Program[d][n])
      BY ONLY <1>1, ExecutedSteps
    <3>2. Serial!Told(d, S)[n] = Serial!Tell(Serial!Told(d, S)[n - 1], Program[d][n])
      BY ONLY <1>1, ToldSteps
    <3> QED
      BY <3>1, <3>2 DEF T, S
  <2>3. /\ Kept(View(w)') = Serial!Executed(d, Kept(store))[n]
        /\ Stories(outbox \union staged'[w]) = Serial!Told(d, Stories(outbox))[n]
    BY <1>1, <2>1, <2>2
  <2> QED
    BY <1>1, <1>2, <2>3 DEF AsIfAlone
<1> QED
  BY <1>3, <1>4, <1>5 DEF WorkerSerial

(* A statement that writes rows tells nothing. *)
LEMMA RowSerial ==
  ASSUME IInv, NEW w \in Workers, WorkerSerial(w), Running(w), ip[w] <= Len(Program[cur[w]]),
         Statement(w).op \in Writes \union {"resolve"},
         UNCHANGED <<store, outbox, cur, staged>>, pc'[w] = "run", ip'[w] = ip[w] + 1,
         DOMAIN mine[w] \subseteq DOMAIN mine'[w],
         Statement(w).op = "resolve" => Statement(w).key \in DOMAIN View(w)',
         \A k \in DOMAIN mine'[w] : k[1] = "identity_link" => k \notin DOMAIN store,
         Kept(View(w)') = Serial!Execute(cur[w], Kept(View(w)), Statement(w))
  PROVE  WorkerSerial(w)'
<1> DEFINE d == cur[w]  n == ip[w]
<1>1. /\ n \in 1 .. Len(Program[d]) /\ Statement(w) = Program[d][n] /\ (n + 1) - 1 = n
      /\ \A i \in 1 .. n : i \in 1 .. n - 1 \/ i = n
  BY InStatement
<1>2. Statement(w).op # "emit"
  BY DEF Writes
<1>3. Running(w)' /\ cur'[w] = d /\ ip'[w] = n + 1
  BY DEF Running
<1>4. EventsStaged(w)'
  <2>1. ASSUME NEW i \in 1 .. n, Program[d][i].op = "emit"
        PROVE  Program[d][i].key \in Keyed(staged[w])
    <3>1. i \in 1 .. n - 1
      BY <1>1, <1>2, <2>1
    <3> QED
      BY <2>1, <3>1 DEF WorkerSerial, EventsStaged
  <2>2. /\ IsFiniteSet(staged[w])
        /\ \A e \in staged[w] : /\ e.event.op = "emit"
                                /\ \E i \in 1 .. Len(Program[d]) : e.event = Program[d][i]
    BY DEF WorkerSerial, EventsStaged
  <2> QED
    BY <1>1, <1>3, <2>1, <2>2 DEF EventsStaged
<1>5. Serial!Tell(Stories(outbox \union staged[w]), Statement(w)) = Stories(outbox \union staged[w])
  BY <1>2 DEF Serial!Tell
<1> QED
  BY <1>4, <1>5, StatementSerial

--------------------------------------------------------------------------------
(* Each statement does to w's view what it does to the promise's tables. *)

(* A statement that writes its row: upsert, ensure, review. *)
LEMMA WrittenSerial ==
  ASSUME IInv, NEW w \in Workers, WorkerSerial(w), NEW op \in Writes, At(w, op),
         NEW k, NEW row, k = Statement(w).key, Write(w, k, row), NextStatement(w),
         UNCHANGED <<pc, staged>>,
         Put(Kept(View(w)), k, row) = Serial!Execute(cur[w], Kept(View(w)), Statement(w))
  PROVE  WorkerSerial(w)'
<1>1. /\ KeyFits(Statement(w)) /\ Statement(w).op = op
  BY StatementKey
<1>2. k[1] # "contributor" /\ k[1] # "identity_link"
  BY <1>1 DEF KeyFits, Writes
<1>3. /\ pc[w] = "run" /\ ip[w] <= Len(Program[cur[w]])
      /\ ip'[w] = ip[w] + 1 /\ UNCHANGED <<store, outbox, cur>>
  BY DEF At, NextStatement, IInv, TypeOK
<1>4. DOMAIN mine'[w] = DOMAIN mine[w] \union {k}
  BY WrittenRow
<1>5. Kept(View(w)') = Serial!Execute(cur[w], Kept(View(w)), Statement(w))
  BY <1>2, <1>3, ViewWritten, KeptPut
<1>6. \A x \in DOMAIN mine'[w] : x[1] = "identity_link" => x \notin DOMAIN store
  BY <1>2, <1>4 DEF WorkerSerial, LinksHeld
<1>7. Statement(w).op \in Writes \union {"resolve"} /\ Statement(w).op # "resolve"
  BY <1>1 DEF Writes
<1> QED
  BY <1>3, <1>4, <1>5, <1>6, <1>7, RowSerial DEF Running

(* A row has in the view what it has among those kept. *)
LEMMA KeptView ==
  ASSUME NEW w, NEW k, k[1] # "contributor"
  PROVE  /\ k \in DOMAIN View(w) <=> k \in DOMAIN Kept(View(w))
         /\ k \in DOMAIN View(w) => Kept(View(w))[k] = View(w)[k]
BY KeptRows

(* An upsert refreshes. *)
LEMMA UpsertSerial ==
  ASSUME IInv, NEW w \in Workers, WorkerSerial(w), Upsert(w)
  PROVE  WorkerSerial(w)'
<1> DEFINE k == Statement(w).key
           fresh == [uuid |-> cur[w], data |-> Statement(w).data]
           row == IF k \in DOMAIN View(w) THEN [View(w)[k] EXCEPT !.data = Statement(w).data]
                  ELSE fresh
           T == Kept(View(w))
<1>1. At(w, "upsert") /\ Write(w, k, row) /\ NextStatement(w) /\ UNCHANGED <<pc, staged>>
  BY DEF Upsert
<1>2. Statement(w).op = "upsert" /\ k[1] # "contributor"
  BY <1>1, StatementKey DEF KeyFits
<1>3. row = IF k \in DOMAIN T THEN [T[k] EXCEPT !.data = Statement(w).data] ELSE fresh
  BY <1>2, KeptView
<1> HIDE DEF k, row, T
<1>4. Put(T, k, row) = Serial!Execute(cur[w], T, Statement(w))
  BY <1>2, <1>3, SamePut DEF Serial!Execute, Serial!Refresh, k
<1> QED
  BY <1>1, <1>4, WrittenSerial DEF Writes, k, T

(* An ensured row is kept. *)
LEMMA EnsureSerial ==
  ASSUME IInv, NEW w \in Workers, WorkerSerial(w), Ensure(w)
  PROVE  WorkerSerial(w)'
<1> DEFINE k == Statement(w).key
           fresh == [uuid |-> cur[w], data |-> Statement(w).data]
           row == IF k \in DOMAIN View(w) THEN View(w)[k] ELSE fresh
           T == Kept(View(w))
<1>1. At(w, "ensure") /\ Write(w, k, row) /\ NextStatement(w) /\ UNCHANGED <<pc, staged>>
  BY DEF Ensure
<1>2. Statement(w).op = "ensure" /\ k[1] # "contributor"
  BY <1>1, StatementKey DEF KeyFits
<1>3. row = IF k \in DOMAIN T THEN T[k] ELSE fresh
  BY <1>2, KeptView
<1> HIDE DEF k, row, T
<1>4. Put(T, k, row) = Serial!Execute(cur[w], T, Statement(w))
  BY <1>2, <1>3, SamePut DEF Serial!Execute, Serial!Keep, k
<1> QED
  BY <1>1, <1>4, WrittenSerial DEF Writes, k, T

(* A review finds the row and the link of what it is linked to. *)
LEMMA ReviewFinds ==
  ASSUME IInv, ResolveInv, NEW w \in Workers, At(w, "review")
  PROVE  LET st == Statement(w) IN
         /\ {st.item, st.login} \subseteq DOMAIN View(w)
         /\ {st.key[1], st.item[1], st.login[1]} \intersect {"contributor"} = {}
         /\ reviewer[w] = View(w)[st.login].contributor
<1> DEFINE prog == Program[cur[w]]  st == Statement(w)
<1>1. /\ cur[w] \in Deliveries /\ ip[w] \in 1 .. Len(prog) /\ st = prog[ip[w]]
      /\ st.op = "review" /\ pc[w] = "run"
  BY StatementKey DEF At
<1>2. /\ st.key[1] = "review" /\ st.item[1] \in Items /\ st.login[1] = "identity_link"
  BY <1>1, ReviewKeys
<1>3. st.login \in DOMAIN View(w) /\ reviewer[w] = View(w)[st.login].contributor
  BY DEF ResolveInv, WorkerResolves, ReviewerKnown
<1>4. st.item \in DOMAIN mine[w]
  <2>1. PICK i \in 1 .. ip[w] - 1 :
               prog[i].op \in Writes \union {"resolve"} /\ prog[i].key = st.item
    BY <1>1, ReviewReads
  <2>2. i \in 1 .. Len(prog) /\ i < ip[w]
    <3>1. Len(prog) \in Nat
      BY <1>1, WriteModelAssumption
    <3> QED
      BY <1>1, <3>1
  <2>3. prog[i].op \in Writes
    BY <1>1, <1>2, <2>1, <2>2, WriteModelAssumption DEF KeyFits, Items
  <2> QED
    BY <1>1, <2>1, <2>2, <2>3 DEF IInv, LocksKept
<1> QED
  BY <1>2, <1>3, <1>4, ViewOf DEF Items

(* A review is inserted with what the promise finds in its tables. *)
LEMMA InsertReviewSerial ==
  ASSUME IInv, ResolveInv, NEW w \in Workers, WorkerSerial(w), InsertReview(w)
  PROVE  WorkerSerial(w)'
<1> DEFINE st == Statement(w)  k == st.key  T == Kept(View(w))
           fresh == [ uuid |-> cur[w], data |-> st.data,
                      item |-> View(w)[st.item].uuid, reviewer |-> reviewer[w] ]
           found == [ uuid |-> cur[w], data |-> st.data,
                      item |-> T[st.item].uuid, reviewer |-> T[st.login].contributor ]
           row == IF k \in DOMAIN View(w) THEN [View(w)[k] EXCEPT !.data = st.data] ELSE fresh
<1>1. At(w, "review") /\ Write(w, k, row) /\ NextStatement(w) /\ UNCHANGED <<pc, staged>>
  BY DEF InsertReview
<1>2. /\ {st.item, st.login} \subseteq DOMAIN View(w)
      /\ {k[1], st.item[1], st.login[1]} \intersect {"contributor"} = {}
      /\ reviewer[w] = View(w)[st.login].contributor
  BY <1>1, ReviewFinds
<1>3. st.op = "review"
  BY <1>1, StatementKey
<1>4. fresh = found
  <2>1. T[st.item] = View(w)[st.item] /\ T[st.login] = View(w)[st.login]
    BY <1>2, KeptView
  <2> QED
    BY <1>2, <2>1
<1>5. row = IF k \in DOMAIN T THEN [T[k] EXCEPT !.data = st.data] ELSE found
  BY <1>2, <1>4, KeptView
<1>6. Put(T, k, row) = Serial!Execute(cur[w], T, st)
  <2> HIDE DEF row, T
  <2> QED
    BY <1>3, <1>5, SamePut DEF Serial!Execute, Serial!Refresh
<1> HIDE DEF row
<1> QED
  BY <1>1, <1>6, WrittenSerial DEF Writes

--------------------------------------------------------------------------------
(* A link that is there is kept. *)
LEMMA LinkThere ==
  ASSUME IInv, NEW w \in Workers, WorkerSerial(w), Running(w), ip[w] <= Len(Program[cur[w]]),
         Statement(w).op = "resolve", Statement(w).key \in DOMAIN View(w),
         UNCHANGED <<store, outbox, cur, staged, mine>>, pc'[w] = "run", ip'[w] = ip[w] + 1
  PROVE  WorkerSerial(w)'
<1> DEFINE k == Statement(w).key  T == Kept(View(w))
           fresh == [contributor |-> <<"contributor", cur[w], k>>]
<1>1. View(w)' = View(w)
  BY DEF View
<1>2. k[1] = "identity_link"
  BY InStatement, WriteModelAssumption DEF KeyFits
<1>3. k \in DOMAIN T
  BY <1>2, KeptView
<1>4. Serial!Execute(cur[w], T, Statement(w)) = Serial!Keep(T, k, fresh)
  BY DEF Serial!Execute
<1>5. Serial!Keep(T, k, fresh) = Put(T, k, T[k])
  <2> HIDE DEF T, k, fresh
  <2> QED
    BY <1>3, SamePut DEF Serial!Keep
<1>6. Put(T, k, T[k]) = T
  <2> HIDE DEF k
  <2> QED
    BY <1>3, PutSame
<1>7. Kept(View(w)') = Serial!Execute(cur[w], Kept(View(w)), Statement(w))
  BY <1>1, <1>4, <1>5, <1>6
<1>8. \A x \in DOMAIN mine'[w] : x[1] = "identity_link" => x \notin DOMAIN store
  BY DEF WorkerSerial, LinksHeld
<1> QED
  BY <1>1, <1>7, <1>8, RowSerial

(* A new contributor is no row that is kept; the link will be. *)
LEMMA SelectLinkSerial ==
  ASSUME IInv, ResolveInv, NEW w \in Workers, WorkerSerial(w), SelectLink(w)
  PROVE  WorkerSerial(w)'
<1> DEFINE k == Statement(w).key  new == <<"contributor", cur[w], k>>
<1>1. /\ pc[w] = "run" /\ ip[w] <= Len(Program[cur[w]]) /\ Statement(w).op = "resolve"
      /\ staged' = staged /\ Running(w)
  BY DEF SelectLink, At, Running
<1>2. CASE /\ k \in DOMAIN View(w) /\ NextStatement(w) /\ UNCHANGED <<pc, mine>>
  <2>1. UNCHANGED <<store, outbox, cur>> /\ pc'[w] = "run" /\ ip'[w] = ip[w] + 1
    BY <1>1, <1>2 DEF NextStatement, IInv, TypeOK
  <2> QED
    BY <1>1, <1>2, <2>1, LinkThere
<1>3. CASE /\ reviewer' = [reviewer EXCEPT ![w] = new]
           /\ Write(w, new, [uuid |-> new]) /\ Goto(w, "link")
           /\ UNCHANGED <<arrived, tries, store, outbox, cur, ip>>
  <2>1. /\ pc'[w] = "link" /\ reviewer'[w] = new /\ Running(w)'
        /\ Statement(w)' = Statement(w) /\ staged'[w] = staged[w]
    BY <1>1, <1>3 DEF Goto, IInv, TypeOK, ResolveInv, Running, Statement
  <2>2. DOMAIN mine'[w] = DOMAIN mine[w] \union {new} /\ new[1] = "contributor"
    BY <1>3, WrittenRow
  <2>3. Kept(View(w)') = Kept(View(w))
    BY <1>3, <2>2, ViewWritten, KeptPut
  <2>4. DOMAIN View(w) \subseteq DOMAIN View(w)'
    BY <1>3, <2>2 DEF View, Over
  <2>5. HoldsMark(w)' /\ InProgram(w)'
    BY <1>1, <1>3, <2>1, <2>2 DEF WorkerSerial, HoldsMark, InProgram, Running, Marked
  <2>6. LinksHeld(w)'
    BY <1>1, <1>3, <2>1, <2>2, <2>4 DEF WorkerSerial, LinksHeld
  <2>7. EventsStaged(w)'
    BY <1>1, <1>3, <2>1 DEF WorkerSerial, EventsStaged
  <2>8. AsIfAlone(w)'
    BY <1>1, <1>3, <2>1, <2>3 DEF WorkerSerial, AsIfAlone
  <2> QED
    BY <2>5, <2>6, <2>7, <2>8 DEF WorkerSerial
<1> QED
  BY <1>2, <1>3 DEF SelectLink

(* The link inserted is the promise's; one that was committed in the meantime *)
(* is what the promise finds.                                                  *)
LEMMA InsertLinkSerial ==
  ASSUME IInv, ResolveInv, NEW w \in Workers, WorkerSerial(w), InsertLink(w)
  PROVE  WorkerSerial(w)'
<1> DEFINE k == Statement(w).key  row == [contributor |-> reviewer[w]]  T == Kept(View(w))
<1>1. /\ pc[w] = "link" /\ Running(w) /\ Statement(w).op = "resolve"
      /\ UNCHANGED <<store, outbox, cur, staged>> /\ pc'[w] = "run" /\ ip'[w] = ip[w] + 1
  BY DEF InsertLink, Running, Goto, NextStatement, IInv, TypeOK
<1>2. ip[w] <= Len(Program[cur[w]])
  BY <1>1 DEF WorkerSerial, InProgram
<1>3. k \notin DOMAIN mine[w] /\ k[1] = "identity_link" /\ reviewer[w] = <<"contributor", cur[w], k>>
  BY <1>1 DEF ResolveInv, WorkerResolves, ReviewerKnown, WorkerSerial, LinksHeld
<1>4. CASE k \in DOMAIN store /\ UNCHANGED mine
  <2>1. k \in DOMAIN View(w)
    BY <1>4, ViewOf
  <2> QED
    BY <1>1, <1>2, <1>4, <2>1, LinkThere
<1>5. CASE k \notin DOMAIN store /\ Write(w, k, row)
  <2>1. DOMAIN mine'[w] = DOMAIN mine[w] \union {k}
    BY <1>5, WrittenRow
  <2>2. k \notin DOMAIN T
    BY <1>3, <1>5, ViewOf, KeptView
  <2>3. Kept(View(w)') = Put(T, k, row)
    BY <1>1, <1>3, <1>5, ViewWritten, KeptPut
  <2>4. Serial!Execute(cur[w], T, Statement(w)) = Put(T, k, row)
    BY <1>1, <1>3, <2>2, SamePut DEF Serial!Execute, Serial!Keep
  <2>5. \A x \in DOMAIN mine'[w] : x[1] = "identity_link" => x \notin DOMAIN store
    BY <1>5, <2>1 DEF WorkerSerial, LinksHeld
  <2>6. k \in DOMAIN View(w)'
    BY <2>1 DEF View, Over
  <2> QED
    BY <1>1, <1>2, <2>1, <2>3, <2>4, <2>5, <2>6, RowSerial
<1> QED
  BY <1>4, <1>5 DEF InsertLink

(* A staged event has the greatest id of all. *)
LEMMA EnqueueOutboxSerial ==
  ASSUME IInv, SerialInv, NEW w \in Workers, EnqueueOutbox(w)
  PROVE  WorkerSerial(w)'
<1> DEFINE d == cur[w]  st == Statement(w)  A == outbox \union staged[w]
           new == [id |-> nextId, delivery |-> d, event |-> st]
<1>1. /\ pc[w] = "run" /\ Running(w) /\ ip[w] <= Len(Program[d]) /\ st.op = "emit"
      /\ staged' = [staged EXCEPT ![w] = @ \union {new}]
      /\ UNCHANGED <<store, outbox, cur, pc, mine>> /\ ip'[w] = ip[w] + 1
  BY DEF EnqueueOutbox, At, Running, NextStatement, IInv, TypeOK
<1>2. WorkerSerial(w) /\ IsFiniteSet(outbox) /\ IsFiniteSet(staged[w])
  BY DEF SerialInv, WorkerSerial, EventsStaged
<1>3. staged'[w] = staged[w] \union {new} /\ outbox \union staged'[w] = A \union {new}
  BY <1>1 DEF IInv, TypeOK
<1>4. View(w)' = View(w)
  BY <1>1 DEF View
<1>5. Kept(View(w)') = Serial!Execute(d, Kept(View(w)), st)
  BY <1>1, <1>4 DEF Serial!Execute
<1>6. Stories(A \union {new}) = Serial!Tell(Stories(A), st)
  <2>1. IsFiniteSet(A)
    BY <1>2, FS_Union
  <2>2. nextId \in Nat /\ \A f \in A : f.id \in Nat /\ f.id < nextId
    BY DEF IInv, TypeOK, IdsDrawn
  <2>3. new.id = nextId /\ new.event = st
    OBVIOUS
  <2> HIDE DEF A, new
  <2>4. Stories(A \union {new}) = Serial!Tell(Stories(A), new.event)
    BY <1>1, <2>1, <2>2, <2>3, StoriesAppend
  <2> QED
    BY <2>3, <2>4
<1>7. EventsStaged(w)'
  <2>1. /\ ip[w] \in 1 .. Len(Program[d]) /\ st = Program[d][ip[w]]
        /\ (ip[w] + 1) - 1 = ip[w]
        /\ \A i \in 1 .. ip[w] : i \in 1 .. ip[w] - 1 \/ i = ip[w]
    BY <1>1, InStatement
  <2>2. IsFiniteSet(staged'[w])
    <3> HIDE DEF new
    <3>1. IsFiniteSet(staged[w] \union {new})
      BY <1>2, FS_AddElement
    <3> QED
      BY <1>3, <3>1
  <2>3. Running(w)'
    BY <1>1 DEF Running
  <2>4. \A e \in staged'[w] : /\ e.event.op = "emit"
                              /\ \E i \in 1 .. Len(Program[d]) : e.event = Program[d][i]
    <3>1. new.event = st
      OBVIOUS
    <3> HIDE DEF new
    <3> QED
      BY <1>1, <1>2, <1>3, <2>1, <3>1 DEF WorkerSerial, EventsStaged
  <2>5. ASSUME NEW i \in 1 .. ip[w], Program[d][i].op = "emit"
        PROVE  Program[d][i].key \in Keyed(staged'[w])
    <3>1. CASE i = ip[w]
      <4>1. new \in staged'[w] /\ new.event.key = Program[d][i].key
        BY <1>3, <2>1, <3>1
      <4> HIDE DEF new
      <4> QED
        BY <4>1 DEF Keyed
    <3>2. CASE i \in 1 .. ip[w] - 1
      BY <1>2, <1>1, <1>3, <2>5, <3>2 DEF WorkerSerial, EventsStaged, Keyed
    <3> QED
      BY <2>1, <3>1, <3>2
  <2> QED
    BY <1>1, <2>1, <2>2, <2>3, <2>4, <2>5 DEF EventsStaged
<1>8. \A k \in DOMAIN mine'[w] : k[1] = "identity_link" => k \notin DOMAIN store
  BY <1>1, <1>2 DEF WorkerSerial, LinksHeld
<1> QED
  BY <1>1, <1>2, <1>3, <1>5, <1>6, <1>7, <1>8, StatementSerial

--------------------------------------------------------------------------------
(* The ends of a transaction. *)

(* A transaction starts with its mark. *)
LEMMA MarkSerial ==
  ASSUME IInv, NEW w \in Workers, WorkerSerial(w), pc[w] = "mark", ~Marked(cur[w]),
         NEW k, NEW row, k = MarkKey(cur[w]), row = [uuid |-> cur[w]], Write(w, k, row),
         Goto(w, "run"), UNCHANGED <<store, outbox, cur, ip, staged>>
  PROVE  WorkerSerial(w)'
<1>1. /\ mine[w] = <<>> /\ staged[w] = {} /\ staged'[w] = {}
      /\ ip'[w] = 1 /\ ip'[w] - 1 = 0 /\ cur'[w] = cur[w] /\ cur[w] \in Deliveries
      /\ pc'[w] = "run" /\ Running(w)'
  BY DEF WorkerSerial, HoldsMark, Goto, IInv, TypeOK, Open, Running
<1>2. k[1] = "processed_delivery"
  BY DEF MarkKey
<1>3. DOMAIN mine'[w] = {k}
  BY <1>1, WrittenRow
<1>4. HoldsMark(w)'
  BY <1>1, <1>3 DEF HoldsMark, Marked
<1>5. InProgram(w)'
  <2>1. Len(Program[cur[w]]) \in Nat
    BY <1>1, WriteModelAssumption
  <2> QED
    BY <1>1, <2>1 DEF InProgram
<1>6. LinksHeld(w)'
  BY <1>1, <1>2, <1>3 DEF LinksHeld
<1>7. EventsStaged(w)'
  BY <1>1, FS_EmptySet DEF EventsStaged
<1>8. AsIfAlone(w)'
  <2>1. Kept(View(w)) = Kept(store)
    BY <1>1 DEF View, Over, Kept
  <2>2. Kept(View(w)') = Put(Kept(store), k, row)
    BY <1>2, <2>1, ViewWritten, KeptPut
  <2>3. /\ Serial!Executed(cur[w], Kept(store))[0] = Put(Kept(store), k, row)
        /\ Serial!Told(cur[w], Stories(outbox))[0] = Stories(outbox)
    BY <1>1, ExecutedSteps, ToldSteps
  <2>4. outbox \union staged'[w] = outbox
    BY <1>1
  <2> QED
    BY <1>1, <2>2, <2>3, <2>4 DEF AsIfAlone
<1> QED
  BY <1>4, <1>5, <1>6, <1>7, <1>8 DEF WorkerSerial

(* It ends with nothing. *)
LEMMA EndSerial ==
  ASSUME IInv, NEW w \in Workers, EndTx(w)
  PROVE  /\ WorkerSerial(w)'
         /\ \A v \in Workers : v # w =>
              /\ pc'[v] = pc[v] /\ cur'[v] = cur[v] /\ ip'[v] = ip[v] /\ mine'[v] = mine[v]
              /\ staged'[v] = staged[v] /\ reviewer'[v] = reviewer[v]
<1>1. pc'[w] = "idle" /\ mine'[w] = <<>> /\ staged'[w] = {}
  BY DEF EndTx, Goto, IInv, TypeOK
<1>2. WorkerSerial(w)'
  BY <1>1, FreshSerial
<1>3. \A v \in Workers : v # w =>
              /\ pc'[v] = pc[v] /\ cur'[v] = cur[v] /\ ip'[v] = ip[v] /\ mine'[v] = mine[v]
              /\ staged'[v] = staged[v] /\ reviewer'[v] = reviewer[v]
  BY DEF EndTx, Goto, IInv, TypeOK
<1> QED
  BY <1>2, <1>3

(* Of the rows that w commits, v sees what v's delivery would make of them:  *)
(* v touched none.                                                           *)
LEMMA CommitUnderRows ==
  ASSUME IInv, NEW v \in Workers, NEW w \in Workers, v # w, Running(v), Running(w),
         WorkerSerial(v), WorkerSerial(w), store' = Over(mine[w], store), mine'[v] = mine[v]
  PROVE  Kept(View(v)') = Serial!Executed(cur[v], Kept(store'))[ip[v] - 1]
<1> DEFINE M == Kept(mine[w])  N == Kept(mine[v])  T == Kept(store)  d == cur[v]  n == ip[v] - 1
<1>1. /\ d \in Deliveries /\ n \in 0 .. Len(Program[d])
  <2>1. d \in Deliveries /\ ip[v] \in 1 .. Len(Program[d]) + 1
    BY DEF IInv, TypeOK, Running, Open, WorkerSerial, InProgram
  <2>2. Len(Program[d]) \in Nat
    BY <2>1, WriteModelAssumption
  <2> QED
    BY <2>1, <2>2
<1>2. DOMAIN M \subseteq DOMAIN mine[w]
  BY KeptRows
<1>3. DOMAIN N \intersect DOMAIN M = {}
  <2>1. DOMAIN N = { k \in DOMAIN mine[v] : k[1] # "contributor" }
    BY KeptRows
  <2>2. \A k \in DOMAIN mine[v] \intersect DOMAIN mine[w] : k[1] = "contributor"
    BY DEF IInv, OneWriter
  <2> QED
    BY <1>2, <2>1, <2>2
<1>4. MarkKey(d) \notin DOMAIN M
  BY <1>2, OwnDelivery DEF WorkerSerial
<1>5. \A i \in 1 .. n : Touched(Program[d][i]) \intersect DOMAIN M = {}
  BY <1>2, TouchedApart
<1>6. Kept(store') = Over(M, T)
  BY KeptOver
<1>7. Kept(View(v)') = Over(N, Over(M, T))
  BY <1>6, KeptOver DEF View
<1>8. Over(N, T) = Serial!Executed(d, T)[n]
  BY KeptOver DEF WorkerSerial, AsIfAlone, View
<1> HIDE DEF M, N, T, d, n
<1>9. Over(N, Over(M, T)) = Over(M, Over(N, T))
  BY <1>3, OverCommutes
<1>10. Serial!Executed(d, Over(M, T))[n] = Over(M, Serial!Executed(d, T)[n])
  BY ONLY <1>1, <1>4, <1>5, ExecutedFrame
<1>11. Kept(View(v)') = Serial!Executed(d, Kept(store'))[n]
  BY <1>6, <1>7, <1>8, <1>9, <1>10
<1> QED
  BY <1>11 DEF d, n

(* And of the events w commits, v's come after: they are of other entities. *)
LEMMA CommitUnderStories ==
  ASSUME IInv, NEW v \in Workers, NEW w \in Workers, v # w, Running(v),
         WorkerSerial(v), WorkerSerial(w), outbox' = outbox \union staged[w]
  PROVE  Stories(outbox' \union staged[v]) = Serial!Told(cur[v], Stories(outbox'))[ip[v] - 1]
<1> DEFINE A == outbox  B == staged[w]  C == staged[v]  d == cur[v]  n == ip[v] - 1
           M == Retold(A, B)
<1>1. d \in Deliveries /\ n \in 0 .. Len(Program[d])
  <2>1. d \in Deliveries /\ ip[v] \in 1 .. Len(Program[d]) + 1
    BY DEF IInv, TypeOK, Running, Open, WorkerSerial, InProgram
  <2>2. Len(Program[d]) \in Nat
    BY <2>1, WriteModelAssumption
  <2> QED
    BY <2>1, <2>2
<1>2. Keyed(B) \intersect Keyed(C) = {}
  BY StagedApart
<1>3. DOMAIN M = Keyed(B)
  BY DEF Retold
<1>4. \A i \in 1 .. n : Program[d][i].op = "emit" => Program[d][i].key \notin DOMAIN M
  BY <1>2, <1>3 DEF WorkerSerial, EventsStaged
<1>5. Stories(A \union C) = Serial!Told(d, Stories(A))[n]
  BY DEF WorkerSerial, AsIfAlone
<1> HIDE DEF A, B, C, d, n, M
<1>6. /\ Stories(A \union B) = Over(M, Stories(A))
      /\ Stories((A \union B) \union C) = Over(M, Stories(A \union C))
  BY <1>2, StoriesJoin DEF M
<1>7. Serial!Told(d, Over(M, Stories(A)))[n] = Over(M, Serial!Told(d, Stories(A))[n])
  BY ONLY <1>1, <1>4, ToldFrame
<1>8. Stories((A \union B) \union C) = Serial!Told(d, Stories(A \union B))[n]
  BY <1>5, <1>6, <1>7
<1> QED
  BY <1>8 DEF A, B, C, d, n

(* What w commits does not show in what v made. *)
LEMMA CommitSerial ==
  ASSUME IInv, NEW v \in Workers, NEW w \in Workers, v # w, Running(w),
         WorkerSerial(v), WorkerSerial(w), store' = Over(mine[w], store),
         outbox' = outbox \union staged[w],
         pc'[v] = pc[v], cur'[v] = cur[v], ip'[v] = ip[v], mine'[v] = mine[v],
         staged'[v] = staged[v], reviewer'[v] = reviewer[v]
  PROVE  WorkerSerial(v)'
<1>1. /\ Statement(v)' = Statement(v) /\ (Running(v)' <=> Running(v))
      /\ DOMAIN store' = DOMAIN mine[w] \union DOMAIN store
  BY DEF Statement, Running, Over
<1>2. DOMAIN View(v) \subseteq DOMAIN View(v)'
  BY <1>1 DEF View, Over
<1>3. HoldsMark(v)' /\ InProgram(v)'
  <2>1. Running(v) => ~Marked(cur[v])'
    BY <1>1, OwnDelivery DEF WorkerSerial, HoldsMark, Marked
  <2> QED
    BY <1>1, <2>1 DEF WorkerSerial, HoldsMark, InProgram
<1>4. LinksHeld(v)'
  <2>1. \A k \in DOMAIN mine[v] : k[1] = "identity_link" => k \notin DOMAIN store'
    BY <1>1 DEF WorkerSerial, LinksHeld, IInv, OneWriter
  <2> QED
    BY <1>1, <1>2, <2>1 DEF WorkerSerial, LinksHeld
<1>5. EventsStaged(v)'
  BY <1>1 DEF WorkerSerial, EventsStaged
<1>6. Running(v) => AsIfAlone(v)'
  BY CommitUnderRows, CommitUnderStories DEF AsIfAlone
<1> QED
  BY <1>1, <1>3, <1>4, <1>5, <1>6 DEF WorkerSerial

--------------------------------------------------------------------------------
(* Every step, for all workers. *)

(* A step of w that commits nothing leaves the others to themselves. *)
LEMMA OwnSerial ==
  ASSUME SerialInv, NEW w \in Workers, WorkerSerial(w)', UNCHANGED <<store, outbox>>,
         \A v \in Workers : v # w =>
           /\ pc'[v] = pc[v] /\ cur'[v] = cur[v] /\ ip'[v] = ip[v] /\ mine'[v] = mine[v]
           /\ staged'[v] = staged[v] /\ reviewer'[v] = reviewer[v]
  PROVE  SerialInv'
<1>1. ASSUME NEW v \in Workers PROVE WorkerSerial(v)'
  <2>1. CASE v = w
    BY <2>1
  <2>2. CASE v # w
    BY <2>2, OthersSerial DEF SerialInv
  <2> QED
    BY <2>1, <2>2
<1> QED
  BY <1>1 DEF SerialInv

(* Taking up a delivery touches nothing. *)
LEMMA BeginKeepsSerial ==
  ASSUME IInv, SerialInv, NEW w \in Workers, NEW d \in Deliveries, Begin(w, d)
  PROVE  SerialInv'
<1>1. /\ pc[w] = "idle" /\ pc'[w] = "mark" /\ UNCHANGED <<store, outbox, ip, mine, staged, reviewer>>
      /\ \A v \in Workers : v # w => pc'[v] = pc[v] /\ cur'[v] = cur[v]
  BY DEF Begin, Goto, dbVars, IInv, TypeOK
<1>2. mine'[w] = <<>> /\ staged'[w] = {}
  BY <1>1 DEF SerialInv, WorkerSerial, HoldsMark
<1>3. WorkerSerial(w)'
  BY <1>1, <1>2, FreshSerial
<1> QED
  BY <1>1, <1>3, OwnSerial

(* A duplicate ends; another delivery starts with its mark. *)
LEMMA MarkDeliveryKeepsSerial ==
  ASSUME IInv, SerialInv, NEW w \in Workers, MarkDelivery(w)
  PROVE  SerialInv'
<1>1. pc[w] = "mark" /\ UNCHANGED <<store, outbox>>
  BY DEF MarkDelivery
<1>2. CASE EndTx(w)
  BY <1>1, <1>2, EndSerial, OwnSerial
<1>3. CASE /\ ~Marked(cur[w]) /\ Write(w, MarkKey(cur[w]), [uuid |-> cur[w]]) /\ Goto(w, "run")
           /\ UNCHANGED <<arrived, tries, nextId, cur, ip, staged, reviewer>>
  <2>1. WorkerSerial(w)'
    BY <1>1, <1>3, MarkSerial DEF SerialInv
  <2>2. \A v \in Workers : v # w => mine'[v] = mine[v] /\ pc'[v] = pc[v]
    BY <1>3 DEF Write, Goto, IInv, TypeOK
  <2> QED
    BY <1>1, <1>3, <2>1, <2>2, OwnSerial
<1> QED
  BY <1>2, <1>3 DEF MarkDelivery

(* The statements of a transaction. *)
LEMMA StatementKeepsSerial ==
  ASSUME IInv, ResolveInv, SerialInv, NEW w \in Workers,
         \/ Upsert(w) \/ Ensure(w) \/ SelectLink(w) \/ InsertLink(w) \/ InsertReview(w)
         \/ EnqueueOutbox(w)
  PROVE  SerialInv'
<1>1. WorkerSerial(w)'
  BY UpsertSerial, EnsureSerial, SelectLinkSerial, InsertLinkSerial, InsertReviewSerial,
     EnqueueOutboxSerial DEF SerialInv
<1>2. UNCHANGED <<store, outbox, cur>>
  BY DEF Upsert, Ensure, SelectLink, InsertLink, InsertReview, EnqueueOutbox, NextStatement
<1>3. \A v \in Workers : v # w => pc'[v] = pc[v] /\ ip'[v] = ip[v]
  BY DEF Upsert, Ensure, SelectLink, InsertLink, InsertReview, EnqueueOutbox, NextStatement, Goto,
         IInv, TypeOK
<1>4. \A v \in Workers : v # w => mine'[v] = mine[v] /\ staged'[v] = staged[v]
  BY DEF Upsert, Ensure, SelectLink, InsertLink, InsertReview, EnqueueOutbox, Write, IInv, TypeOK
<1>5. \A v \in Workers : v # w => reviewer'[v] = reviewer[v]
  BY DEF Upsert, Ensure, SelectLink, InsertLink, InsertReview, EnqueueOutbox, ResolveInv
<1> QED
  BY <1>1, <1>2, <1>3, <1>4, <1>5, OwnSerial

(* A commit shows in no other transaction. *)
LEMMA CommitKeepsSerial ==
  ASSUME IInv, SerialInv, NEW w \in Workers, CommitTx(w)
  PROVE  SerialInv'
<1>1. /\ Running(w) /\ store' = Over(mine[w], store) /\ outbox' = outbox \union staged[w]
      /\ EndTx(w)
  BY DEF CommitTx, Running
<1>2. IsFiniteSet(outbox')
  BY <1>1, FS_Union DEF SerialInv, WorkerSerial, EventsStaged
<1>3. ASSUME NEW v \in Workers PROVE WorkerSerial(v)'
  <2>1. CASE v = w
    BY <1>1, <2>1, EndSerial
  <2>2. CASE v # w
    <3>1. /\ pc'[v] = pc[v] /\ cur'[v] = cur[v] /\ ip'[v] = ip[v] /\ mine'[v] = mine[v]
          /\ staged'[v] = staged[v] /\ reviewer'[v] = reviewer[v]
      BY <1>1, <2>2, EndSerial
    <3>2. WorkerSerial(v) /\ WorkerSerial(w)
      BY DEF SerialInv
    <3> QED
      BY <1>1, <2>2, <3>1, <3>2, CommitSerial
  <2> QED
    BY <2>1, <2>2
<1> QED
  BY <1>2, <1>3 DEF SerialInv

(* So the invariant is inductive. *)
LEMMA NextKeepsSerialInv == IInv /\ ResolveInv /\ SerialInv /\ [Next]_vars => SerialInv'
<1> SUFFICES ASSUME IInv, ResolveInv, SerialInv, [Next]_vars PROVE SerialInv'
  OBVIOUS
<1>1. ASSUME NEW w \in Workers, NEW d \in Deliveries, Begin(w, d) PROVE SerialInv'
  BY <1>1, BeginKeepsSerial
<1>2. ASSUME NEW w \in Workers, Step(w) PROVE SerialInv'
  BY <1>2, MarkDeliveryKeepsSerial, StatementKeepsSerial, CommitKeepsSerial DEF Step
<1>3. ASSUME NEW w \in Workers, RollBack(w) PROVE SerialInv'
  <2>1. EndTx(w) /\ UNCHANGED <<store, outbox>>
    BY <1>3 DEF RollBack
  <2> QED
    BY <2>1, EndSerial, OwnSerial
<1>4. CASE UNCHANGED vars
  <2>1. UNCHANGED <<store, outbox, pc, cur, ip, mine, staged, reviewer>>
    BY <1>4 DEF vars, dbVars, txVars
  <2> QED
    BY <2>1, OthersSerial DEF SerialInv
<1> QED
  BY <1>1, <1>2, <1>3, <1>4 DEF Next

(* The commit of a transaction is its delivery applied at once. *)
LEMMA CommitApplies ==
  ASSUME IInv, SerialInv, NEW w \in Workers, CommitTx(w)
  PROVE  Serial!Apply(cur[w])
<1> DEFINE d == cur[w]  n == Len(Program[d])
<1>1. /\ pc[w] = "run" /\ ip[w] > n /\ Running(w) /\ WorkerSerial(w)
      /\ store' = Over(mine[w], store) /\ outbox' = outbox \union staged[w]
  BY DEF CommitTx, Running, SerialInv
<1>2. ip[w] - 1 = n
  <2>1. d \in Deliveries /\ ip[w] \in 1 .. n + 1
    BY <1>1 DEF IInv, TypeOK, Open, WorkerSerial, InProgram
  <2>2. n \in Nat
    BY <2>1, WriteModelAssumption
  <2> QED
    BY <1>1, <2>1, <2>2
<1>3. /\ Kept(store') = Serial!Executed(d, Kept(store))[n]
      /\ Stories(outbox') = Serial!Told(d, Stories(outbox))[n]
  BY <1>1, <1>2 DEF WorkerSerial, AsIfAlone, View
<1>4. MarkKey(d) \notin DOMAIN Kept(store)
  BY <1>1, KeptRows DEF WorkerSerial, HoldsMark, Marked
<1> QED
  BY <1>3, <1>4 DEF Serial!Apply, Serial!Marked, Serial!MarkKey, MarkKey

(* However the statements of concurrent transactions interleave, and         *)
(* whichever of them roll back, tables and outbox are those of the           *)
(* deliveries that committed, each applied at once and at most once.         *)
THEOREM ImplementsSerialWrites == Spec => AppliedSerially
<1>1. Init => Serial!Init
  <2> SUFFICES ASSUME Init PROVE Kept(store) = <<>> /\ Stories(outbox) = <<>>
    BY DEF Serial!Init
  <2>1. DOMAIN store = {} /\ Keyed(outbox) = {}
    BY DEF Init, Keyed
  <2> QED
    BY <2>1 DEF Kept, Stories
<1>2. Init => SerialInv
  <2> SUFFICES ASSUME Init PROVE SerialInv
    OBVIOUS
  <2>1. IsFiniteSet(outbox)
    BY FS_EmptySet DEF Init
  <2>2. ASSUME NEW w \in Workers PROVE WorkerSerial(w)
    <3>1. pc[w] = "idle" /\ mine[w] = <<>> /\ staged[w] = {} /\ ~Running(w)
      BY DEF Init, Running
    <3> QED
      BY <3>1, FS_EmptySet
         DEF WorkerSerial, HoldsMark, InProgram, LinksHeld, EventsStaged
  <2> QED
    BY <2>1, <2>2 DEF SerialInv
<1>3. IInv /\ SerialInv /\ [Next]_vars => [Serial!Next]_(Serial!vars)
  <2> SUFFICES ASSUME IInv, SerialInv, [Next]_vars PROVE [Serial!Next]_(Serial!vars)
    OBVIOUS
  <2>1. ASSUME NEW w \in Workers, CommitTx(w) PROVE Serial!Next
    <3>1. cur[w] \in Deliveries
      BY <2>1 DEF CommitTx, IInv, TypeOK, Open
    <3> QED
      BY <2>1, <3>1, CommitApplies DEF Serial!Next
  <2>2. (\A w \in Workers : ~CommitTx(w)) => UNCHANGED <<store, outbox>>
    BY DEF Next, Step, vars, dbVars, Begin, MarkDelivery, Upsert, Ensure, SelectLink, InsertLink,
           InsertReview, EnqueueOutbox, RollBack, NextStatement
  <2>3. UNCHANGED <<store, outbox>> => UNCHANGED Serial!vars
    BY DEF Serial!vars
  <2> QED
    BY <2>1, <2>2, <2>3
<1> QED
  BY <1>1, <1>2, <1>3, NextKeepsSerialInv, InitResolves, NextKeepsResolveInv, InvariantHolds, PTL
     DEF Spec, AppliedSerially, Serial!Spec

--------------------------------------------------------------------------------
(* What persist executes for a webhook has the form the theorems assume, and *)
(* rejects nothing.                                                           *)

P == INSTANCE Persist

PersistForm(prog) ==
  /\ Len(prog) \in Nat
  /\ \A i \in 1 .. Len(prog) : KeyFits(prog[i]) /\ prog[i].op # "reject"
  /\ TellsItsWrites(prog) /\ ResolvesReviews(prog)

(* A program of work items only: it holds on its own wherever it stands. *)
ItemForm(prog, S) ==
  /\ prog \in Seq(S)
  /\ \A i \in 1 .. Len(prog) : KeyFits(prog[i]) /\ prog[i].op \notin {"reject", "review"}
  /\ TellsItsWrites(prog)

(* Two such programs after each other are one. *)
LEMMA ItemsAfterItems ==
  ASSUME NEW S, NEW a, NEW b, ItemForm(a, S), ItemForm(b, S)
  PROVE  ItemForm(a \o b, S)
<1> DEFINE c == a \o b  m == Len(a)  n == Len(b)
<1>1. a \in Seq(S) /\ b \in Seq(S) /\ m \in Nat /\ n \in Nat
  BY DEF ItemForm
<1>2. /\ c \in Seq(S) /\ Len(c) = m + n
      /\ \A i \in 1 .. m + n : c[i] = IF i <= m THEN a[i] ELSE b[i - m]
  BY <1>1
<1> HIDE DEF c, m, n
<1>3. ASSUME NEW i \in 1 .. m + n
      PROVE  \/ /\ i \in 1 .. m /\ c[i] = a[i]
                /\ i < m => c[i + 1] = a[i + 1]
                /\ i > 1 => c[i - 1] = a[i - 1]
             \/ /\ i - m \in 1 .. n /\ c[i] = b[i - m]
                /\ i - m < n => c[i + 1] = b[(i - m) + 1]
                /\ i - m > 1 => c[i - 1] = b[(i - m) - 1]
  <2>1. CASE i <= m
    BY <1>1, <1>2, <2>1
  <2>2. CASE i > m
    <3>1. i - m \in 1 .. n /\ c[i] = b[i - m]
      BY <1>1, <1>2, <2>2
    <3>2. i - m < n => c[i + 1] = b[(i - m) + 1]
      BY <1>1, <1>2, <2>2
    <3>3. i - m > 1 => c[i - 1] = b[(i - m) - 1]
      BY <1>1, <1>2, <2>2
    <3> QED
      BY <3>1, <3>2, <3>3
  <2> QED
    BY <1>1, <2>1, <2>2
<1>4. /\ \A i \in 1 .. m : KeyFits(a[i]) /\ a[i].op \notin {"reject", "review"}
      /\ \A i \in 1 .. n : KeyFits(b[i]) /\ b[i].op \notin {"reject", "review"}
  BY DEF ItemForm, m, n
<1>5. \A i \in 1 .. Len(c) : KeyFits(c[i]) /\ c[i].op \notin {"reject", "review"}
  BY <1>2, <1>3, <1>4
<1>6. /\ \A i \in 1 .. m :
           /\ a[i].op \in Tells => i < m /\ SaysTheSame(a[i], a[i + 1])
           /\ a[i].op = "emit" /\ HasRow(a[i].key) => i > 1 /\ SaysTheSame(a[i - 1], a[i])
      /\ \A i \in 1 .. n :
           /\ b[i].op \in Tells => i < n /\ SaysTheSame(b[i], b[i + 1])
           /\ b[i].op = "emit" /\ HasRow(b[i].key) => i > 1 /\ SaysTheSame(b[i - 1], b[i])
  BY DEF ItemForm, TellsItsWrites, m, n
<1>7. TellsItsWrites(c)
  <2> SUFFICES ASSUME NEW i \in 1 .. m + n
               PROVE  /\ c[i].op \in Tells => i < m + n /\ SaysTheSame(c[i], c[i + 1])
                      /\ c[i].op = "emit" /\ HasRow(c[i].key) => i > 1 /\ SaysTheSame(c[i - 1], c[i])
    BY <1>2 DEF TellsItsWrites
  <2>1. CASE /\ i \in 1 .. m /\ c[i] = a[i]
             /\ i < m => c[i + 1] = a[i + 1]
             /\ i > 1 => c[i - 1] = a[i - 1]
    <3>1. /\ a[i].op \in Tells => i < m /\ SaysTheSame(a[i], a[i + 1])
          /\ a[i].op = "emit" /\ HasRow(a[i].key) => i > 1 /\ SaysTheSame(a[i - 1], a[i])
      BY <1>6, <2>1
    <3>2. i < m => i < m + n
      BY <1>1, <2>1
    <3> QED
      BY <2>1, <3>1, <3>2
  <2>2. CASE /\ i - m \in 1 .. n /\ c[i] = b[i - m]
             /\ i - m < n => c[i + 1] = b[(i - m) + 1]
             /\ i - m > 1 => c[i - 1] = b[(i - m) - 1]
    <3>1. /\ b[i - m].op \in Tells => i - m < n /\ SaysTheSame(b[i - m], b[(i - m) + 1])
          /\ b[i - m].op = "emit" /\ HasRow(b[i - m].key) =>
               i - m > 1 /\ SaysTheSame(b[(i - m) - 1], b[i - m])
      BY <1>6, <2>2
    <3>2. (i - m < n => i < m + n) /\ (i - m > 1 => i > 1)
      BY <1>1, <2>2
    <3> QED
      BY <2>2, <3>1, <3>2
  <2> QED
    BY <1>3, <2>1, <2>2
<1> QED
  BY <1>2, <1>5, <1>7 DEF ItemForm, c

(* f joins the first sequences of s. *)
Joins(f, s, N) == f = [i \in 1 .. N |-> IF i = 1 THEN s[i] ELSE f[i - 1] \o s[i]]

(* There is such an f. *)
LEMMA JoinExists ==
  ASSUME NEW s, NEW N \in Nat
  PROVE  \E f : Joins(f, s, N)
<1> DEFINE Upto(f, k) == Joins(f, s, k)
           S == { k \in Nat : \E f : Upto(f, k) }
<1>1. 0 \in S
  <2>1. Upto([i \in 1 .. 0 |-> s[i]], 0)
    BY DEF Joins
  <2> QED
    BY <2>1
<1>2. ASSUME NEW k \in Nat, k \in S PROVE k + 1 \in S
  <2>1. PICK f : Upto(f, k)
    BY <1>2
  <2> DEFINE last == IF k = 0 THEN s[1] ELSE f[k] \o s[k + 1]
             h == [i \in 1 .. k + 1 |-> IF i = k + 1 THEN last ELSE f[i]]
  <2>2. ASSUME NEW i \in 1 .. k + 1
        PROVE  h[i] = IF i = 1 THEN s[i] ELSE h[i - 1] \o s[i]
    <3>1. CASE i = k + 1
      <4>1. i # 1 => h[i - 1] = f[k]
        BY <3>1
      <4> QED
        BY <3>1, <4>1
    <3>2. CASE i \in 1 .. k
      <4>1. h[i] = f[i] /\ (i # 1 => h[i - 1] = f[i - 1])
        BY <3>2
      <4>2. f[i] = IF i = 1 THEN s[i] ELSE f[i - 1] \o s[i]
        BY <2>1, <3>2 DEF Joins
      <4> QED
        BY <4>1, <4>2
    <3> QED
      BY <3>1, <3>2
  <2>3. Upto(h, k + 1)
    BY <2>2 DEF Joins
  <2> HIDE DEF h, Upto
  <2> QED
    BY <2>3
<1> HIDE DEF S
<1>3. N \in S
  BY <1>1, <1>2, Inductive
<1> QED
  BY <1>3 DEF S

(* What FlattenSeq of the community modules joins. *)
LEMMA FlattenJoins ==
  ASSUME NEW s, NEW N \in Nat, Len(s) = N, N # 0
  PROVE  \E f : Joins(f, s, N) /\ P!FlattenSeq(s) = f[N]
<1> DEFINE Is(f) == Joins(f, s, N)  g == CHOOSE f : Is(f)
<1>1. \E f : Is(f)
  BY JoinExists
<1>2. P!FlattenSeq(s) = g[N]
  BY DEF P!FlattenSeq, Joins
<1>3. Is(g)
  BY <1>1
<1> HIDE DEF g
<1> QED
  BY <1>2, <1>3

(* No sequences are joined to the empty one, *)
LEMMA FlattenNone == P!FlattenSeq(<<>>) = <<>>
BY DEF P!FlattenSeq

(* and one to itself. *)
LEMMA FlattenOne ==
  ASSUME NEW s, Len(s) = 1
  PROVE  P!FlattenSeq(s) = s[1]
<1> DEFINE N == 1
<1>0. N \in Nat /\ N # 0 /\ Len(s) = N
  OBVIOUS
<1> HIDE DEF N
<1>1. PICK f : Joins(f, s, N) /\ P!FlattenSeq(s) = f[N]
  BY <1>0, FlattenJoins
<1> USE DEF N
<1>2. f = [i \in 1 .. 1 |-> IF i = 1 THEN s[i] ELSE f[i - 1] \o s[i]]
  BY <1>1 DEF Joins
<1>3. f[1] = s[1]
  BY <1>2
<1> QED
  BY <1>1, <1>3

(* Programs of work items joined are one. *)
LEMMA FlattenItems ==
  ASSUME NEW S, NEW s, NEW N \in Nat, Len(s) = N, N # 0, \A i \in 1 .. N : ItemForm(s[i], S)
  PROVE  ItemForm(P!FlattenSeq(s), S)
<1>1. PICK f : Joins(f, s, N) /\ P!FlattenSeq(s) = f[N]
  BY FlattenJoins
<1> DEFINE D == { n \in 0 .. N : n = 0 \/ ItemForm(f[n], S) }
<1>2. 0 \in D
  OBVIOUS
<1>3. ASSUME NEW n \in 0 .. N - 1, n \in D PROVE n + 1 \in D
  <2>1. n + 1 \in 1 .. N /\ n + 1 \in 0 .. N /\ (n + 1) - 1 = n
    OBVIOUS
  <2>2. f[n + 1] = IF n + 1 = 1 THEN s[n + 1] ELSE f[n] \o s[n + 1]
    BY <1>1, <2>1 DEF Joins
  <2>3. ItemForm(f[n + 1], S)
    <3>1. CASE n = 0
      BY <2>1, <2>2, <3>1
    <3>2. CASE n # 0
      <4>1. ItemForm(f[n], S) /\ ItemForm(s[n + 1], S)
        BY <1>3, <2>1, <3>2
      <4>2. n + 1 # 1
        BY <3>2
      <4>3. f[n + 1] = f[n] \o s[n + 1]
        BY <2>2, <4>2
      <4> QED
        BY <4>1, <4>3, ItemsAfterItems
    <3> QED
      BY <3>1, <3>2
  <2> QED
    BY <2>1, <2>3
<1> HIDE DEF D
<1>4. 0 .. N \subseteq D
  BY <1>2, <1>3, InductiveUpTo
<1>5. N \in D
  BY <1>4
<1> QED
  BY <1>1, <1>5 DEF D

(* The four parts of what persist executes. *)
OfItems(res) ==
  P!FlattenSeq([i \in DOMAIN res.workItems |-> P!ItemStatements(res.workItems[i])])
OfReviews(res) ==
  P!FlattenSeq([i \in DOMAIN res.reviews |-> P!ReviewStatements(res.reviews[i], res.workItems)])
OfChecks(res) ==
  P!FlattenSeq([i \in DOMAIN res.checkRuns |-> P!CheckStatements(res.checkRuns[i])])
OfComments(res) ==
  P!FlattenSeq([i \in DOMAIN res.comments |-> P!CommentStatements(res.comments[i])])

(* The program is one part after another. *)
LEMMA ProgramParts ==
  ASSUME NEW res
  PROVE  P!ProgramOf(res) = OfItems(res) \o OfReviews(res) \o OfChecks(res) \o OfComments(res)
BY DEF P!ProgramOf, P!ForEach, OfItems, OfReviews, OfChecks, OfComments

(* Nothing is executed for an empty list. *)
LEMMA EmptyParts ==
  ASSUME NEW res
  PROVE  /\ res.workItems = <<>> => OfItems(res) = <<>>
         /\ res.reviews = <<>> => OfReviews(res) = <<>>
         /\ res.checkRuns = <<>> => OfChecks(res) = <<>>
         /\ res.comments = <<>> => OfComments(res) = <<>>
<1>1. ASSUME NEW s, DOMAIN s = {}, s = [i \in DOMAIN s |-> s[i]] PROVE P!FlattenSeq(s) = <<>>
  <2>1. s = <<>>
    BY <1>1
  <2> QED
    BY <2>1, FlattenNone
<1>2. res.workItems = <<>> => OfItems(res) = <<>>
  <2> DEFINE s == [i \in DOMAIN res.workItems |-> P!ItemStatements(res.workItems[i])]
  <2>1. res.workItems = <<>> => DOMAIN s = {} /\ s = [i \in DOMAIN s |-> s[i]]
    OBVIOUS
  <2> HIDE DEF s
  <2>2. res.workItems = <<>> => P!FlattenSeq(s) = <<>>
    BY <1>1, <2>1
  <2> QED
    BY <2>2 DEF OfItems, s
<1>3. res.reviews = <<>> => OfReviews(res) = <<>>
  <2> DEFINE s == [i \in DOMAIN res.reviews |-> P!ReviewStatements(res.reviews[i], res.workItems)]
  <2>1. res.reviews = <<>> => DOMAIN s = {} /\ s = [i \in DOMAIN s |-> s[i]]
    OBVIOUS
  <2> HIDE DEF s
  <2>2. res.reviews = <<>> => P!FlattenSeq(s) = <<>>
    BY <1>1, <2>1
  <2> QED
    BY <2>2 DEF OfReviews, s
<1>4. res.checkRuns = <<>> => OfChecks(res) = <<>>
  <2> DEFINE s == [i \in DOMAIN res.checkRuns |-> P!CheckStatements(res.checkRuns[i])]
  <2>1. res.checkRuns = <<>> => DOMAIN s = {} /\ s = [i \in DOMAIN s |-> s[i]]
    OBVIOUS
  <2> HIDE DEF s
  <2>2. res.checkRuns = <<>> => P!FlattenSeq(s) = <<>>
    BY <1>1, <2>1
  <2> QED
    BY <2>2 DEF OfChecks, s
<1>5. res.comments = <<>> => OfComments(res) = <<>>
  <2> DEFINE s == [i \in DOMAIN res.comments |-> P!CommentStatements(res.comments[i])]
  <2>1. res.comments = <<>> => DOMAIN s = {} /\ s = [i \in DOMAIN s |-> s[i]]
    OBVIOUS
  <2> HIDE DEF s
  <2>2. res.comments = <<>> => P!FlattenSeq(s) = <<>>
    BY <1>1, <2>1
  <2> QED
    BY <2>2 DEF OfComments, s
<1> QED
  BY <1>2, <1>3, <1>4, <1>5

(* For a list of one, what that one asks for. *)
LEMMA SingleParts ==
  ASSUME NEW res, NEW x
  PROVE  /\ res.workItems = <<x>> => OfItems(res) = P!ItemStatements(x)
         /\ res.reviews = <<x>> => OfReviews(res) = P!ReviewStatements(x, res.workItems)
         /\ res.checkRuns = <<x>> => OfChecks(res) = P!CheckStatements(x)
         /\ res.comments = <<x>> => OfComments(res) = P!CommentStatements(x)
<1>1. res.workItems = <<x>> => OfItems(res) = P!ItemStatements(x)
  <2> DEFINE s == [i \in DOMAIN res.workItems |-> P!ItemStatements(res.workItems[i])]
  <2>1. res.workItems = <<x>> => Len(s) = 1 /\ s[1] = P!ItemStatements(x)
    OBVIOUS
  <2> HIDE DEF s
  <2>2. res.workItems = <<x>> => P!FlattenSeq(s) = P!ItemStatements(x)
    BY <2>1, FlattenOne
  <2> QED
    BY <2>2 DEF OfItems, s
<1>2. res.reviews = <<x>> => OfReviews(res) = P!ReviewStatements(x, res.workItems)
  <2> DEFINE s == [i \in DOMAIN res.reviews |-> P!ReviewStatements(res.reviews[i], res.workItems)]
  <2>1. res.reviews = <<x>> => Len(s) = 1 /\ s[1] = P!ReviewStatements(x, res.workItems)
    OBVIOUS
  <2> HIDE DEF s
  <2>2. res.reviews = <<x>> => P!FlattenSeq(s) = P!ReviewStatements(x, res.workItems)
    BY <2>1, FlattenOne
  <2> QED
    BY <2>2 DEF OfReviews, s
<1>3. res.checkRuns = <<x>> => OfChecks(res) = P!CheckStatements(x)
  <2> DEFINE s == [i \in DOMAIN res.checkRuns |-> P!CheckStatements(res.checkRuns[i])]
  <2>1. res.checkRuns = <<x>> => Len(s) = 1 /\ s[1] = P!CheckStatements(x)
    OBVIOUS
  <2> HIDE DEF s
  <2>2. res.checkRuns = <<x>> => P!FlattenSeq(s) = P!CheckStatements(x)
    BY <2>1, FlattenOne
  <2> QED
    BY <2>2 DEF OfChecks, s
<1>4. res.comments = <<x>> => OfComments(res) = P!CommentStatements(x)
  <2> DEFINE s == [i \in DOMAIN res.comments |-> P!CommentStatements(res.comments[i])]
  <2>1. res.comments = <<x>> => Len(s) = 1 /\ s[1] = P!CommentStatements(x)
    OBVIOUS
  <2> HIDE DEF s
  <2>2. res.comments = <<x>> => P!FlattenSeq(s) = P!CommentStatements(x)
    BY <2>1, FlattenOne
  <2> QED
    BY <2>2 DEF OfComments, s
<1> QED
  BY <1>1, <1>2, <1>3, <1>4

(* A list that is empty adds nothing to the program. *)
LEMMA NothingAfter ==
  ASSUME NEW S, NEW a \in Seq(S)
  PROVE  a \o <<>> = a /\ <<>> \o a = a
OBVIOUS

(* Where there are only work items of their own webhook, the form is theirs. *)
LEMMA ItemsAlone ==
  ASSUME NEW S, NEW res, ItemForm(OfItems(res), S),
         res.reviews = <<>>, res.checkRuns = <<>>, res.comments = <<>>
  PROVE  PersistForm(P!ProgramOf(res))
<1> DEFINE prog == P!ProgramOf(res)
<1>1. OfItems(res) \in Seq(S)
  BY DEF ItemForm
<1>2. prog = OfItems(res)
  BY <1>1, ProgramParts, EmptyParts, NothingAfter
<1> HIDE DEF prog
<1>3. ItemForm(prog, S) /\ Len(prog) \in Nat
  BY <1>1, <1>2
<1>4. ResolvesReviews(prog)
  BY <1>3 DEF ItemForm, ResolvesReviews
<1> QED
  BY <1>3, <1>4 DEF ItemForm, PersistForm, prog

(* A work item that its webhook is about is written and told. *)
LEMMA ItemTold ==
  ASSUME NEW wi, wi.event # P!NoEvent, NEW S, {P!ItemStatements(wi)[i] : i \in 1 .. 2} \subseteq S
  PROVE  ItemForm(P!ItemStatements(wi), S)
<1> DEFINE a == P!ItemStatements(wi)  k == P!ItemKey(wi)
<1>1. a = << [op |-> "upsert", key |-> k, data |-> P!Columns(wi)],
             [ op |-> "emit", key |-> k, type |-> wi.event, occurredAt |-> wi.occurredAt,
               data |-> P!Columns(wi) ] >>
  BY DEF P!ItemStatements, P!Emit
<1>2. k[1] = "work_item"
  BY DEF P!ItemKey
<1> HIDE DEF a, k
<1>3. /\ Len(a) = 2 /\ DOMAIN a = 1 .. 2
      /\ a[1].op = "upsert" /\ a[2].op = "emit" /\ a[1].key = k /\ a[2].key = k
      /\ a[1].data = a[2].data
  BY <1>1
<1>4. a \in Seq(S)
  <2>1. a[1] \in S /\ a[2] \in S
    BY DEF a
  <2> QED
    BY <1>1, <2>1
<1>5. \A i \in 1 .. Len(a) : KeyFits(a[i]) /\ a[i].op \notin {"reject", "review"}
  BY <1>2, <1>3 DEF KeyFits
<1>6. TellsItsWrites(a)
  BY <1>3 DEF TellsItsWrites, SaysTheSame, Tells
<1> QED
  BY <1>4, <1>5, <1>6 DEF ItemForm, a

(* A completed check is written and told. *)
LEMMA CheckAlone ==
  ASSUME NEW res, NEW cr, res.workItems = <<>>, res.reviews = <<>>,
         res.checkRuns = <<cr>>, res.comments = <<>>
  PROVE  PersistForm(P!ProgramOf(res))
<1> DEFINE a == P!CheckStatements(cr)  k == P!CheckKey(cr)  prog == P!ProgramOf(res)
           at == IF cr.completedAt = P!Never THEN cr.startedAt ELSE cr.completedAt
           s1 == [op |-> "upsert", key |-> k, data |-> cr.conclusion]
           s2 == [ op |-> "emit", key |-> k, type |-> "check.completed", occurredAt |-> at,
                   data |-> cr.conclusion ]
<1>1. a = <<s1, s2>>
  BY DEF P!CheckStatements, P!Emit
<1>2. k[1] = "check_run"
  BY DEF P!CheckKey
<1>3. /\ s1.op = "upsert" /\ s2.op = "emit" /\ s1.key = k /\ s2.key = k /\ s1.data = s2.data
  OBVIOUS
<1> HIDE DEF a, k, s1, s2, prog
<1>4. a \in Seq({s1, s2}) /\ OfChecks(res) = a
  BY <1>1, SingleParts DEF a
<1>5. prog = a
  BY <1>4, ProgramParts, EmptyParts, NothingAfter DEF prog
<1>6. Len(prog) = 2 /\ prog[1] = s1 /\ prog[2] = s2
  BY <1>1, <1>5
<1>7. \A i \in 1 .. Len(prog) : KeyFits(prog[i]) /\ prog[i].op \notin {"reject", "review"}
  BY <1>2, <1>3, <1>6 DEF KeyFits
<1>8. TellsItsWrites(prog)
  BY <1>3, <1>6 DEF TellsItsWrites, SaysTheSame, Tells
<1>9. ResolvesReviews(prog)
  BY <1>7 DEF ResolvesReviews
<1>10. Len(prog) \in Nat
  BY <1>6
<1> QED
  BY <1>7, <1>8, <1>9, <1>10 DEF PersistForm, prog

(* A comment is told of. *)
LEMMA CommentAlone ==
  ASSUME NEW res, NEW cm, res.workItems = <<>>, res.reviews = <<>>,
         res.checkRuns = <<>>, res.comments = <<cm>>
  PROVE  PersistForm(P!ProgramOf(res))
<1> DEFINE a == P!CommentStatements(cm)  k == P!CommentKey(cm)  prog == P!ProgramOf(res)
           s1 == [ op |-> "emit", key |-> k, type |-> "comment.added",
                   occurredAt |-> cm.createdAt, data |-> cm.parentType ]
<1>1. a = <<s1>>
  BY DEF P!CommentStatements, P!Emit
<1>2. k[1] = "comment"
  BY DEF P!CommentKey
<1>3. s1.op = "emit" /\ s1.key = k
  OBVIOUS
<1> HIDE DEF a, k, s1, prog
<1>4. a \in Seq({s1}) /\ OfComments(res) = a
  BY <1>1, SingleParts DEF a
<1>5. prog = a
  BY <1>4, ProgramParts, EmptyParts, NothingAfter DEF prog
<1>6. Len(prog) = 1 /\ prog[1] = s1
  BY <1>1, <1>5
<1>7. \A i \in 1 .. Len(prog) : KeyFits(prog[i]) /\ prog[i].op \notin {"reject", "review"}
  BY <1>3, <1>6 DEF KeyFits
<1>8. TellsItsWrites(prog)
  BY <1>2, <1>3, <1>6 DEF TellsItsWrites, Tells, HasRow
<1>9. ResolvesReviews(prog)
  BY <1>7 DEF ResolvesReviews
<1>10. Len(prog) \in Nat
  BY <1>6
<1> QED
  BY <1>7, <1>8, <1>9, <1>10 DEF PersistForm, prog

(* A review comes with its pull request, which is ensured, and its author,   *)
(* who is resolved; without an author, the pull request alone is.            *)
LEMMA ReviewWithItem ==
  ASSUME NEW res, NEW wi, NEW rv, res.workItems = <<wi>>, res.reviews = <<rv>>,
         res.checkRuns = <<>>, res.comments = <<>>, wi.event = P!NoEvent, wi.node = rv.pr
  PROVE  PersistForm(P!ProgramOf(res))
<1> DEFINE prog == P!ProgramOf(res)
           item == P!ItemKey(wi)  link == P!LinkKey(rv.reviewer)  k == P!ReviewKey(rv)
           s1 == [op |-> "ensure", key |-> item, data |-> P!Columns(wi)]
           s2 == [op |-> "resolve", key |-> link]
           s3 == [op |-> "review", key |-> k, data |-> rv.state, item |-> item, login |-> link]
           s4 == [ op |-> "emit", key |-> k, type |-> "review.submitted",
                   occurredAt |-> rv.submittedAt, data |-> rv.state ]
           a == P!ItemStatements(wi)  b == P!ReviewStatements(rv, res.workItems)
<1>1. a = <<s1>>
  BY DEF P!ItemStatements
<1>2. b = IF rv.reviewer = "" THEN <<>> ELSE <<s2, s3, s4>>
  <2>1. P!Parents(rv, res.workItems) = {wi}
    BY DEF P!Parents
  <2> DEFINE parent == CHOOSE x \in P!Parents(rv, res.workItems) : TRUE
  <2>2. parent = wi
    BY <2>1
  <2>3. P!Parents(rv, res.workItems) # {}
    BY <2>1
  <2>4. b = IF rv.reviewer = "" THEN <<>>
            ELSE << s2, [ op |-> "review", key |-> k, data |-> rv.state,
                          item |-> P!ItemKey(parent), login |-> link ], s4 >>
    BY <2>3 DEF P!ReviewStatements, P!Emit
  <2> HIDE DEF parent
  <2> QED
    BY <2>2, <2>4
<1>3. item[1] = "work_item" /\ link[1] = "identity_link" /\ k[1] = "review"
  BY DEF P!ItemKey, P!LinkKey, P!ReviewKey
<1>4. /\ s1.op = "ensure" /\ s1.key = item /\ s2.op = "resolve" /\ s2.key = link
      /\ s3.op = "review" /\ s3.key = k /\ s3.item = item /\ s3.login = link
      /\ s4.op = "emit" /\ s4.key = k /\ s4.data = s3.data
  OBVIOUS
<1>5. OfItems(res) = a /\ OfReviews(res) = b
  BY SingleParts
<1> HIDE DEF prog, item, link, k, s1, s2, s3, s4, a, b
<1>6. a \in Seq({s1, s2, s3, s4}) /\ b \in Seq({s1, s2, s3, s4})
  <2>1. <<s1>> \in Seq({s1, s2, s3, s4}) /\ <<>> \in Seq({s1, s2, s3, s4})
        /\ <<s2, s3, s4>> \in Seq({s1, s2, s3, s4})
    OBVIOUS
  <2> QED
    BY <1>1, <1>2, <2>1
<1>7. prog = a \o b
  <2>1. a \o b \in Seq({s1, s2, s3, s4})
    BY <1>6
  <2> QED
    BY <1>5, <1>6, <2>1, ProgramParts, EmptyParts, NothingAfter DEF prog
<1>8. CASE rv.reviewer = ""
  <2>1. prog = <<s1>>
    BY <1>1, <1>2, <1>6, <1>7, <1>8, NothingAfter
  <2>2. Len(prog) = 1 /\ prog[1] = s1 /\ Len(prog) \in Nat
    BY <2>1
  <2>3. \A i \in 1 .. Len(prog) : KeyFits(prog[i]) /\ prog[i].op \notin {"reject", "review"}
    BY <1>3, <1>4, <2>2 DEF KeyFits
  <2>4. TellsItsWrites(prog)
    BY <1>4, <2>2 DEF TellsItsWrites, Tells
  <2>5. ResolvesReviews(prog)
    BY <2>3 DEF ResolvesReviews
  <2> QED
    BY <2>2, <2>3, <2>4, <2>5 DEF PersistForm, prog
<1>9. CASE rv.reviewer # ""
  <2>1. prog = <<s1>> \o <<s2, s3, s4>>
    BY <1>1, <1>2, <1>7, <1>9
  <2>2. /\ Len(prog) = 4 /\ Len(prog) \in Nat
        /\ prog[1] = s1 /\ prog[2] = s2 /\ prog[3] = s3 /\ prog[4] = s4
    BY <2>1
  <2>3. \A i \in 1 .. Len(prog) : i = 1 \/ i = 2 \/ i = 3 \/ i = 4
    BY <2>2
  <2>4. \A i \in 1 .. Len(prog) : KeyFits(prog[i]) /\ prog[i].op # "reject"
    BY <1>3, <1>4, <2>2, <2>3 DEF KeyFits
  <2>5. TellsItsWrites(prog)
    BY <1>4, <2>2, <2>3 DEF TellsItsWrites, SaysTheSame, Tells
  <2>6. ResolvesReviews(prog)
    <3> SUFFICES ASSUME NEW i \in 1 .. Len(prog), prog[i].op = "review"
                 PROVE  /\ i > 1 /\ prog[i - 1].op = "resolve" /\ prog[i - 1].key = prog[i].login
                        /\ \E j \in 1 .. i - 1 : /\ prog[j].op \in {"upsert", "ensure"}
                                                 /\ prog[j].key = prog[i].item
      BY DEF ResolvesReviews
    <3>1. i = 3
      BY <1>4, <2>2, <2>3
    <3>2. 1 \in 1 .. i - 1 /\ prog[1].op = "ensure" /\ prog[1].key = prog[i].item
      BY <1>4, <2>2, <3>1
    <3>3. i > 1 /\ prog[i - 1].op = "resolve" /\ prog[i - 1].key = prog[i].login
      BY <1>4, <2>2, <3>1
    <3> QED
      BY <3>2, <3>3
  <2> QED
    BY <2>2, <2>4, <2>5, <2>6 DEF PersistForm, prog
<1> QED
  BY <1>8, <1>9

(* Any number of work items that their webhook is about. *)
LEMMA ItemsTold ==
  ASSUME NEW res, NEW N \in Nat, N # 0, Len(res.workItems) = N, DOMAIN res.workItems = 1 .. N,
         \A i \in 1 .. N : res.workItems[i].event # P!NoEvent,
         res.reviews = <<>>, res.checkRuns = <<>>, res.comments = <<>>
  PROVE  PersistForm(P!ProgramOf(res))
<1> DEFINE item(i) == res.workItems[i]
           S == { P!ItemStatements(item(i))[j] : i \in 1 .. N, j \in 1 .. 2 }
           s == [i \in DOMAIN res.workItems |-> P!ItemStatements(item(i))]
<1>1. Len(s) = N /\ \A i \in 1 .. N : s[i] = P!ItemStatements(item(i))
  OBVIOUS
<1>2. ASSUME NEW i \in 1 .. N PROVE ItemForm(P!ItemStatements(item(i)), S)
  <2>1. { P!ItemStatements(item(i))[j] : j \in 1 .. 2 } \subseteq S
    OBVIOUS
  <2> HIDE DEF S
  <2> QED
    BY <2>1, ItemTold
<1>3. OfItems(res) = P!FlattenSeq(s)
  BY DEF OfItems
<1> HIDE DEF s, S
<1>4. ItemForm(P!FlattenSeq(s), S)
  BY <1>1, <1>2, FlattenItems
<1> QED
  BY <1>3, <1>4, ItemsAlone

(* One of them. *)
LEMMA OneItemTold ==
  ASSUME NEW res, NEW wi, res.workItems = <<wi>>, wi.event # P!NoEvent,
         res.reviews = <<>>, res.checkRuns = <<>>, res.comments = <<>>
  PROVE  PersistForm(P!ProgramOf(res))
<1> DEFINE N == 1
<1>1. /\ N \in Nat /\ N # 0 /\ Len(res.workItems) = N /\ DOMAIN res.workItems = 1 .. N
      /\ \A i \in 1 .. N : res.workItems[i].event # P!NoEvent
  OBVIOUS
<1> HIDE DEF N
<1> QED
  BY <1>1, ItemsTold

(* Of whatever the connector makes of a webhook, persist rejects nothing, and *)
(* what it executes is of the form that WriteModelAssumption asks for.        *)
THEOREM WebhooksFit ==
  ASSUME NEW raw, P!Normalize(raw).outcome = "entities",
         NEW Commit, raw.event = "push" => raw.body.commits \in Seq(Commit)
  PROVE  PersistForm(P!ProgramOf(P!Normalize(raw)))
<1> DEFINE res == P!Normalize(raw)  p == raw.body
<1>1. raw.event \in P!Handled /\ res = P!Handler(raw.event, p)
  BY DEF P!Normalize, P!Skip, P!Failure
<1> HIDE DEF res
<1>2. res.outcome = "entities"
  BY DEF res
<1>3. \A action : P!workItemEvent(action) # P!NoEvent
  BY DEF P!workItemEvent, P!NoEvent
<1>4. ASSUME NEW c, NEW x, res = P!Pick(c, x) PROVE res = x
  BY <1>2, <1>4 DEF P!Pick, P!Skip
<1>5. CASE raw.event = "pull_request"
  <2> DEFINE pr == [p.pullRequest EXCEPT !.number = IF @ = 0 THEN p.number ELSE @]
             wi == P!applyEnrichment(P!prWorkItem(pr, p.repo), p.enrichment)
             told == P!Dated([wi EXCEPT !.event = P!workItemEvent(p.action)])
  <2>1. res = [P!Empty(p.installation) EXCEPT !.workItems = <<told>>]
    BY <1>1, <1>5 DEF P!Handler, P!normalizePullRequest
  <2>2. told.event = P!workItemEvent(p.action)
    <3>1. "event" \in DOMAIN wi
      BY DEF P!applyEnrichment, P!prWorkItem
    <3> HIDE DEF wi
    <3> QED
      BY <3>1 DEF P!Dated
  <2> HIDE DEF told
  <2>3. /\ res.workItems = <<told>> /\ res.reviews = <<>>
        /\ res.checkRuns = <<>> /\ res.comments = <<>>
    BY <2>1 DEF P!Empty
  <2> QED
    BY <1>3, <2>2, <2>3, OneItemTold DEF res
<1>6. CASE raw.event = "pull_request_review"
  <2> DEFINE wi == P!prWorkItem(p.pullRequest, p.repo)
             rv == [ source |-> p.review.node, pr |-> p.pullRequest.node,
                     reviewer |-> p.review.user, state |-> p.review.state,
                     submittedAt |-> p.review.submittedAt ]
  <2>1. res = P!Pick(p.action = "submitted",
                [P!Empty(p.installation) EXCEPT !.workItems = <<wi>>, !.reviews = <<rv>>])
    BY <1>1, <1>6 DEF P!Handler, P!normalizeReview
  <2>2. wi.event = P!NoEvent /\ wi.node = rv.pr
    BY DEF P!prWorkItem
  <2> HIDE DEF wi, rv
  <2>3. res = [P!Empty(p.installation) EXCEPT !.workItems = <<wi>>, !.reviews = <<rv>>]
    BY <1>4, <2>1
  <2>4. /\ res.workItems = <<wi>> /\ res.reviews = <<rv>>
        /\ res.checkRuns = <<>> /\ res.comments = <<>>
    BY <2>3 DEF P!Empty
  <2> QED
    BY <2>2, <2>4, ReviewWithItem DEF res
<1>7. CASE raw.event = "pull_request_review_comment"
  <2> DEFINE cm == P!Comment(p.comment, "pr", p.number)
  <2>1. res = P!Pick(p.action = "created", [P!Empty(p.installation) EXCEPT !.comments = <<cm>>])
    BY <1>1, <1>7 DEF P!Handler, P!normalizeReviewComment
  <2> HIDE DEF cm
  <2>2. res = [P!Empty(p.installation) EXCEPT !.comments = <<cm>>]
    BY <1>4, <2>1
  <2>3. /\ res.workItems = <<>> /\ res.reviews = <<>>
        /\ res.checkRuns = <<>> /\ res.comments = <<cm>>
    BY <2>2 DEF P!Empty
  <2> QED
    BY <2>3, CommentAlone DEF res
<1>8. CASE raw.event = "issue_comment"
  <2> DEFINE cm == P!Comment(p.comment, IF p.onPullRequest THEN "pr" ELSE "issue", p.number)
  <2>1. res = P!Pick(p.action = "created", [P!Empty(p.installation) EXCEPT !.comments = <<cm>>])
    BY <1>1, <1>8 DEF P!Handler, P!normalizeIssueComment
  <2> HIDE DEF cm
  <2>2. res = [P!Empty(p.installation) EXCEPT !.comments = <<cm>>]
    BY <1>4, <2>1
  <2>3. /\ res.workItems = <<>> /\ res.reviews = <<>>
        /\ res.checkRuns = <<>> /\ res.comments = <<cm>>
    BY <2>2 DEF P!Empty
  <2> QED
    BY <2>3, CommentAlone DEF res
<1>9. CASE raw.event = "issues"
  <2> DEFINE wi == [ type |-> "issue", repo |-> p.repo, node |-> p.issue.node,
                     number |-> p.issue.number,
                     status |-> IF p.issue.state = "closed" THEN "closed" ELSE "open",
                     author |-> p.issue.user, size |-> P!Zero, commits |-> <<>>,
                     createdAt |-> p.issue.createdAt, mergedAt |-> P!Never,
                     closedAt |-> p.issue.closedAt,
                     occurredAt |-> P!Never, event |-> P!workItemEvent(p.action) ]
             told == P!Dated(wi)
  <2>1. res = [P!Empty(p.installation) EXCEPT !.workItems = <<told>>]
    BY <1>1, <1>9 DEF P!Handler, P!normalizeIssue
  <2>2. told.event = P!workItemEvent(p.action)
    BY DEF P!Dated
  <2> HIDE DEF told
  <2>3. /\ res.workItems = <<told>> /\ res.reviews = <<>>
        /\ res.checkRuns = <<>> /\ res.comments = <<>>
    BY <2>1 DEF P!Empty
  <2> QED
    BY <1>3, <2>2, <2>3, OneItemTold DEF res
<1>10. CASE raw.event = "push"
  <2> DEFINE N == Len(p.commits)
             items == [i \in 1 .. N |-> P!Observed(p.commits[i], p.repo)]
  <2>1. res = P!Pick(p.commits # <<>>, [P!Empty(p.installation) EXCEPT !.workItems = items])
    BY <1>1, <1>10 DEF P!Handler, P!normalizePush
  <2>2. p.commits # <<>>
    BY <1>2, <2>1 DEF P!Pick, P!Skip
  <2>3. N \in Nat /\ N # 0
    BY <1>10, <2>2
  <2> HIDE DEF N
  <2>4. Len(items) = N /\ DOMAIN items = 1 .. N
    BY <2>3
  <2>5. \A i \in 1 .. N : items[i].event # P!NoEvent
    BY DEF P!Observed, P!NoEvent
  <2> HIDE DEF items
  <2>6. res = [P!Empty(p.installation) EXCEPT !.workItems = items]
    BY <1>4, <2>1
  <2>7. /\ res.workItems = items /\ res.reviews = <<>>
        /\ res.checkRuns = <<>> /\ res.comments = <<>>
    BY <2>6 DEF P!Empty
  <2> QED
    BY <2>3, <2>4, <2>5, <2>7, ItemsTold DEF res
<1>11. CASE raw.event = "check_run"
  <2> DEFINE cr == [ source |-> <<"check_run", p.checkRun.node>>, sha |-> p.checkRun.sha,
                     conclusion |-> p.checkRun.conclusion,
                     startedAt |-> p.checkRun.startedAt,
                     completedAt |-> p.checkRun.completedAt ]
  <2>1. res = P!Pick(p.checkRun.status = "completed",
                [P!Empty(p.installation) EXCEPT !.checkRuns = <<cr>>])
    BY <1>1, <1>11 DEF P!Handler, P!normalizeCheckRun
  <2> HIDE DEF cr
  <2>2. res = [P!Empty(p.installation) EXCEPT !.checkRuns = <<cr>>]
    BY <1>4, <2>1
  <2>3. /\ res.workItems = <<>> /\ res.reviews = <<>>
        /\ res.checkRuns = <<cr>> /\ res.comments = <<>>
    BY <2>2 DEF P!Empty
  <2> QED
    BY <2>3, CheckAlone DEF res
<1>12. CASE raw.event = "status"
  <2> DEFINE cr == [ source |-> <<"status", p.id>>, sha |-> p.sha,
                     conclusion |-> P!statusConclusion(p.state),
                     startedAt |-> P!Never, completedAt |-> p.updatedAt ]
  <2>1. res = P!Pick(p.state # "pending", [P!Empty(p.installation) EXCEPT !.checkRuns = <<cr>>])
    BY <1>1, <1>12 DEF P!Handler, P!normalizeStatus
  <2> HIDE DEF cr
  <2>2. res = [P!Empty(p.installation) EXCEPT !.checkRuns = <<cr>>]
    BY <1>4, <2>1
  <2>3. /\ res.workItems = <<>> /\ res.reviews = <<>>
        /\ res.checkRuns = <<cr>> /\ res.comments = <<>>
    BY <2>2 DEF P!Empty
  <2> QED
    BY <2>3, CheckAlone DEF res
<1> QED
  BY <1>1, <1>5, <1>6, <1>7, <1>8, <1>9, <1>10, <1>11, <1>12 DEF P!Handled

(* So no worker ever comes to a statement that rejects its delivery, if what *)
(* workers execute is what persist makes of webhooks.                         *)
THEOREM NothingRejected ==
  ASSUME NEW Hook, NEW Commit,
         \A d \in Deliveries :
           /\ P!Normalize(Hook[d]).outcome = "entities"
           /\ Hook[d].event = "push" => Hook[d].body.commits \in Seq(Commit)
           /\ Program[d] = P!ProgramOf(P!Normalize(Hook[d]))
  PROVE  Spec => []NoneRejected
<1>1. IInv => NoneRejected
  <2> SUFFICES ASSUME IInv, NEW w \in Workers, At(w, "reject") PROVE FALSE
    BY DEF NoneRejected
  <2>1. /\ cur[w] \in Deliveries /\ ip[w] \in 1 .. Len(Program[cur[w]])
        /\ Program[cur[w]][ip[w]].op = "reject"
    BY StatementKey
  <2>2. PersistForm(Program[cur[w]])
    BY <2>1, WebhooksFit
  <2> QED
    BY <2>1, <2>2 DEF PersistForm
<1> QED
  BY <1>1, InvariantHolds, PTL
================================================================================
