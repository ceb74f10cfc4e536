------------------------------ MODULE WriteModel -------------------------------
(***************************************************************************)
(* The transaction of one delivery in full: markDelivery, persist and its  *)
(* statements on the tables of db/migrations/0001, 0004, 0005 and 0006     *)
(* (services/normalizer/main.go), executed by concurrent workers under     *)
(* Postgres READ COMMITTED.                                                *)
(*                                                                         *)
(* A table row is found by its unique key.  An INSERT ... ON CONFLICT      *)
(* waits while another open transaction holds the key, then meets what     *)
(* that transaction left.  mine[w] holds the rows w's transaction wrote,   *)
(* and its domain the keys it has locked; both end with the transaction.   *)
(* A circle of waiting workers is broken by Postgres, which fails one.     *)
(*                                                                         *)
(* Normalizer has the loop around the transaction; here a worker takes any *)
(* delivery that arrived, in any order and more than once.  A row's uuid   *)
(* is the delivery that inserted it, a contributor's the delivery and      *)
(* the login.  Deliveries without an id, which Normalizer covers, and      *)
(* tenants, which share no key, are left out.                              *)
(***************************************************************************)
EXTENDS Naturals, Sequences, FiniteSets

CONSTANTS
  Workers,
  Deliveries,
  Program,      \* [Deliveries -> Seq(Statement)]: what persist executes (Persist)
  SourceTime,   \* [Deliveries -> Nat]: when GitHub last changed what d is about
  None,         \* the delivery of an idle worker
  MaxTries      \* bound: transactions begun

Writes == {"upsert", "ensure", "review"}
Tells == {"upsert", "review"}
HasRow(k) == k[1] \in {"work_item", "review", "check_run"}

(* Which table a statement is about. *)
KeyFits(st) ==
  /\ st.op \in {"upsert", "ensure"} => st.key[1] \in {"work_item", "check_run"}
  /\ st.op = "review" => st.key[1] = "review"
  /\ st.op = "resolve" => st.key[1] = "identity_link"

(* persist stages the event of an entity that has a row right after it wrote *)
(* that row, and tells what it wrote; only an ensured row is told of nothing.*)
SaysTheSame(write, emit) ==
  write.op \in Tells /\ emit.op = "emit" /\ emit.key = write.key /\ emit.data = write.data

TellsItsWrites(prog) ==
  \A i \in 1 .. Len(prog) :
    /\ prog[i].op \in Tells => i < Len(prog) /\ SaysTheSame(prog[i], prog[i + 1])
    /\ prog[i].op = "emit" /\ HasRow(prog[i].key) => i > 1 /\ SaysTheSame(prog[i - 1], prog[i])

(* What a review is linked to is resolved before it. *)
ResolvesReviews(prog) ==
  \A i \in 1 .. Len(prog) : prog[i].op = "review" =>
    /\ i > 1 /\ prog[i - 1].op = "resolve" /\ prog[i - 1].key = prog[i].login
    /\ \E j \in 1 .. i - 1 : prog[j].op \in {"upsert", "ensure"} /\ prog[j].key = prog[i].item

(* A review keeps its pull request and its author at GitHub. *)
SameReview(st, other) ==
  st.op = "review" /\ other.op = "review" /\ st.key = other.key =>
    st.item = other.item /\ st.login = other.login

ASSUME WriteModelAssumption ==
  /\ None \notin Deliveries
  /\ MaxTries \in Nat
  /\ \A d \in Deliveries : SourceTime[d] \in Nat
  /\ \A d \in Deliveries :
       /\ Len(Program[d]) \in Nat
       /\ \A i \in 1 .. Len(Program[d]) : KeyFits(Program[d][i])
       /\ TellsItsWrites(Program[d]) /\ ResolvesReviews(Program[d])
  /\ \A c, d \in Deliveries : \A i \in 1 .. Len(Program[c]) : \A j \in 1 .. Len(Program[d]) :
       SameReview(Program[c][i], Program[d][j])

(* What has no row, a comment, is told of when it is created and never again. *)
ASSUME CreatedOnce ==
  \A c, d \in Deliveries : \A i \in 1 .. Len(Program[c]) : \A j \in 1 .. Len(Program[d]) :
    LET told == Program[c][i]  again == Program[d][j] IN
    told.op = "emit" /\ again.op = "emit" /\ told.key = again.key /\ ~HasRow(told.key) => c = d

VARIABLES
  arrived,     \* history: deliveries taken up so far
  tries,       \* transactions begun so far
  store,       \* committed rows by key
  outbox,      \* committed outbox rows
  nextId,      \* next value of the outbox identity sequence (never rolled back)
  pc,          \* pc[w]: "idle", "mark", "run" (at a statement), "link"
  cur,         \* cur[w]: the delivery of w's transaction, or None
  ip,          \* ip[w]: the statement of Program[cur[w]] w is at
  mine,        \* mine[w]: uncommitted rows of w's transaction by key
  staged,      \* staged[w]: its uncommitted outbox rows
  reviewer     \* reviewer[w]: what resolveContributor returns

dbVars == <<store, outbox, nextId>>
txVars == <<pc, cur, ip, mine, staged, reviewer>>
vars == <<arrived, tries, dbVars, txVars>>

MarkKey(d) == <<"processed_delivery", d>>
Marked(d) == MarkKey(d) \in DOMAIN store

Statement(w) == Program[cur[w]][ip[w]]
At(w, op) == pc[w] = "run" /\ ip[w] <= Len(Program[cur[w]]) /\ Statement(w).op = op

(* Tables are functions from keys to rows. *)
Put(table, k, row) == [x \in DOMAIN table \union {k} |-> IF x = k THEN row ELSE table[x]]
Over(top, bottom) ==
  [x \in DOMAIN top \union DOMAIN bottom |-> IF x \in DOMAIN top THEN top[x] ELSE bottom[x]]

(* What w's next statement sees: its own writes over what is committed. *)
View(w) == Over(mine[w], store)

Init ==
  /\ arrived = {}
  /\ tries = 0
  /\ store = <<>>
  /\ outbox = {}
  /\ nextId = 1
  /\ pc = [w \in Workers |-> "idle"]
  /\ cur = [w \in Workers |-> None]
  /\ ip = [w \in Workers |-> 1]
  /\ mine = [w \in Workers |-> <<>>]
  /\ staged = [w \in Workers |-> {}]
  /\ reviewer = [w \in Workers |-> None]

--------------------------------------------------------------------------------
(* Row locks. *)

Wanted(w) ==
  CASE pc[w] = "mark" -> {MarkKey(cur[w])}
    [] pc[w] = "link" -> {Statement(w).key}
    [] \E op \in Writes : At(w, op) -> {Statement(w).key}
    [] OTHER -> {}

WaitsFor(w, v) == v # w /\ Wanted(w) \intersect DOMAIN mine[v] # {}
Free(w) == \A v \in Workers : ~WaitsFor(w, v)

(* w is part of a circle: each of S waits for one of S and keeps one waiting. *)
InDeadlock(w) ==
  \E S \in SUBSET Workers :
    /\ w \in S
    /\ \A u \in S : (\E v \in S : WaitsFor(u, v)) /\ (\E v \in S : WaitsFor(v, u))

--------------------------------------------------------------------------------
(* Steps of a transaction. *)

Goto(w, stage) == pc' = [pc EXCEPT ![w] = stage]

(* Faulty variant of EndTx: the connection goes back with its transaction open. *)
EndTxOpen(w) ==
  /\ Goto(w, "idle")
  /\ cur' = [cur EXCEPT ![w] = None]
  /\ ip' = [ip EXCEPT ![w] = 1]
  /\ UNCHANGED <<arrived, tries, nextId, mine, staged, reviewer>>

EndTx(w) ==
  /\ Goto(w, "idle")
  /\ cur' = [cur EXCEPT ![w] = None]
  /\ ip' = [ip EXCEPT ![w] = 1]
  /\ mine' = [mine EXCEPT ![w] = <<>>]
  /\ staged' = [staged EXCEPT ![w] = {}]
  /\ reviewer' = [reviewer EXCEPT ![w] = None]
  /\ UNCHANGED <<arrived, tries, nextId>>

NextStatement(w) ==
  /\ ip' = [ip EXCEPT ![w] = @ + 1]
  /\ UNCHANGED <<arrived, tries, store, outbox, cur>>

Write(w, k, row) == mine' = [mine EXCEPT ![w] = Put(@, k, row)]

(* The reader hands w a delivery; WithTenant begins its transaction. *)
Begin(w, d) ==
  /\ pc[w] = "idle"
  /\ tries < MaxTries
  /\ tries' = tries + 1
  /\ arrived' = arrived \union {d}
  /\ cur' = [cur EXCEPT ![w] = d]
  /\ Goto(w, "mark")
  /\ UNCHANGED <<dbVars, ip, mine, staged, reviewer>>

(* A delivery whose mark is committed is a duplicate: errDuplicate. *)
MarkDelivery(w) ==
  /\ pc[w] = "mark" /\ Free(w)
  /\ \/ /\ Marked(cur[w])
        /\ EndTx(w)
     \/ /\ ~Marked(cur[w])
        /\ Write(w, MarkKey(cur[w]), [uuid |-> cur[w]])
        /\ Goto(w, "run")
        /\ UNCHANGED <<arrived, tries, nextId, cur, ip, staged, reviewer>>
  /\ UNCHANGED <<store, outbox>>

(* Faulty variant of Upsert: executed on the pool instead of the transaction,*)
(* so that it commits at once and keeps no lock.                             *)
UpsertOutsideTx(w) ==
  LET st == Statement(w) IN
  /\ At(w, "upsert") /\ Free(w)
  /\ store' = Put(store, st.key,
                  IF st.key \in DOMAIN store THEN [store[st.key] EXCEPT !.data = st.data]
                  ELSE [uuid |-> cur[w], data |-> st.data])
  /\ ip' = [ip EXCEPT ![w] = @ + 1]
  /\ UNCHANGED <<arrived, tries, outbox, nextId, pc, cur, mine, staged, reviewer>>

(* upsertWorkItem, upsertCheckRun: the latest to come refreshes the row. *)
Upsert(w) ==
  LET st == Statement(w) IN
  /\ At(w, "upsert") /\ Free(w)
  /\ Write(w, st.key, IF st.key \in DOMAIN View(w) THEN [View(w)[st.key] EXCEPT !.data = st.data]
                      ELSE [uuid |-> cur[w], data |-> st.data])
  /\ NextStatement(w)
  /\ UNCHANGED <<nextId, pc, staged, reviewer>>

(* Faulty variant of Ensure: the row is refreshed like the main one. *)
EnsureRefreshes(w) ==
  LET st == Statement(w) IN
  /\ At(w, "ensure") /\ Free(w)
  /\ Write(w, st.key, IF st.key \in DOMAIN View(w) THEN [View(w)[st.key] EXCEPT !.data = st.data]
                      ELSE [uuid |-> cur[w], data |-> st.data])
  /\ NextStatement(w)
  /\ UNCHANGED <<nextId, pc, staged, reviewer>>

(* ensureWorkItem: its no-op DO UPDATE locks a row that is there. *)
Ensure(w) ==
  LET st == Statement(w) IN
  /\ At(w, "ensure") /\ Free(w)
  /\ Write(w, st.key, IF st.key \in DOMAIN View(w) THEN View(w)[st.key]
                      ELSE [uuid |-> cur[w], data |-> st.data])
  /\ NextStatement(w)
  /\ UNCHANGED <<nextId, pc, staged, reviewer>>

(* resolveContributor: a plain SELECT, and where it finds no link, a new     *)
(* contributor, whose insertion can meet no conflict.                        *)
SelectLink(w) ==
  LET k == Statement(w).key  new == <<"contributor", cur[w], k>> IN
  /\ At(w, "resolve")
  /\ \/ /\ k \in DOMAIN View(w)
        /\ reviewer' = [reviewer EXCEPT ![w] = View(w)[k].contributor]
        /\ NextStatement(w)
        /\ UNCHANGED <<pc, mine>>
     \/ /\ k \notin DOMAIN View(w)
        /\ reviewer' = [reviewer EXCEPT ![w] = new]
        /\ Write(w, new, [uuid |-> new])
        /\ Goto(w, "link")
        /\ UNCHANGED <<arrived, tries, store, outbox, cur, ip>>
  /\ UNCHANGED <<nextId, staged>>

(* Faulty variant of InsertLink: the winner's link is not read again. *)
InsertLinkOwn(w) ==
  LET k == Statement(w).key IN
  /\ pc[w] = "link" /\ Free(w)
  /\ \/ /\ k \in DOMAIN store
        /\ UNCHANGED <<reviewer, mine>>
     \/ /\ k \notin DOMAIN store
        /\ Write(w, k, [contributor |-> reviewer[w]])
        /\ UNCHANGED reviewer
  /\ Goto(w, "run")
  /\ NextStatement(w)
  /\ UNCHANGED <<nextId, staged>>

(* The link's INSERT ... DO NOTHING.  One that another delivery committed in *)
(* the meantime wins and is read again; the new contributor is an orphan.    *)
InsertLink(w) ==
  LET k == Statement(w).key IN
  /\ pc[w] = "link" /\ Free(w)
  /\ \/ /\ k \in DOMAIN store
        /\ reviewer' = [reviewer EXCEPT ![w] = store[k].contributor]
        /\ UNCHANGED mine
     \/ /\ k \notin DOMAIN store
        /\ Write(w, k, [contributor |-> reviewer[w]])
        /\ UNCHANGED reviewer
  /\ Goto(w, "run")
  /\ NextStatement(w)
  /\ UNCHANGED <<nextId, staged>>

(* insertReview: a review that is there keeps its work item and reviewer. *)
InsertReview(w) ==
  LET st == Statement(w) IN
  /\ At(w, "review") /\ Free(w)
  /\ Write(w, st.key, IF st.key \in DOMAIN View(w) THEN [View(w)[st.key] EXCEPT !.data = st.data]
                      ELSE [ uuid |-> cur[w], data |-> st.data,
                             item |-> View(w)[st.item].uuid, reviewer |-> reviewer[w] ])
  /\ NextStatement(w)
  /\ UNCHANGED <<nextId, pc, staged, reviewer>>

EnqueueOutbox(w) ==
  /\ At(w, "emit")
  /\ staged' = [staged EXCEPT ![w] = @ \union
                  {[id |-> nextId, delivery |-> cur[w], event |-> Statement(w)]}]
  /\ nextId' = nextId + 1
  /\ NextStatement(w)
  /\ UNCHANGED <<pc, mine, reviewer>>

CommitTx(w) ==
  /\ pc[w] = "run" /\ ip[w] > Len(Program[cur[w]])
  /\ store' = Over(mine[w], store)
  /\ outbox' = outbox \union staged[w]
  /\ EndTx(w)

(* Faulty variant of RollBack: every statement commits on its own. *)
RollBackNothing(w) ==
  /\ pc[w] # "idle"
  /\ store' = Over(mine[w], store)
  /\ EndTx(w)
  /\ UNCHANGED outbox

(* A statement fails, the worker or its connection dies, or persist rejects *)
(* the result for good (permanentError), which Normalizer dead-letters.     *)
RollBack(w) ==
  /\ pc[w] # "idle"
  /\ EndTx(w)
  /\ UNCHANGED <<store, outbox>>

Aborted(w) == (InDeadlock(w) \/ At(w, "reject")) /\ RollBack(w)

--------------------------------------------------------------------------------
Step(w) ==
  \/ MarkDelivery(w) \/ Upsert(w) \/ Ensure(w) \/ SelectLink(w) \/ InsertLink(w)
  \/ InsertReview(w) \/ EnqueueOutbox(w) \/ CommitTx(w)

Next ==
  \E w \in Workers : (\E d \in Deliveries : Begin(w, d)) \/ Step(w) \/ RollBack(w)

Spec == Init /\ [][Next]_vars

(* Workers that can go on do, and Postgres breaks circles of waiting ones. *)
FairSpec ==
  Spec /\ \A w \in Workers : WF_vars(Step(w)) /\ WF_vars(Aborted(w))

--------------------------------------------------------------------------------
(* Properties. *)

Open(w) == pc[w] # "idle"

(* A worker between two deliveries has no transaction open. *)
TypeOK ==
  /\ arrived \subseteq Deliveries
  /\ tries \in Nat
  /\ nextId \in Nat \ {0}
  /\ pc \in [Workers -> {"idle", "mark", "run", "link"}]
  /\ cur \in [Workers -> Deliveries \union {None}]
  /\ ip \in [Workers -> Nat \ {0}]
  /\ DOMAIN mine = Workers /\ DOMAIN staged = Workers
  /\ \A w \in Workers :
       /\ Open(w) => cur[w] \in Deliveries
       /\ ~Open(w) => cur[w] = None /\ mine[w] = <<>> /\ staged[w] = {}
       /\ pc[w] \in {"idle", "mark"} => ip[w] = 1
       /\ pc[w] = "link" => Statement(w).op = "resolve"

(* What VisibleInIdOrder rests on.  Ids are drawn in order: *)
IdsDrawn ==
  /\ \A e \in outbox : e.id \in 1 .. nextId - 1
  /\ \A w \in Workers : \A e \in staged[w] : e.id \in 1 .. nextId - 1

(* a row has one writer at a time (a new contributor is its writer's own): *)
OneWriter ==
  \A v, w \in Workers : \A k \in DOMAIN mine[v] \intersect DOMAIN mine[w] :
    v # w => k[1] = "contributor"

(* a statement's row stays locked after it was executed, *)
LocksKept ==
  \A w \in Workers : pc[w] \in {"run", "link"} =>
    \A i \in 1 .. Len(Program[cur[w]]) :
      i < ip[w] /\ Program[cur[w]][i].op \in Writes =>
        Program[cur[w]][i].key \in DOMAIN mine[w]

(* and so does that of a staged event, *)
StagedLocked ==
  \A w \in Workers : \A e \in staged[w] :
    HasRow(e.event.key) => e.event.key \in DOMAIN mine[w]

(* so that no other transaction's event of this row comes in between. *)
StagedAfterCommitted ==
  \A w \in Workers : \A e \in staged[w] : \A f \in outbox :
    e.event.key = f.event.key /\ HasRow(e.event.key) => f.id < e.id

IInv == TypeOK /\ IdsDrawn /\ OneWriter /\ LocksKept /\ StagedLocked /\ StagedAfterCommitted

(* Outbox rows of one entity become visible in the order of their ids, with  *)
(* any number of workers: the row lock of the upsert is taken before the id  *)
(* is drawn and held to the commit.  So a relay that publishes in id order   *)
(* publishes what happened to one work item in order, though not, as         *)
(* OutboxRelay!TenantOrder shows, what happened in one tenant.               *)
VisibleInIdOrder ==
  [][\A e \in outbox' \ outbox, f \in outbox :
       e.event.key = f.event.key /\ HasRow(e.event.key) => f.id < e.id]_vars

(* The row of an entity and its last event in the outbox agree, in what both *)
(* of them hold (Persist!Columns leaves out merged_at and closed_at, which   *)
(* no event tells): read models built from canonical events end where the    *)
(* write model stands, and a review's ensure-only upsert never sets a PR     *)
(* back (connector.go:42-43).                                                *)
LastEventIsRow ==
  \A e \in outbox :
    HasRow(e.event.key) /\ (\A f \in outbox : f.event.key = e.event.key => f.id <= e.id) =>
      e.event.key \in DOMAIN store /\ store[e.event.key].data = e.event.data

(* A review that was persisted is linked to the row of its own PR and to the *)
(* one contributor that its reviewer's login resolves to, also when several  *)
(* deliveries saw the login first at once (main.go:482-491).                 *)
ReviewersResolved ==
  \A d \in Deliveries : \A i \in 1 .. Len(Program[d]) :
    LET st == Program[d][i] IN
    st.op = "review" /\ Marked(d) =>
      /\ {st.key, st.item, st.login} \subseteq DOMAIN store
      /\ store[st.key].item = store[st.item].uuid
      /\ store[st.key].reviewer = store[st.login].contributor
      /\ store[st.key].reviewer \in DOMAIN store

(* However the statements of concurrent deliveries interleave, the tables    *)
(* and the outbox are those of the deliveries applied one after another, but *)
(* for contributors that lost the race for their link.                       *)
Kept(tables) == [k \in { x \in DOMAIN tables : x[1] # "contributor" } |-> tables[k]]

InIdOrder(events) ==
  [n \in 1 .. Cardinality(events) |->
     CHOOSE e \in { x \in events : Cardinality({ f \in events : f.id <= x.id }) = n } : TRUE]

AboutKey(events, k) == { e \in events : e.event.key = k }
Keyed(events) == { e.event.key : e \in events }

Story(events) == [n \in 1 .. Cardinality(events) |-> InIdOrder(events)[n].event.data]
Stories(events) == [k \in Keyed(events) |-> Story(AboutKey(events, k))]

Serial == INSTANCE SerialWrites WITH store <- Kept(store), story <- Stories(outbox)
AppliedSerially == Serial!Spec

(* "The connector always emits the PR alongside its review" (main.go:318-319): *)
(* of what it normalizes, persist never rejects anything.                     *)
NoneRejected == \A w \in Workers : ~At(w, "reject")

(* Every transaction ends: workers that lock the same commits in opposite    *)
(* orders do not wait for ever, nor does one for an idle worker's rows.      *)
EveryTxEnds == \A w \in Workers : Open(w) ~> ~Open(w)

(* event.go:44-45: downstream ordering uses "source time, not arrival".      *)
(* Once all that arrived about an entity is committed, its row is that of    *)
(* the delivery GitHub sent last.                                            *)
About(k) ==
  { d \in arrived : \E i \in 1 .. Len(Program[d]) :
      Program[d][i].op = "upsert" /\ Program[d][i].key = k }

RowIsLatest ==
  \A d \in Deliveries : \A i \in 1 .. Len(Program[d]) :
    LET st == Program[d][i] IN
    /\ st.op = "upsert" /\ d \in arrived
    /\ \A c \in About(st.key) : Marked(c) /\ SourceTime[c] <= SourceTime[d]
    => store[st.key].data = st.data
================================================================================
