# dev-intel-platform in TLA+

A verification development of the ingestion pipeline of this repository: TLA+
modules translated from the Go services and the SQL schema, configurations that
model-check them with TLC, and theorems that TLAPS proves for every value of the
constants. Source lines are relative to the repository's root (`src/` in
PROJECT.json).

## The system

GitHub posts webhooks to the **gateway**, which writes each to the Kafka topic
`raw.github`. Two consumer groups read it: the **archiver** files every payload in
an object store, the **connector** enriches pull requests through GitHub's API and
writes everything on to `enriched.github`. The **normalizer** reads that topic and,
in one Postgres transaction per delivery, marks the delivery as processed, upserts
entities and inserts events into the `outbox` table. The **outbox relay** polls that
table and publishes its rows to `canonical.events`. Consumers acknowledge by
committing Kafka offsets; nothing else is shared between processes but Postgres,
the topics and the bucket.

### Inventory

| Component | State | Operations | Interacts with | Hard part | Correct when |
|---|---|---|---|---|---|
| normalizer (`services/normalizer`) | message in hand, attempt counter; tables `processed_delivery`, `outbox`, entities; DLQ topic | fetch, normalize, resolve tenant, mark, persist and stage, commit, dead-letter, commit offset | consumer group, Postgres, DLQ | several workers, crash between any two steps, rebalances, lost acknowledgements, retry by not committing | each delivery takes effect at most once and as a whole; dead letters leave nothing; only what was done is passed; every message is done |
| outbox relay (`services/outbox-relay`) | row locks, stamps of the batch | select and lock, publish, stamp, commit | Postgres, `canonical.events` | crash after publishing and before the stamp, competing relays, rows that become visible late | stamped implies published; only committed rows are published; bounded duplicates; order; every row is stamped |
| archiver (`services/archiver`, `libs/go/objectstore`) | message in hand; bucket | resolve partition, form key, put if absent, commit offset | consumer group, Postgres, S3 | the key depends on the time and on the tenants table | what was passed can be replayed, nothing is overwritten or misfiled |
| consumer groups and writers (`libs/go/kafka`) | log, owner, position, committed offset | fetch, commit, write | kafka-go (external) | commits by workers that lost the partition | at-least-once |
| installation tokens (`libs/go/githubapp/token.go`) | cache, lock per installation | Token | GitHub (external) | bursts, slow and failing requests | one mint per lifetime, never an older token over a newer one, every call returns |
| rate budget (`ratelimit.go`, `client.go`, `graphql.go`) | remaining, reset, known per pool | Reserve, Observe, ObserveGraphQL, Do, GraphQL | GitHub (external) | late, missing, unread responses, window resets | the headroom is kept up to what concurrency overshoots; a closed pool opens again |
| connector (`services/connector-github`) | message in hand, attempt counter | enrich (four degraded modes), write, commit | consumer group, GitHub client, `enriched.github` | same loop; waits on the rate limit | every message is passed on once its write succeeded, whatever GitHub does |
| gateway (`services/webhook-gateway`) | requests in flight, the Kafka writer's batch | verify, write, 202 or 503, drain on SIGTERM | GitHub, `raw.github` | a timeout, signal or crash while the write is under way; slow clients | 202 means on the topic, and in the archive in the end; a drain ends |
| write model (`db/migrations`, `persist` of the normalizer) | entity tables, contributors, identity links, row locks | markDelivery, upsertWorkItem, ensureWorkItem, resolveContributor, insertReview, upsertCheckRun, enqueueOutbox | Postgres | statements of concurrent deliveries, unique-key races, lock order, deliveries out of order | the outcome is that of the deliveries one after another; events of an entity in order, the last one agreeing with its row; no transaction waits for ever |
| GitHub normalization (`libs/go/connector/github`) | none (pure) | Normalize and its eight handlers | normalizer | many payload shapes | what it returns, persist never rejects |
| canonical events (`libs/go/events`) | none | the envelope | normalizer | source time against arrival | the event tells what its row says |
| tenancy (`libs/go/tenancy`, RLS) | tenant setting of a transaction | ResolveTenant, WithTenant | Postgres | pooled connections | no row of another tenant is seen or written |
| config, observability, ghcheck, deployment | none a property is about | | | | |

Every component, modelled or not, is in PROJECT.json `components`; the hazards, each
at its line, in `hazards`.

## Modules

| Module | Models | Uses |
|---|---|---|
| ConsumerGroup | kafka-go partitions, ownership, positions, committed offsets; the base of every consumer | |
| AtLeastOnce | what a consumer loop promises: a message is let go of, or its offset committed, only once it is done | ConsumerGroup |
| DeliveryLedger | what the normalizer's tables promise: a delivery is applied whole or not at all, an identified one at most once | |
| Normalizer | the loop of `services/normalizer/main.go`: the transaction of a delivery as a whole | ConsumerGroup; `Ledger` is an instance of DeliveryLedger, `Loop` of AtLeastOnce |
| GithubNormalize | `libs/go/connector/github/github.go`, an operator | |
| Persist | which statements `persist` executes for a result, an operator | GithubNormalize |
| SerialWrites | what the write model promises: deliveries take effect one after another, each in one step (`Executed` and `Told`: what a delivery's first n statements make of tables and stories) | |
| WriteModel | those statements, executed by concurrent transactions with row locks | `Serial` is an instance of SerialWrites |
| OutboxRelay | `services/outbox-relay/main.go` and, as its environment, the transactions of writers | |
| Archiver | `services/archiver/main.go`, `libs/go/objectstore` | ConsumerGroup; `Loop` is an instance of AtLeastOnce |
| Gateway | `services/webhook-gateway/main.go` with the batch of its Kafka writer | ConsumerGroup |
| Intake | the two ends of `raw.github` | Gateway, Archiver |
| Enricher | `services/connector-github/main.go` with the two queries of `graphql.go` it makes | ConsumerGroup; `Loop` is an instance of AtLeastOnce |
| TokenSource | `libs/go/githubapp/token.go` | |
| RateBudget | `libs/go/githubapp/ratelimit.go` with the calls of `client.go` and `graphql.go` | |
| MC* | values for the function constants of a module; MCWriteModel also the webhooks whose programs are executed | the module |
| *Proofs | theorems about a module; ArchiverProofs also about Gateway and Intake, WriteModelProofs about Persist | the module, TLAPS, the library's theorems on finite sets and well-founded induction |

Definitions called "Faulty variant of X" are plausible mistakes in X. They are in no
behaviour; replacing X by one makes TLC report the property it is listed with in
PROJECT.json `mutants`, which shows that the property says something about the code.

### Correspondence to the code

**ConsumerGroup.** `log[p]` is a partition, `owner[p]` the member that reads it,
`position[p]` that member's next offset, `committed[p]` the group's offset.
`FetchFrom` is `FetchMessage`, `CommitUpTo` is `CommitMessages`: it takes effect also
when the committing worker has lost the partition, and the last commit wins, so that a
late one can move the offset back (messages are then read again) or forward.
`Assign` gives partitions to live members at the committed offset. The library is
external: the module says what `libs/go/kafka` relies on.

**Normalizer.** `pc[w]` follows the loop of `main`: "fetch" (:114), "normalize" (:165),
"tenant" (:192), "mark" (:203-221, :260), "persist" (:278), "deadletter" (:249),
"commit" (:574), "down" (crashed). Each database call is a step of its own, so workers
interleave between any two. `MarkDelivery` inserts the mark and waits while another open
transaction holds it; `EnqueueOutbox` draws an identity value and stages one row;
`CommitTx` makes the mark and the rows visible. `DatabaseFails`, `DeadLetterFails` and
`CommitTxUnacknowledged` (the server committed, the client saw an error) take the retry
branch (:146): the loop fetches again. `failed` remembers which messages took it.
A message's `Kind` is what `Normalize` makes of it: "bad" (dead-lettered), "skip",
"good", or "orphan" (a review whose PR the delivery lacks: dead-lettered from inside
the transaction, :319). `Anonymous` messages have no delivery id and are not deduplicated.

**GithubNormalize, Persist.** Go functions keep their names: `Normalize` (github.go:33), the
eight `normalize*` handlers, `workItemEvent`, `workItemOccurredAt`, `prWorkItem`,
`applyEnrichment`, `statusConclusion`. A payload is a record of identities, states and times.
`ProgramOf` is `persist` (normalizer `main.go`:283) without the database: a sequence of statements
`[op, key, ...]` with `op` one of "upsert", "ensure", "resolve", "review", "emit" and
"reject" (the permanentError at :319).

**WriteModel.** `Begin` and `CommitTx` are `WithTenant` (tenancy.go:58, :71), `MarkDelivery` is
`markDelivery` (:262); `Upsert` is `upsertWorkItem` and `upsertCheckRun` (:373, :434), `Ensure` is
`ensureWorkItem` (:402), `SelectLink` and `InsertLink` the two halves of `resolveContributor` (:451),
`InsertReview` and `EnqueueOutbox` theirs. `store` is every table, as a function from
unique keys to rows; `mine[w]` is what `w`'s transaction wrote, and its domain the row locks it holds.
`Free(w)` is false while another transaction holds the key `w` wants. `Aborted` is the deadlock
detector or a rejected result, `RollBack` every other failure as well. `SelectLink` takes no lock, which
is where two deliveries race for a login. Under the refinement mapping the tables are `store` but for the contributors
(`Kept`: who loses the race leaves one that nothing links to), and the story of an entity is its events in the order of their ids.

**OutboxRelay.** One action per stage of `drainBatch`: `SelectBatch` (the `SELECT ...
FOR UPDATE SKIP LOCKED`, :120), `Publish`/`PublishRepeated`/`PublishFails` per row
(:154-179; a failed write may have reached the broker, and ends the batch),
`StampAndCommit` (:181-191), `RollBack` (failure or crash at any point). Rows become
visible at `WriterCommit`, ids are drawn at `Insert`. A relay that is "off" is not deployed: it stays so,
and one instance has deployments of one relay and of two.

**Archiver.** `TenantPartition` (:138, :163), `FormKey` (:142, the clock is read after the
lookup), `Put` (:145). The key is the record of directory, date and name; the body is the
message; `from`, a history, is its place on the topic. `Put` is atomic at the store; one that returns an error may have been applied.

**Gateway.** `post[r]` is where `handleGitHub` (:96) is with a request: "reading" its body,
"writing", "accepted" (202, :144) or "refused" (everything else). `batch` is what kafka-go's writer
holds: `WriteTimeout` (:133-141) ends the wait, not the message; `AckLost` sends it twice; `WriteFails` is the
end of its attempts. `gate` follows `main`: "serving", "draining" (`Shutdown` with ten seconds, :80-85),
"closing" (the deferred `Close` of the writer), "exited". `DrainTimeout` is the `os.Exit(1)` at :84, `Die` a crash or the one at
:76.

**Intake.** The gateway's `Deliver` and `AckLost` take the place of Archiver's `Produce`; both modules'
steps interleave over one `log`.

**Enricher.** `Fetch`, then `Enrich` (:180-197, the cases that ask GitHub nothing), `Query` and
`Requery` (the two calls of `EnrichPullRequest`, :225 and :232, with everything GitHub
or the budget may answer), `Wait` (:229), `Patch` (:238), `Merge` (:212), `Write` (:174),
`CommitOffset` (:121). `status[w]` is the `enrich-status` the message goes out with;
`out[m]` lists the statuses message `m` was emitted with. `WriteFails` is the branch at :111.

**TokenSource.** `Check`, `Lock`, `Recheck`, `Mint`, `Store`, `Unlock` are the stages of
`Token` (:76-99). A token is its expiry. `mu` guards single accesses, each one step.

**RateBudget.** `Reserve` (ratelimit.go:59), `Send` (GitHub meets the call), `Observe`
(client.go:66-71, graphql.go:61-96), `CallFails`. GitHub is a window of `Limit` points.
`RefusalCarriesRate` tells the REST pool, whose refusals have the headers, from the
GraphQL pool, where a response with errors returns before it is observed (graphql.go:71).

### Abstractions

Payloads, headers, trace context, logging and the wording of errors are left out.
A backoff or poll delay is an arbitrary delay. Normalizer has no entity tables: a transaction
Postgres aborts is a `DatabaseFails` there, and WriteModel has the statements and their waits. WriteModel
in turn has no loop (a worker takes any delivery, in any order, repeatedly), no deliveries
without an id, and no tenants: a tenant leads every unique key, so that transactions of two
tenants never meet.
A work item's data is what its row and its events have in common: `merged_at` and `closed_at`, which no event tells, and
commits and files, which no row has, are left out.
TokenSource and RateBudget are called concurrently, as the comments of `libs/go/githubapp` provide for (`token.go:32`, `token.go:75`, `ratelimit.go:26-27`); the commands
and services of the repository call them from one goroutine.
Isolation is READ COMMITTED, the default the code uses. `canonical.events` is one
sequence: its order for one key is what the properties speak of. The services' clocks
and GitHub's are one clock. SIGTERM ends a worker at its next call, as a crash does.
The calls in the repository reserve one point each and are taken to cost one.

## Runs

Every run finishes in three minutes or less with two workers. Deadlock checking is off where the
bounded inputs come to an end (all messages produced, all faults spent) or the clock reaches its
bound; Token_refresh keeps it on, as a caller can always call again.

| Run | Instance | Shows |
|---|---|---|
| Normalizer_loop | 2 workers, 2 partitions, any two writes of five kinds of delivery (a push of two events, a skipped one, an orphan review, one without id whose tenant comes late, an undecodable one), 1 fault, 1 disruption | one row per event, clean dead letters, the inductive invariant; the tables implement DeliveryLedger and the loop AtLeastOnce; everything is done in the end |
| Normalizer_lost (violated) | a push and a second message, 1 fault | the finding on retries, below |
| WriteModel_serial | 2 workers, 3 transactions of any of ten deliveries: a PR at two moments, reviews of two PRs by one login, one without a login, pushes of the same commits in opposite orders, two statuses of one check, a comment | the outcome implements SerialWrites; events of an entity in id order, the last one agreeing with its row; reviews linked to the right PR and contributor; nothing rejected; every transaction ends |
| WriteModel_latest (violated) | the same | the finding on deliveries out of order |
| Relay_safety | 2 writers, 1 or 2 relays, 3 rows of 2 deliveries, batches of 2, 1 abort, 2 faults | honest stamps, bounded copies, no republishing after the stamp, a delivery's events in order with a single relay, every row stamped |
| Relay_writers_race (violated) | 1 relay, 2 writers, no fault | the finding on tenant order |
| Intake_safety | one post of two kinds (an installation that comes late, no delivery id), up to two topic writes of it, 1 stop; 2 archive workers, 2 days, 1 fault, 1 disruption | 202 means on the topic, and archived or logged in the end; a drain ends and drops nothing; replayable, never misfiled or overwritten; the archiver implements AtLeastOnce |
| Archiver_redelivered (violated) | 1 delivery | the finding on redeliveries |
| Enricher_safety | 2 workers, one without credentials, 2 partitions, a pull request, one without a repository and an event that is passed on, 1 fault, 1 disruption | nothing stalls, copies are bounded by failures, the inductive invariant; implements AtLeastOnce |
| Token_refresh | 3 callers, 2 installations, lifetime 3, skew 1, clock to 4 | one mint per lifetime, tokens only get newer, every call returns |
| Budget_rest | 3 callers, window of 9 points and 2 ticks, floor 7, 1 lost response, clock to 3, any start | headroom kept, with the inductive invariant it rests on; pool opens again |
| Budget_graphql (violated) | 1 caller, GraphQL pool | the finding on refused queries |

The invariants `IInv` and `SafetyInv` are conjunctions of named parts, among them each module's `TypeOK`,
`MarkedIffStaged` and `PassedOnlyWhenDone` of Normalizer and `PublishedIsCommitted` of OutboxRelay, which the
runs check through them.

### Why these bounds

- *Two workers or relays* are what a race, a stale owner or a double read needs; a
  third adds symmetric cases, and the theorems cover every number of them.
- *Two partitions* (Normalizer_loop, Enricher_safety) let a worker own one, lose it and keep the other.
- *Two writes* of any of the messages are a message and its redelivery, or two messages of which the first
  is passed by the second's commit. A *disruption* redelivers too: while the first transaction is
  open, or after it committed.
- *Three transactions* of WriteModel are two that race and one that finds what they left. The ten
  deliveries are chosen in pairs that meet in a row: an ensured PR and its newer row, two
  first sights of a login, two commits locked in opposite orders.
- *One post, written twice* is what an unacknowledged write makes of a webhook: two messages under one key, whose objects the
  model tells apart by the message they were put for, so that a put that overwrote one would show; a second post shares
  nothing with the first but the drain, which the theorem AcceptedArrived covers.
- *A delivery of two events* is what a partial effect, or an event overtaken by another
  of its delivery, needs; *batches of two* with three or four rows make batches split deliveries.
- *Two days* put a midnight between two steps of the archiver.
- The token's clock passes one lifetime, so that a token expires while callers
  wait; three callers give two waiters on a lock.
- `Slack` in RateBudget is a bound for every number of callers (theorem HeadroomBounded): 1 + ... + N calls, plus one
  per lost response. The floor of the run is its value there, so an overdraft beyond it would show.

### Fairness

- *Workers* (`WF(Step(w))`): the `for` loops of `main` never stop by themselves. A worker
  that crashed is started again (`WF(Restart(w))`), by the Kubernetes deployment the
  docs name (`docs/ARCHITECTURE.md:204`). A partition without an owner is assigned
  (`WF(AssignOrphans)`): the group coordinator's job.
- *Relays* (`WF(RelayStep(r))`): the loop polls for ever. Failures are not fair and bounded in
  number: a dependency that fails for ever stops every progress.
- *Transactions* (`WF(Step(w))`, `WF(Aborted(w))`): a statement that need not wait is executed, and Postgres
  ends a circle of waiting transactions (`deadlock_timeout`). Beginning one is not fair.
- *Gateway*: the write's deadline, the attempts of kafka-go's writer and the drain's deadline run out, and a
  supervisor starts the process again. Nothing makes a client send the rest of its body, nor the broker
  take a message.
- *Tokens*: goroutines run and requests end, since the HTTP client has a timeout of 15 s. `SF`
  on `Lock` stands for `sync.Mutex`, which hands over to waiters in order after 1 ms.
- *Budget*: time passes, and a call that was sent gets its answer or fails.

Producing messages, onboarding an installation and asking for a token are not fair:
nothing forces them to happen.

The liveness properties of the two consumers say "done", which is settled *or* having met
a transient failure; why not simply settled is the first finding.

## What the runs found

1. **A message that fails transiently is not retried** (Normalizer_lost).
   `normalizer/main.go:16-17`, and for the archiver `archiver/main.go:96-97`, promise redelivery by not
   committing. But the loop goes back to `reader.Fetch`, which returns the *next* message; when
   that one succeeds, its commit passes the failed offset. Only if the worker stops, or the
   partition moves, before that is the message read again. The archiver's loop (:95-104) and the connector's (:111-119) have the same shape; that they count a message that
   met such a failure as done is stated in `Done` of the three modules.
2. **One relay does not preserve tenant order** (Relay_writers_race). `docs/ADRs.md:262`
   promises `outbox_id` order per tenant with one relay. Ids are drawn at INSERT and rows
   are seen at COMMIT, so with two normalizer workers a lower id can appear after a higher
   one was published. The events of one delivery do keep their order (EventsInOrder), and so do those of one entity (VisibleInIdOrder).
3. **Redelivery to the archive is not a no-op** (Archiver_redelivered): the key holds the
   day and the tenant as seen when the message is processed.
4. **A GraphQL pool that starts in a spent window never closes** (Budget_graphql): a response
   with errors is not observed, so every call is issued and refused until the window ends.
5. **The last to arrive wins, not the latest** (WriteModel_latest). `upsertWorkItem` "overwrites mutable fields
   with the latest values" (`main.go:371-372`) and `occurred_at` is there "so downstream ordering uses source
   time, not arrival" (`events/event.go:44-45`); no statement compares times, so that two deliveries about one PR
   processed in the other order leave the older state. Row and last event do agree (LastEventIsRow).

Three observations have no run of their own. Deliveries without an `X-GitHub-Delivery` header
share one key per directory and day in the archive, and all but the first are taken for
redeliveries; GitHub always sends the header, and PassedIsReplayable speaks of
identified deliveries only. `docs/ADRs.md:155` lets intake deduplicate at the gateway; the code leaves
it to `processed_delivery`, so that `raw.github` and the archive may see a delivery twice. With several relays, rows of one delivery can be
published out of order, as relay `main.go:110-112` says for a tenant.

## Proofs

The theorems hold for all sets of workers, partitions, messages, installations and
deliveries, and all values of the bounds, under the assumptions named in the modules:
`GroupAssumption`, `NormalizerAssumption`, `RelayAssumption`, `EnricherAssumption`, `BudgetAssumption` (types and bounds only),
`WriteModelAssumption` (of programs: an entity's event follows its write and tells what it wrote, a
review is resolved and its PR written before it; a review keeps its PR and its author), `CreatedOnce` (a comment, which
has events but no row, is told of by one delivery), `GatewayAssumption` and `IntakeAssumption` (types and bounds), `ArchiverAssumption` (delivery
ids are unique; a directory is a tenant's or an unresolved installation's, not both),
`TokenAssumption` (the skew is smaller than the lifetime).

**NormalizerProofs.** `IInv` is inductive. Its parts: `TypeOK`; `KindInv` (a message's kind
decides which stages it reaches, so that nothing but good deliveries reaches the tables);
`IdInv` (identity values in the table and in open transactions are distinct and below the
sequence); `MarkInv` (one open transaction per identified delivery, none once it is
marked); `OneRowPerEvent`; `MarkedIffStaged`; `OrderInv` (a worker holds a message only when every
earlier one of its partition is done; the owner's position passes only done messages or
the one in hand); `PassedOnlyWhenDone`. MarkInv is what makes OneRowPerEvent inductive, since without
it two transactions of one delivery could both commit; OrderInv does the same for
PassedOnlyWhenDone, since a commit passes all earlier offsets at once. Consequences: `ExactlyOnceRows`,
`AtomicEffect`, `DeadLettersAreClean`, `PassedIsDone`; and `ImplementsLedger`, by showing that
each step maps to a ledger step or a stutter; and `ImplementsLoop`: under `hand <- cur`,
`done <- DonePlaces` the loop implements AtLeastOnce, since a worker lets go of a message only when OrderInv has it done, or with
the log of its failure. The three consumers are thus instances of one promise.

**WriteModelProofs.** `InvariantHolds`: `IInv` with `OneWriter` (a row has one uncommitted writer), `LocksKept` (a
statement's row stays locked until the commit), `StagedLocked` and `StagedAfterCommitted`. From them
`EventsVisibleInIdOrder`: an id is drawn under the row's lock, so nobody else's event of this row comes between the draw
and the commit. `EventsEndAtRow` needs `AgreeInv` besides: inside a transaction, too, the row it sees and the last event
it sees agree, but between a write and the event that follows it. `ReviewsLeadToReviewers` needs `ResolveInv`: what a
transaction resolved is the link it sees, and links and work items, once committed, keep their contributor and
their uuid.
`ImplementsSerialWrites` is the refinement: under `Kept` and `Stories`, every step is the application of one whole delivery or a
stutter. `SerialInv` carries it: what an open transaction sees, new contributors aside, is what its delivery's mark and the statements
so far make of the tables *as they are committed now*, not as they were when it read them; for the stories likewise. It is kept by a
statement, which is one more step of `Executed` or `Told`, and by the commits of others, since they touch no row the
transaction holds and tell of no entity it told of. That such a commit can be moved before the statements is what `ExecutedFrame` and `ToldFrame`
say, by induction on the statements (over sets of numbers, as the least one at which it fails).
`WebhooksFit`: of whatever `Normalize` returns for a webhook, with any number of commits in a push, `persist` makes a program without a rejection, which
has the form WriteModelAssumption asks for. What is left to assume of GitHub is only that a review keeps its PR and author, and
CreatedOnce. `NothingRejected` is its consequence for workers that execute such programs.

**OutboxRelayProofs.** `SafetyInv`: `TypeOK`, `LockInv` (a relay holds pending rows, and
alone), `SentInv` (what it believes published is in the topic), `StampedIsPublished`,
`PublishedIsCommitted`. `NoRepublish`, an action property, follows from LockInv: what is
published is in some batch, hence pending. `SingleRelayOrder`: while one relay runs, a row is published only when every
earlier one of its delivery was, since a batch is a prefix of what is pending and a delivery's rows become visible
at once. `CopiesBounded`: a row is published again only after a fault, and a fault accounts for at most one copy of it.

**AtLeastOnceProofs.** `PassedIsDone`: in the abstract loop the committed offset passes only
done messages, through `HandDone` and `ReadDone` (as OrderInv above).

**ArchiverProofs.** `IInv` (`TypeOK`, `NamedAfterBody`, `CommitsWhenDone`), `Immutable` (a put changes no object that is
there), `WellFiled` (the directory is resolved before the key is formed, and an installation that is known stays known) and `ImplementsLoop`: Archiver
implements AtLeastOnce under `hand <- cur`, `done <- DonePlaces`. `Replayable` then combines the
abstract module's theorem with `NamedAfterBody` and the uniqueness of delivery ids.
Of Intake: `ImplementsArchiver`: behind the gateway the archiver behaves as it does alone, so that its theorems hold of the composition (`IntakeReplayable`). `AcceptedArrived`: with `GatewayTypeOK`, a post that was answered with 202 is on
the topic, as only `Deliver` answers so and the log only grows. `DrainDropsNothing` needs `GatewayTypeOK` alone: a gateway that is closing its writer has no request in
flight.

**EnricherProofs.** `IInv`: `TypeOK`; `CommitsWhenDone` (a worker about to commit has passed
on what it has in hand); `Placed`, `OrphanedByCrash` and `CopiesAccounted`. `ImplementsLoop`, as for the archiver: whatever GitHub answers,
an offset is committed only after a write. `CopiesBounded` counts how often a message goes out: what was emitted, what is in some worker's
hand and what its partition's owner has still to read are at most the copies on the topic for each time the partitions were
handed out, plus one per fault. The count must include what is still to be read, since a late commit that moves the offset back
makes the next owner read several messages again; this is why the bound is per copy *and* disruption.

**RateBudgetProofs.** `OvershootAccounted`: `IInv`, that is `TypeOK`, `Overshoot` and `HeadroomKept`. It bounds calls, not what the
pool believes: a late reply may set the estimate back as far as it likes, and what the account says is how many calls that can cost. Once a window is at its floor, every new reply shuts the pool, and only an
older one, observed late, opens it. Each such reply lets at most the callers through that hold no late one, so the calls to come are at most 1 + ... + n for
the n callers without one; Overshoot states this of the calls made and those already let through. `HeadroomBounded` assumes `RefusalCarriesRate`, which holds of the REST pool;
that it fails for the other is the fourth finding.

**TokenSourceProofs.** `IInv`: `TypeOK`, `LockIsOwn` (a refresh holds its installation's lock),
`NoWastedMint`, `IssuedAfterExpiry` (a token about to be stored was issued when the cached one was
no longer valid). `OneMintPerLifetime` and `TokensLiveLonger` follow; the latter needs
Skew < TTL.

**Only model-checked**: every liveness property (`EveryMessageSettles`, `EventuallyStamped`, `EveryMessageArchived`, `DrainEnds`,
`AcceptedIsArchived`, `NeverStalls`, `EveryTxEnds`, `EveryCallReturns`, `OpensAgain`), as TLAPS does not reason about fairness; and the properties the
code violates, which have no theorem. Every safety property of a passing run has a theorem.

## Plan

Done: the consumer group and the at-least-once loop, Normalizer with DeliveryLedger, OutboxRelay, Archiver, TokenSource,
RateBudget, Enricher; the write model statement by statement (GithubNormalize, Persist, WriteModel, SerialWrites); the
gateway and its composition with the archiver (Gateway, Intake); the refinements between them; a theorem for every safety property
of a passing run.

Left, by importance:

1. *Pipeline*: WriteModel and OutboxRelay over one outbox; end to end, what a committed delivery looks like on
   `canonical.events`. VisibleInIdOrder and EventsInOrder are the two halves of it.
2. *Tenancy*: the row-level policies. The tenant setting is `set_config(..., true)`, which Postgres ends with the
   transaction, so no sequence of pooled transactions carries it over; the policies themselves are
   tested in `tests/red-team`.

## Not modelled

- Tables that nothing writes yet (`state_transition`, `entity_edge`, `repo_capability`), grants and policies.
- JWT encoding and its RSA signature, `ListInstallations` and the capability probe: no state.
- JSON decoding and the wording of titles, bodies and errors.
- The S3, Kafka and Postgres clients themselves: external, modelled as the code relies on them.
- Configuration, logging and tracing: no property is about them. `ghcheck` is a sequential command that prints.
- Deployment files and scripts; the docs are the source of the promises above.
