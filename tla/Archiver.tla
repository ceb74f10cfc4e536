------------------------------- MODULE Archiver --------------------------------
(***************************************************************************)
(* services/archiver/main.go: each worker runs the loop                    *)
(*     fetch -> tenantPartition -> date -> PutIfAbsent -> commit           *)
(* over the topic raw.github, as a consumer group of its own, and files    *)
(* every payload under raw/github/<partition>/<date>/<delivery>.json.      *)
(*                                                                         *)
(* A payload is the message itself; an object records the key's three      *)
(* parts, the payload it holds and, as a history, the place on the topic   *)
(* of the message it was put for, which tells one put of a payload from    *)
(* another.  The object store (S3, PutObject under If-None-Match) is       *)
(* external: a put is atomic, and one that returns an error may have been  *)
(* applied.  The backoff's delay is left out: a worker may be delayed      *)
(* anywhere.  SIGTERM cancels the context and ends the worker at its next  *)
(* call: a Crash here.                                                     *)
(***************************************************************************)
EXTENDS ConsumerGroup

CONSTANTS
  Installations,   \* ids of GitHub App installations; also the name of the
                   \* directory _unresolved/<id>
  NoInstallation,  \* body without an id; _unresolved/_no_installation
  InstallationOf,  \* [Messages -> Installations \union {NoInstallation}]
  Tenants,         \* tenant ids; also their directories
  TenantOf,        \* [Installations -> Tenants], once onboarded
  Onboarded,       \* installations known from the start
  Names,           \* delivery ids, the empty one included
  NameOf,          \* [Messages -> Names]: header or, failing that, the key
  NoName,          \* the empty delivery id, shared by deliveries without one
  MaxDays,         \* bound: days the clock runs through
  MaxWrites,       \* bound: writes to one partition of the topic
  MaxFaults,       \* bound: transient errors (database, object store)
  MaxDisruptions   \* bound: crashes, rebalances, failed offset commits

Dirs == Tenants \union Installations \union {NoInstallation}
Identified == { m \in Messages : NameOf[m] # NoName }

ASSUME ArchiverAssumption ==
  /\ InstallationOf \in [Messages -> Installations \union {NoInstallation}]
  /\ TenantOf \in [Installations -> Tenants]
  /\ Onboarded \subseteq Installations
  /\ Installations \cap Tenants = {}
  /\ NoInstallation \notin Installations \union Tenants
  /\ NameOf \in [Messages -> Names]
  /\ \A m, n \in Identified : NameOf[m] = NameOf[n] => m = n
  /\ MaxDays \in Nat /\ MaxWrites \in Nat /\ MaxFaults \in Nat /\ MaxDisruptions \in Nat

VARIABLES
  pc,          \* pc[w]: where worker w is in its loop
  cur,         \* cur[w]: <<partition, offset>> of the message in hand, or NoMessage
  dir,         \* dir[w]: what tenantPartition returned
  date,        \* date[w]: the day in the key w has formed
  today,       \* the wall clock's day
  known,       \* table github_installation: installations that resolve
  objects,     \* the bucket: records [dir, date, name, body, from]
  failed,      \* history: <<p, o>> logged as "archive failed; will retry"
  faults,      \* transient errors so far
  disruptions  \* crashes, rebalances and failed offset commits so far

workerVars == <<pc, cur, dir, date>>
worldVars == <<today, known>>
countVars == <<faults, disruptions>>
vars == <<groupVars, workerVars, worldVars, objects, failed, countVars>>

NoMessage == <<>>
Places == Partitions \X Nat
Objects ==
  [dir : Dirs, date : 0 .. MaxDays, name : Names, body : Messages, from : Places]

Stages == {"fetch", "tenant", "date", "put", "commit", "down"}
Busy(w) == pc[w] \notin {"fetch", "down"}
Msg(w) == MessageAt(cur[w][1], cur[w][2])

(* A worker that is not at the head of the loop has a message in hand. *)
HandOK(w) ==
  IF Busy(w) THEN \E p \in Partitions : \E o \in Offsets(p) : cur[w] = <<p, o>>
             ELSE cur[w] = NoMessage

WorkerTypeOK ==
  /\ pc \in [Workers -> Stages]
  /\ cur \in [Workers -> Places \union {NoMessage}]
  /\ dir \in [Workers -> Dirs]
  /\ date \in [Workers -> 0 .. MaxDays]

StoreTypeOK ==
  /\ today \in 0 .. MaxDays
  /\ known \subseteq Installations
  /\ objects \subseteq Objects
  /\ failed \subseteq Places
  /\ faults \in 0 .. MaxFaults
  /\ disruptions \in 0 .. MaxDisruptions

TypeOK ==
  /\ GroupTypeOK
  /\ WorkerTypeOK
  /\ \A w \in Workers : HandOK(w)
  /\ StoreTypeOK

Init ==
  /\ GroupInit
  /\ pc = [w \in Workers |-> "fetch"]
  /\ cur = [w \in Workers |-> NoMessage]
  /\ dir = [w \in Workers |-> NoInstallation]
  /\ date = [w \in Workers |-> 0]
  /\ today = 0
  /\ known = Onboarded
  /\ objects = {}
  /\ failed = {}
  /\ faults = 0
  /\ disruptions = 0

--------------------------------------------------------------------------------
Goto(w, stage) == pc' = [pc EXCEPT ![w] = stage]

(* Back to the head of the loop with nothing in hand. *)
LoopAgain(w, stage) ==
  /\ Goto(w, stage)
  /\ cur' = [cur EXCEPT ![w] = NoMessage]
  /\ dir' = [dir EXCEPT ![w] = NoInstallation]
  /\ date' = [date EXCEPT ![w] = 0]

Fault == faults < MaxFaults /\ faults' = faults + 1 /\ UNCHANGED disruptions
Disruption == disruptions < MaxDisruptions /\ disruptions' = disruptions + 1 /\ UNCHANGED faults

(* "archive failed; will retry": no offset commit, back to the fetch. *)
WillRetry(w) ==
  /\ Fault
  /\ failed' = failed \union {cur[w]}
  /\ LoopAgain(w, "fetch")
  /\ UNCHANGED <<groupVars, worldVars>>

--------------------------------------------------------------------------------
(* The gateway writes a delivery to raw.github; GitHub may redeliver it. *)
Produce(m) ==
  /\ Len(log[PartitionOf[m]]) < MaxWrites
  /\ Append1(m)
  /\ UNCHANGED <<workerVars, worldVars, objects, failed, countVars>>

(* An operator onboards an installation: it resolves from now on. *)
Onboard(i) ==
  /\ i \notin known
  /\ known' = known \union {i}
  /\ UNCHANGED <<groupVars, workerVars, today, objects, failed, countVars>>

NewDay ==
  /\ today < MaxDays
  /\ today' = today + 1
  /\ UNCHANGED <<groupVars, workerVars, known, objects, failed, countVars>>

(* Faulty variants of Fetch: ReadMessage, which commits as it reads; the     *)
(* offset in hand is the reader's next one.                                  *)
FetchAutoCommit(w) ==
  /\ pc[w] = "fetch"
  /\ \E p \in Partitions :
       /\ CanFetch(w, p)
       /\ position' = [position EXCEPT ![p] = @ + 1]
       /\ committed' = [committed EXCEPT ![p] = position[p] + 1]
       /\ cur' = [cur EXCEPT ![w] = <<p, position[p]>>]
  /\ Goto(w, "tenant")
  /\ UNCHANGED <<log, owner, dir, date, worldVars, objects, failed, countVars>>

FetchNextOffset(w) ==
  /\ pc[w] = "fetch"
  /\ \E p \in Partitions :
       FetchFrom(w, p) /\ cur' = [cur EXCEPT ![w] = <<p, position[p] + 1>>]
  /\ Goto(w, "tenant")
  /\ UNCHANGED <<dir, date, worldVars, objects, failed, countVars>>

Fetch(w) ==
  /\ pc[w] = "fetch"
  /\ \E p \in Partitions :
       FetchFrom(w, p) /\ cur' = [cur EXCEPT ![w] = <<p, position[p]>>]
  /\ Goto(w, "tenant")
  /\ UNCHANGED <<dir, date, worldVars, objects, failed, countVars>>

(* The directory tenantPartition picks for an installation; a lookup that   *)
(* finds no row falls back to _unresolved/<id>.                              *)
Partition(i) == IF i \in known THEN TenantOf[i] ELSE i

TenantPartition(w) ==
  /\ pc[w] = "tenant"
  /\ dir' = [dir EXCEPT ![w] = Partition(InstallationOf[Msg(w)])]
  /\ Goto(w, "date")
  /\ UNCHANGED <<groupVars, cur, date, worldVars, objects, failed, countVars>>

(* Faulty variant of TenantPartitionFails: the error is taken for an unknown *)
(* installation.                                                             *)
TenantPartitionMisfiles(w) ==
  /\ pc[w] = "tenant"
  /\ InstallationOf[Msg(w)] \in Installations
  /\ Fault
  /\ dir' = [dir EXCEPT ![w] = InstallationOf[Msg(w)]]
  /\ Goto(w, "date")
  /\ UNCHANGED <<groupVars, cur, date, worldVars, objects, failed>>

(* ResolveTenant fails; a body without an installation id needs no lookup. *)
TenantPartitionFails(w) ==
  /\ pc[w] = "tenant"
  /\ InstallationOf[Msg(w)] \in Installations
  /\ WillRetry(w)
  /\ UNCHANGED objects

(* time.Now, after the lookup and before the put. *)
FormKey(w) ==
  /\ pc[w] = "date"
  /\ date' = [date EXCEPT ![w] = today]
  /\ Goto(w, "put")
  /\ UNCHANGED <<groupVars, cur, dir, worldVars, objects, failed, countVars>>

SameKey(x, y) == x.dir = y.dir /\ x.date = y.date /\ x.name = y.name

(* Faulty variant of ObjectOf: the key is formed without the delivery. *)
ObjectOfNameless(w) ==
  [dir |-> dir[w], date |-> date[w], name |-> NoName, body |-> Msg(w), from |-> cur[w]]

ObjectOf(w) ==
  [dir |-> dir[w], date |-> date[w], name |-> NameOf[Msg(w)], body |-> Msg(w), from |-> cur[w]]

(* Faulty variant of PutIfAbsent: a put without If-None-Match. *)
PutAlways(x) == objects' = { y \in objects : ~SameKey(x, y) } \union {x}

(* An object is written only where there is none; 412 is not an error. *)
PutIfAbsent(x) ==
  objects' = IF \E y \in objects : SameKey(x, y) THEN objects ELSE objects \union {x}

Put(w) ==
  /\ pc[w] = "put"
  /\ PutIfAbsent(ObjectOf(w))
  /\ Goto(w, "commit")
  /\ UNCHANGED <<groupVars, cur, dir, date, worldVars, failed, countVars>>

(* Faulty variant of PutFails: the error is logged and the offset committed. *)
PutFailsIgnored(w) ==
  /\ pc[w] = "put"
  /\ PutIfAbsent(ObjectOf(w)) \/ UNCHANGED objects
  /\ Fault
  /\ Goto(w, "commit")
  /\ UNCHANGED <<groupVars, cur, dir, date, worldVars, failed>>

(* The put returns an error, whether or not the store applied it. *)
PutFails(w) ==
  /\ pc[w] = "put"
  /\ PutIfAbsent(ObjectOf(w)) \/ UNCHANGED objects
  /\ WillRetry(w)

CommitOffset(w) ==
  /\ pc[w] = "commit"
  /\ CommitUpTo(cur[w][1], cur[w][2])
  /\ LoopAgain(w, "fetch")
  /\ UNCHANGED <<worldVars, objects, failed, countVars>>

(* A failed commit is only logged: the loop goes on. *)
CommitOffsetFails(w) ==
  /\ pc[w] = "commit"
  /\ Disruption
  /\ LoopAgain(w, "fetch")
  /\ UNCHANGED <<groupVars, worldVars, objects, failed>>

--------------------------------------------------------------------------------
Crash(w) ==
  /\ pc[w] # "down"
  /\ Disruption
  /\ Leave(w)
  /\ LoopAgain(w, "down")
  /\ UNCHANGED <<worldVars, objects, failed>>

Restart(w) ==
  /\ pc[w] = "down"
  /\ Goto(w, "fetch")
  /\ UNCHANGED <<groupVars, cur, dir, date, worldVars, objects, failed, countVars>>

Live == { w \in Workers : pc[w] # "down" }

AssignOrphans ==
  /\ Orphaned
  /\ Assign(Live)
  /\ UNCHANGED <<workerVars, worldVars, objects, failed, countVars>>

Rebalance ==
  /\ ~Orphaned
  /\ Disruption
  /\ Assign(Live)
  /\ UNCHANGED <<workerVars, worldVars, objects, failed>>

--------------------------------------------------------------------------------
Step(w) ==
  \/ Fetch(w) \/ TenantPartition(w) \/ FormKey(w) \/ Put(w) \/ CommitOffset(w)

Misfortune(w) ==
  \/ TenantPartitionFails(w) \/ PutFails(w) \/ CommitOffsetFails(w) \/ Crash(w)

ArchiverStep ==
  \/ \E i \in Installations : Onboard(i)
  \/ NewDay
  \/ \E w \in Workers : Step(w) \/ Misfortune(w) \/ Restart(w)
  \/ AssignOrphans
  \/ Rebalance

Next == (\E m \in Messages : Produce(m)) \/ ArchiverStep

Spec == Init /\ [][Next]_vars

(* The loop never stops by itself, a supervisor restarts a worker that      *)
(* crashed, and the coordinator assigns a partition that has no owner.      *)
Fairness ==
  /\ \A w \in Workers : WF_vars(Step(w)) /\ WF_vars(Restart(w))
  /\ WF_vars(AssignOrphans)

FairSpec == Spec /\ Fairness

--------------------------------------------------------------------------------
(* Some object holds the payload of m, or one put under the same key. *)
Filed(m) == \E x \in objects : x.name = NameOf[m]

(* The message is filed: an identified delivery under its own payload. *)
Archived(p, o) == Filed(MessageAt(p, o))
Done(p, o) == Archived(p, o) \/ <<p, o>> \in failed

(* The loop as the group's promise: done is archived, or logged as failed.   *)
(* An offset is committed, or a message let go of, only once it is done.     *)
DonePlaces == { pl \in UNION { {p} \X Offsets(p) : p \in Partitions } : Done(pl[1], pl[2]) }
Loop == INSTANCE AtLeastOnce WITH hand <- cur, done <- DonePlaces
ProcessesThenCommits == Loop!Spec

(* The safety net of main.go:2-4: under every delivery id the group has      *)
(* passed, and that met no transient failure, the archive holds the payload  *)
(* of that delivery and of no other.                                         *)
PassedIsReplayable ==
  \A p \in Partitions : \A o \in 0 .. committed[p] - 1 :
    LET m == MessageAt(p, o) IN
    m \in Identified /\ <<p, o>> \notin failed => \E x \in objects : x.body = m

(* main.go:157-162: traffic of an installation that is known is never filed  *)
(* under _unresolved, not even while the database is down.                   *)
NeverMisfiled ==
  \A x \in objects : x.dir \in Installations => x.dir \notin Onboarded

(* objectstore.go:65-67: "a replayed or redelivered message doesn't overwrite*)
(* an existing archived payload": an object stays as it was put when a second*)
(* message under its key, another copy of the delivery or one of two without *)
(* an id, is put by the same worker or by another at the same time.          *)
NeverOverwritten == [][objects \subseteq objects']_vars

(* Every delivery on the topic is archived in the end, or meets a transient  *)
(* failure, however often workers crash and partitions move.                 *)
EveryMessageArchived ==
  \A p \in Partitions : \A o \in 0 .. MaxWrites - 1 :
    o \in Offsets(p) ~> o \in Offsets(p) /\ Done(p, o)

(* The inductive invariant of ArchiverProofs: the name in a key is that of   *)
(* its payload, and a worker about to commit has archived what it has in     *)
(* hand.                                                                     *)
NamedAfterBody == \A x \in objects : x.name = NameOf[x.body]

CommitsWhenDone == \A w \in Workers : pc[w] = "commit" => Done(cur[w][1], cur[w][2])

IInv == TypeOK /\ NamedAfterBody /\ CommitsWhenDone

(* main.go:8: "PutIfAbsent makes redeliveries no-ops": a delivery is filed   *)
(* once.  The code breaks it: the key depends on the day and on what the     *)
(* installation resolves to when the message is processed.                   *)
RedeliveriesAreNoOps ==
  \A x, y \in objects : x.body = y.body => x = y
================================================================================
