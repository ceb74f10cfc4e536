------------------------------- MODULE Enricher --------------------------------
(***************************************************************************)
(* services/connector-github/main.go: each worker runs the loop            *)
(*     fetch -> enrich -> write to enriched.github -> commit               *)
(* over the topic raw.github.  Only pull requests are enriched, with what  *)
(* GitHub answers to a GraphQL query; whatever goes wrong there, the       *)
(* message is passed through with a status that says why.                  *)
(*                                                                         *)
(* GitHub is external and answers as it likes: with data, with an error,   *)
(* or the call is refused by the rate budget (RateBudget), for a time that *)
(* is worth waiting for or not.  A payload is its message and its status;  *)
(* the headers, the source time among them, go with it.  The length of     *)
(* waits and of the backoff is left out.  SIGTERM cancels the context and  *)
(* ends the worker at its next call, waits included: a Crash here.         *)
(***************************************************************************)
EXTENDS ConsumerGroup

CONSTANTS
  Kind,            \* [Messages -> Kinds]
  Equipped,        \* workers with App credentials
  Patchers,        \* workers with ENRICH_PATCHES on
  MaxCopies,       \* bound: times one message is written to raw.github
  MaxFaults,       \* bound: failed or repeated writes to enriched.github
  MaxDisruptions   \* bound: crashes, rebalances, failed offset commits

Kinds == {
  "other",         \* not a pull_request event
  "unaddressed",   \* undecodable, or without installation or repository
  "pr" }

Statuses == {"enriched", "skipped", "disabled", "failed", "rate_limited"}

ASSUME EnricherAssumption ==
  /\ IsFiniteSet(Workers)
  /\ Kind \in [Messages -> Kinds]
  /\ Equipped \subseteq Workers /\ Patchers \subseteq Workers
  /\ MaxCopies \in Nat /\ MaxFaults \in Nat /\ MaxDisruptions \in Nat

VARIABLES
  pc,          \* pc[w]: where worker w is in its loop
  cur,         \* cur[w]: <<partition, offset>> of the message in hand, or NoMessage
  status,      \* status[w]: enrich-status decided for the message in hand
  out,         \* enriched.github: out[m], the statuses m was passed on with, in order
  failed,      \* history: <<p, o>> logged as "process failed; will retry"
  faults,      \* failed and repeated writes so far
  disruptions  \* crashes, rebalances and failed offset commits so far

workerVars == <<pc, cur, status>>
countVars == <<faults, disruptions>>
vars == <<groupVars, workerVars, out, failed, countVars>>

NoMessage == <<>>
Places == Partitions \X Nat

Stages == {"fetch", "enrich", "query", "wait", "requery", "patch", "merge", "write", "commit", "down"}
Busy(w) == pc[w] \notin {"fetch", "down"}
Msg(w) == MessageAt(cur[w][1], cur[w][2])

(* A worker that is not at the head of the loop has a message in hand. *)
HandOK(w) ==
  IF Busy(w) THEN \E p \in Partitions : \E o \in Offsets(p) : cur[w] = <<p, o>>
             ELSE cur[w] = NoMessage

WorkerTypeOK ==
  /\ pc \in [Workers -> Stages]
  /\ cur \in [Workers -> Places \union {NoMessage}]
  /\ status \in [Workers -> Statuses]

OutTypeOK ==
  /\ out \in [Messages -> Seq(Statuses)]
  /\ failed \subseteq Places
  /\ faults \in 0 .. MaxFaults
  /\ disruptions \in 0 .. MaxDisruptions

TypeOK ==
  /\ GroupTypeOK
  /\ WorkerTypeOK
  /\ \A w \in Workers : HandOK(w)
  /\ OutTypeOK

Init ==
  /\ GroupInit
  /\ pc = [w \in Workers |-> "fetch"]
  /\ cur = [w \in Workers |-> NoMessage]
  /\ status = [w \in Workers |-> "skipped"]
  /\ out = [m \in Messages |-> <<>>]
  /\ failed = {}
  /\ faults = 0
  /\ disruptions = 0

--------------------------------------------------------------------------------
Goto(w, stage) == pc' = [pc EXCEPT ![w] = stage]

(* Back to the head of the loop with nothing in hand. *)
LoopAgain(w, stage) ==
  /\ Goto(w, stage)
  /\ cur' = [cur EXCEPT ![w] = NoMessage]
  /\ status' = [status EXCEPT ![w] = "skipped"]

Fault == faults < MaxFaults /\ faults' = faults + 1 /\ UNCHANGED disruptions
Disruption == disruptions < MaxDisruptions /\ disruptions' = disruptions + 1 /\ UNCHANGED faults

(* The gateway writes a delivery to raw.github; GitHub may redeliver it. *)
Produce(m) ==
  /\ Copies(m) < MaxCopies
  /\ Append1(m)
  /\ UNCHANGED <<workerVars, out, failed, countVars>>

(* Faulty variants of Fetch: ReadMessage, which commits as it reads; a reader *)
(* that starts from the same position each time.                              *)
FetchAutoCommit(w) ==
  /\ pc[w] = "fetch"
  /\ \E p \in Partitions :
       /\ CanFetch(w, p)
       /\ position' = [position EXCEPT ![p] = @ + 1]
       /\ committed' = [committed EXCEPT ![p] = position[p] + 1]
       /\ cur' = [cur EXCEPT ![w] = <<p, position[p]>>]
  /\ Goto(w, "enrich")
  /\ UNCHANGED <<log, owner, status, out, failed, countVars>>

FetchSame(w) ==
  /\ pc[w] = "fetch"
  /\ \E p \in Partitions :
       CanFetch(w, p) /\ cur' = [cur EXCEPT ![w] = <<p, position[p]>>]
  /\ Goto(w, "enrich")
  /\ UNCHANGED <<groupVars, status, out, failed, countVars>>

Fetch(w) ==
  /\ pc[w] = "fetch"
  /\ \E p \in Partitions :
       FetchFrom(w, p) /\ cur' = [cur EXCEPT ![w] = <<p, position[p]>>]
  /\ Goto(w, "enrich")
  /\ UNCHANGED <<status, out, failed, countVars>>

--------------------------------------------------------------------------------
(* enrich. *)

Private == UNCHANGED <<groupVars, cur, out, failed, countVars>>

(* enrich returns: the message goes out with status s. *)
Return(w, s) == Goto(w, "write") /\ status' = [status EXCEPT ![w] = s] /\ Private

Proceed(w, stage) == Goto(w, stage) /\ UNCHANGED status /\ Private

(* What needs no question to GitHub, or can ask none. *)
Enrich(w) ==
  /\ pc[w] = "enrich"
  /\ \/ Kind[Msg(w)] = "other" /\ Return(w, "skipped")
     \/ Kind[Msg(w)] = "unaddressed" /\ Return(w, "failed")
     \/ Kind[Msg(w)] = "pr" /\ w \notin Equipped /\ Return(w, "disabled")
     \/ Kind[Msg(w)] = "pr" /\ w \in Equipped /\ Proceed(w, "query")

(* EnrichPullRequest brought data. *)
Answered(w) == Proceed(w, IF w \in Patchers THEN "patch" ELSE "merge")

(* The first query.  A refusal that ends soon is worth a wait. *)
Query(w) ==
  /\ pc[w] = "query"
  /\ \/ Answered(w)
     \/ Proceed(w, "wait")
     \/ Return(w, "rate_limited")
     \/ Return(w, "failed")

Wait(w) == pc[w] = "wait" /\ Proceed(w, "requery")

(* Faulty variant of Requery: it waits as often as it is told to. *)
RequeryAgain(w) ==
  /\ pc[w] = "requery"
  /\ \/ Answered(w)
     \/ Proceed(w, "wait")
     \/ Return(w, "failed")

(* The second query is the last, however soon its refusal ends. *)
Requery(w) ==
  /\ pc[w] = "requery"
  /\ \/ Answered(w)
     \/ Return(w, "rate_limited")
     \/ Return(w, "failed")

(* FetchPullRequestPatches: a failure keeps the enrichment without patches. *)
Patch(w) == pc[w] = "patch" /\ Proceed(w, "merge")

(* mergeEnrichment: a body whose envelope was decoded is an object, so that  *)
(* the block can always be added.                                            *)
Merge(w) == pc[w] = "merge" /\ Return(w, "enriched")

--------------------------------------------------------------------------------
(* writer.Write and the offset. *)

(* The broker takes w's message. *)
Emit(w) == out' = [out EXCEPT ![Msg(w)] = Append(@, status[w])]

Write(w) ==
  /\ pc[w] = "write"
  /\ Emit(w)
  /\ Goto(w, "commit")
  /\ UNCHANGED <<groupVars, cur, status, failed, countVars>>

(* kafka-go retries a write whose acknowledgement was lost. *)
WriteRepeated(w) ==
  /\ pc[w] = "write"
  /\ Fault
  /\ out' = [out EXCEPT ![Msg(w)] = Append(Append(@, status[w]), status[w])]
  /\ Goto(w, "commit")
  /\ UNCHANGED <<groupVars, cur, status, failed>>

(* Faulty variant of WriteFails: the error is logged and the offset committed. *)
WriteFailsIgnored(w) ==
  /\ pc[w] = "write"
  /\ Emit(w) \/ UNCHANGED out
  /\ Fault
  /\ Goto(w, "commit")
  /\ UNCHANGED <<groupVars, cur, status, failed>>

(* Write returns an error, whether or not the broker took the message: no    *)
(* offset commit, back to the fetch.                                         *)
WriteFails(w) ==
  /\ pc[w] = "write"
  /\ Emit(w) \/ UNCHANGED out
  /\ Fault
  /\ failed' = failed \union {cur[w]}
  /\ LoopAgain(w, "fetch")
  /\ UNCHANGED groupVars

CommitOffset(w) ==
  /\ pc[w] = "commit"
  /\ CommitUpTo(cur[w][1], cur[w][2])
  /\ LoopAgain(w, "fetch")
  /\ UNCHANGED <<out, failed, countVars>>

(* A failed commit is only logged: the loop goes on. *)
CommitOffsetFails(w) ==
  /\ pc[w] = "commit"
  /\ Disruption
  /\ LoopAgain(w, "fetch")
  /\ UNCHANGED <<groupVars, out, failed>>

--------------------------------------------------------------------------------
Crash(w) ==
  /\ pc[w] # "down"
  /\ Disruption
  /\ Leave(w)
  /\ LoopAgain(w, "down")
  /\ UNCHANGED <<out, failed>>

Restart(w) == pc[w] = "down" /\ Proceed(w, "fetch")

Live == { w \in Workers : pc[w] # "down" }

AssignOrphans ==
  /\ Orphaned
  /\ Assign(Live)
  /\ UNCHANGED <<workerVars, out, failed, countVars>>

Rebalance ==
  /\ ~Orphaned
  /\ Disruption
  /\ Assign(Live)
  /\ UNCHANGED <<workerVars, out, failed>>

--------------------------------------------------------------------------------
Step(w) ==
  \/ Fetch(w) \/ Enrich(w) \/ Query(w) \/ Wait(w) \/ Requery(w) \/ Patch(w) \/ Merge(w)
  \/ Write(w) \/ CommitOffset(w)

Misfortune(w) == WriteRepeated(w) \/ WriteFails(w) \/ CommitOffsetFails(w) \/ Crash(w)

Next ==
  \/ \E m \in Messages : Produce(m)
  \/ \E w \in Workers : Step(w) \/ Misfortune(w) \/ Restart(w)
  \/ AssignOrphans
  \/ Rebalance

Spec == Init /\ [][Next]_vars

(* The loop never stops by itself and its calls end (the HTTP client times   *)
(* out), a supervisor restarts a worker that crashed, and the coordinator    *)
(* assigns a partition without an owner.  Nothing is assumed of what GitHub  *)
(* answers.                                                                  *)
Fairness ==
  /\ \A w \in Workers : WF_vars(Step(w)) /\ WF_vars(Restart(w))
  /\ WF_vars(AssignOrphans)

FairSpec == Spec /\ Fairness

--------------------------------------------------------------------------------
Done(p, o) == Len(out[MessageAt(p, o)]) > 0 \/ <<p, o>> \in failed

(* The loop as the group's promise (main.go:18): done is passed on, or       *)
(* logged as failed.                                                         *)
DonePlaces == { pl \in UNION { {p} \X Offsets(p) : p \in Partitions } : Done(pl[1], pl[2]) }
Loop == INSTANCE AtLeastOnce WITH hand <- cur, done <- DonePlaces
ProcessesThenCommits == Loop!Spec

(* main.go:15, :179: "the pipeline never stalls", "a GitHub problem can't    *)
(* stall ingestion".  Every message is passed on, or meets a failing write,  *)
(* if GitHub refuses, fails or answers in whatever order, for ever.          *)
NeverStalls ==
  \A p \in Partitions : \A o \in 0 .. Cardinality(Messages) * MaxCopies - 1 :
    o \in Offsets(p) ~> o \in Offsets(p) /\ Done(p, o)

(* main.go:18-20: a message may be emitted twice, but only where something   *)
(* went wrong: the waits and the degraded modes never emit it again.  After  *)
(* a disruption every copy of it on raw.github may be read again.            *)
CopiesWithinFaults ==
  \A m \in Messages : Len(out[m]) <= Copies(m) * (1 + disruptions) + faults

(* What the bound rests on: messages are where the balancer put them, *)
Placed == \A p \in Partitions : \A i \in DOMAIN log[p] : PartitionOf[log[p][i]] = p

(* a generation that ends before the first was complete ended in a crash, *)
OrphanedByCrash == Orphaned /\ (\E p \in Partitions : owner[p] # NoOne) => disruptions > 0

(* and each copy of m that is in hand or still to be read, as the partition  *)
(* stands or once it is assigned again, is covered by the bound.             *)
Carriers(m) == { w \in Workers : Busy(w) /\ pc[w] # "commit" /\ Msg(w) = m }

Unread(m) ==
  LET p == PartitionOf[m] IN
  Cardinality({ i \in DOMAIN log[p] : log[p][i] = m /\ i > position[p] })

ToRead(m) ==
  IF owner[PartitionOf[m]] = NoOne THEN Copies(m)
  ELSE Unread(m) + (IF Orphaned THEN Copies(m) ELSE 0)

CopiesAccounted ==
  \A m \in Messages :
    Len(out[m]) + Cardinality(Carriers(m)) + ToRead(m) <= Copies(m) * (1 + disruptions) + faults

(* A worker about to commit has passed on what it has in hand. *)
CommitsWhenDone == \A w \in Workers : pc[w] = "commit" => Done(cur[w][1], cur[w][2])

(* The inductive invariant of EnricherProofs. *)
IInv == TypeOK /\ CommitsWhenDone /\ Placed /\ OrphanedByCrash /\ CopiesAccounted
================================================================================
