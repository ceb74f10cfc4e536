---------------------------- MODULE EnricherProofs -----------------------------
(***************************************************************************)
(* Theorems about Enricher, for every number of workers, partitions and    *)
(* messages and every value of the bounds: whatever GitHub answers, it     *)
(* implements AtLeastOnce, and passes a message on no more often than the  *)
(* copies on raw.github, the disruptions and the faults account for.       *)
(***************************************************************************)
EXTENDS Enricher, FiniteSetTheorems, TLAPS

USE GroupAssumption, EnricherAssumption DEF GroupAssumption, EnricherAssumption

Promise == INSTANCE AtLeastOnceProofs WITH hand <- cur, done <- DonePlaces

WorkerStep(w) == Step(w) \/ Misfortune(w) \/ Restart(w)

--------------------------------------------------------------------------------
(* Types. *)

(* The initial state is well typed, and nothing is there to be counted. *)
LEMMA InitIInv == Init => IInv
<1> SUFFICES ASSUME Init PROVE IInv
  OBVIOUS
<1>1. TypeOK /\ CommitsWhenDone
  BY DEF Init, GroupInit, TypeOK, GroupTypeOK, WorkerTypeOK, HandOK, OutTypeOK, Stages, Statuses,
     Busy, CommitsWhenDone
<1>2. Placed /\ OrphanedByCrash
  BY DEF Init, GroupInit, Placed, OrphanedByCrash
<1>3. ASSUME NEW m \in Messages
      PROVE  Len(out[m]) + Cardinality(Carriers(m)) + ToRead(m)
               <= Copies(m) * (1 + disruptions) + faults
  <2>1. Carriers(m) = {}
    BY DEF Init, Carriers, Busy
  <2>2. Len(out[m]) = 0 /\ faults = 0 /\ disruptions = 0
    BY DEF Init
  <2>3. ToRead(m) = Copies(m)
    BY DEF Init, GroupInit, ToRead
  <2>4. { i \in DOMAIN log[PartitionOf[m]] : log[PartitionOf[m]][i] = m } = {}
    BY DEF Init, GroupInit
  <2>5. Copies(m) = 0
    BY <2>4, FS_EmptySet DEF Copies
  <2>6. QED BY <2>1, <2>2, <2>3, <2>5, FS_EmptySet
<1>4. QED BY <1>1, <1>2, <1>3 DEF IInv, CopiesAccounted

(* A busy worker has a message of the topic in hand. *)
LEMMA HandIsMessage ==
  ASSUME TypeOK, NEW w \in Workers, Busy(w)
  PROVE  \E p \in Partitions : \E o \in Offsets(p) :
           /\ cur[w] = <<p, o>> /\ cur[w] \in Places
           /\ o \in Nat /\ o + 1 <= Len(log[p])
           /\ Msg(w) \in Messages /\ Msg(w) = MessageAt(p, o)
<1>1. PICK p \in Partitions : \E o \in Offsets(p) : cur[w] = <<p, o>>
  BY DEF TypeOK, HandOK
<1>2. PICK o \in Offsets(p) : cur[w] = <<p, o>>
  BY <1>1
<1>3. log[p] \in Seq(Messages) /\ Len(log[p]) \in Nat
  BY DEF TypeOK, GroupTypeOK
<1>4. o + 1 \in 1 .. Len(log[p]) /\ o \in Nat
  BY <1>3 DEF Offsets
<1>5. log[p][o + 1] \in Messages
  BY <1>3, <1>4
<1>6. QED BY <1>2, <1>4, <1>5 DEF Msg, MessageAt, Places

(* The stages of enrich: the worker keeps its message and only its own stage *)
(* and status change.                                                        *)
Inside(w) ==
  Enrich(w) \/ Query(w) \/ Wait(w) \/ Requery(w) \/ Patch(w) \/ Merge(w)

(* A step of enrich stays inside the loop and changes nothing but its own stage and status. *)
LEMMA InsideStep ==
  ASSUME TypeOK, NEW w \in Workers, Inside(w)
  PROVE  /\ Busy(w) /\ UNCHANGED <<groupVars, cur, out, failed, countVars>>
         /\ \E g \in Stages \ {"fetch", "commit", "down"} : pc' = [pc EXCEPT ![w] = g]
         /\ status' \in [Workers -> Statuses]
<1> USE DEF TypeOK, WorkerTypeOK, Stages, Statuses
<1>1. ASSUME NEW s \in Statuses, Return(w, s), Busy(w)
      PROVE  /\ Busy(w) /\ UNCHANGED <<groupVars, cur, out, failed, countVars>>
             /\ \E g \in Stages \ {"fetch", "commit", "down"} : pc' = [pc EXCEPT ![w] = g]
             /\ status' \in [Workers -> Statuses]
  <2>1. pc' = [pc EXCEPT ![w] = "write"]
    BY <1>1 DEF Return, Goto
  <2>2. QED BY <1>1, <2>1 DEF Return, Private
<1>2. ASSUME NEW g \in {"query", "wait", "requery", "patch", "merge"}, Proceed(w, g), Busy(w)
      PROVE  /\ Busy(w) /\ UNCHANGED <<groupVars, cur, out, failed, countVars>>
             /\ \E h \in Stages \ {"fetch", "commit", "down"} : pc' = [pc EXCEPT ![w] = h]
             /\ status' \in [Workers -> Statuses]
  BY <1>2 DEF Proceed, Private, Goto
<1>3. Busy(w)
  BY DEF Inside, Enrich, Query, Wait, Requery, Patch, Merge, Busy
<1>4. \/ \E s \in Statuses : Return(w, s)
      \/ \E g \in {"query", "wait", "requery", "patch", "merge"} : Proceed(w, g)
  BY DEF Inside, Enrich, Query, Wait, Requery, Patch, Merge, Answered
<1>5. QED BY <1>1, <1>2, <1>3, <1>4

(* A step of worker w leaves the log and the other workers alone, and keeps *)
(* the types of the workers' variables.                                      *)
LEMMA WorkerFrame ==
  ASSUME TypeOK, NEW w \in Workers, WorkerStep(w)
  PROVE  /\ log' = log
         /\ WorkerTypeOK'
         /\ \A v \in Workers \ {w} : pc'[v] = pc[v] /\ cur'[v] = cur[v]
<1> USE DEF TypeOK, WorkerTypeOK, Stages, Places, groupVars, Goto, LoopAgain
<1>1. CASE Fetch(w)
  <2>1. PICK p \in Partitions :
          FetchFrom(w, p) /\ cur' = [cur EXCEPT ![w] = <<p, position[p]>>]
    BY <1>1 DEF Fetch
  <2>2. position[p] \in Nat
    BY DEF GroupTypeOK
  <2>3. QED BY <1>1, <2>1, <2>2 DEF Fetch, FetchFrom
<1>2. CASE Inside(w)
  BY <1>2, InsideStep
<1>3. CASE Write(w) \/ WriteRepeated(w)
  BY <1>3 DEF Write, WriteRepeated
<1>4. CASE CommitOffset(w)
  BY <1>4 DEF CommitOffset, CommitUpTo, Statuses
<1>5. CASE WriteFails(w) \/ CommitOffsetFails(w)
  BY <1>5 DEF WriteFails, CommitOffsetFails, Statuses
<1>6. CASE Crash(w)
  BY <1>6 DEF Crash, Leave, Statuses
<1>7. CASE Restart(w)
  BY <1>7 DEF Restart, Proceed, Private
<1>8. QED
  BY <1>1, <1>2, <1>3, <1>4, <1>5, <1>6, <1>7 DEF WorkerStep, Step, Misfortune, Inside

(* Of a worker's steps only a fetch takes a message in hand, and only the    *)
(* end of the loop's body and a crash let it go.                             *)
LEMMA HandStep ==
  ASSUME TypeOK, NEW w \in Workers, WorkerStep(w)
  PROVE  \A v \in Workers : HandOK(v)'
<1>1. /\ log' = log
      /\ \A v \in Workers \ {w} : pc'[v] = pc[v] /\ cur'[v] = cur[v]
  BY WorkerFrame
<1>2. HandOK(w)'
  <2> USE DEF TypeOK, WorkerTypeOK, HandOK, Busy, Stages, workerVars, Goto, LoopAgain
  <2>1. CASE Fetch(w)
    <3>1. PICK p \in Partitions :
            FetchFrom(w, p) /\ cur' = [cur EXCEPT ![w] = <<p, position[p]>>]
      BY <2>1 DEF Fetch
    <3>2. position[p] \in Offsets(p) /\ Offsets(p)' = Offsets(p)
      BY <1>1, <3>1 DEF FetchFrom, CanFetch, Offsets, GroupTypeOK
    <3>3. QED BY <2>1, <3>1, <3>2 DEF Fetch
  <2>2. CASE Inside(w) \/ Write(w) \/ WriteRepeated(w)
    <3>1. \A p \in Partitions : Offsets(p)' = Offsets(p)
      BY <1>1 DEF Offsets
    <3>2. Busy(w) /\ Busy(w)' /\ cur'[w] = cur[w]
      BY <2>2, InsideStep DEF Write, WriteRepeated
    <3>3. QED BY <3>1, <3>2
  <2>3. CASE CommitOffset(w) \/ WriteFails(w) \/ CommitOffsetFails(w) \/ Crash(w) \/ Restart(w)
    BY <2>3 DEF CommitOffset, WriteFails, CommitOffsetFails, Crash, Restart, Proceed, Private
  <2>4. QED BY <2>1, <2>2, <2>3 DEF WorkerStep, Step, Misfortune, Inside
<1>3. QED BY <1>1, <1>2 DEF TypeOK, HandOK, Busy, Offsets

(* The copies of m in enriched.github. *)
Passed(m) == Len(out[m]) > 0

(* A write that reaches the broker adds copies of the worker's own message.  *)
LEMMA EmitEffect ==
  ASSUME OutTypeOK, NEW m \in Messages, NEW s \in Statuses,
         \/ out' = [out EXCEPT ![m] = Append(@, s)]
         \/ out' = [out EXCEPT ![m] = Append(Append(@, s), s)]
  PROVE  /\ out' \in [Messages -> Seq(Statuses)]
         /\ Passed(m)' /\ \A n \in Messages : Passed(n) => Passed(n)'
<1>1. Append(out[m], s) \in Seq(Statuses) /\ Len(Append(out[m], s)) = Len(out[m]) + 1
  BY DEF OutTypeOK
<1>2. /\ Append(Append(out[m], s), s) \in Seq(Statuses)
      /\ Len(Append(Append(out[m], s), s)) = Len(out[m]) + 2
  BY <1>1 DEF OutTypeOK
<1>3. Len(out[m]) \in Nat
  BY DEF OutTypeOK
<1>4. CASE out' = [out EXCEPT ![m] = Append(@, s)]
  BY <1>1, <1>3, <1>4 DEF OutTypeOK, Passed
<1>5. CASE out' = [out EXCEPT ![m] = Append(Append(@, s), s)]
  BY <1>2, <1>3, <1>5 DEF OutTypeOK, Passed
<1>6. QED BY <1>4, <1>5

(* The bounds on what goes wrong are kept. *)
LEMMA CountsStep ==
  ASSUME OutTypeOK, UNCHANGED countVars \/ Fault \/ Disruption
  PROVE  faults' \in 0 .. MaxFaults /\ disruptions' \in 0 .. MaxDisruptions
  BY DEF OutTypeOK, Fault, Disruption, countVars

(* What steps do to enriched.github and the failures: both only grow. *)
LEMMA StoreFrame ==
  ASSUME TypeOK, [Next]_vars
  PROVE  /\ OutTypeOK'
         /\ failed \subseteq failed'
         /\ \A n \in Messages : Passed(n) => Passed(n)'
<1> USE DEF TypeOK
<1>1. ASSUME NEW w \in Workers, Write(w) \/ WriteRepeated(w) \/ WriteFails(w)
      PROVE  /\ out' \in [Messages -> Seq(Statuses)]
             /\ \A n \in Messages : Passed(n) => Passed(n)'
  <2>1. Msg(w) \in Messages /\ status[w] \in Statuses
    BY <1>1, HandIsMessage DEF Write, WriteRepeated, WriteFails, Busy, WorkerTypeOK
  <2>2. CASE UNCHANGED out
    BY <2>2 DEF OutTypeOK, Passed
  <2>3. CASE \/ out' = [out EXCEPT ![Msg(w)] = Append(@, status[w])]
             \/ out' = [out EXCEPT ![Msg(w)] = Append(Append(@, status[w]), status[w])]
    BY <2>1, <2>3, EmitEffect
  <2>4. QED BY <1>1, <2>2, <2>3 DEF Write, WriteRepeated, WriteFails, Emit
<1>2. ASSUME NEW w \in Workers, WriteFails(w)
      PROVE  failed \subseteq failed' /\ failed' \subseteq Places
  <2>1. cur[w] \in Places
    BY <1>2, HandIsMessage DEF WriteFails, Busy
  <2>2. QED BY <1>2, <2>1 DEF WriteFails, OutTypeOK
<1>3. ASSUME NEW w \in Workers, Write(w) \/ WriteRepeated(w) \/ WriteFails(w)
      PROVE  /\ OutTypeOK' /\ failed \subseteq failed'
             /\ \A n \in Messages : Passed(n) => Passed(n)'
  <2>1. failed \subseteq failed' /\ failed' \subseteq Places
    <3>1. CASE WriteFails(w)
      BY <1>2, <3>1
    <3>2. CASE Write(w) \/ WriteRepeated(w)
      BY <3>2 DEF Write, WriteRepeated, OutTypeOK
    <3>3. QED BY <1>3, <3>1, <3>2
  <2>2. faults' \in 0 .. MaxFaults /\ disruptions' \in 0 .. MaxDisruptions
    BY <1>3, CountsStep DEF Write, WriteRepeated, WriteFails
  <2>3. QED BY <1>1, <1>3, <2>1, <2>2 DEF OutTypeOK
<1>4. ASSUME UNCHANGED <<out, failed>>,
             UNCHANGED countVars \/ Fault \/ Disruption
      PROVE  /\ OutTypeOK' /\ failed \subseteq failed'
             /\ \A n \in Messages : Passed(n) => Passed(n)'
  <2>1. faults' \in 0 .. MaxFaults /\ disruptions' \in 0 .. MaxDisruptions
    BY <1>4, CountsStep
  <2>2. QED BY <1>4, <2>1 DEF OutTypeOK, Passed
<1>5. ASSUME NEW w \in Workers,
             Fetch(w) \/ CommitOffset(w) \/ CommitOffsetFails(w) \/ Crash(w) \/ Restart(w)
      PROVE  UNCHANGED <<out, failed>> /\ (UNCHANGED countVars \/ Fault \/ Disruption)
  BY <1>5 DEF Fetch, CommitOffset, CommitOffsetFails, Crash, Restart, Proceed, Private
<1>6. ASSUME NEW w \in Workers, Inside(w)
      PROVE  UNCHANGED <<out, failed>> /\ UNCHANGED countVars
  BY <1>6, InsideStep
<1>7. ASSUME (\E m \in Messages : Produce(m)) \/ AssignOrphans \/ Rebalance \/ UNCHANGED vars
      PROVE  UNCHANGED <<out, failed>> /\ (UNCHANGED countVars \/ Fault \/ Disruption)
  BY <1>7 DEF Produce, AssignOrphans, Rebalance, vars
<1>8. QED
  BY <1>3, <1>4, <1>5, <1>6, <1>7 DEF Next, Step, Misfortune, Inside

--------------------------------------------------------------------------------
(* What is done stays done. *)

(* Appending a message keeps what the partition holds at its offset. *)
LEMMA LogKept ==
  ASSUME TypeOK, [Next]_vars, NEW p \in Partitions, NEW o \in Offsets(p)
  PROVE  o \in Offsets(p)' /\ MessageAt(p, o)' = MessageAt(p, o)
<1>1. ASSUME NEW m \in Messages, Produce(m)
      PROVE  o \in Offsets(p)' /\ MessageAt(p, o)' = MessageAt(p, o)
  <2>1. Promise!GroupTypeOK /\ Promise!Append1(m)
    BY <1>1 DEF Produce, TypeOK, GroupTypeOK, Promise!GroupTypeOK, Append1, Promise!Append1
  <2>2. /\ Promise!Offsets(p) \subseteq Promise!Offsets(p)'
        /\ \A i \in Promise!Offsets(p) : Promise!MessageAt(p, i)' = Promise!MessageAt(p, i)
    BY <2>1, Promise!LogGrows
  <2>3. QED BY <2>2 DEF Offsets, Promise!Offsets, MessageAt, Promise!MessageAt
<1>2. ASSUME log' = log PROVE o \in Offsets(p)' /\ MessageAt(p, o)' = MessageAt(p, o)
  BY <1>2 DEF Offsets, MessageAt
<1>3. ASSUME NEW w \in Workers, WorkerStep(w) PROVE log' = log
  BY <1>3, WorkerFrame
<1>4. CASE AssignOrphans \/ Rebalance \/ UNCHANGED vars
  BY <1>2, <1>4 DEF AssignOrphans, Rebalance, Assign, vars, groupVars
<1>5. QED BY <1>1, <1>2, <1>3, <1>4 DEF Next, WorkerStep

(* No step takes back what is done. *)
LEMMA DoneKept ==
  ASSUME TypeOK, [Next]_vars, NEW p \in Partitions, NEW o \in Offsets(p), Done(p, o)
  PROVE  o \in Offsets(p)' /\ Done(p, o)'
<1>1. o \in Offsets(p)' /\ MessageAt(p, o)' = MessageAt(p, o)
  BY LogKept
<1>2. failed \subseteq failed' /\ \A n \in Messages : Passed(n) => Passed(n)'
  BY StoreFrame
<1>3. MessageAt(p, o) \in Messages
  BY DEF TypeOK, GroupTypeOK, Offsets, MessageAt
<1>4. QED BY <1>1, <1>2, <1>3 DEF Done, Passed

(* The places that are done, as pairs. *)
LEMMA DonePlacesAre ==
  ASSUME TypeOK
  PROVE  /\ DonePlaces \subseteq Places
         /\ \A p \in Partitions : \A o \in Offsets(p) : <<p, o>> \in DonePlaces <=> Done(p, o)
  BY DEF DonePlaces, Places, Offsets

(* The places that are done only grow, as the promise demands. *)
LEMMA DoneGrows ==
  ASSUME TypeOK, TypeOK', [Next]_vars
  PROVE  DonePlaces \subseteq DonePlaces' /\ DonePlaces' \subseteq Places
<1>1. ASSUME NEW pl \in DonePlaces PROVE pl \in DonePlaces'
  <2>1. PICK p \in Partitions : pl \in {p} \X Offsets(p)
    BY DEF DonePlaces
  <2>2. PICK o \in Offsets(p) : pl = <<p, o>>
    BY <2>1
  <2>3. o \in Offsets(p)' /\ Done(p, o)'
    BY <2>2, DoneKept DEF DonePlaces
  <2>4. QED BY <2>2, <2>3 DEF DonePlaces
<1>2. DonePlaces' \subseteq Places
  BY DEF DonePlaces, Places, Offsets
<1>3. QED BY <1>1, <1>2

--------------------------------------------------------------------------------
(* The inductive invariant. *)

(* Every step keeps the types of the topic and of the group. *)
LEMMA GroupStep ==
  ASSUME TypeOK, [Next]_vars
  PROVE  GroupTypeOK'
<1> USE DEF TypeOK, GroupTypeOK, groupVars
<1>1. ASSUME NEW m \in Messages, Produce(m) PROVE GroupTypeOK'
  <2>1. Promise!GroupTypeOK /\ Promise!Append1(m)
    BY <1>1 DEF Produce, Promise!GroupTypeOK, Append1, Promise!Append1
  <2>2. Promise!GroupTypeOK'
    BY <2>1, Promise!LogGrows
  <2>3. QED BY <2>2 DEF Promise!GroupTypeOK
<1>2. ASSUME NEW w \in Workers, WorkerStep(w) PROVE GroupTypeOK'
  <2>1. CASE Fetch(w)
    BY <2>1 DEF Fetch, FetchFrom, CanFetch
  <2>2. CASE CommitOffset(w)
    <3>1. PICK p \in Partitions : \E o \in Offsets(p) :
            cur[w] = <<p, o>> /\ o \in Nat /\ o + 1 <= Len(log[p])
      BY <2>2, HandIsMessage DEF CommitOffset, Busy
    <3>2. PICK o \in Offsets(p) : cur[w] = <<p, o>> /\ o \in Nat /\ o + 1 <= Len(log[p])
      BY <3>1
    <3>3. QED BY <2>2, <3>2 DEF CommitOffset, CommitUpTo
  <2>3. CASE Crash(w)
    BY <2>3 DEF Crash, Leave
  <2>4. CASE UNCHANGED groupVars
    BY <2>4
  <2>5. QED
    BY <1>2, <2>1, <2>2, <2>3, <2>4, InsideStep DEF WorkerStep, Step, Misfortune, Inside, Write,
       WriteRepeated, WriteFails, CommitOffsetFails, Restart, Proceed, Private
<1>3. ASSUME AssignOrphans \/ Rebalance PROVE GroupTypeOK'
  BY <1>3 DEF AssignOrphans, Rebalance, Assign, Live
<1>4. ASSUME UNCHANGED groupVars PROVE GroupTypeOK'
  BY <1>4
<1>5. QED BY <1>1, <1>2, <1>3, <1>4 DEF Next, WorkerStep, vars

(* Every step keeps the types. *)
LEMMA TypeStep == TypeOK /\ [Next]_vars => TypeOK'
<1> SUFFICES ASSUME TypeOK, [Next]_vars PROVE TypeOK'
  OBVIOUS
<1>1. GroupTypeOK' /\ OutTypeOK'
  BY GroupStep, StoreFrame
<1>2. ASSUME NEW w \in Workers, WorkerStep(w)
      PROVE  WorkerTypeOK' /\ \A v \in Workers : HandOK(v)'
  BY <1>2, WorkerFrame, HandStep
<1>3. ASSUME UNCHANGED workerVars
      PROVE  WorkerTypeOK' /\ \A v \in Workers : HandOK(v)'
  <2>1. \A p \in Partitions : Offsets(p) \subseteq Offsets(p)'
    BY LogKept
  <2>2. QED BY <1>3, <2>1 DEF TypeOK, WorkerTypeOK, HandOK, Busy, workerVars
<1>4. WorkerTypeOK' /\ \A v \in Workers : HandOK(v)'
  BY <1>2, <1>3 DEF Next, WorkerStep, Produce, AssignOrphans, Rebalance, vars
<1>5. QED BY <1>1, <1>4 DEF TypeOK

(* A worker comes to its commit by a write that succeeded. *)
LEMMA CommitStep ==
  ASSUME IInv, [Next]_vars, TypeOK'
  PROVE  CommitsWhenDone'
<1> SUFFICES ASSUME NEW w \in Workers, pc'[w] = "commit" PROVE Done(cur[w][1], cur[w][2])'
  BY DEF CommitsWhenDone
<1> USE DEF IInv, TypeOK
<1>1. CASE pc[w] = "commit" /\ cur'[w] = cur[w]
  <2>1. PICK p \in Partitions : \E o \in Offsets(p) : cur[w] = <<p, o>>
    BY <1>1 DEF HandOK, Busy
  <2>2. PICK o \in Offsets(p) : cur[w] = <<p, o>>
    BY <2>1
  <2>3. Done(p, o)
    BY <1>1, <2>2 DEF CommitsWhenDone
  <2>4. QED BY <1>1, <2>2, <2>3, DoneKept
<1>2. CASE Write(w) \/ WriteRepeated(w)
  <2>1. PICK p \in Partitions : \E o \in Offsets(p) :
          cur[w] = <<p, o>> /\ Msg(w) \in Messages /\ Msg(w) = MessageAt(p, o)
    BY <1>2, HandIsMessage DEF Write, WriteRepeated, Busy
  <2>2. PICK o \in Offsets(p) :
          cur[w] = <<p, o>> /\ Msg(w) \in Messages /\ Msg(w) = MessageAt(p, o)
    BY <2>1
  <2>3. status[w] \in Statuses
    BY DEF WorkerTypeOK
  <2>4. Len(out'[MessageAt(p, o)]) > 0
    BY <1>2, <2>2, <2>3, EmitEffect DEF Write, WriteRepeated, Emit, Passed
  <2>5. MessageAt(p, o)' = MessageAt(p, o) /\ cur'[w] = <<p, o>>
    BY <1>2, <2>2, LogKept DEF Write, WriteRepeated
  <2>6. QED BY <2>4, <2>5 DEF Done
<1>3. ASSUME NEW v \in Workers, WorkerStep(v), ~(Write(w) \/ WriteRepeated(w))
      PROVE  pc[w] = "commit" /\ cur'[w] = cur[w]
  <2>1. CASE v # w
    BY <1>3, <2>1, WorkerFrame
  <2>2. CASE v = w
    BY <1>3, <2>2, InsideStep DEF WorkerStep, Step, Misfortune, Inside, WorkerTypeOK, Fetch,
       CommitOffset, WriteFails, CommitOffsetFails, Crash, Restart, Proceed, Goto, LoopAgain
  <2>3. QED BY <2>1, <2>2
<1>4. CASE UNCHANGED workerVars
  BY <1>1, <1>4 DEF workerVars
<1>5. QED
  BY <1>1, <1>2, <1>3, <1>4 DEF Next, WorkerStep, Produce, AssignOrphans, Rebalance, vars

--------------------------------------------------------------------------------
(* Counting the copies of a message. *)

(* The messages of a sequence that equal m, all of them and those after k. *)
At(s, m) == { i \in DOMAIN s : s[i] = m }
After(s, m, k) == { i \in DOMAIN s : s[i] = m /\ i > k }

(* Counting them. *)
LEMMA Occurrences ==
  ASSUME NEW s \in Seq(Messages), NEW m, NEW k \in Nat
  PROVE  /\ IsFiniteSet(At(s, m)) /\ IsFiniteSet(After(s, m, k))
         /\ Cardinality(At(s, m)) \in Nat /\ Cardinality(After(s, m, k)) \in Nat
         /\ Cardinality(After(s, m, k)) <= Cardinality(At(s, m))
<1>1. DOMAIN s = 1 .. Len(s) /\ Len(s) \in Nat
  OBVIOUS
<1>2. IsFiniteSet(1 .. Len(s))
  BY <1>1, FS_Interval
<1>3. At(s, m) \in SUBSET (1 .. Len(s)) /\ After(s, m, k) \in SUBSET At(s, m)
  BY <1>1 DEF At, After
<1>4. IsFiniteSet(At(s, m))
  BY <1>2, <1>3, FS_Subset
<1>5. IsFiniteSet(After(s, m, k)) /\ Cardinality(After(s, m, k)) <= Cardinality(At(s, m))
  BY <1>3, <1>4, FS_Subset
<1>6. QED BY <1>4, <1>5, FS_CardinalityType

(* One more message at the end is one more to count, if it is m. *)
LEMMA OccurrencesAppend ==
  ASSUME NEW s \in Seq(Messages), NEW m, NEW n \in Messages, NEW k \in Nat, k <= Len(s)
  PROVE  /\ Cardinality(At(Append(s, n), m)) = Cardinality(At(s, m)) + (IF n = m THEN 1 ELSE 0)
         /\ Cardinality(After(Append(s, n), m, k))
              = Cardinality(After(s, m, k)) + (IF n = m THEN 1 ELSE 0)
<1> DEFINE t == Append(s, n)  e == Len(s) + 1
<1>1. /\ Len(s) \in Nat /\ DOMAIN s = 1 .. Len(s) /\ DOMAIN t = 1 .. e
      /\ t[e] = n /\ \A i \in DOMAIN s : t[i] = s[i]
  OBVIOUS
<1> HIDE DEF t
<1>2. IsFiniteSet(At(s, m)) /\ IsFiniteSet(After(s, m, k))
  BY Occurrences
<1>3. CASE n = m
  <2>1. At(t, m) = At(s, m) \union {e} /\ After(t, m, k) = After(s, m, k) \union {e}
    BY <1>1, <1>3 DEF At, After
  <2>2. e \notin At(s, m) /\ e \notin After(s, m, k)
    BY <1>1 DEF At, After
  <2>3. QED BY <1>2, <1>3, <2>1, <2>2, FS_AddElement DEF t
<1>4. CASE n # m
  <2>1. At(t, m) = At(s, m) /\ After(t, m, k) = After(s, m, k)
    BY <1>1, <1>4 DEF At, After
  <2>2. Cardinality(At(s, m)) \in Nat /\ Cardinality(After(s, m, k)) \in Nat
    BY Occurrences
  <2>3. QED BY <1>4, <2>1, <2>2 DEF t
<1>5. QED BY <1>3, <1>4

(* Passing over one message is one less to read, if it is m. *)
LEMMA OccurrencesAfterNext ==
  ASSUME NEW s \in Seq(Messages), NEW m, NEW k \in Nat, k + 1 <= Len(s)
  PROVE  Cardinality(After(s, m, k + 1)) + (IF s[k + 1] = m THEN 1 ELSE 0)
           = Cardinality(After(s, m, k))
<1>1. IsFiniteSet(After(s, m, k + 1)) /\ Cardinality(After(s, m, k + 1)) \in Nat
  BY Occurrences
<1>2. DOMAIN s = 1 .. Len(s)
  OBVIOUS
<1>3. CASE s[k + 1] = m
  <2>1. After(s, m, k) = After(s, m, k + 1) \union {k + 1}
    BY <1>2, <1>3 DEF After
  <2>2. k + 1 \notin After(s, m, k + 1)
    BY DEF After
  <2>3. QED BY <1>1, <1>3, <2>1, <2>2, FS_AddElement
<1>4. CASE s[k + 1] # m
  <2>1. After(s, m, k) = After(s, m, k + 1)
    BY <1>2, <1>4 DEF After
  <2>2. QED BY <1>1, <1>4, <2>1
<1>5. QED BY <1>3, <1>4

(* How often m was passed on. *)
Sent(m) == Len(out[m])

(* What is counted, in a well typed state and in the next one. *)
CountsOK ==
  \A m \in Messages :
    /\ Copies(m) = Cardinality(At(log[PartitionOf[m]], m)) /\ Copies(m) \in Nat
    /\ Unread(m) = Cardinality(After(log[PartitionOf[m]], m, position[PartitionOf[m]]))
    /\ Unread(m) \in Nat /\ Unread(m) <= Copies(m)
    /\ ToRead(m) \in Nat
    /\ IsFiniteSet(Carriers(m)) /\ Cardinality(Carriers(m)) \in Nat
    /\ Sent(m) \in Nat
    /\ faults \in Nat /\ disruptions \in Nat

LEMMA Counts == TypeOK => CountsOK
<1> SUFFICES ASSUME TypeOK, NEW m \in Messages
    PROVE  /\ Copies(m) = Cardinality(At(log[PartitionOf[m]], m)) /\ Copies(m) \in Nat
           /\ Unread(m) = Cardinality(After(log[PartitionOf[m]], m, position[PartitionOf[m]]))
           /\ Unread(m) \in Nat /\ Unread(m) <= Copies(m)
           /\ ToRead(m) \in Nat
           /\ IsFiniteSet(Carriers(m)) /\ Cardinality(Carriers(m)) \in Nat
           /\ Sent(m) \in Nat
           /\ faults \in Nat /\ disruptions \in Nat
  BY DEF CountsOK
<1> DEFINE p == PartitionOf[m]
<1>1. p \in Partitions /\ log[p] \in Seq(Messages) /\ position[p] \in Nat
  BY DEF TypeOK, GroupTypeOK
<1>2. Copies(m) = Cardinality(At(log[p], m)) /\ Unread(m) = Cardinality(After(log[p], m, position[p]))
  BY DEF Copies, Unread, At, After
<1>3. Copies(m) \in Nat /\ Unread(m) \in Nat /\ Unread(m) <= Copies(m)
  BY <1>1, <1>2, Occurrences
<1>4. Carriers(m) \in SUBSET Workers
  BY DEF Carriers
<1>5. IsFiniteSet(Carriers(m)) /\ Cardinality(Carriers(m)) \in Nat
  BY <1>4, FS_Subset, FS_CardinalityType
<1>6. QED BY <1>2, <1>3, <1>5 DEF ToRead, Sent, TypeOK, OutTypeOK

LEMMA CountsNext == TypeOK' => CountsOK'
  BY Counts, PTL

(* What a worker has in hand counts once. *)
Holds(w, m) == IF w \in Carriers(m) THEN 1 ELSE 0

(* The copies of m that are passed on, in hand or to be read. *)
Counted(m) == Sent(m) + Cardinality(Carriers(m)) + ToRead(m)

(* A set is one element and the rest. *)
LEMMA Rest ==
  ASSUME NEW S, IsFiniteSet(S), NEW w
  PROVE  Cardinality(S \ {w}) = Cardinality(S) - (IF w \in S THEN 1 ELSE 0)
<1>1. Cardinality(S) \in Nat
  BY FS_CardinalityType
<1>2. CASE w \in S
  BY <1>1, <1>2, FS_RemoveElement
<1>3. CASE w \notin S
  <2>1. S \ {w} = S
    BY <1>3
  <2>2. Cardinality(S \ {w}) = Cardinality(S)
    BY <2>1
  <2>3. QED BY <1>1, <1>3, <2>2
<1>4. QED BY <1>2, <1>3

(* What a step of worker w does to the copies of m, from what it does to     *)
(* those w has in hand: the rest of the workers keep theirs.                 *)
LEMMA CountWorker ==
  ASSUME TypeOK, TypeOK', NEW w \in Workers, WorkerStep(w), NEW m \in Messages
  PROVE  Cardinality(Carriers(m))' + Holds(w, m) = Cardinality(Carriers(m)) + Holds(w, m)'
<1>1. Carriers(m)' \ {w} = Carriers(m) \ {w}
  BY WorkerFrame DEF Carriers, Busy, Msg, MessageAt
<1>2. IsFiniteSet(Carriers(m)) /\ IsFiniteSet(Carriers(m)')
      /\ Cardinality(Carriers(m)) \in Nat /\ Cardinality(Carriers(m)') \in Nat
  BY Counts, CountsNext DEF CountsOK
<1>3. Cardinality(Carriers(m) \ {w}) = Cardinality(Carriers(m)) - Holds(w, m)
  BY <1>2, Rest DEF Holds
<1>4. Cardinality(Carriers(m)' \ {w}) = Cardinality(Carriers(m)') - Holds(w, m)'
  BY <1>2, Rest DEF Holds
<1>5. QED BY <1>1, <1>2, <1>3, <1>4 DEF Holds

(* A step either adds a message to the topic or leaves the topic alone. *)
LEMMA LogStep ==
  ASSUME TypeOK, [Next]_vars
  PROVE  (\E m \in Messages : Produce(m)) \/ log' = log
<1>1. ASSUME NEW w \in Workers, WorkerStep(w) PROVE log' = log
  BY <1>1, WorkerFrame
<1>2. CASE AssignOrphans \/ Rebalance \/ UNCHANGED vars
  BY <1>2 DEF AssignOrphans, Rebalance, Assign, vars, groupVars
<1>3. QED BY <1>1, <1>2 DEF Next, WorkerStep

(* Messages stay where the balancer puts them. *)
LEMMA PlacedStep ==
  ASSUME TypeOK, Placed, [Next]_vars
  PROVE  Placed'
<1>1. ASSUME NEW m \in Messages, Produce(m) PROVE Placed'
  <2> SUFFICES ASSUME NEW p \in Partitions, NEW i \in DOMAIN log'[p] PROVE PartitionOf[log'[p][i]] = p
    BY DEF Placed
  <2>1. log \in [Partitions -> Seq(Messages)] /\ PartitionOf[m] \in Partitions
    BY DEF TypeOK, GroupTypeOK
  <2>2. log' = [log EXCEPT ![PartitionOf[m]] = Append(@, m)]
    BY <1>1 DEF Produce, Append1
  <2>3. CASE p # PartitionOf[m]
    BY <2>1, <2>2, <2>3 DEF Placed
  <2>4. CASE p = PartitionOf[m]
    <3>1. log[p] \in Seq(Messages) /\ log'[p] = Append(log[p], m)
      BY <2>1, <2>2, <2>4
    <3>2. log'[p][i] = m \/ (i \in DOMAIN log[p] /\ log'[p][i] = log[p][i])
      BY <3>1
    <3>3. QED BY <2>4, <3>2 DEF Placed
  <2>5. QED BY <2>3, <2>4
<1>2. CASE log' = log
  BY <1>2 DEF Placed
<1>3. QED BY <1>1, <1>2, LogStep

(* Disruptions are counted, and only a new generation or a crash changes an owner. *)
LEMMA OwnerStep ==
  ASSUME TypeOK, TypeOK', [Next]_vars
  PROVE  /\ disruptions' \in Nat /\ disruptions \in Nat /\ disruptions <= disruptions'
         /\ \/ owner' = owner
            \/ disruptions' = disruptions + 1
            \/ owner' \in [Partitions -> Workers]
<1>1. disruptions' \in Nat /\ disruptions \in Nat
  BY DEF TypeOK, OutTypeOK
<1>2. ASSUME NEW m \in Messages, Produce(m) PROVE UNCHANGED <<disruptions, owner>>
  BY <1>2 DEF Produce, Append1, countVars
<1>3. ASSUME NEW w \in Workers, WorkerStep(w)
      PROVE  disruptions <= disruptions' /\ (owner' = owner \/ disruptions' = disruptions + 1)
  <2>1. CASE Inside(w)
    BY <1>1, <2>1, InsideStep DEF groupVars, countVars
  <2>2. CASE Fetch(w) \/ Write(w) \/ CommitOffset(w) \/ Restart(w)
    BY <1>1, <2>2 DEF Fetch, FetchFrom, Write, CommitOffset, CommitUpTo, Restart, Proceed, Private,
       groupVars, countVars
  <2>3. CASE WriteRepeated(w) \/ WriteFails(w)
    BY <1>1, <2>3 DEF WriteRepeated, WriteFails, Fault, groupVars
  <2>4. CASE CommitOffsetFails(w) \/ Crash(w)
    BY <1>1, <2>4 DEF CommitOffsetFails, Crash, Disruption
  <2>5. QED BY <1>3, <2>1, <2>2, <2>3, <2>4 DEF WorkerStep, Step, Misfortune, Inside
<1>4. CASE AssignOrphans
  BY <1>1, <1>4 DEF AssignOrphans, Assign, Live, countVars
<1>5. CASE Rebalance
  BY <1>1, <1>5 DEF Rebalance, Disruption
<1>6. CASE UNCHANGED vars
  BY <1>1, <1>6 DEF vars, groupVars, countVars
<1>7. QED BY <1>1, <1>2, <1>3, <1>4, <1>5, <1>6 DEF Next, WorkerStep

(* A partition loses its owner in a crash only, which is counted. *)
LEMMA OrphanStep ==
  ASSUME TypeOK, TypeOK', OrphanedByCrash, [Next]_vars
  PROVE  OrphanedByCrash'
<1>1. CASE owner' = owner
  BY <1>1, OwnerStep DEF OrphanedByCrash, Orphaned
<1>2. CASE disruptions' = disruptions + 1
  BY <1>2, OwnerStep DEF OrphanedByCrash
<1>3. CASE owner' \in [Partitions -> Workers]
  BY <1>3 DEF OrphanedByCrash, Orphaned
<1>4. QED BY <1>1, <1>2, <1>3, OwnerStep

(* The arithmetic of the bound: what is counted grows by what the faults and *)
(* the disruption of a step allow.                                           *)
LEMMA BoundKept ==
  ASSUME NEW c \in Nat, NEW d \in Nat, NEW f \in Nat, NEW g \in Nat, NEW x \in Nat, NEW y \in Nat,
         NEW e \in Nat, x <= c * (1 + d) + f,
         \/ e = d /\ y + f <= x + g
         \/ e = d + 1 /\ y + f <= x + c + g
  PROVE  y <= c * (1 + e) + g
<1>1. c * (1 + (d + 1)) = c * (1 + d) + c /\ c * (1 + d) \in Nat
  OBVIOUS
<1>2. QED BY <1>1

(* A message more in the topic: one copy more to be read, twice where the    *)
(* partition is read by an owner that a crash elsewhere is about to replace. *)
LEMMA AccountProduce ==
  ASSUME IInv, TypeOK', NEW n \in Messages, Produce(n), NEW m \in Messages
  PROVE  Counted(m)' <= Copies(m)' * (1 + disruptions') + faults'
<1> DEFINE p == PartitionOf[m]
           j == IF n = m THEN 1 ELSE 0
<1>1. /\ p \in Partitions /\ PartitionOf[n] \in Partitions
      /\ log \in [Partitions -> Seq(Messages)] /\ position[p] \in Nat /\ position[p] <= Len(log[p])
  BY DEF IInv, TypeOK, GroupTypeOK
<1>2. /\ log' = [log EXCEPT ![PartitionOf[n]] = Append(@, n)]
      /\ UNCHANGED <<position, owner, pc, cur, out, faults, disruptions>>
  BY DEF Produce, Append1, workerVars, countVars
<1>3. CountsOK /\ CountsOK'
  BY Counts, CountsNext DEF IInv
<1>N. /\ Copies(m) \in Nat /\ Unread(m) \in Nat /\ ToRead(m) \in Nat
      /\ Cardinality(Carriers(m)) \in Nat /\ Sent(m) \in Nat /\ faults \in Nat /\ disruptions \in Nat
      /\ Copies(m)' \in Nat /\ Unread(m)' \in Nat /\ ToRead(m)' \in Nat
      /\ Cardinality(Carriers(m))' \in Nat /\ Sent(m)' \in Nat /\ faults' \in Nat /\ disruptions' \in Nat
  BY <1>3 DEF CountsOK
<1>4. Copies(m)' = Copies(m) + j /\ Unread(m)' = Unread(m) + j
  <2>1. CASE p = PartitionOf[n]
    <3>1. log'[p] = Append(log[p], n)
      BY <1>1, <1>2, <2>1
    <3>2. /\ Cardinality(At(log'[p], m)) = Cardinality(At(log[p], m)) + j
          /\ Cardinality(After(log'[p], m, position[p])) = Cardinality(After(log[p], m, position[p])) + j
      <4> DEFINE s == log[p]  k == position[p]
      <4>1. s \in Seq(Messages) /\ k \in Nat /\ k <= Len(s)
        BY <1>1
      <4> HIDE DEF s, k
      <4>2. /\ Cardinality(At(Append(s, n), m)) = Cardinality(At(s, m)) + j
            /\ Cardinality(After(Append(s, n), m, k)) = Cardinality(After(s, m, k)) + j
        BY <4>1, OccurrencesAppend
      <4>3. QED BY <3>1, <4>2 DEF s, k
    <3>3. QED BY <1>2, <1>3, <3>2 DEF CountsOK
  <2>2. CASE p # PartitionOf[n]
    <3>1. log'[p] = log[p] /\ j = 0
      BY <1>1, <1>2, <2>2
    <3>2. Copies(m)' = Copies(m) /\ Unread(m)' = Unread(m)
      BY <1>2, <3>1 DEF Copies, Unread
    <3>3. QED BY <1>N, <3>1, <3>2
  <2>3. QED BY <2>1, <2>2
<1>5. Carriers(m)' = Carriers(m)
  <2>1. ASSUME NEW w \in Workers, Busy(w) PROVE Msg(w)' = Msg(w)
    <3>1. PICK q \in Partitions : \E o \in Offsets(q) : cur[w] = <<q, o>>
      BY <2>1 DEF IInv, TypeOK, HandOK
    <3>2. PICK o \in Offsets(q) : cur[w] = <<q, o>>
      BY <3>1
    <3>3. MessageAt(q, o)' = MessageAt(q, o)
      BY LogKept DEF IInv, Next
    <3>4. QED BY <1>2, <3>2, <3>3 DEF Msg
  <2>2. QED BY <1>2, <2>1 DEF Carriers, Busy
<1>6. Counted(m)' <= Counted(m) + j + (IF n = m /\ owner[p] # NoOne /\ Orphaned THEN 1 ELSE 0)
  <2>1. Orphaned' = Orphaned
    BY <1>2 DEF Orphaned
  <2>2. ToRead(m)' <= ToRead(m) + j + (IF n = m /\ owner[p] # NoOne /\ Orphaned THEN 1 ELSE 0)
    <3>1. CASE owner[p] = NoOne
      BY <1>2, <1>N, <1>4, <3>1 DEF ToRead
    <3>2. CASE owner[p] # NoOne
      BY <1>2, <1>N, <1>4, <2>1, <3>2 DEF ToRead
    <3>3. QED BY <3>1, <3>2
  <2>3. Sent(m)' = Sent(m) /\ Cardinality(Carriers(m))' = Cardinality(Carriers(m))
    BY <1>2, <1>5 DEF Sent
  <2>4. /\ Counted(m) = Sent(m) + Cardinality(Carriers(m)) + ToRead(m)
        /\ Counted(m)' = Sent(m)' + Cardinality(Carriers(m))' + ToRead(m)'
    BY DEF Counted
  <2>5. QED BY ONLY <1>N, <2>2, <2>3, <2>4
<1>7. (n = m /\ owner[p] # NoOne /\ Orphaned) => disruptions > 0
  BY <1>1 DEF IInv, OrphanedByCrash
<1>8. (Copies(m) + 1) * (1 + disruptions) = Copies(m) * (1 + disruptions) + 1 + disruptions
  <2>1. ASSUME NEW c \in Nat, NEW d \in Nat PROVE (c + 1) * (1 + d) = c * (1 + d) + 1 + d
    OBVIOUS
  <2>2. QED BY <1>N, <2>1
<1>9. Counted(m) <= Copies(m) * (1 + disruptions) + faults
  BY DEF IInv, CopiesAccounted, Counted, Sent
<1>10. Counted(m) \in Nat /\ Counted(m)' \in Nat
  <2>1. /\ Counted(m) = Sent(m) + Cardinality(Carriers(m)) + ToRead(m)
        /\ Counted(m)' = Sent(m)' + Cardinality(Carriers(m))' + ToRead(m)'
    BY DEF Counted
  <2>2. QED BY <1>N, <2>1
<1>11. Copies(m) \in Nat /\ disruptions \in Nat /\ faults \in Nat /\ Copies(m) * (1 + disruptions) \in Nat
  BY <1>N
<1>12. CASE n = m
  BY <1>2, <1>4, <1>6, <1>7, <1>8, <1>9, <1>10, <1>11, <1>12
<1>13. CASE n # m
  BY <1>2, <1>4, <1>6, <1>9, <1>10, <1>11, <1>13
<1>14. QED BY <1>12, <1>13

(* A step of one worker moves copies on: from unread to its hand, and from   *)
(* its hand to enriched.github, a fault apart.                               *)
LEMMA WorkerMoves ==
  ASSUME IInv, TypeOK', NEW w \in Workers, WorkerStep(w), ~Crash(w), NEW m \in Messages
  PROVE  /\ Sent(m)' + Holds(w, m)' + ToRead(m)' + faults
              <= Sent(m) + Holds(w, m) + ToRead(m) + faults'
         /\ disruptions' = disruptions \/ disruptions' = disruptions + 1
<1> DEFINE h == Holds(w, m)
<1>0. CountsOK /\ CountsOK' /\ h \in {0, 1} /\ h' \in {0, 1} /\ log' = log
  BY Counts, CountsNext, WorkerFrame DEF IInv, Holds
<1>N. /\ Copies(m) \in Nat /\ Unread(m) \in Nat /\ ToRead(m) \in Nat
      /\ Cardinality(Carriers(m)) \in Nat /\ Sent(m) \in Nat /\ faults \in Nat /\ disruptions \in Nat
      /\ Copies(m)' \in Nat /\ Unread(m)' \in Nat /\ ToRead(m)' \in Nat
      /\ Cardinality(Carriers(m))' \in Nat /\ Sent(m)' \in Nat /\ faults' \in Nat /\ disruptions' \in Nat
  BY <1>0 DEF CountsOK
<1>1. ASSUME UNCHANGED <<position, owner>> PROVE ToRead(m)' = ToRead(m)
  BY <1>0, <1>1 DEF ToRead, Copies, Unread, Orphaned
<1>2. CASE Fetch(w)
  <2>1. PICK p \in Partitions :
          FetchFrom(w, p) /\ cur' = [cur EXCEPT ![w] = <<p, position[p]>>]
    BY <1>2 DEF Fetch
  <2>2. /\ log[p] \in Seq(Messages) /\ position[p] \in Nat /\ position[p] + 1 <= Len(log[p])
        /\ position' = [position EXCEPT ![p] = @ + 1] /\ owner' = owner /\ owner[p] = w /\ w # NoOne
        /\ position \in [Partitions -> Nat] /\ PartitionOf[m] \in Partitions
    BY <2>1 DEF IInv, TypeOK, GroupTypeOK, FetchFrom, CanFetch
  <2>3. UNCHANGED <<out, faults, disruptions>> /\ h = 0
    BY <1>2 DEF Fetch, countVars, Holds, Carriers, Busy
  <2>4. Orphaned' = Orphaned /\ Copies(m)' = Copies(m)
    BY <1>0, <2>2 DEF Orphaned, Copies
  <2>5. CASE log[p][position[p] + 1] = m
    <3>1. PartitionOf[m] = p
      BY <2>2, <2>5 DEF IInv, Placed
    <3>2. position'[p] = position[p] + 1
      BY <2>2
    <3>3. Unread(m)' + 1 = Unread(m)
      <4> DEFINE s == log[p]  k == position[p]
      <4>1. s \in Seq(Messages) /\ k \in Nat /\ k + 1 <= Len(s) /\ s[k + 1] = m
        BY <2>2, <2>5
      <4>2. Unread(m) = Cardinality(After(s, m, k)) /\ Unread(m)' = Cardinality(After(s, m, k + 1))
        BY <1>0, <3>1, <3>2 DEF CountsOK
      <4> HIDE DEF s, k
      <4>3. Cardinality(After(s, m, k + 1)) + 1 = Cardinality(After(s, m, k))
        BY <4>1, OccurrencesAfterNext
      <4>4. QED BY <4>2, <4>3
    <3>4. ToRead(m)' + 1 = ToRead(m)
      <4>1. owner[PartitionOf[m]] # NoOne /\ owner' = owner
        BY <2>2, <3>1
      <4>2. CASE Orphaned
        BY <1>N, <2>4, <3>3, <4>1, <4>2 DEF ToRead
      <4>3. CASE ~Orphaned
        BY <1>N, <2>4, <3>3, <4>1, <4>3 DEF ToRead
      <4>4. QED BY <4>2, <4>3
    <3>5. Sent(m)' = Sent(m)
      BY <2>3 DEF Sent
    <3>6. QED BY ONLY <1>0, <1>N, <2>3, <3>4, <3>5
  <2>6. CASE log[p][position[p] + 1] # m
    <3>1. h' = 0
      <4>1. cur'[w] = <<p, position[p]>>
        BY <2>1 DEF IInv, TypeOK, WorkerTypeOK
      <4>2. Msg(w)' # m
        BY <1>0, <2>6, <4>1 DEF Msg, MessageAt
      <4>3. QED BY <4>2 DEF Holds, Carriers
    <3>2. Unread(m)' = Unread(m)
      <4>1. CASE PartitionOf[m] = p
        <5>1. position'[p] = position[p] + 1
          BY <2>2
        <5>2. Cardinality(After(log[p], m, position[p] + 1)) = Cardinality(After(log[p], m, position[p]))
          BY <2>2, <2>6, OccurrencesAfterNext, Occurrences
        <5>3. QED BY <1>0, <4>1, <5>1, <5>2 DEF CountsOK
      <4>2. CASE PartitionOf[m] # p
        <5>1. position'[PartitionOf[m]] = position[PartitionOf[m]]
          BY <2>2, <4>2
        <5>2. QED BY <1>0, <5>1 DEF CountsOK
      <4>3. QED BY <4>1, <4>2
    <3>3. ToRead(m)' = ToRead(m)
      BY <2>2, <2>4, <3>2 DEF ToRead
    <3>4. QED BY <1>N, <2>3, <3>1, <3>3 DEF Sent
  <2>7. QED BY <2>5, <2>6
<1>3. CASE Inside(w)
  <2>1. h' = h
    <3>1. pc \in [Workers -> Stages] /\ Busy(w) /\ cur' = cur
          /\ \E g \in Stages \ {"fetch", "commit", "down"} : pc' = [pc EXCEPT ![w] = g]
      BY <1>3, InsideStep DEF IInv, TypeOK, WorkerTypeOK
    <3>2. Busy(w)' /\ pc'[w] # "commit" /\ pc[w] # "commit"
      BY <1>3, <3>1 DEF Busy, Inside, Enrich, Query, Wait, Requery, Patch, Merge
    <3>3. Msg(w)' = Msg(w)
      BY <1>0, <3>1 DEF Msg, MessageAt
    <3>4. QED BY <3>1, <3>2, <3>3 DEF Holds, Carriers
  <2>2. UNCHANGED <<position, owner, out, faults, disruptions>>
    BY <1>3, InsideStep DEF IInv, groupVars, countVars
  <2>3. QED BY <1>N, <1>0, <1>1, <2>1, <2>2 DEF Sent
<1>4. CASE Write(w) \/ WriteRepeated(w) \/ WriteFails(w)
  <2>1. /\ h' = 0 /\ UNCHANGED <<position, owner, disruptions>>
        /\ Msg(w) \in Messages /\ out \in [Messages -> Seq(Statuses)] /\ status[w] \in Statuses
        /\ h = IF Msg(w) = m THEN 1 ELSE 0
    <3>1. Busy(w) /\ pc[w] = "write"
      BY <1>4 DEF Write, WriteRepeated, WriteFails, Busy
    <3>2. pc'[w] \in {"fetch", "commit"} /\ UNCHANGED <<position, owner, disruptions>>
      BY <1>4 DEF Write, WriteRepeated, WriteFails, Goto, LoopAgain, Fault, groupVars, countVars, IInv,
         TypeOK, WorkerTypeOK
    <3>3. QED
      BY <3>1, <3>2, HandIsMessage DEF Holds, Carriers, Busy, IInv, TypeOK, WorkerTypeOK, OutTypeOK
  <2>2. Append(out[Msg(w)], status[w]) \in Seq(Statuses)
        /\ Len(Append(out[Msg(w)], status[w])) = Len(out[Msg(w)]) + 1
        /\ Len(Append(Append(out[Msg(w)], status[w]), status[w])) = Len(out[Msg(w)]) + 2
    BY <2>1
  <2>3. CASE Write(w)
    <3>1. faults' = faults /\ Sent(m)' = Sent(m) + h
      BY <2>1, <2>2, <2>3 DEF Write, Emit, countVars, Sent
    <3>2. ToRead(m)' = ToRead(m) /\ disruptions' = disruptions /\ h' = 0
      BY <1>1, <2>1
    <3>3. QED BY <1>N, <1>0, <3>1, <3>2
  <2>4. CASE WriteRepeated(w)
    <3>1. faults' = faults + 1 /\ Sent(m)' = Sent(m) + h + h
      BY <2>1, <2>2, <2>4 DEF WriteRepeated, Fault, Sent
    <3>2. ToRead(m)' = ToRead(m) /\ disruptions' = disruptions /\ h' = 0
      BY <1>1, <2>1
    <3>3. QED BY <1>N, <1>0, <3>1, <3>2
  <2>5. CASE WriteFails(w)
    <3>1. faults' = faults + 1 /\ (Sent(m)' = Sent(m) \/ Sent(m)' = Sent(m) + h)
      BY <2>1, <2>2, <2>5 DEF WriteFails, Emit, Fault, Sent
    <3>2. ToRead(m)' = ToRead(m) /\ disruptions' = disruptions /\ h' = 0
      BY <1>1, <2>1
    <3>3. QED BY <1>N, <1>0, <3>1, <3>2
  <2>6. QED BY <1>4, <2>3, <2>4, <2>5
<1>5. CASE CommitOffset(w) \/ CommitOffsetFails(w) \/ Restart(w)
  <2>1. h' = 0 /\ h = 0
    BY <1>5 DEF CommitOffset, CommitOffsetFails, Restart, Proceed, Goto, LoopAgain, Holds, Carriers, Busy,
       IInv, TypeOK, WorkerTypeOK
  <2>2. /\ UNCHANGED <<position, owner, out, faults>>
        /\ disruptions' = disruptions \/ disruptions' = disruptions + 1
    BY <1>5 DEF CommitOffset, CommitUpTo, CommitOffsetFails, Restart, Proceed, Private, Disruption,
       groupVars, countVars
  <2>3. QED BY <1>N, <1>0, <1>1, <2>1, <2>2 DEF Sent
<1>6. QED BY <1>2, <1>3, <1>4, <1>5 DEF WorkerStep, Step, Misfortune, Inside

(* A step of a worker keeps the account; a crash may have every copy of the  *)
(* partition read again.                                                     *)
LEMMA AccountWorker ==
  ASSUME IInv, TypeOK', NEW w \in Workers, WorkerStep(w), NEW m \in Messages
  PROVE  Counted(m)' <= Copies(m)' * (1 + disruptions') + faults'
<1>0. TypeOK /\ CountsOK /\ CountsOK' /\ log' = log
  BY Counts, CountsNext, WorkerFrame DEF IInv
<1>1. /\ Copies(m) \in Nat /\ Unread(m) \in Nat /\ ToRead(m) \in Nat
      /\ Cardinality(Carriers(m)) \in Nat /\ Sent(m) \in Nat /\ faults \in Nat /\ disruptions \in Nat
      /\ Copies(m)' \in Nat /\ Unread(m)' \in Nat /\ ToRead(m)' \in Nat
      /\ Cardinality(Carriers(m))' \in Nat /\ Sent(m)' \in Nat /\ faults' \in Nat /\ disruptions' \in Nat
      /\ Unread(m) <= Copies(m)
  BY <1>0 DEF CountsOK
<1>2. Holds(w, m) \in {0, 1} /\ Holds(w, m)' \in {0, 1}
  BY DEF Holds
<1>3. Cardinality(Carriers(m))' + Holds(w, m) = Cardinality(Carriers(m)) + Holds(w, m)'
  BY <1>0, CountWorker
<1>4. /\ Counted(m) = Sent(m) + Cardinality(Carriers(m)) + ToRead(m)
      /\ Counted(m)' = Sent(m)' + Cardinality(Carriers(m))' + ToRead(m)'
  BY DEF Counted
<1>5. Counted(m) \in Nat /\ Counted(m)' \in Nat
  BY <1>1, <1>4
<1>6. Counted(m) <= Copies(m) * (1 + disruptions) + faults /\ Copies(m)' = Copies(m)
  BY <1>0, <1>4 DEF IInv, CopiesAccounted, Sent, Copies
<1>7. \/ disruptions' = disruptions /\ Counted(m)' + faults <= Counted(m) + faults'
      \/ disruptions' = disruptions + 1 /\ Counted(m)' + faults <= Counted(m) + Copies(m) + faults'
  <2>1. CASE ~Crash(w)
    <3>1. /\ Sent(m)' + Holds(w, m)' + ToRead(m)' + faults
                <= Sent(m) + Holds(w, m) + ToRead(m) + faults'
          /\ disruptions' = disruptions \/ disruptions' = disruptions + 1
      BY <2>1, WorkerMoves
    <3>2. QED BY ONLY <1>1, <1>2, <1>3, <1>4, <3>1
  <2>2. CASE Crash(w)
    <3>1. /\ UNCHANGED <<position, faults>> /\ disruptions' = disruptions + 1 /\ Sent(m)' = Sent(m)
          /\ owner' = [p \in Partitions |-> IF owner[p] = w THEN NoOne ELSE owner[p]]
          /\ pc' = [pc EXCEPT ![w] = "down"]
      BY <2>2 DEF Crash, Leave, LoopAgain, Goto, Disruption, Sent
    <3>2. Holds(w, m)' = 0
      BY <1>0, <3>1 DEF Holds, Carriers, Busy, TypeOK, WorkerTypeOK
    <3>3. ToRead(m)' <= ToRead(m) + Copies(m)
      <4> DEFINE p == PartitionOf[m]
      <4>1. owner'[p] = owner[p] \/ owner'[p] = NoOne
        BY <3>1
      <4>2. CASE owner'[p] = NoOne
        BY <1>1, <1>6, <4>2 DEF ToRead
      <4>3. CASE owner'[p] = owner[p] /\ owner[p] # NoOne
        <5>1. Unread(m)' = Unread(m)
          BY <1>0, <3>1 DEF Unread
        <5>2. Orphaned => Orphaned'
          BY <3>1 DEF Orphaned
        <5>3. QED BY <1>1, <1>6, <4>3, <5>1, <5>2 DEF ToRead
      <4>4. QED BY <4>1, <4>2, <4>3
    <3>4. QED BY ONLY <1>1, <1>2, <1>3, <1>4, <3>1, <3>2, <3>3
  <2>3. QED BY <2>1, <2>2
<1>8. QED BY ONLY <1>1, <1>5, <1>6, <1>7, BoundKept

(* A new generation reads again what was read and not committed: what its    *)
(* cause, a crash or the rebalance itself, has paid for.                     *)
LEMMA AccountAssign ==
  ASSUME IInv, TypeOK', AssignOrphans \/ Rebalance, NEW m \in Messages
  PROVE  Counted(m)' <= Copies(m)' * (1 + disruptions') + faults'
<1>0. TypeOK /\ CountsOK /\ CountsOK' /\ log' = log
  BY Counts, CountsNext DEF IInv, AssignOrphans, Rebalance, Assign
<1>1. /\ Copies(m) \in Nat /\ Unread(m) \in Nat /\ ToRead(m) \in Nat
      /\ Cardinality(Carriers(m)) \in Nat /\ Sent(m) \in Nat /\ faults \in Nat /\ disruptions \in Nat
      /\ Copies(m)' \in Nat /\ Unread(m)' \in Nat /\ ToRead(m)' \in Nat
      /\ Cardinality(Carriers(m))' \in Nat /\ Sent(m)' \in Nat /\ faults' \in Nat /\ disruptions' \in Nat
      /\ Unread(m)' <= Copies(m)'
  BY <1>0 DEF CountsOK
<1>2. /\ Counted(m) = Sent(m) + Cardinality(Carriers(m)) + ToRead(m)
      /\ Counted(m)' = Sent(m)' + Cardinality(Carriers(m))' + ToRead(m)'
  BY DEF Counted
<1>3. Counted(m) \in Nat /\ Counted(m)' \in Nat
  BY <1>1, <1>2
<1>4. Counted(m) <= Copies(m) * (1 + disruptions) + faults /\ Copies(m)' = Copies(m)
  BY <1>0, <1>2 DEF IInv, CopiesAccounted, Sent, Copies
<1>5. UNCHANGED <<pc, cur, out, faults>> /\ owner' \in [Partitions -> Workers]
  BY DEF AssignOrphans, Rebalance, Assign, Live, workerVars, countVars, Disruption
<1>6. Sent(m)' = Sent(m) /\ Cardinality(Carriers(m))' = Cardinality(Carriers(m))
  BY <1>0, <1>5 DEF Sent, Carriers, Busy, Msg, MessageAt
<1>7. ~Orphaned' /\ owner'[PartitionOf[m]] # NoOne
  BY <1>5 DEF Orphaned
<1>8. ToRead(m)' <= Copies(m)
  BY <1>1, <1>4, <1>7 DEF ToRead
<1>9. \/ disruptions' = disruptions /\ Counted(m)' + faults <= Counted(m) + faults'
      \/ disruptions' = disruptions + 1 /\ Counted(m)' + faults <= Counted(m) + Copies(m) + faults'
  <2>1. CASE AssignOrphans
    <3>1. Copies(m) <= ToRead(m) /\ disruptions' = disruptions
      BY <1>1, <2>1 DEF AssignOrphans, ToRead, countVars
    <3>2. QED BY <1>1, <1>2, <1>5, <1>6, <1>8, <3>1
  <2>2. CASE Rebalance
    <3>1. disruptions' = disruptions + 1
      BY <2>2 DEF Rebalance, Disruption
    <3>2. QED BY <1>1, <1>2, <1>5, <1>6, <1>8, <3>1
  <2>3. QED BY <2>1, <2>2
<1>10. QED BY ONLY <1>1, <1>3, <1>4, <1>5, <1>9, BoundKept

(* Every step keeps the account of the copies. *)
LEMMA AccountedStep ==
  ASSUME IInv, TypeOK', [Next]_vars
  PROVE  CopiesAccounted'
<1> SUFFICES ASSUME NEW m \in Messages
    PROVE  Counted(m)' <= Copies(m)' * (1 + disruptions') + faults'
  BY DEF CopiesAccounted, Counted, Sent
<1>1. CASE UNCHANGED vars
  <2>1. Counted(m)' = Counted(m) /\ Copies(m)' = Copies(m)
        /\ UNCHANGED <<disruptions, faults>>
    BY <1>1 DEF Counted, Sent, Carriers, Busy, Msg, MessageAt, ToRead, Unread, Copies, Orphaned, vars,
       groupVars, workerVars, countVars
  <2>2. Counted(m) <= Copies(m) * (1 + disruptions) + faults
    BY DEF IInv, CopiesAccounted, Counted, Sent
  <2>3. QED BY <2>1, <2>2
<1>2. QED
  BY <1>1, AccountProduce, AccountWorker, AccountAssign DEF Next, WorkerStep

(* Every step keeps the invariant. *)
LEMMA IInvStep == IInv /\ [Next]_vars => IInv'
<1> SUFFICES ASSUME IInv, [Next]_vars PROVE IInv'
  OBVIOUS
<1>1. TypeOK'
  BY TypeStep DEF IInv
<1>2. CommitsWhenDone'
  BY <1>1, CommitStep
<1>3. Placed' /\ OrphanedByCrash' /\ CopiesAccounted'
  BY <1>1, PlacedStep, OrphanStep, AccountedStep DEF IInv
<1>4. QED BY <1>1, <1>2, <1>3 DEF IInv

(* The types of every variable, and what the invariant adds to them. *)
THEOREM Invariance == Spec => []IInv
  BY InitIInv, IInvStep, PTL DEF Spec

(* What the account says of the copies that were passed on. *)
LEMMA AccountBounds == IInv => CopiesWithinFaults
<1> SUFFICES ASSUME IInv, NEW m \in Messages
    PROVE  Sent(m) <= Copies(m) * (1 + disruptions) + faults
  BY DEF CopiesWithinFaults, Sent
<1>1. /\ Copies(m) \in Nat /\ ToRead(m) \in Nat /\ Cardinality(Carriers(m)) \in Nat
      /\ Sent(m) \in Nat /\ faults \in Nat /\ disruptions \in Nat
  BY Counts DEF IInv, CountsOK
<1>2. Sent(m) + Cardinality(Carriers(m)) + ToRead(m) <= Copies(m) * (1 + disruptions) + faults
  BY DEF IInv, CopiesAccounted, Sent
<1>3. Copies(m) * (1 + disruptions) \in Nat
  BY <1>1
<1>4. QED BY <1>1, <1>2, <1>3

(* A message is passed on once for each copy of it on raw.github and each    *)
(* time the group starts over, and once more for each failing write: however *)
(* GitHub answers, whatever else crashes, and with any number of workers.    *)
THEOREM CopiesBounded == Spec => []CopiesWithinFaults
  BY Invariance, AccountBounds, PTL

--------------------------------------------------------------------------------
(* Enricher implements AtLeastOnce. *)

(* The steps of the promise in the terms of Enricher. *)
LEMMA Produces ==
  ASSUME NEW m \in Messages, Append1(m), UNCHANGED cur,
         DonePlaces \subseteq DonePlaces', DonePlaces' \subseteq Places
  PROVE  Promise!Next
  BY DEF Promise!Next, Promise!Produce, Append1, Promise!Append1, Promise!NeverUndone,
     Promise!Places, Places

(* A fetch by an idle worker. *)
LEMMA Fetches ==
  ASSUME NEW w \in Workers, NEW p \in Partitions,
         cur[w] = NoMessage, FetchFrom(w, p), UNCHANGED DonePlaces,
         cur' = [cur EXCEPT ![w] = <<p, position[p]>>]
  PROVE  Promise!Next
<1>1. Promise!FetchFrom(w, p)
  BY DEF FetchFrom, Promise!FetchFrom, CanFetch, Promise!CanFetch
<1>2. Promise!Fetch(w)
  BY <1>1 DEF Promise!Fetch, Promise!NoMessage, NoMessage
<1>3. QED BY <1>2 DEF Promise!Next

(* The end of the loop's body, with a commit or without. *)
LEMMA Finishes ==
  ASSUME NEW w \in Workers, cur[w] # NoMessage, cur[w] \in DonePlaces',
         DonePlaces \subseteq DonePlaces', DonePlaces' \subseteq Places,
         CommitUpTo(cur[w][1], cur[w][2]) \/ UNCHANGED groupVars,
         cur' = [cur EXCEPT ![w] = NoMessage]
  PROVE  Promise!Next
  BY DEF Promise!Next, Promise!Finish, CommitUpTo, Promise!CommitUpTo, Promise!NeverUndone,
     Promise!Drop, Promise!Places, Places, Promise!NoMessage, NoMessage, groupVars,
     Promise!groupVars

(* A crash that drops what the worker had in hand. *)
LEMMA Crashes ==
  ASSUME NEW w \in Workers, Leave(w), cur' = [cur EXCEPT ![w] = NoMessage],
         UNCHANGED DonePlaces
  PROVE  Promise!Next
  BY DEF Promise!Next, Promise!Crash, Leave, Promise!Leave, Promise!Drop, Promise!NoMessage,
     NoMessage

(* Processing that moves no offset. *)
LEMMA Works ==
  ASSUME DonePlaces \subseteq DonePlaces', DonePlaces' \subseteq Places,
         UNCHANGED <<groupVars, cur>>
  PROVE  Promise!Next
  BY DEF Promise!Next, Promise!Work, Promise!NeverUndone, Promise!Places, Places, groupVars,
     Promise!groupVars

(* A new generation of the group. *)
LEMMA Reassigns ==
  ASSUME Assign(Workers), UNCHANGED <<cur, DonePlaces>>
  PROVE  Promise!Next
  BY DEF Promise!Next, Promise!Reassign, Assign, Promise!Assign

(* Steps that leave the log, the topic and the failures alone leave what is *)
(* done alone.                                                               *)
LEMMA DoneFrame ==
  ASSUME UNCHANGED <<log, out, failed>>
  PROVE  UNCHANGED DonePlaces
  BY DEF DonePlaces, Done, Offsets, MessageAt

(* Every step of Enricher is a step the promise allows, or none. *)
LEMMA StepRefines ==
  ASSUME IInv, [Next]_vars
  PROVE  [Promise!Next]_Promise!vars
<1>0. /\ TypeOK /\ TypeOK'
      /\ DonePlaces \subseteq DonePlaces' /\ DonePlaces' \subseteq Places
  BY TypeStep, DoneGrows DEF IInv
<1>1. ASSUME NEW m \in Messages, Produce(m) PROVE Promise!Next
  BY <1>0, <1>1, Produces DEF Produce, workerVars
<1>2. ASSUME NEW w \in Workers, Fetch(w) PROVE Promise!Next
  <2>1. PICK p \in Partitions :
          FetchFrom(w, p) /\ cur' = [cur EXCEPT ![w] = <<p, position[p]>>]
    BY <1>2 DEF Fetch
  <2>2. cur[w] = NoMessage
    BY <1>0, <1>2 DEF Fetch, TypeOK, HandOK, Busy
  <2>3. UNCHANGED DonePlaces
    BY <1>2, <2>1, DoneFrame DEF Fetch, FetchFrom
  <2>4. QED BY <2>1, <2>2, <2>3, Fetches
<1>3. ASSUME NEW w \in Workers, Inside(w) \/ Write(w) \/ WriteRepeated(w) \/ Restart(w)
      PROVE Promise!Next
  BY <1>0, <1>3, InsideStep, Works DEF Write, WriteRepeated, Restart, Proceed, Private
<1>4. ASSUME NEW w \in Workers,
             CommitOffset(w) \/ CommitOffsetFails(w) \/ WriteFails(w)
      PROVE  Promise!Next
  <2>1. Busy(w) /\ cur' = [cur EXCEPT ![w] = NoMessage]
    BY <1>4 DEF CommitOffset, CommitOffsetFails, WriteFails, LoopAgain, Busy
  <2>2. PICK p \in Partitions : \E o \in Offsets(p) : cur[w] = <<p, o>>
    BY <1>0, <2>1 DEF TypeOK, HandOK
  <2>3. PICK o \in Offsets(p) : cur[w] = <<p, o>>
    BY <2>2
  <2>4. cur[w] # NoMessage
    BY <2>3 DEF NoMessage
  <2>5. Done(p, o)'
    <3>1. CASE CommitOffset(w) \/ CommitOffsetFails(w)
      <4>1. Done(p, o)
        BY <2>3, <3>1 DEF CommitOffset, CommitOffsetFails, IInv, CommitsWhenDone
      <4>2. QED BY <1>0, <4>1, DoneKept
    <3>2. CASE WriteFails(w)
      BY <2>3, <3>2 DEF WriteFails, Done
    <3>3. QED BY <1>4, <3>1, <3>2
  <2>6. cur[w] \in DonePlaces'
    <3>1. o \in Offsets(p)'
      BY <1>0, LogKept
    <3>2. QED BY <1>0, <2>3, <2>5, <3>1, DonePlacesAre DEF DonePlaces
  <2>7. CommitUpTo(cur[w][1], cur[w][2]) \/ UNCHANGED groupVars
    BY <1>4 DEF CommitOffset, CommitOffsetFails, WriteFails
  <2>8. QED BY <1>0, <2>1, <2>4, <2>6, <2>7, Finishes
<1>5. ASSUME NEW w \in Workers, Crash(w) PROVE Promise!Next
  BY <1>5, Crashes, DoneFrame DEF Crash, Leave, LoopAgain
<1>6. ASSUME AssignOrphans \/ Rebalance PROVE Promise!Next
  <2>1. Assign(Workers) /\ UNCHANGED <<cur, out, failed, log>>
    BY <1>6 DEF AssignOrphans, Rebalance, Assign, Live, workerVars
  <2>2. QED BY <2>1, DoneFrame, Reassigns
<1>7. ASSUME UNCHANGED vars PROVE UNCHANGED Promise!vars
  BY <1>7, DoneFrame DEF vars, Promise!vars, groupVars, Promise!groupVars, workerVars
<1>8. QED
  BY <1>1, <1>2, <1>3, <1>4, <1>5, <1>6, <1>7 DEF Next, Step, Misfortune, Inside

(* Enricher starts as the promise does. *)
LEMMA InitRefines == Init => Promise!Init
  BY DEF Init, GroupInit, Promise!Init, Promise!GroupInit, Promise!NoMessage, NoMessage,
     DonePlaces, Offsets

(* The refinement, in terms of the instance whose theorems are cited. *)
LEMMA KeepsPromise == Spec => Promise!Spec
  BY InitRefines, StepRefines, Invariance, PTL DEF Spec, Promise!Spec

(* The loop is the one AtLeastOnce describes: whatever crashes, moves or     *)
(* fails, an offset is committed only once its message is done.              *)
THEOREM ImplementsLoop == Spec => ProcessesThenCommits
<1>1. Promise!Init => Loop!Init
  BY DEF Promise!Init, Loop!Init, Promise!GroupInit, Loop!GroupInit, Promise!NoMessage,
     Loop!NoMessage
<1>2. [Promise!Next]_Promise!vars => [Loop!Next]_Loop!vars
  BY DEF Promise!Next, Promise!Produce, Promise!Fetch, Promise!Finish, Promise!Crash,
     Promise!Work, Promise!Reassign, Promise!NeverUndone, Promise!Drop, Promise!Places,
     Promise!NoMessage, Promise!Append1, Promise!FetchFrom, Promise!CanFetch,
     Promise!CommitUpTo, Promise!Leave, Promise!Assign, Promise!groupVars, Promise!vars,
     Loop!Next, Loop!Produce, Loop!Fetch, Loop!Finish, Loop!Crash, Loop!Work, Loop!Reassign,
     Loop!NeverUndone, Loop!Drop, Loop!Places, Loop!NoMessage, Loop!Append1, Loop!FetchFrom,
     Loop!CanFetch, Loop!CommitUpTo, Loop!Leave, Loop!Assign, Loop!groupVars, Loop!vars
<1>3. QED BY <1>1, <1>2, KeepsPromise, PTL DEF Promise!Spec, Loop!Spec, ProcessesThenCommits
================================================================================
