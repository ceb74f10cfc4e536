---------------------------- MODULE ArchiverProofs -----------------------------
(***************************************************************************)
(* Theorems about Archiver, for every number of workers, partitions and    *)
(* deliveries and every value of the bounds: it implements AtLeastOnce,    *)
(* and with the theorem of that module every identified delivery that the  *)
(* group passed without a transient failure is in the archive.             *)
(*                                                                         *)
(* Theorems about Intake: it implements Archiver, so that what is proved   *)
(* of the archiver holds behind the gateway too, and a delivery that was   *)
(* answered with 202 is on the topic, whatever happens to the gateway.     *)
(***************************************************************************)
EXTENDS Intake, TLAPS

USE GroupAssumption, ArchiverAssumption DEF GroupAssumption, ArchiverAssumption

Promise == INSTANCE AtLeastOnceProofs WITH hand <- cur, done <- DonePlaces

WorkerStep(w) == Step(w) \/ Misfortune(w) \/ Restart(w)

--------------------------------------------------------------------------------
(* Types. *)

(* The initial state is well typed and nothing is filed. *)
LEMMA InitIInv == Init => IInv
  BY DEF Init, GroupInit, IInv, TypeOK, GroupTypeOK, WorkerTypeOK, HandOK, StoreTypeOK,
     Stages, Busy, Dirs, NamedAfterBody, CommitsWhenDone

(* A busy worker has a message of the topic in hand. *)
LEMMA HandIsMessage ==
  ASSUME TypeOK, NEW w \in Workers, Busy(w)
  PROVE  \E p \in Partitions : \E o \in Offsets(p) :
           /\ cur[w] = <<p, o>> /\ cur[w] \in Places
           /\ o \in Nat /\ o + 1 <= Len(log[p])
           /\ Msg(w) \in Messages /\ Msg(w) = MessageAt(p, o)
<1>1. PICK p \in Partitions : \E o \in Offsets(p) : cur[w] = <<p, o>>
  BY DEF TypeOK, HandOK
<1>2. PICK o \in Offsets(p) : cur[w] = <<p, o>>
  BY <1>1
<1>3. log[p] \in Seq(Messages) /\ Len(log[p]) \in Nat
  BY DEF TypeOK, GroupTypeOK
<1>4. o + 1 \in 1 .. Len(log[p]) /\ o \in Nat
  BY <1>3 DEF Offsets
<1>5. log[p][o + 1] \in Messages
  BY <1>3, <1>4
<1>6. QED BY <1>2, <1>4, <1>5 DEF Msg, MessageAt, Places

(* A step of worker w leaves the log and the other workers alone, and keeps *)
(* the types of the workers' variables.                                      *)
LEMMA WorkerFrame ==
  ASSUME TypeOK, NEW w \in Workers, WorkerStep(w)
  PROVE  /\ log' = log
         /\ WorkerTypeOK'
         /\ \A v \in Workers \ {w} : pc'[v] = pc[v] /\ cur'[v] = cur[v]
<1> USE DEF TypeOK, WorkerTypeOK, Stages, Places, groupVars, workerVars, Goto, LoopAgain
<1>1. CASE Fetch(w)
  <2>1. PICK p \in Partitions :
          FetchFrom(w, p) /\ cur' = [cur EXCEPT ![w] = <<p, position[p]>>]
    BY <1>1 DEF Fetch
  <2>2. position[p] \in Nat
    BY DEF GroupTypeOK
  <2>3. QED BY <1>1, <2>1, <2>2 DEF Fetch, FetchFrom
<1>2. CASE TenantPartition(w)
  <2>1. Partition(InstallationOf[Msg(w)]) \in Dirs
    BY <1>2, HandIsMessage DEF TenantPartition, Busy, Partition, Dirs, StoreTypeOK
  <2>2. QED BY <1>2, <2>1 DEF TenantPartition
<1>3. CASE FormKey(w)
  BY <1>3 DEF FormKey, StoreTypeOK
<1>4. CASE Put(w)
  BY <1>4 DEF Put
<1>5. CASE CommitOffset(w)
  BY <1>5 DEF CommitOffset, CommitUpTo, Dirs
<1>6. CASE TenantPartitionFails(w)
  BY <1>6 DEF TenantPartitionFails, WillRetry, Dirs
<1>7. CASE PutFails(w)
  BY <1>7 DEF PutFails, WillRetry, Dirs
<1>8. CASE CommitOffsetFails(w)
  BY <1>8 DEF CommitOffsetFails, Dirs
<1>9. CASE Crash(w)
  BY <1>9 DEF Crash, Leave, Dirs
<1>10. CASE Restart(w)
  BY <1>10 DEF Restart
<1>11. QED
  BY <1>1, <1>2, <1>3, <1>4, <1>5, <1>6, <1>7, <1>8, <1>9, <1>10
     DEF WorkerStep, Step, Misfortune

(* Of a worker's steps only a fetch takes a message in hand, and only the    *)
(* end of the loop's body and a crash let it go.                             *)
LEMMA HandStep ==
  ASSUME TypeOK, NEW w \in Workers, WorkerStep(w)
  PROVE  \A v \in Workers : HandOK(v)'
<1>1. /\ log' = log
      /\ \A v \in Workers \ {w} : pc'[v] = pc[v] /\ cur'[v] = cur[v]
  BY WorkerFrame
<1>2. HandOK(w)'
  <2> USE DEF TypeOK, WorkerTypeOK, HandOK, Busy, Stages, workerVars, Goto, LoopAgain
  <2>1. CASE Fetch(w)
    <3>1. PICK p \in Partitions :
            FetchFrom(w, p) /\ cur' = [cur EXCEPT ![w] = <<p, position[p]>>]
      BY <2>1 DEF Fetch
    <3>2. position[p] \in Offsets(p) /\ Offsets(p)' = Offsets(p)
      BY <1>1, <3>1 DEF FetchFrom, CanFetch, Offsets, GroupTypeOK
    <3>3. QED BY <2>1, <3>1, <3>2 DEF Fetch
  <2>2. CASE TenantPartition(w) \/ FormKey(w) \/ Put(w)
    <3>1. \A p \in Partitions : Offsets(p)' = Offsets(p)
      BY <1>1 DEF Offsets
    <3>2. Busy(w) /\ Busy(w)' /\ cur'[w] = cur[w]
      BY <2>2 DEF TenantPartition, FormKey, Put
    <3>3. QED BY <3>1, <3>2
  <2>3. CASE CommitOffset(w) \/ TenantPartitionFails(w) \/ PutFails(w)
             \/ CommitOffsetFails(w) \/ Crash(w) \/ Restart(w)
    BY <2>3 DEF CommitOffset, TenantPartitionFails, PutFails, CommitOffsetFails, Crash,
       Restart, WillRetry
  <2>4. QED BY <2>1, <2>2, <2>3 DEF WorkerStep, Step, Misfortune
<1>3. QED BY <1>1, <1>2 DEF TypeOK, HandOK, Busy, Offsets

(* A put adds at most the worker's own object. *)
LEMMA PutEffect ==
  ASSUME TypeOK, NEW w \in Workers, pc[w] = "put", PutIfAbsent(ObjectOf(w))
  PROVE  /\ objects \subseteq objects' /\ objects' \subseteq objects \union {ObjectOf(w)}
         /\ ObjectOf(w) \in Objects
         /\ \E x \in objects' : x.name = NameOf[Msg(w)]
<1>1. Msg(w) \in Messages /\ cur[w] \in Places
  BY HandIsMessage DEF Busy
<1>2. ObjectOf(w) \in Objects /\ ObjectOf(w).name = NameOf[Msg(w)]
  BY <1>1 DEF ObjectOf, Objects, TypeOK, WorkerTypeOK
<1>3. QED BY <1>2 DEF PutIfAbsent, SameKey

(* What steps do to the bucket and the failures: both only grow, and an      *)
(* object that appears is one that a worker put for the message in its hand. *)
LEMMA StoreFrame ==
  ASSUME TypeOK, [Next]_vars
  PROVE  /\ StoreTypeOK'
         /\ objects \subseteq objects' /\ failed \subseteq failed'
         /\ \A x \in objects' \ objects : x.name = NameOf[x.body]
<1> USE DEF TypeOK, StoreTypeOK, Fault, Disruption, countVars, worldVars
<1>1. ASSUME NEW w \in Workers, Put(w) \/ PutFails(w)
      PROVE  /\ objects \subseteq objects' /\ objects' \subseteq Objects
             /\ \A x \in objects' \ objects : x.name = NameOf[x.body]
  <2>1. CASE PutIfAbsent(ObjectOf(w))
    <3>1. /\ objects \subseteq objects' /\ objects' \subseteq objects \union {ObjectOf(w)}
          /\ ObjectOf(w) \in Objects
      BY <1>1, <2>1, PutEffect DEF Put, PutFails
    <3>2. ObjectOf(w).name = NameOf[ObjectOf(w).body]
      BY DEF ObjectOf
    <3>3. QED BY <3>1, <3>2
  <2>2. CASE UNCHANGED objects
    BY <2>2
  <2>3. QED BY <1>1, <2>1, <2>2 DEF Put, PutFails
<1>2. ASSUME NEW w \in Workers, TenantPartitionFails(w) \/ PutFails(w)
      PROVE  failed \subseteq failed' /\ failed' \subseteq Places
  <2>1. cur[w] \in Places
    BY <1>2, HandIsMessage DEF TenantPartitionFails, PutFails, Busy
  <2>2. QED BY <1>2, <2>1 DEF TenantPartitionFails, PutFails, WillRetry
<1>3. CASE \E w \in Workers : Put(w) \/ PutFails(w)
  BY <1>1, <1>2, <1>3 DEF Put, PutFails, WillRetry
<1>4. CASE \E w \in Workers : TenantPartitionFails(w)
  BY <1>2, <1>4 DEF TenantPartitionFails, WillRetry
<1>5. CASE \E w \in Workers : Fetch(w) \/ TenantPartition(w) \/ FormKey(w) \/ CommitOffset(w)
             \/ CommitOffsetFails(w) \/ Crash(w) \/ Restart(w)
  BY <1>5 DEF Fetch, TenantPartition, FormKey, CommitOffset, CommitOffsetFails, Crash, Restart
<1>6. CASE \/ \E m \in Messages : Produce(m)
           \/ \E i \in Installations : Onboard(i)
           \/ NewDay \/ AssignOrphans \/ Rebalance \/ UNCHANGED vars
  BY <1>6 DEF Produce, Onboard, NewDay, AssignOrphans, Rebalance, vars
<1>7. QED BY <1>3, <1>4, <1>5, <1>6 DEF Next, ArchiverStep, Step, Misfortune

--------------------------------------------------------------------------------
(* What is done stays done. *)

(* Appending a message keeps what the partition holds at its offset. *)
LEMMA LogKept ==
  ASSUME TypeOK, [Next]_vars, NEW p \in Partitions, NEW o \in Offsets(p)
  PROVE  o \in Offsets(p)' /\ MessageAt(p, o)' = MessageAt(p, o)
<1>1. ASSUME NEW m \in Messages, Produce(m)
      PROVE  o \in Offsets(p)' /\ MessageAt(p, o)' = MessageAt(p, o)
  <2>1. Promise!GroupTypeOK /\ Promise!Append1(m)
    BY <1>1 DEF Produce, TypeOK, GroupTypeOK, Promise!GroupTypeOK, Append1, Promise!Append1
  <2>2. /\ Promise!Offsets(p) \subseteq Promise!Offsets(p)'
        /\ \A i \in Promise!Offsets(p) : Promise!MessageAt(p, i)' = Promise!MessageAt(p, i)
    BY <2>1, Promise!LogGrows
  <2>3. QED BY <2>2 DEF Offsets, Promise!Offsets, MessageAt, Promise!MessageAt
<1>2. ASSUME log' = log PROVE o \in Offsets(p)' /\ MessageAt(p, o)' = MessageAt(p, o)
  BY <1>2 DEF Offsets, MessageAt
<1>3. ASSUME NEW w \in Workers, WorkerStep(w) PROVE log' = log
  BY <1>3, WorkerFrame
<1>4. CASE \/ \E i \in Installations : Onboard(i)
           \/ NewDay \/ AssignOrphans \/ Rebalance \/ UNCHANGED vars
  BY <1>2, <1>4 DEF Onboard, NewDay, AssignOrphans, Rebalance, Assign, vars, groupVars
<1>5. QED BY <1>1, <1>2, <1>3, <1>4 DEF Next, ArchiverStep, WorkerStep

(* No step takes back what is done. *)
LEMMA DoneKept ==
  ASSUME TypeOK, [Next]_vars, NEW p \in Partitions, NEW o \in Offsets(p), Done(p, o)
  PROVE  o \in Offsets(p)' /\ Done(p, o)'
<1>1. o \in Offsets(p)' /\ MessageAt(p, o)' = MessageAt(p, o)
  BY LogKept
<1>2. objects \subseteq objects' /\ failed \subseteq failed'
  BY StoreFrame
<1>3. QED BY <1>1, <1>2 DEF Done, Archived, Filed

(* The places that are done, as pairs. *)
LEMMA DonePlacesAre ==
  ASSUME TypeOK
  PROVE  /\ DonePlaces \subseteq Places
         /\ \A p \in Partitions : \A o \in Offsets(p) : <<p, o>> \in DonePlaces <=> Done(p, o)
  BY DEF DonePlaces, Places, Offsets

(* The places that are done only grow, as the promise demands. *)
LEMMA DoneGrows ==
  ASSUME TypeOK, TypeOK', [Next]_vars
  PROVE  DonePlaces \subseteq DonePlaces' /\ DonePlaces' \subseteq Places
<1>1. ASSUME NEW pl \in DonePlaces PROVE pl \in DonePlaces'
  <2>1. PICK p \in Partitions : pl \in {p} \X Offsets(p)
    BY DEF DonePlaces
  <2>2. PICK o \in Offsets(p) : pl = <<p, o>>
    BY <2>1
  <2>3. o \in Offsets(p)' /\ Done(p, o)'
    BY <2>2, DoneKept DEF DonePlaces
  <2>4. QED BY <2>2, <2>3 DEF DonePlaces
<1>2. DonePlaces' \subseteq Places
  BY DEF DonePlaces, Places, Offsets
<1>3. QED BY <1>1, <1>2

--------------------------------------------------------------------------------
(* The inductive invariant. *)

(* Every step keeps the types of the topic and of the group. *)
LEMMA GroupStep ==
  ASSUME TypeOK, [Next]_vars
  PROVE  GroupTypeOK'
<1> USE DEF TypeOK, GroupTypeOK, groupVars
<1>1. ASSUME NEW m \in Messages, Produce(m) PROVE GroupTypeOK'
  <2>1. Promise!GroupTypeOK /\ Promise!Append1(m)
    BY <1>1 DEF Produce, Promise!GroupTypeOK, Append1, Promise!Append1
  <2>2. Promise!GroupTypeOK'
    BY <2>1, Promise!LogGrows
  <2>3. QED BY <2>2 DEF Promise!GroupTypeOK
<1>2. ASSUME NEW w \in Workers, WorkerStep(w) PROVE GroupTypeOK'
  <2>1. CASE Fetch(w)
    BY <2>1 DEF Fetch, FetchFrom, CanFetch
  <2>2. CASE CommitOffset(w)
    <3>1. PICK p \in Partitions : \E o \in Offsets(p) :
            cur[w] = <<p, o>> /\ o \in Nat /\ o + 1 <= Len(log[p])
      BY <2>2, HandIsMessage DEF CommitOffset, Busy
    <3>2. PICK o \in Offsets(p) : cur[w] = <<p, o>> /\ o \in Nat /\ o + 1 <= Len(log[p])
      BY <3>1
    <3>3. QED BY <2>2, <3>2 DEF CommitOffset, CommitUpTo
  <2>3. CASE Crash(w)
    BY <2>3 DEF Crash, Leave
  <2>4. CASE UNCHANGED groupVars
    BY <2>4
  <2>5. QED
    BY <1>2, <2>1, <2>2, <2>3, <2>4 DEF WorkerStep, Step, Misfortune, TenantPartition, FormKey,
       Put, TenantPartitionFails, PutFails, CommitOffsetFails, Restart, WillRetry
<1>3. ASSUME AssignOrphans \/ Rebalance PROVE GroupTypeOK'
  BY <1>3 DEF AssignOrphans, Rebalance, Assign, Live
<1>4. ASSUME UNCHANGED groupVars PROVE GroupTypeOK'
  BY <1>4
<1>5. QED BY <1>1, <1>2, <1>3, <1>4 DEF Next, ArchiverStep, WorkerStep, Onboard, NewDay, vars

(* Every step keeps the types. *)
LEMMA TypeStep == TypeOK /\ [Next]_vars => TypeOK'
<1> SUFFICES ASSUME TypeOK, [Next]_vars PROVE TypeOK'
  OBVIOUS
<1>1. GroupTypeOK' /\ StoreTypeOK'
  BY GroupStep, StoreFrame
<1>2. ASSUME NEW w \in Workers, WorkerStep(w)
      PROVE  WorkerTypeOK' /\ \A v \in Workers : HandOK(v)'
  BY <1>2, WorkerFrame, HandStep
<1>3. ASSUME UNCHANGED workerVars
      PROVE  WorkerTypeOK' /\ \A v \in Workers : HandOK(v)'
  <2>1. \A p \in Partitions : Offsets(p) \subseteq Offsets(p)'
    BY LogKept
  <2>2. QED BY <1>3, <2>1 DEF TypeOK, WorkerTypeOK, HandOK, Busy, workerVars
<1>4. WorkerTypeOK' /\ \A v \in Workers : HandOK(v)'
  BY <1>2, <1>3 DEF Next, ArchiverStep, WorkerStep, Produce, Onboard, NewDay, AssignOrphans, Rebalance, vars
<1>5. QED BY <1>1, <1>4 DEF TypeOK

(* A worker comes to its commit by a put that succeeded. *)
LEMMA CommitStep ==
  ASSUME IInv, [Next]_vars, TypeOK'
  PROVE  CommitsWhenDone'
<1> SUFFICES ASSUME NEW w \in Workers, pc'[w] = "commit" PROVE Done(cur[w][1], cur[w][2])'
  BY DEF CommitsWhenDone
<1> USE DEF IInv, TypeOK
<1>1. CASE pc[w] = "commit" /\ cur'[w] = cur[w]
  <2>1. PICK p \in Partitions : \E o \in Offsets(p) : cur[w] = <<p, o>>
    BY <1>1 DEF HandOK, Busy
  <2>2. PICK o \in Offsets(p) : cur[w] = <<p, o>>
    BY <2>1
  <2>3. Done(p, o)
    BY <1>1, <2>2 DEF CommitsWhenDone
  <2>4. QED BY <1>1, <2>2, <2>3, DoneKept
<1>2. CASE Put(w)
  <2>1. PICK p \in Partitions : \E o \in Offsets(p) :
          cur[w] = <<p, o>> /\ Msg(w) = MessageAt(p, o)
    BY <1>2, HandIsMessage DEF Put, Busy
  <2>2. PICK o \in Offsets(p) : cur[w] = <<p, o>> /\ Msg(w) = MessageAt(p, o)
    BY <2>1
  <2>3. \E x \in objects' : x.name = NameOf[MessageAt(p, o)]
    BY <1>2, <2>2, PutEffect DEF Put
  <2>4. MessageAt(p, o)' = MessageAt(p, o) /\ cur'[w] = <<p, o>>
    BY <1>2, <2>2, LogKept DEF Put
  <2>5. QED BY <2>3, <2>4 DEF Done, Archived, Filed
<1>3. ASSUME NEW v \in Workers, WorkerStep(v), ~Put(w)
      PROVE  pc[w] = "commit" /\ cur'[w] = cur[w]
  <2>1. CASE v # w
    BY <1>3, <2>1, WorkerFrame
  <2>2. CASE v = w
    BY <1>3, <2>2 DEF WorkerStep, Step, Misfortune, WorkerTypeOK, Fetch, TenantPartition,
       FormKey, CommitOffset, TenantPartitionFails, PutFails, CommitOffsetFails, Crash,
       Restart, WillRetry, Goto, LoopAgain
  <2>3. QED BY <2>1, <2>2
<1>4. CASE UNCHANGED workerVars
  BY <1>1, <1>4 DEF workerVars
<1>5. QED
  BY <1>1, <1>2, <1>3, <1>4 DEF Next, ArchiverStep, WorkerStep, Produce, Onboard, NewDay, AssignOrphans,
     Rebalance, vars

(* Every step keeps the invariant. *)
LEMMA IInvStep == IInv /\ [Next]_vars => IInv'
<1> SUFFICES ASSUME IInv, [Next]_vars PROVE IInv'
  OBVIOUS
<1>1. TypeOK'
  BY TypeStep DEF IInv
<1>2. NamedAfterBody'
  BY StoreFrame DEF IInv, NamedAfterBody
<1>3. CommitsWhenDone'
  BY <1>1, CommitStep
<1>4. QED BY <1>1, <1>2, <1>3 DEF IInv

(* The types of every variable, and what the invariant adds to them. *)
THEOREM Invariance == Spec => []IInv
  BY InitIInv, IInvStep, PTL DEF Spec

(* Every variable keeps its type. *)
THEOREM TypeCorrect == Spec => []TypeOK
  BY Invariance, PTL DEF IInv

(* No put replaces or removes an archived payload. *)
THEOREM Immutable == Spec => NeverOverwritten
<1>1. TypeOK /\ [Next]_vars => [objects \subseteq objects']_vars
  BY StoreFrame
<1>2. QED BY <1>1, TypeCorrect, PTL DEF Spec, NeverOverwritten

(* What NeverMisfiled rests on: what is onboarded stays so, and no directory *)
(* a worker has in hand is that of an onboarded installation's id.           *)
KnownByTenant ==
  /\ Onboarded \subseteq known
  /\ \A w \in Workers : dir[w] \notin Onboarded
  /\ \A x \in objects : x.dir \notin Onboarded

(* Every step keeps onboarded installations known, and filed under their tenant. *)
LEMMA KnownByTenantStep ==
  ASSUME TypeOK, TypeOK', KnownByTenant, [Next]_vars
  PROVE  KnownByTenant'
<1> USE DEF TypeOK, WorkerTypeOK, KnownByTenant
<1>1. CASE \E w \in Workers : TenantPartition(w)
  <2>1. PICK w \in Workers : TenantPartition(w)
    BY <1>1
  <2>2. Msg(w) \in Messages
    BY <2>1, HandIsMessage DEF TenantPartition, Busy
  <2>3. Partition(InstallationOf[Msg(w)]) \notin Onboarded
    <3> DEFINE i == InstallationOf[Msg(w)]
    <3>1. i \in Installations \union {NoInstallation}
      BY <2>2, ArchiverAssumption
    <3>2. CASE i \in known
      <4>1. TenantOf[i] \in Tenants
        BY <3>2, ArchiverAssumption DEF StoreTypeOK
      <4>2. QED BY <3>2, <4>1, ArchiverAssumption DEF Partition
    <3>3. CASE i \notin known
      BY <3>3 DEF Partition
    <3>4. QED BY <3>2, <3>3
  <2>4. UNCHANGED <<known, objects>> /\ dir' = [dir EXCEPT ![w] = Partition(InstallationOf[Msg(w)])]
    BY <2>1 DEF TenantPartition, worldVars
  <2>5. QED BY <2>3, <2>4
<1>2. CASE \E w \in Workers : Put(w) \/ PutFails(w)
  <2>1. PICK w \in Workers : Put(w) \/ PutFails(w)
    BY <1>2
  <2>2. objects' \subseteq objects \union {ObjectOf(w)}
    BY <2>1, PutEffect DEF Put, PutFails
  <2>3. ObjectOf(w).dir \notin Onboarded
    BY DEF ObjectOf
  <2>4. known' = known /\ \A v \in Workers : dir'[v] \in {dir[v], NoInstallation}
    BY <2>1 DEF Put, PutFails, WillRetry, LoopAgain, worldVars
  <2>5. QED BY <2>2, <2>3, <2>4
<1>3. CASE \E w \in Workers : Fetch(w) \/ FormKey(w) \/ CommitOffset(w) \/ CommitOffsetFails(w)
             \/ TenantPartitionFails(w) \/ Crash(w) \/ Restart(w)
  <2>1. UNCHANGED <<known, objects>> /\ \A v \in Workers : dir'[v] \in {dir[v], NoInstallation}
    BY <1>3 DEF Fetch, FormKey, CommitOffset, CommitOffsetFails, TenantPartitionFails, Crash,
       Restart, WillRetry, LoopAgain, worldVars
  <2>2. QED BY <2>1
<1>4. CASE \/ \E m \in Messages : Produce(m)
           \/ \E i \in Installations : Onboard(i)
           \/ NewDay \/ AssignOrphans \/ Rebalance \/ UNCHANGED vars
  BY <1>4 DEF Produce, Onboard, NewDay, AssignOrphans, Rebalance, workerVars, worldVars, vars
<1>5. QED BY <1>1, <1>2, <1>3, <1>4 DEF Next, ArchiverStep, Step, Misfortune

(* Traffic of an installation that is known from the start is never filed as *)
(* unresolved, whatever fails and whoever else is onboarded.                 *)
THEOREM WellFiled == Spec => []NeverMisfiled
<1>1. Init => KnownByTenant
  BY DEF Init, KnownByTenant
<1>2. TypeOK /\ TypeOK' /\ KnownByTenant /\ [Next]_vars => KnownByTenant'
  BY KnownByTenantStep
<1>3. KnownByTenant => NeverMisfiled
  BY DEF KnownByTenant, NeverMisfiled
<1>4. QED BY <1>1, <1>2, <1>3, TypeCorrect, PTL DEF Spec


--------------------------------------------------------------------------------
(* Archiver implements AtLeastOnce. *)

(* The steps of the promise in the terms of Archiver. *)
LEMMA Produces ==
  ASSUME NEW m \in Messages, Append1(m), UNCHANGED cur,
         DonePlaces \subseteq DonePlaces', DonePlaces' \subseteq Places
  PROVE  Promise!Next
  BY DEF Promise!Next, Promise!Produce, Append1, Promise!Append1, Promise!NeverUndone,
     Promise!Places, Places

(* A fetch by an idle worker. *)
LEMMA Fetches ==
  ASSUME NEW w \in Workers, NEW p \in Partitions,
         cur[w] = NoMessage, FetchFrom(w, p), UNCHANGED DonePlaces,
         cur' = [cur EXCEPT ![w] = <<p, position[p]>>]
  PROVE  Promise!Next
<1>1. Promise!FetchFrom(w, p)
  BY DEF FetchFrom, Promise!FetchFrom, CanFetch, Promise!CanFetch
<1>2. Promise!Fetch(w)
  BY <1>1 DEF Promise!Fetch, Promise!NoMessage, NoMessage
<1>3. QED BY <1>2 DEF Promise!Next

(* The end of the loop's body, with a commit or without. *)
LEMMA Finishes ==
  ASSUME NEW w \in Workers, cur[w] # NoMessage, cur[w] \in DonePlaces',
         DonePlaces \subseteq DonePlaces', DonePlaces' \subseteq Places,
         CommitUpTo(cur[w][1], cur[w][2]) \/ UNCHANGED groupVars,
         cur' = [cur EXCEPT ![w] = NoMessage]
  PROVE  Promise!Next
  BY DEF Promise!Next, Promise!Finish, CommitUpTo, Promise!CommitUpTo, Promise!NeverUndone,
     Promise!Drop, Promise!Places, Places, Promise!NoMessage, NoMessage, groupVars,
     Promise!groupVars

(* A crash that drops what the worker had in hand. *)
LEMMA Crashes ==
  ASSUME NEW w \in Workers, Leave(w), cur' = [cur EXCEPT ![w] = NoMessage],
         UNCHANGED DonePlaces
  PROVE  Promise!Next
  BY DEF Promise!Next, Promise!Crash, Leave, Promise!Leave, Promise!Drop, Promise!NoMessage,
     NoMessage

(* Processing that moves no offset. *)
LEMMA Works ==
  ASSUME DonePlaces \subseteq DonePlaces', DonePlaces' \subseteq Places,
         UNCHANGED <<groupVars, cur>>
  PROVE  Promise!Next
  BY DEF Promise!Next, Promise!Work, Promise!NeverUndone, Promise!Places, Places, groupVars,
     Promise!groupVars

(* A new generation of the group. *)
LEMMA Reassigns ==
  ASSUME Assign(Workers), UNCHANGED <<cur, DonePlaces>>
  PROVE  Promise!Next
  BY DEF Promise!Next, Promise!Reassign, Assign, Promise!Assign

(* Steps that leave the log, the bucket and the failures alone leave what is *)
(* done alone.                                                               *)
LEMMA DoneFrame ==
  ASSUME UNCHANGED <<log, objects, failed>>
  PROVE  UNCHANGED DonePlaces
  BY DEF DonePlaces, Done, Archived, Filed, Offsets, MessageAt

(* Every step of Archiver is a step the promise allows, or none. *)
LEMMA StepRefines ==
  ASSUME IInv, [Next]_vars
  PROVE  [Promise!Next]_Promise!vars
<1>0. /\ TypeOK /\ TypeOK'
      /\ DonePlaces \subseteq DonePlaces' /\ DonePlaces' \subseteq Places
  BY TypeStep, DoneGrows DEF IInv
<1>1. ASSUME NEW m \in Messages, Produce(m) PROVE Promise!Next
  BY <1>0, <1>1, Produces DEF Produce, workerVars
<1>2. ASSUME NEW w \in Workers, Fetch(w) PROVE Promise!Next
  <2>1. PICK p \in Partitions :
          FetchFrom(w, p) /\ cur' = [cur EXCEPT ![w] = <<p, position[p]>>]
    BY <1>2 DEF Fetch
  <2>2. cur[w] = NoMessage
    BY <1>0, <1>2 DEF Fetch, TypeOK, HandOK, Busy
  <2>3. UNCHANGED DonePlaces
    BY <1>2, <2>1, DoneFrame DEF Fetch, FetchFrom
  <2>4. QED BY <2>1, <2>2, <2>3, Fetches
<1>3. ASSUME NEW w \in Workers, TenantPartition(w) \/ FormKey(w) \/ Put(w) \/ Restart(w)
      PROVE Promise!Next
  BY <1>0, <1>3, Works DEF TenantPartition, FormKey, Put, Restart
<1>4. ASSUME NEW w \in Workers,
             CommitOffset(w) \/ CommitOffsetFails(w) \/ TenantPartitionFails(w) \/ PutFails(w)
      PROVE  Promise!Next
  <2>1. Busy(w) /\ cur' = [cur EXCEPT ![w] = NoMessage]
    BY <1>4 DEF CommitOffset, CommitOffsetFails, TenantPartitionFails, PutFails, WillRetry,
       LoopAgain, Busy
  <2>2. PICK p \in Partitions : \E o \in Offsets(p) : cur[w] = <<p, o>>
    BY <1>0, <2>1 DEF TypeOK, HandOK
  <2>3. PICK o \in Offsets(p) : cur[w] = <<p, o>>
    BY <2>2
  <2>4. cur[w] # NoMessage
    BY <2>3 DEF NoMessage
  <2>5. Done(p, o)'
    <3>1. CASE CommitOffset(w) \/ CommitOffsetFails(w)
      <4>1. Done(p, o)
        BY <2>3, <3>1 DEF CommitOffset, CommitOffsetFails, IInv, CommitsWhenDone
      <4>2. QED BY <1>0, <4>1, DoneKept
    <3>2. CASE TenantPartitionFails(w) \/ PutFails(w)
      BY <2>3, <3>2 DEF TenantPartitionFails, PutFails, WillRetry, Done
    <3>3. QED BY <1>4, <3>1, <3>2
  <2>6. cur[w] \in DonePlaces'
    <3>1. o \in Offsets(p)'
      BY <1>0, LogKept
    <3>2. QED BY <1>0, <2>3, <2>5, <3>1, DonePlacesAre DEF DonePlaces
  <2>7. CommitUpTo(cur[w][1], cur[w][2]) \/ UNCHANGED groupVars
    BY <1>4 DEF CommitOffset, CommitOffsetFails, TenantPartitionFails, PutFails, WillRetry
  <2>8. QED BY <1>0, <2>1, <2>4, <2>6, <2>7, Finishes
<1>5. ASSUME NEW w \in Workers, Crash(w) PROVE Promise!Next
  BY <1>5, Crashes, DoneFrame DEF Crash, Leave, LoopAgain
<1>6. ASSUME AssignOrphans \/ Rebalance PROVE Promise!Next
  <2>1. Assign(Workers) /\ UNCHANGED <<cur, objects, failed, log>>
    BY <1>6 DEF AssignOrphans, Rebalance, Assign, Live, workerVars
  <2>2. QED BY <2>1, DoneFrame, Reassigns
<1>7. ASSUME \/ \E i \in Installations : Onboard(i)
             \/ NewDay
      PROVE  Promise!Next
  BY <1>0, <1>7, Works DEF Onboard, NewDay, workerVars
<1>8. ASSUME UNCHANGED vars PROVE UNCHANGED Promise!vars
  BY <1>8, DoneFrame DEF vars, Promise!vars, groupVars, Promise!groupVars, workerVars
<1>9. QED
  BY <1>1, <1>2, <1>3, <1>4, <1>5, <1>6, <1>7, <1>8 DEF Next, ArchiverStep, Step, Misfortune

(* Archiver starts as the promise does. *)
LEMMA InitRefines == Init => Promise!Init
  BY DEF Init, GroupInit, Promise!Init, Promise!GroupInit, Promise!NoMessage, NoMessage,
     DonePlaces, Offsets

(* The refinement, in terms of the instance whose theorems are cited. *)
LEMMA KeepsPromise == Spec => Promise!Spec
  BY InitRefines, StepRefines, Invariance, PTL DEF Spec, Promise!Spec

(* The loop is the one AtLeastOnce describes: whatever crashes, moves or     *)
(* fails, an offset is committed only once its message is done.              *)
THEOREM ImplementsLoop == Spec => ProcessesThenCommits
<1>1. Promise!Init => Loop!Init
  BY DEF Promise!Init, Loop!Init, Promise!GroupInit, Loop!GroupInit, Promise!NoMessage,
     Loop!NoMessage
<1>2. [Promise!Next]_Promise!vars => [Loop!Next]_Loop!vars
  BY DEF Promise!Next, Promise!Produce, Promise!Fetch, Promise!Finish, Promise!Crash,
     Promise!Work, Promise!Reassign, Promise!NeverUndone, Promise!Drop, Promise!Places,
     Promise!NoMessage, Promise!Append1, Promise!FetchFrom, Promise!CanFetch,
     Promise!CommitUpTo, Promise!Leave, Promise!Assign, Promise!groupVars, Promise!vars,
     Loop!Next, Loop!Produce, Loop!Fetch, Loop!Finish, Loop!Crash, Loop!Work, Loop!Reassign,
     Loop!NeverUndone, Loop!Drop, Loop!Places, Loop!NoMessage, Loop!Append1, Loop!FetchFrom,
     Loop!CanFetch, Loop!CommitUpTo, Loop!Leave, Loop!Assign, Loop!groupVars, Loop!vars
<1>3. QED BY <1>1, <1>2, KeepsPromise, PTL DEF Promise!Spec, Loop!Spec, ProcessesThenCommits

(* The safety net: every identified delivery that the group has passed, and  *)
(* that met no transient failure, can be replayed from the archive.          *)
THEOREM Replayable == Spec => []PassedIsReplayable
<1>1. IInv /\ Promise!PassedOnlyWhenDone => PassedIsReplayable
  <2> SUFFICES ASSUME IInv, Promise!PassedOnlyWhenDone,
                      NEW p \in Partitions, NEW o \in 0 .. committed[p] - 1,
                      MessageAt(p, o) \in Identified, <<p, o>> \notin failed
               PROVE  \E x \in objects : x.body = MessageAt(p, o)
    BY DEF PassedIsReplayable
  <2>1. <<p, o>> \in DonePlaces
    BY DEF Promise!PassedOnlyWhenDone
  <2>2. Done(p, o)
    BY <2>1 DEF DonePlaces
  <2>3. PICK x \in objects : x.name = NameOf[MessageAt(p, o)]
    BY <2>2 DEF Done, Archived, Filed
  <2>4. x.body \in Messages /\ x.name = NameOf[x.body]
    BY DEF IInv, TypeOK, StoreTypeOK, Objects, NamedAfterBody
  <2>5. QED BY <2>3, <2>4 DEF Identified
<1>2. QED BY <1>1, KeepsPromise, Invariance, Promise!PassedIsDone, PTL

--------------------------------------------------------------------------------
(* The intake. *)

(* The gateway alone is another producer of the archiver's topic. *)
LEMMA GatewayProduces ==
  ASSUME GatewayStep, UNCHANGED <<workerVars, worldVars, objects, failed, countVars>>,
         TypeOK
  PROVE  [Next]_vars
<1>1. ASSUME NEW r \in Posts, Broker(r)
      PROVE  Produce(DeliveryOf[r]) /\ DeliveryOf[r] \in Messages
  <2>1. DeliveryOf[r] \in Messages
    BY GatewayAssumption
  <2>2. Len(log[PartitionOf[DeliveryOf[r]]]) \in Nat
    <3>1. PartitionOf[DeliveryOf[r]] \in Partitions
      BY <2>1, GroupAssumption
    <3>2. log[PartitionOf[DeliveryOf[r]]] \in Seq(Messages)
      BY <3>1 DEF TypeOK, GroupTypeOK
    <3>3. QED BY <3>2
  <2>3. Len(log[PartitionOf[DeliveryOf[r]]]) < MaxWrites
    BY <1>1, <2>2, IntakeAssumption, GatewayAssumption, ArchiverAssumption DEF Broker
  <2>4. QED BY <1>1, <2>1, <2>3 DEF Broker, Produce
<1>2. CASE \E r \in Posts : Deliver(r) \/ AckLost(r)
  BY <1>1, <1>2 DEF Deliver, AckLost, Next
<1>3. CASE UNCHANGED groupVars
  BY <1>3 DEF vars
<1>4. QED
  BY <1>2, <1>3 DEF GatewayStep, HandlerStep, BatchStep, ProcessStep, Arrive, Refuse, Write,
     WriteTimeout, WriteFails, Drained, DrainTimeout, CloseWriter, Start, Signal, Die, Exit

(* Every step of the intake is a step of the archiver or leaves it alone. *)
LEMMA IntakeStep == TypeOK /\ [IntakeNext]_intakeVars => [Next]_vars
<1> SUFFICES ASSUME TypeOK, [IntakeNext]_intakeVars PROVE [Next]_vars
  OBVIOUS
<1>1. CASE GatewayStep /\ UNCHANGED <<workerVars, worldVars, objects, failed, countVars>>
  BY <1>1, GatewayProduces
<1>2. CASE ArchiverStep
  BY <1>2 DEF Next
<1>3. CASE UNCHANGED intakeVars
  BY <1>3 DEF intakeVars
<1>4. QED BY <1>1, <1>2, <1>3 DEF IntakeNext

(* Behind the gateway the archiver is the archiver. *)
THEOREM ImplementsArchiver == IntakeSpec => Spec
<1>1. Init => TypeOK
  BY InitIInv DEF IInv
<1>2. TypeOK /\ [IntakeNext]_intakeVars => TypeOK'
  BY IntakeStep, TypeStep
<1>3. QED BY <1>1, <1>2, IntakeStep, PTL DEF IntakeSpec, IntakeInit, Spec

(* So whatever arrives, what the group passed can be replayed. *)
THEOREM IntakeReplayable == IntakeSpec => []PassedIsReplayable
  BY ImplementsArchiver, Replayable, PTL

--------------------------------------------------------------------------------
(* The gateway's promise. *)

(* A topic only grows. *)
LEMMA StaysOnTopic ==
  ASSUME TypeOK, [Next]_vars, NEW m \in Messages, OnTopic(m)
  PROVE  OnTopic(m)'
<1>1. PICK p \in Partitions : \E i \in DOMAIN log[p] : log[p][i] = m
  BY DEF OnTopic
<1>2. PICK i \in DOMAIN log[p] : log[p][i] = m
  BY <1>1
<1>3. log[p] \in Seq(Messages) /\ i \in 1 .. Len(log[p]) /\ Len(log[p]) \in Nat
  BY <1>2 DEF TypeOK, GroupTypeOK
<1>4. i - 1 \in Offsets(p) /\ MessageAt(p, i - 1) = m
  BY <1>2, <1>3 DEF Offsets, MessageAt
<1>5. i - 1 \in Offsets(p)' /\ MessageAt(p, i - 1)' = m
  BY <1>4, LogKept
<1>6. log'[p] \in Seq(Messages) /\ Len(log'[p]) \in Nat
  BY TypeStep DEF TypeOK, GroupTypeOK
<1>7. i \in DOMAIN log'[p] /\ log'[p][i] = m
  BY <1>3, <1>5, <1>6 DEF Offsets, MessageAt
<1>8. QED BY <1>7 DEF OnTopic

(* What the broker takes is on the topic. *)
LEMMA BrokerPuts ==
  ASSUME TypeOK, NEW r \in Posts, Broker(r)
  PROVE  OnTopic(DeliveryOf[r])'
<1> DEFINE m == DeliveryOf[r]
           p == PartitionOf[m]
<1>1. m \in Messages /\ p \in Partitions
  BY GatewayAssumption, GroupAssumption
<1>2. log[p] \in Seq(Messages) /\ log'[p] = Append(log[p], m)
  BY <1>1 DEF Broker, Append1, TypeOK, GroupTypeOK
<1>3. Len(log[p]) + 1 \in DOMAIN log'[p] /\ log'[p][Len(log[p]) + 1] = m
  BY <1>1, <1>2
<1>4. QED BY <1>1, <1>3 DEF OnTopic

(* No step accepts a post that is not on the topic, and none takes one off it. *)
LEMMA AcceptedStep ==
  ASSUME TypeOK, GatewayTypeOK, AcceptedIsOnTopic, [IntakeNext]_intakeVars
  PROVE  GatewayTypeOK' /\ AcceptedIsOnTopic'
<1> USE DEF GatewayTypeOK, InFlight
<1>1. \A r \in Posts : DeliveryOf[r] \in Messages
  BY GatewayAssumption
<1>2. \A r \in Posts : OnTopic(DeliveryOf[r]) => OnTopic(DeliveryOf[r])'
  BY <1>1, IntakeStep, StaysOnTopic
<1>3. ASSUME \A r \in Posts : post'[r] = "accepted" => post[r] = "accepted"
      PROVE  AcceptedIsOnTopic'
  BY <1>2, <1>3 DEF AcceptedIsOnTopic
<1>4. CASE UNCHANGED gatewayVars
  BY <1>3, <1>4 DEF gatewayVars
<1>5. ASSUME NEW r \in Posts, HandlerStep(r)
      PROVE  GatewayTypeOK' /\ AcceptedIsOnTopic'
  <2>1. /\ GatewayTypeOK'
        /\ \A x \in Posts : post'[x] = "accepted" => post[x] = "accepted"
    BY <1>5 DEF HandlerStep, Arrive, Refuse, Write, WriteTimeout, Becomes
  <2>2. QED BY <2>1, <1>3
<1>6. ASSUME NEW r \in Posts, Deliver(r)
      PROVE  GatewayTypeOK' /\ AcceptedIsOnTopic'
  <2>1. GatewayTypeOK'
    BY <1>6 DEF Deliver, Tell
  <2>2. OnTopic(DeliveryOf[r])'
    BY <1>6, BrokerPuts DEF Deliver
  <2>3. \A x \in Posts : post'[x] = "accepted" => post[x] = "accepted" \/ x = r
    BY <1>6 DEF Deliver, Tell
  <2>4. QED BY <1>2, <2>1, <2>2, <2>3 DEF AcceptedIsOnTopic
<1>7. ASSUME NEW r \in Posts, WriteFails(r)
      PROVE  GatewayTypeOK' /\ AcceptedIsOnTopic'
  <2>1. /\ GatewayTypeOK'
        /\ \A x \in Posts : post'[x] = "accepted" => post[x] = "accepted"
    BY <1>7 DEF WriteFails, Tell
  <2>2. QED BY <2>1, <1>3
<1>8. CASE ProcessStep \/ Signal \/ Die
  <2>1. \A x \in Posts : post'[x] = "accepted" => post[x] = "accepted"
    BY <1>8 DEF ProcessStep, Drained, DrainTimeout, CloseWriter, Start, Signal, Die, Exit
  <2>2. ASSUME DrainTimeout \/ Die PROVE GatewayTypeOK'
    <3>1. Exit
      BY <2>2 DEF DrainTimeout, Die
    <3>2. \A r \in Posts : post'[r] \in {"unsent", "accepted", "refused"}
      BY <3>1 DEF Exit
    <3>3. post' \in [Posts -> {"unsent", "reading", "writing", "accepted", "refused"}]
      BY <3>1, <3>2 DEF Exit
    <3>4. gate' = "exited" /\ batch' = {} /\ InFlight' = {}
      BY <3>1, <3>2 DEF Exit
    <3>5. stops' \in 0 .. MaxStops
      BY <2>2, GatewayAssumption DEF DrainTimeout, Die, Stop
    <3>6. gate' \in {"serving", "draining", "closing", "exited"} /\ batch' \subseteq Posts
      BY <3>4
    <3>7. QED BY <3>3, <3>4, <3>5, <3>6
  <2>3. ASSUME Drained \/ CloseWriter \/ Start \/ Signal PROVE GatewayTypeOK'
    <3>1. stops' \in 0 .. MaxStops
      BY <2>3, GatewayAssumption DEF Drained, CloseWriter, Start, Signal, Stop
    <3>2. UNCHANGED <<post, batch>>
      BY <2>3 DEF Drained, CloseWriter, Start, Signal
    <3>3. /\ gate' \in {"serving", "draining", "closing", "exited"}
          /\ gate' = "exited" => batch = {}
          /\ gate' \in {"closing", "exited"} => InFlight = {}
      BY <2>3 DEF Drained, CloseWriter, Start, Signal
    <3>4. InFlight' = InFlight
      BY <3>2
    <3>5. QED BY <3>1, <3>2, <3>3, <3>4
  <2>4. GatewayTypeOK'
    BY <1>8, <2>2, <2>3 DEF ProcessStep
  <2>5. QED BY <1>3, <2>1, <2>4
<1>9. CASE GatewayStep
  BY <1>4, <1>5, <1>6, <1>7, <1>8, <1>9 DEF GatewayStep, BatchStep, AckLost
<1>10. QED BY <1>4, <1>9 DEF IntakeNext, intakeVars

(* 202 is a promise: neither a crash, nor a drain that is cut short, nor a    *)
(* write that was given up makes it void.                                    *)
THEOREM AcceptedArrived == IntakeSpec => [](GatewayTypeOK /\ AcceptedIsOnTopic)
<1>1. GatewayInit => GatewayTypeOK /\ AcceptedIsOnTopic
  BY GatewayAssumption DEF GatewayInit, GatewayTypeOK, AcceptedIsOnTopic, InFlight
<1>2. TypeOK /\ GatewayTypeOK /\ AcceptedIsOnTopic /\ [IntakeNext]_intakeVars
        => GatewayTypeOK' /\ AcceptedIsOnTopic'
  BY AcceptedStep
<1>3. IntakeSpec => []TypeOK
  BY ImplementsArchiver, TypeCorrect, PTL
<1>4. QED BY <1>1, <1>2, <1>3, PTL DEF IntakeSpec, IntakeInit

(* A gateway that stops within its deadlines has let every request finish,   *)
(* and has emptied the writer's batch, for any number of posts and signals.  *)
THEOREM DrainDropsNothing == IntakeSpec => CleanStopDropsNothing
<1>1. ASSUME GatewayTypeOK, [IntakeNext]_intakeVars, CleanStop
      PROVE  InFlight = {} /\ batch = {}
  <2>1. gate = "closing" /\ gate' = "exited" /\ stops' = stops /\ stops \in Nat
    BY <1>1, GatewayAssumption DEF CleanStop, GatewayTypeOK
  <2>2. ~UNCHANGED gatewayVars
    BY <2>1 DEF gatewayVars
  <2>3. GatewayStep
    BY <1>1, <2>2 DEF IntakeNext, intakeVars
  <2>4. ~(\E r \in Posts : HandlerStep(r) \/ BatchStep(r) \/ AckLost(r))
    BY <2>1 DEF HandlerStep, BatchStep, Arrive, Refuse, Write, WriteTimeout, Deliver, WriteFails,
       AckLost, gatewayVars
  <2>5. ~(Drained \/ DrainTimeout \/ Start \/ Signal \/ Die)
    BY <2>1 DEF Drained, DrainTimeout, Start, Signal, Die, Stop
  <2>6. CloseWriter
    BY <2>3, <2>4, <2>5 DEF GatewayStep, ProcessStep
  <2>7. QED BY <1>1, <2>1, <2>6 DEF CloseWriter, GatewayTypeOK
<1>2. IntakeSpec => []GatewayTypeOK
  BY AcceptedArrived, PTL
<1>3. QED BY <1>1, <1>2, PTL DEF IntakeSpec, CleanStopDropsNothing
================================================================================
