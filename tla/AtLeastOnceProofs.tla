--------------------------- MODULE AtLeastOnceProofs ---------------------------
(***************************************************************************)
(* What every loop that implements AtLeastOnce inherits, for any number of *)
(* workers, partitions and messages: the group passes no message that is   *)
(* not done.                                                               *)
(***************************************************************************)
EXTENDS AtLeastOnce, TLAPS

USE GroupAssumption DEF GroupAssumption

(* Appending a message keeps what the partition holds at its offset. *)
LEMMA LogGrows ==
  ASSUME GroupTypeOK, NEW m \in Messages, Append1(m)
  PROVE  /\ GroupTypeOK'
         /\ \A p \in Partitions :
              /\ Offsets(p) \subseteq Offsets(p)'
              /\ \A o \in Offsets(p) : MessageAt(p, o)' = MessageAt(p, o)
<1>1. log \in [Partitions -> Seq(Messages)] /\ PartitionOf[m] \in Partitions
  BY DEF GroupTypeOK
<1>2. log' = [log EXCEPT ![PartitionOf[m]] = Append(log[PartitionOf[m]], m)]
  BY DEF Append1
<1>3. ASSUME NEW s \in Seq(Messages)
      PROVE  /\ Append(s, m) \in Seq(Messages) /\ Len(s) \in Nat
             /\ Len(Append(s, m)) = Len(s) + 1
             /\ \A i \in 1 .. Len(s) : Append(s, m)[i] = s[i]
  OBVIOUS
<1>4. /\ log' \in [Partitions -> Seq(Messages)]
      /\ \A p \in Partitions :
           /\ Len(log[p]) \in Nat /\ Len(log'[p]) \in Nat /\ Len(log[p]) <= Len(log'[p])
           /\ \A i \in 1 .. Len(log[p]) : log'[p][i] = log[p][i]
  BY <1>1, <1>2, <1>3
<1>5. GroupTypeOK'
  BY <1>4 DEF GroupTypeOK, Append1
<1>6. QED BY <1>4, <1>5 DEF Offsets, MessageAt

(* The length of a partition's log is a number. *)
LEMMA LogLength ==
  ASSUME GroupTypeOK, NEW p \in Partitions
  PROVE  Len(log[p]) \in Nat /\ committed[p] \in Nat /\ position[p] \in Nat
<1>1. log[p] \in Seq(Messages)
  BY DEF GroupTypeOK
<1>2. QED BY <1>1 DEF GroupTypeOK

(* Nothing is fetched, committed or done at the start. *)
LEMMA InitIInv == Init => IInv
  BY DEF Init, GroupInit, IInv, TypeOK, GroupTypeOK, HandDone, ReadDone, PassedOnlyWhenDone

(* A message that arrives is behind everything that was read. *)
LEMMA ProduceStep == ASSUME IInv, NEW m \in Messages, Produce(m) PROVE IInv'
<1>1. /\ GroupTypeOK' /\ UNCHANGED <<committed, position, owner, hand>>
      /\ \A p \in Partitions : Offsets(p) \subseteq Offsets(p)'
      /\ done \subseteq done' /\ done' \subseteq Places
  BY LogGrows DEF Produce, NeverUndone, Append1, IInv, TypeOK
<1>2. TypeOK'
  BY <1>1 DEF IInv, TypeOK, Places
<1>3. ASSUME NEW w \in Workers PROVE HandDone(w)'
  BY <1>1 DEF IInv, HandDone
<1>4. ASSUME NEW p \in Partitions PROVE ReadDone(p)'
  BY <1>1 DEF IInv, ReadDone
<1>5. PassedOnlyWhenDone'
  BY <1>1 DEF IInv, PassedOnlyWhenDone
<1>6. QED BY <1>2, <1>3, <1>4, <1>5 DEF IInv

(* A worker with nothing in hand has finished all it read: the next message
   follows only done ones. *)
LEMMA FetchStep == ASSUME IInv, NEW w \in Workers, Fetch(w) PROVE IInv'
<1>1. PICK p \in Partitions :
        /\ owner[p] = w /\ position[p] < Len(log[p])
        /\ position' = [position EXCEPT ![p] = @ + 1]
        /\ hand' = [hand EXCEPT ![w] = <<p, position[p]>>]
  BY DEF Fetch, FetchFrom, CanFetch
<1>2. hand[w] = NoMessage /\ UNCHANGED <<log, committed, owner, done>>
  BY DEF Fetch, FetchFrom
<1>3. Len(log[p]) \in Nat /\ position[p] \in Nat /\ position[p] \in Offsets(p)
  BY <1>1, LogLength DEF IInv, TypeOK, Offsets
<1>4. TypeOK'
  <2>1. position' \in [Partitions -> Nat] /\ \A q \in Partitions : position'[q] <= Len(log[q])
    BY <1>1, <1>3 DEF IInv, TypeOK, GroupTypeOK
  <2>2. hand' \in [Workers -> Places \union {NoMessage}]
    BY <1>1, <1>3 DEF IInv, TypeOK, Places
  <2>3. QED BY <1>2, <2>1, <2>2 DEF IInv, TypeOK, GroupTypeOK
<1>5. \A o \in 0 .. position[p] - 1 : <<p, o>> \in done
  BY <1>1, <1>2 DEF IInv, ReadDone, NoMessage
<1>6. ASSUME NEW v \in Workers PROVE HandDone(v)'
  <2>1. CASE v = w
    BY <1>1, <1>2, <1>3, <1>5, <2>1 DEF HandDone, Offsets, IInv, TypeOK
  <2>2. CASE v # w
    BY <1>1, <1>2, <2>2 DEF HandDone, Offsets, IInv, TypeOK
  <2>3. QED BY <2>1, <2>2
<1>7. ASSUME NEW q \in Partitions PROVE ReadDone(q)'
  <2>1. CASE q = p
    <3>1. position'[p] = position[p] + 1 /\ owner'[p] = w /\ hand'[w] = <<p, position[p]>>
      BY <1>1, <1>2 DEF IInv, TypeOK, GroupTypeOK
    <3>2. QED BY <1>2, <1>3, <1>5, <2>1, <3>1 DEF ReadDone
  <2>2. CASE q # p /\ owner[q] = w
    <3>1. \A o \in 0 .. position[q] - 1 : <<q, o>> \in done
      BY <1>2, <2>2 DEF IInv, ReadDone, NoMessage
    <3>2. QED BY <1>1, <1>2, <2>2, <3>1 DEF ReadDone, IInv, TypeOK, GroupTypeOK
  <2>3. CASE q # p /\ owner[q] # w
    BY <1>1, <1>2, <2>3 DEF ReadDone, IInv, TypeOK, GroupTypeOK
  <2>4. QED BY <2>1, <2>2, <2>3
<1>8. QED BY <1>2, <1>4, <1>6, <1>7 DEF IInv, PassedOnlyWhenDone

(* Letting a message go that is done leaves everything its reader read done. *)
LEMMA DropStep ==
  ASSUME IInv, NEW w \in Workers, NeverUndone, hand[w] \in done', Drop(w),
         UNCHANGED <<log, position, owner>>
  PROVE  /\ hand' \in [Workers -> Places \union {NoMessage}]
         /\ \A v \in Workers : HandDone(v)'
         /\ \A p \in Partitions : ReadDone(p)'
<1>1. ASSUME NEW v \in Workers PROVE HandDone(v)'
  BY DEF IInv, TypeOK, Drop, NeverUndone, HandDone, Offsets
<1>2. ASSUME NEW p \in Partitions PROVE ReadDone(p)'
  BY DEF IInv, TypeOK, GroupTypeOK, Drop, NeverUndone, ReadDone
<1>3. QED BY <1>1, <1>2 DEF IInv, TypeOK, Drop

(* A commit passes the message in hand, and all before it were done already. *)
LEMMA FinishStep == ASSUME IInv, NEW w \in Workers, Finish(w) PROVE IInv'
<1>1. PICK p \in Partitions : \E o \in Offsets(p) : hand[w] = <<p, o>>
  BY DEF IInv, HandDone, Finish
<1>2. PICK o \in Offsets(p) : hand[w] = <<p, o>>
  BY <1>1
<1>3. /\ UNCHANGED <<log, position, owner>>
      /\ committed' = [committed EXCEPT ![p] = o + 1] \/ committed' = committed
      /\ NeverUndone /\ <<p, o>> \in done'
  BY <1>2 DEF Finish, CommitUpTo, groupVars
<1>4. /\ hand' \in [Workers -> Places \union {NoMessage}]
      /\ \A v \in Workers : HandDone(v)'
      /\ \A q \in Partitions : ReadDone(q)'
  BY <1>3, <1>2, DropStep DEF Finish
<1>5. o \in Nat /\ o + 1 <= Len(log[p])
  BY LogLength DEF Offsets, IInv, TypeOK
<1>6. TypeOK'
  <2>1. committed' \in [Partitions -> Nat] /\ \A q \in Partitions : committed'[q] <= Len(log[q])
    <3>1. committed \in [Partitions -> Nat] /\ \A q \in Partitions : committed[q] <= Len(log[q])
      BY DEF IInv, TypeOK, GroupTypeOK
    <3>2. CASE committed' = [committed EXCEPT ![p] = o + 1]
      BY <1>5, <3>1, <3>2
    <3>3. QED BY <1>3, <3>1, <3>2
  <2>2. QED BY <1>3, <1>4, <2>1 DEF IInv, TypeOK, GroupTypeOK, NeverUndone
<1>7. \A i \in 0 .. o : <<p, i>> \in done'
  BY <1>2, <1>3, <1>5 DEF IInv, HandDone, NoMessage, NeverUndone
<1>8. PassedOnlyWhenDone'
  <2>1. ASSUME NEW q \in Partitions, NEW i \in 0 .. committed'[q] - 1
        PROVE  <<q, i>> \in done'
    <3>1. CASE committed'[q] = committed[q]
      BY <1>3, <2>1, <3>1 DEF IInv, PassedOnlyWhenDone, NeverUndone
    <3>2. CASE q = p /\ committed'[q] = o + 1
      BY <1>5, <1>7, <2>1, <3>2
    <3>3. committed'[q] = committed[q] \/ (q = p /\ committed'[q] = o + 1)
      BY <1>3 DEF IInv, TypeOK, GroupTypeOK
    <3>4. QED BY <3>1, <3>2, <3>3
  <2>2. QED BY <2>1 DEF PassedOnlyWhenDone
<1>9. QED BY <1>4, <1>6, <1>8 DEF IInv

(* A crash gives the partitions up and commits nothing. *)
LEMMA CrashStep == ASSUME IInv, NEW w \in Workers, Crash(w) PROVE IInv'
<1> USE DEF Crash, Leave, Drop
<1>1. TypeOK'
  BY DEF IInv, TypeOK, GroupTypeOK
<1>2. ASSUME NEW v \in Workers PROVE HandDone(v)'
  BY DEF IInv, TypeOK, HandDone, Offsets
<1>3. ASSUME NEW p \in Partitions PROVE ReadDone(p)'
  BY DEF IInv, TypeOK, GroupTypeOK, ReadDone
<1>4. QED BY <1>1, <1>2, <1>3 DEF IInv, PassedOnlyWhenDone

(* Processing makes messages done and moves no offset. *)
LEMMA WorkStep == ASSUME IInv, Work PROVE IInv'
<1> USE DEF Work, NeverUndone, groupVars
<1>1. TypeOK'
  BY DEF IInv, TypeOK, GroupTypeOK, Places
<1>2. ASSUME NEW v \in Workers PROVE HandDone(v)'
  BY DEF IInv, HandDone, Offsets
<1>3. ASSUME NEW p \in Partitions PROVE ReadDone(p)'
  BY DEF IInv, ReadDone
<1>4. QED BY <1>1, <1>2, <1>3 DEF IInv, PassedOnlyWhenDone

(* A new generation reads again from the committed offsets. *)
LEMMA ReassignStep == ASSUME IInv, Reassign PROVE IInv'
<1> USE DEF Reassign, Assign
<1>1. TypeOK'
  BY DEF IInv, TypeOK, GroupTypeOK
<1>2. ASSUME NEW v \in Workers PROVE HandDone(v)'
  BY DEF IInv, HandDone, Offsets
<1>3. ASSUME NEW p \in Partitions PROVE ReadDone(p)'
  BY DEF IInv, ReadDone, PassedOnlyWhenDone
<1>4. QED BY <1>1, <1>2, <1>3 DEF IInv, PassedOnlyWhenDone

(* Every step of the loop keeps the invariant. *)
LEMMA IInvStep == IInv /\ [Next]_vars => IInv'
<1>1. ASSUME IInv, UNCHANGED vars PROVE IInv'
  BY <1>1 DEF vars, groupVars, IInv, TypeOK, GroupTypeOK, Places, HandDone, Offsets,
     ReadDone, PassedOnlyWhenDone
<1>2. QED
  BY <1>1, ProduceStep, FetchStep, FinishStep, CrashStep, WorkStep, ReassignStep DEF Next

(* The inductive invariant holds of every loop of this kind. *)
THEOREM Invariance == Spec => []IInv
  BY InitIInv, IInvStep, PTL DEF Spec

(* The promise of the loops (archiver main.go:7-8, "archive the payload,     *)
(* then commit the offset"): no commit passes a message that is not done.    *)
THEOREM PassedIsDone == Spec => []PassedOnlyWhenDone
<1>1. IInv => PassedOnlyWhenDone
  BY DEF IInv
<1>2. QED BY <1>1, Invariance, PTL
================================================================================
