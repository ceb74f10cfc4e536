------------------------------ MODULE AtLeastOnce ------------------------------
(***************************************************************************)
(* What the consumer loops of the services promise their group: "process   *)
(* fully, then commit the offset".  A worker has at most one message in    *)
(* hand, and lets go of it, with or without a commit, only once it is      *)
(* done, unless it crashes.  What done means is the service's own matter;  *)
(* it is never taken back.  A service that logs a failure and goes on has  *)
(* counted the message as done.                                            *)
(***************************************************************************)
EXTENDS ConsumerGroup

VARIABLES
  hand,   \* hand[w]: <<partition, offset>> of the message in hand, or NoMessage
  done    \* the <<partition, offset>> whose message is done

vars == <<groupVars, hand, done>>

NoMessage == <<>>
Places == Partitions \X Nat

TypeOK ==
  /\ GroupTypeOK
  /\ hand \in [Workers -> Places \union {NoMessage}]
  /\ done \subseteq Places

Init ==
  /\ GroupInit
  /\ hand = [w \in Workers |-> NoMessage]
  /\ done = {}

NeverUndone == done \subseteq done' /\ done' \subseteq Places

Drop(w) == hand' = [hand EXCEPT ![w] = NoMessage]

(* A message reaches the topic; a copy of one that is done may be done. *)
Produce(m) == Append1(m) /\ NeverUndone /\ UNCHANGED hand

Fetch(w) ==
  /\ hand[w] = NoMessage
  /\ \E p \in Partitions :
       FetchFrom(w, p) /\ hand' = [hand EXCEPT ![w] = <<p, position[p]>>]
  /\ UNCHANGED done

Work == NeverUndone /\ UNCHANGED <<groupVars, hand>>

(* The end of the loop's body: the offset is committed, or not (the commit  *)
(* failed, or the loop logged a failure of the message and went on).        *)
Finish(w) ==
  /\ hand[w] # NoMessage
  /\ NeverUndone /\ hand[w] \in done'
  /\ CommitUpTo(hand[w][1], hand[w][2]) \/ UNCHANGED groupVars
  /\ Drop(w)

Crash(w) == Leave(w) /\ Drop(w) /\ UNCHANGED done

Reassign == Assign(Workers) /\ UNCHANGED <<hand, done>>

Next ==
  \/ \E m \in Messages : Produce(m)
  \/ \E w \in Workers : Fetch(w) \/ Finish(w) \/ Crash(w)
  \/ Work
  \/ Reassign

Spec == Init /\ [][Next]_vars

(* Whatever the group has passed is done: crashes, reassignments and commits *)
(* by workers that lost the partition never skip a message.                  *)
PassedOnlyWhenDone ==
  \A p \in Partitions : \A o \in 0 .. committed[p] - 1 : <<p, o>> \in done

(* The inductive invariant: in front of a message in hand everything is done, *)
(* and so is all that the owner of a partition read, but what it has in hand. *)
HandDone(w) ==
  hand[w] # NoMessage =>
    /\ \E p \in Partitions : \E o \in Offsets(p) : hand[w] = <<p, o>>
    /\ \A o \in 0 .. hand[w][2] - 1 : <<hand[w][1], o>> \in done

ReadDone(p) ==
  owner[p] \in Workers =>
    \A o \in 0 .. position[p] - 1 : <<p, o>> \in done \/ hand[owner[p]] = <<p, o>>

IInv ==
  /\ TypeOK
  /\ \A w \in Workers : HandDone(w)
  /\ \A p \in Partitions : ReadDone(p)
  /\ PassedOnlyWhenDone
================================================================================
