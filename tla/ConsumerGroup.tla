----------------------------- MODULE ConsumerGroup -----------------------------
(***************************************************************************)
(* A Kafka topic read by one consumer group, as libs/go/kafka/kafka.go     *)
(* uses segmentio/kafka-go: the writer hashes the key to a partition, the  *)
(* reader fetches without committing, and an offset is committed           *)
(* explicitly (CommitInterval 0).  kafka-go and the brokers are external:  *)
(* what is modelled is what the code relies on.                            *)
(*                                                                         *)
(*  - Fetch moves the reader's in-memory position on.  A message that was  *)
(*    fetched and not committed is not fetched again by the same           *)
(*    generation of the group: it comes back only when the partition is    *)
(*    assigned anew and reading resumes from the committed offset.         *)
(*  - Committing offset o commits every offset up to o.  The coordinator   *)
(*    checks that the committer is a member of the group, not that it owns *)
(*    the partition: a worker that lost the partition while it processed   *)
(*    a message still commits, and the last commit wins.                   *)
(*                                                                         *)
(* Offsets count from 0: the message at offset o of partition p is         *)
(* log[p][o + 1].                                                          *)
(***************************************************************************)
EXTENDS Naturals, Sequences, FiniteSets

CONSTANTS
  Workers,      \* processes of the consumer group
  Partitions,   \* partitions of the topic
  Messages,     \* messages that may be produced
  PartitionOf,  \* [Messages -> Partitions]: the Hash balancer on the key
  NoOne         \* the owner of a partition that is not assigned

ASSUME GroupAssumption ==
  /\ PartitionOf \in [Messages -> Partitions]
  /\ NoOne \notin Workers

VARIABLES
  log,        \* log[p]: the messages of partition p, in offset order
  committed,  \* committed[p]: first offset the group has not committed
  position,   \* position[p]: next offset the owner of p will fetch
  owner       \* owner[p]: the worker p is assigned to, or NoOne

groupVars == <<log, committed, position, owner>>

GroupTypeOK ==
  /\ log \in [Partitions -> Seq(Messages)]
  /\ committed \in [Partitions -> Nat]
  /\ position \in [Partitions -> Nat]
  /\ owner \in [Partitions -> Workers \union {NoOne}]
  /\ \A p \in Partitions : committed[p] <= Len(log[p]) /\ position[p] <= Len(log[p])

GroupInit ==
  /\ log = [p \in Partitions |-> <<>>]
  /\ committed = [p \in Partitions |-> 0]
  /\ position = [p \in Partitions |-> 0]
  /\ owner = [p \in Partitions |-> NoOne]

(* The offsets of partition p that hold a message, and the message. *)
Offsets(p) == 0 .. Len(log[p]) - 1
MessageAt(p, o) == log[p][o + 1]

(* How often m was written to the topic. *)
Copies(m) ==
  LET p == PartitionOf[m] IN Cardinality({ i \in DOMAIN log[p] : log[p][i] = m })

(* The size of the topic, as far as n. *)
WritesUpTo(n) == Cardinality({ x \in Partitions \X (1 .. n) : x[2] <= Len(log[x[1]]) })

(* Some partition waits for a new generation to assign it. *)
Orphaned == \E p \in Partitions : owner[p] = NoOne

(* A producer's synchronous write (RequireAll acks). *)
Append1(m) ==
  /\ log' = [log EXCEPT ![PartitionOf[m]] = Append(@, m)]
  /\ UNCHANGED <<committed, position, owner>>

(* reader.Fetch by w from one of its partitions. *)
CanFetch(w, p) == owner[p] = w /\ position[p] < Len(log[p])

FetchFrom(w, p) ==
  /\ CanFetch(w, p)
  /\ position' = [position EXCEPT ![p] = @ + 1]
  /\ UNCHANGED <<log, committed, owner>>

(* reader.Commit of the message at offset o of p. *)
CommitUpTo(p, o) ==
  /\ committed' = [committed EXCEPT ![p] = o + 1]
  /\ UNCHANGED <<log, position, owner>>

(* A worker's session ends: its partitions wait for the next generation. *)
Leave(w) ==
  /\ owner' = [p \in Partitions |-> IF owner[p] = w THEN NoOne ELSE owner[p]]
  /\ UNCHANGED <<log, committed, position>>

(* A new generation among the live workers: every partition is assigned and *)
(* is read again from its committed offset.                                  *)
Assign(live) ==
  /\ owner' \in [Partitions -> live]
  /\ position' = committed
  /\ UNCHANGED <<log, committed>>
================================================================================
