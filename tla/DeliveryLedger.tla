---------------------------- MODULE DeliveryLedger -----------------------------
(***************************************************************************)
(* What the normalizer's transactional write promises (ADR-010, ADR-012,   *)
(* db/migrations/0004 and 0005): the delivery mark and the delivery's      *)
(* canonical events appear in one atomic step, once per identified         *)
(* delivery, and the events of one delivery are numbered in the order they *)
(* were staged.  Nothing is ever taken back.                               *)
(***************************************************************************)
EXTENDS Naturals

CONSTANTS
  Deliveries,  \* webhook deliveries that normalize to something
  Anonymous,   \* those that carry no delivery id
  Events       \* [Deliveries -> Nat]: canonical events a delivery produces

VARIABLES
  processed,   \* the processed_delivery table: deliveries marked
  outbox       \* the outbox table: rows [id, delivery, n]

vars == <<processed, outbox>>

Init ==
  /\ processed = {}
  /\ outbox = {}

(* The rows that a step adds are the events 1..Events[d] of d, each once,  *)
(* under ids that no other row has and that increase with the event.       *)
StagesExactly(d, added) ==
  /\ \A r \in added : r.delivery = d /\ r.n \in 1 .. Events[d]
  /\ \A n \in 1 .. Events[d] : \E r \in added : r.n = n
  /\ \A r, s \in added : r.n < s.n <=> r.id < s.id
  /\ \A r, s \in added : r.n = s.n => r = s
  /\ \A r \in added, s \in outbox : r.id # s.id

Apply(d) ==
  /\ d \in Anonymous \/ d \notin processed
  /\ processed' = IF d \in Anonymous THEN processed ELSE processed \union {d}
  /\ outbox \subseteq outbox'
  /\ StagesExactly(d, outbox' \ outbox)

Next == \E d \in Deliveries : Apply(d)

Spec == Init /\ [][Next]_vars
================================================================================
