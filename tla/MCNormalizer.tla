----------------------------- MODULE MCNormalizer ------------------------------
(* Small instances of Normalizer: the values of its function constants.      *)
EXTENDS Normalizer, TLC

CONSTANTS w1, w2, p1, p2, t1, t2, push, review, poison, ping, late

(* push, late: two events; review: parent PR missing; poison: undecodable; ping:   *)
(* skipped; late: no delivery id, and its tenant is onboarded later.          *)
MCKind == [m \in Messages |->
  CASE m = review -> "orphan" [] m = poison -> "bad" [] m = ping -> "skip" [] OTHER -> "good"]
MCEvents == [m \in Messages |-> CASE m \in {push, late} -> 2 [] OTHER -> 1]
MCTenantOf == [m \in Messages |-> IF m = late THEN t2 ELSE t1]
OnePartition == [m \in Messages |-> p1]
TwoPartitions == [m \in Messages |-> IF m \in {push, ping} THEN p1 ELSE p2]
WorkerSymmetry == Permutations(Workers)
================================================================================
