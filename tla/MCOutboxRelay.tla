---------------------------- MODULE MCOutboxRelay ------------------------------
(* Small instances of OutboxRelay: the values of its function constants.      *)
EXTENDS OutboxRelay, TLC

CONSTANTS w1, w2, r1, r2, t1, t2, push, issue, check

(* push stages two rows; push and issue belong to one tenant. *)
MCEvents == [d \in Deliveries |-> IF d = push THEN 2 ELSE 1]
MCTenantOf == [d \in Deliveries |-> IF d = check THEN t2 ELSE t1]
RelaySymmetry == Permutations(Relays)
Symmetry == Permutations(Relays) \union Permutations(Writers)
================================================================================
