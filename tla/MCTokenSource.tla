----------------------------- MODULE MCTokenSource -----------------------------
(* Small instances of TokenSource: symmetric callers and installations.      *)
EXTENDS TokenSource, TLC

Symmetry == Permutations(Callers) \union Permutations(Installations)
================================================================================
