----------------------------- MODULE MCRateBudget ------------------------------
(* Small instances of RateBudget: symmetric callers.                         *)
EXTENDS RateBudget, TLC

CallerSymmetry == Permutations(Callers)
================================================================================
