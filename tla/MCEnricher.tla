------------------------------ MODULE MCEnricher -------------------------------
(* Small instances of Enricher: the values of its function constants.        *)
EXTENDS Enricher, TLC

CONSTANTS w1, w2, p1, p2, pr, odd, issue

(* pr: a pull request; odd: one without a repository; issue: an event that   *)
(* is not enriched.                                                          *)
MCKind == [m \in Messages |->
  CASE m = pr -> "pr" [] m = odd -> "unaddressed" [] OTHER -> "other"]
TwoPartitions == [m \in Messages |-> IF m = pr THEN p1 ELSE p2]
================================================================================
