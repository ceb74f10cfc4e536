------------------------------- MODULE MCIntake --------------------------------
(* A small instance of Intake: the values of its function constants.         *)
EXTENDS Intake, TLC

CONSTANTS w1, w2, p1, i1, i2, t1, t2, late, nameless, r1, r2

(* late: of an installation onboarded later; nameless: of the first, without *)
(* a delivery id.                                                            *)
MCInstallationOf == [m \in Messages |-> IF m = late THEN i2 ELSE i1]
MCTenantOf == [i \in Installations |-> IF i = i1 THEN t1 ELSE t2]
MCNameOf == [m \in Messages |-> IF m = late THEN late ELSE NoName]
MCDeliveryOf == [r \in Posts |-> IF r = r1 THEN late ELSE nameless]
OnePartition == [m \in Messages |-> p1]
================================================================================
