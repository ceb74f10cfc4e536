------------------------------ MODULE MCArchiver -------------------------------
(* Small instances of Archiver: the values of its function constants.        *)
EXTENDS Archiver, TLC

CONSTANTS w1, w2, p1, i1, i2, t1, t2, usual, late, nameless1, nameless2

(* usual: of an onboarded installation; late: of one onboarded later;        *)
(* nameless1, nameless2: of the first, without a delivery id.                *)
MCInstallationOf == [m \in Messages |-> IF m = late THEN i2 ELSE i1]
MCTenantOf == [i \in Installations |-> IF i = i1 THEN t1 ELSE t2]
MCNameOf == [m \in Messages |-> IF m \in {nameless1, nameless2} THEN NoName ELSE m]
OnePartition == [m \in Messages |-> p1]
================================================================================
