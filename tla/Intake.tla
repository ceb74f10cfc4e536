-------------------------------- MODULE Intake ---------------------------------
(***************************************************************************)
(* The way in: the gateway writes raw.github, and the archiver's group     *)
(* files what is on it.  What Archiver's Produce leaves open (which        *)
(* deliveries are written, when and how often) is what the gateway does.   *)
(***************************************************************************)
EXTENDS Gateway, Archiver

(* The bound of both on the size of the topic. *)
ASSUME IntakeAssumption == TopicLimit <= MaxWrites

intakeVars == <<vars, gatewayVars>>

IntakeInit == Init /\ GatewayInit

IntakeNext ==
  \/ GatewayStep /\ UNCHANGED <<workerVars, worldVars, objects, failed, countVars>>
  \/ ArchiverStep /\ UNCHANGED gatewayVars

IntakeSpec == IntakeInit /\ [][IntakeNext]_intakeVars
FairIntakeSpec == IntakeSpec /\ Fairness /\ GatewayFairness

--------------------------------------------------------------------------------
(* 202 is kept to the end: what GitHub will not send again by itself is in   *)
(* the archive in the end, or was logged as failed for replay.               *)
AcceptedIsArchived ==
  \A r \in Posts :
    post[r] = "accepted" ~>
      \/ Filed(DeliveryOf[r])
      \/ \E pl \in failed : MessageAt(pl[1], pl[2]) = DeliveryOf[r]
================================================================================
