-------------------------------- MODULE Gateway --------------------------------
(***************************************************************************)
(* services/webhook-gateway/main.go: handleGitHub answers 202 to a webhook *)
(* once its payload is on the topic raw.github, and 503 when the write     *)
(* fails or takes longer than five seconds; SIGTERM drains the server.     *)
(*                                                                         *)
(* A POST is the request of one delivery; GitHub posts a delivery again    *)
(* when it is redelivered.  The kafka-go Writer is external: a write puts  *)
(* the message into the writer's batch and waits; the batch goes to the    *)
(* broker later, is sent again when an acknowledgement is lost, and is not *)
(* taken back when the waiting handler gives up.  So what was answered     *)
(* with 503 may still arrive, and what is written twice arrives twice.     *)
(*                                                                         *)
(* A process that stops loses its batch, unless it drained.  Reading a     *)
(* body may take for ever: the server sets ReadHeaderTimeout alone.        *)
(***************************************************************************)
EXTENDS ConsumerGroup

CONSTANTS
  Posts,       \* requests to /webhooks/github
  DeliveryOf,  \* [Posts -> Messages]
  MaxPosts,    \* bound: requests that arrive
  TopicLimit,  \* bound: writes to one partition of the topic
  MaxStops     \* bound: signals and crashes of the gateway

ASSUME GatewayAssumption ==
  /\ DeliveryOf \in [Posts -> Messages]
  /\ MaxPosts \in Nat /\ TopicLimit \in Nat /\ MaxStops \in Nat

VARIABLES
  gate,     \* "serving", "draining", "closing" (the writer), or "exited"
  post,     \* post[r]: where request r is; "refused" is all that ends without 202
  batch,    \* posts with a message in the writer's batch
  stops     \* signals and crashes so far

gatewayVars == <<gate, post, batch, stops>>

InFlight == { r \in Posts : post[r] \in {"reading", "writing"} }

GatewayTypeOK ==
  /\ gate \in {"serving", "draining", "closing", "exited"}
  /\ post \in [Posts -> {"unsent", "reading", "writing", "accepted", "refused"}]
  /\ batch \subseteq Posts
  /\ stops \in 0 .. MaxStops
  /\ gate = "exited" => batch = {}
  /\ gate \in {"closing", "exited"} => InFlight = {}

GatewayInit ==
  /\ gate = "serving"
  /\ post = [r \in Posts |-> "unsent"]
  /\ batch = {}
  /\ stops = 0

--------------------------------------------------------------------------------
(* The handler of one request. *)

Becomes(r, stage) == post' = [post EXCEPT ![r] = stage]

Arrive(r) ==
  /\ gate = "serving" /\ post[r] = "unsent"
  /\ Cardinality({ x \in Posts : post[x] # "unsent" }) < MaxPosts
  /\ Becomes(r, "reading")
  /\ UNCHANGED <<groupVars, gate, batch, stops>>

(* 400: the body cannot be read; 401: the signature is not that of the body, *)
(* of which at most 5 MiB are read.                                          *)
Refuse(r) ==
  /\ post[r] = "reading"
  /\ Becomes(r, "refused")
  /\ UNCHANGED <<groupVars, gate, batch, stops>>

(* Faulty variant of Write: an asynchronous writer; 202 before the broker acks. *)
WriteAsync(r) ==
  /\ post[r] = "reading"
  /\ Becomes(r, "accepted")
  /\ batch' = batch \union {r}
  /\ UNCHANGED <<groupVars, gate, stops>>

Write(r) ==
  /\ post[r] = "reading"
  /\ Becomes(r, "writing")
  /\ batch' = batch \union {r}
  /\ UNCHANGED <<groupVars, gate, stops>>

(* 503: five seconds passed, or the client went away.  The batch goes on. *)
WriteTimeout(r) ==
  /\ post[r] = "writing"
  /\ Becomes(r, "refused")
  /\ UNCHANGED <<groupVars, gate, batch, stops>>

--------------------------------------------------------------------------------
(* The writer's batch. *)

Broker(r) ==
  /\ Len(log[PartitionOf[DeliveryOf[r]]]) < TopicLimit
  /\ Append1(DeliveryOf[r])

(* A handler that still waits is told how its write ended, and answers 202 *)
(* or 503.                                                                   *)
Tell(r, outcome) ==
  post' = [post EXCEPT ![r] = IF @ = "writing" THEN outcome ELSE @]

Deliver(r) ==
  /\ r \in batch
  /\ Broker(r)
  /\ batch' = batch \ {r}
  /\ Tell(r, "accepted")
  /\ UNCHANGED <<gate, stops>>

(* The broker took it, but kafka-go does not hear of it and sends it again. *)
AckLost(r) ==
  /\ r \in batch
  /\ Broker(r)
  /\ UNCHANGED gatewayVars

(* 503: the attempts are used up. *)
WriteFails(r) ==
  /\ r \in batch
  /\ batch' = batch \ {r}
  /\ Tell(r, "refused")
  /\ UNCHANGED <<groupVars, gate, stops>>

--------------------------------------------------------------------------------
(* The process. *)

Stop == stops < MaxStops /\ stops' = stops + 1

(* os.Exit, a crash: connections are cut off, and the batch is lost. *)
Exit ==
  /\ gate' = "exited"
  /\ batch' = {}
  /\ post' = [r \in Posts |-> IF r \in InFlight THEN "refused" ELSE post[r]]
  /\ UNCHANGED groupVars

Signal ==
  /\ gate = "serving"
  /\ Stop
  /\ gate' = "draining"
  /\ UNCHANGED <<groupVars, post, batch>>

(* Faulty variant of Drained: main waits for ListenAndServe, which returns  *)
(* as soon as Shutdown is called.                                            *)
DrainedAtOnce ==
  /\ gate = "draining"
  /\ gate' = "closing"
  /\ UNCHANGED <<groupVars, post, batch, stops>>

(* Shutdown returns once no connection is active; then the deferred Close  *)
(* waits for the batch.                                                      *)
Drained ==
  /\ gate = "draining" /\ InFlight = {}
  /\ gate' = "closing"
  /\ UNCHANGED <<groupVars, post, batch, stops>>

(* Faulty variant of DrainTimeout: only writes are given up, not bodies. *)
DrainTimeoutWrites ==
  /\ gate = "draining" /\ \E r \in InFlight : post[r] # "reading"
  /\ Exit
  /\ UNCHANGED stops

(* Ten seconds passed: "graceful shutdown failed", os.Exit(1). *)
DrainTimeout ==
  /\ gate = "draining" /\ InFlight # {}
  /\ Exit
  /\ UNCHANGED stops

CloseWriter ==
  /\ gate = "closing" /\ batch = {}
  /\ gate' = "exited"
  /\ UNCHANGED <<groupVars, post, batch, stops>>

(* ListenAndServe fails, or the process dies. *)
Die ==
  /\ gate # "exited"
  /\ Stop
  /\ Exit

Start ==
  /\ gate = "exited"
  /\ gate' = "serving"
  /\ UNCHANGED <<groupVars, post, batch, stops>>

--------------------------------------------------------------------------------
HandlerStep(r) == Arrive(r) \/ Refuse(r) \/ Write(r) \/ WriteTimeout(r)
BatchStep(r) == Deliver(r) \/ WriteFails(r)
ProcessStep == Drained \/ DrainTimeout \/ CloseWriter \/ Start

GatewayStep ==
  \/ \E r \in Posts : HandlerStep(r) \/ BatchStep(r) \/ AckLost(r)
  \/ ProcessStep \/ Signal \/ Die

(* The write's deadline, the writer's attempts and the drain's deadline run  *)
(* out, and a supervisor starts the process again.  Nothing makes a client   *)
(* send the rest of a body, nor the broker take a message.                   *)
GatewayFairness ==
  /\ \A r \in Posts :
       /\ WF_<<groupVars, gatewayVars>>(WriteTimeout(r))
       /\ WF_<<groupVars, gatewayVars>>(BatchStep(r))
  /\ WF_<<groupVars, gatewayVars>>(ProcessStep)

--------------------------------------------------------------------------------
OnTopic(m) == \E p \in Partitions : \E i \in DOMAIN log[p] : log[p][i] = m

(* 202 is a promise: every post that was accepted is on the topic, whatever *)
(* happened to the process since.                                            *)
AcceptedIsOnTopic ==
  \A r \in Posts : post[r] = "accepted" => OnTopic(DeliveryOf[r])

(* A signal stops the process within its deadlines, also while a client     *)
(* holds back a body or the broker takes nothing, and it comes up again.     *)
DrainEnds == gate \in {"draining", "closing"} ~> gate = "serving"

(* A stop that meets its deadlines cuts off no request and drops nothing of *)
(* the writer's batch, what was answered with 503 included (main.go:79: "let *)
(* in-flight requests finish"): main waits for Shutdown and not for          *)
(* ListenAndServe, and closes the writer only then.                          *)
CleanStop == gate = "closing" /\ gate' = "exited" /\ stops' = stops
CleanStopDropsNothing == [][CleanStop => InFlight = {} /\ batch = {}]_<<groupVars, gatewayVars>>
================================================================================
