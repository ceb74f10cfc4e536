------------------------------- MODULE RateBudget ------------------------------
(***************************************************************************)
(* libs/go/githubapp/ratelimit.go, client.go and graphql.go: the calls of  *)
(* one process against one pool (REST or GraphQL points) of one            *)
(* installation.  A call reserves budget, gets a token, is sent, and feeds *)
(* the quota in its response back into the budget.                         *)
(*                                                                         *)
(* GitHub is external: a window of Limit points that begins again at its   *)
(* reset, and calls that are refused (403, or 200 with errors) when the    *)
(* window is spent.  The clock is the process's and GitHub's at once.  A   *)
(* caller that is refused budget may ask again at any time, whatever wait  *)
(* it was told: the refusal changes no state and is no step here.  Every   *)
(* call reserves one point, as all callers in the repository do, and costs *)
(* one.                                                                    *)
(***************************************************************************)
EXTENDS Integers, FiniteSets

CONSTANTS
  Callers,          \* goroutines that call GitHub for the installation
  Limit,            \* points of a window
  Window,           \* length of a window
  Floor,            \* safetyFloor
  RefusalCarriesRate, \* TRUE: a refused REST call has the headers; FALSE: a
                    \* GraphQL response with errors is not observed
  MaxTime,          \* bound: how long the clock runs
  MaxFaults         \* bound: calls that end without a response

ASSUME BudgetAssumption ==
  /\ IsFiniteSet(Callers)
  /\ Limit \in Nat /\ Window \in Nat \ {0} /\ Floor \in Nat
  /\ RefusalCarriesRate \in BOOLEAN
  /\ MaxTime \in Nat /\ MaxFaults \in Nat

VARIABLES
  now,        \* the clock
  remaining,  \* pool.remaining
  resetAt,    \* pool.resetAt
  known,      \* pool.known
  pc,         \* pc[c]: where caller c is in its call
  reply,      \* reply[c]: the quota in the response c waits for
  left,       \* GitHub: points left in the window
  reset,      \* GitHub: when the window ends
  below,      \* history: calls GitHub met in this window at or below the floor
  faults      \* calls that ended without a response so far

poolVars == <<remaining, resetAt, known>>
gitHubVars == <<left, reset, below>>
vars == <<now, poolVars, pc, reply, gitHubVars, faults>>

Quotas == [remaining : 0 .. Limit, resetAt : Nat, refused : BOOLEAN]
NoReply == [remaining |-> 0, resetAt |-> 0, refused |-> FALSE]

TypeOK ==
  /\ now \in 0 .. MaxTime
  /\ remaining \in Int /\ remaining <= Limit
  /\ known => remaining >= 0
  /\ resetAt \in Nat
  /\ known \in BOOLEAN
  /\ pc \in [Callers -> {"idle", "send", "reply"}]
  /\ reply \in [Callers -> Quotas]
  /\ left \in 0 .. Limit
  /\ reset \in Nat
  /\ below \in Nat
  /\ faults \in 0 .. MaxFaults

(* The process starts anywhere in a window that others may have spent. *)
Init ==
  /\ now = 0
  /\ remaining = 0 /\ resetAt = 0 /\ known = FALSE
  /\ pc = [c \in Callers |-> "idle"]
  /\ reply = [c \in Callers |-> NoReply]
  /\ left \in 0 .. Limit
  /\ reset \in 1 .. Window
  /\ below = 0
  /\ faults = 0

--------------------------------------------------------------------------------
Goto(c, stage) == pc' = [pc EXCEPT ![c] = stage]

Tick ==
  /\ now < MaxTime
  /\ now' = now + 1
  /\ UNCHANGED <<poolVars, pc, reply, gitHubVars, faults>>

(* Faulty variant of Elapsed: a view is never given up. *)
ElapsedNever == FALSE

(* The window that was observed has elapsed. *)
Elapsed == known /\ now > resetAt

(* Faulty variant of Refused: down to the last point. *)
RefusedAtZero == known /\ ~Elapsed /\ remaining - 1 < 0

Refused == known /\ ~Elapsed /\ remaining - 1 < Floor

(* Faulty variant of Reserve: an elapsed view stays known. *)
ReserveKeepsKnown(c) ==
  /\ pc[c] = "idle"
  /\ ~Refused
  /\ remaining' = remaining - 1
  /\ Goto(c, "send")
  /\ UNCHANGED <<now, resetAt, known, reply, gitHubVars, faults>>

Reserve(c) ==
  /\ pc[c] = "idle"
  /\ ~Refused
  /\ known' = (known /\ ~Elapsed)
  /\ remaining' = remaining - 1
  /\ Goto(c, "send")
  /\ UNCHANGED <<now, resetAt, reply, gitHubVars, faults>>

(* The points left and the end of the window when a call comes in now. *)
Points == IF now >= reset THEN Limit ELSE left
WindowEnd == IF now >= reset THEN now + Window ELSE reset

(* GitHub meets the call: it costs a point, or is refused when none is left. *)
Send(c) ==
  /\ pc[c] = "send"
  /\ left' = IF Points > 0 THEN Points - 1 ELSE 0
  /\ reset' = WindowEnd
  /\ below' = (IF now >= reset THEN 0 ELSE below) + (IF Points <= Floor THEN 1 ELSE 0)
  /\ reply' = [reply EXCEPT ![c] =
                 [remaining |-> left', resetAt |-> WindowEnd, refused |-> Points = 0]]
  /\ Goto(c, "reply")
  /\ UNCHANGED <<now, poolVars, faults>>

(* No token, no connection or no response: nothing is observed, and what was *)
(* reserved is not given back.                                               *)
CallFails(c) ==
  /\ pc[c] \in {"send", "reply"}
  /\ faults < MaxFaults
  /\ faults' = faults + 1
  /\ reply' = [reply EXCEPT ![c] = NoReply]
  /\ Goto(c, "idle")
  /\ UNCHANGED <<now, poolVars, gitHubVars>>

(* Observe, ObserveGraphQL, set: the response's quota replaces the estimate. *)
Learn(r) ==
  /\ remaining' = r.remaining
  /\ resetAt' = r.resetAt
  /\ known' = TRUE

(* The response arrives, and is read or not. *)
Observe(c) ==
  /\ pc[c] = "reply"
  /\ IF reply[c].refused /\ ~RefusalCarriesRate THEN UNCHANGED poolVars ELSE Learn(reply[c])
  /\ reply' = [reply EXCEPT ![c] = NoReply]
  /\ Goto(c, "idle")
  /\ UNCHANGED <<now, gitHubVars, faults>>

Next ==
  \/ Tick
  \/ \E c \in Callers : Reserve(c) \/ Send(c) \/ CallFails(c) \/ Observe(c)

Spec == Init /\ [][Next]_vars

(* Time passes, and a call that was sent ends (the client times out). *)
Fairness ==
  /\ WF_vars(Tick)
  /\ \A c \in Callers : WF_vars(Send(c)) /\ WF_vars(Observe(c))

FairSpec == Spec /\ Fairness

--------------------------------------------------------------------------------
(* ratelimit.go:20-22: the floor absorbs what concurrent calls overshoot.    *)
(* In every window, the calls that GitHub meets with Floor points or fewer   *)
(* left are at most Slack: a response observed late brings an old quota      *)
(* back, the k-th such response lets at most k callers through before their  *)
(* own responses correct it, and a call without a response corrects nothing. *)
Slack == (Cardinality(Callers) * (Cardinality(Callers) + 1)) \div 2 + MaxFaults

HeadroomKept == below <= Slack

(* What the bound rests on.  The pool is shut when it knows of GitHub's      *)
(* current window that the floor is reached; a reply is late when observing  *)
(* it would not shut the pool.                                               *)
Shut == known /\ remaining <= Floor /\ resetAt = reset
Late(c) ==
  pc[c] = "reply" /\ ~(reply[c].remaining <= Floor /\ reply[c].resetAt = reset)

Timely == { c \in Callers : ~Late(c) }
Ready == { c \in Callers : pc[c] = "send" \/ (pc[c] = "idle" /\ ~Shut) }

(* Once a window is at its floor no new reply is late.  What was let through *)
(* and may still be, without another late reply, is then bounded by the sum  *)
(* 1 + ... + n for the n callers that hold none, and by one call per fault.  *)
Overshoot ==
  now < reset /\ below > 0 =>
    /\ left <= Floor
    /\ 2 * (below + Cardinality(Ready))
          <= Cardinality(Timely) * (Cardinality(Timely) + 1) + 2 * faults

IInv == TypeOK /\ Overshoot /\ HeadroomKept

(* A pool that refuses calls opens again once its window is over, also when  *)
(* calls failed without giving back what they reserved (or a late response   *)
(* told it of a window whose end the bounded clock does not reach).          *)
OpensAgain == Refused ~> ~Refused \/ resetAt >= MaxTime
================================================================================
