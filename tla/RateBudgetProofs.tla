--------------------------- MODULE RateBudgetProofs ----------------------------
(***************************************************************************)
(* Theorems about RateBudget, for every finite number of callers, every    *)
(* window, limit and floor: the headroom under the floor is overdrawn by   *)
(* at most Slack calls per window, if refusals tell the quota.             *)
(***************************************************************************)
EXTENDS RateBudget, FiniteSetTheorems, TLAPS

USE BudgetAssumption DEF BudgetAssumption

--------------------------------------------------------------------------------
(* Types. *)

(* Points and the reply to a call are within the window's limit. *)
LEMMA SendTypes ==
  ASSUME TypeOK, NEW c \in Callers, Send(c)
  PROVE  TypeOK'
<1> USE DEF TypeOK, Send, Goto
<1>1. Points \in 0 .. Limit /\ WindowEnd \in Nat
  BY DEF Points, WindowEnd
<1>2. left' \in 0 .. Limit /\ reset' \in Nat
  BY <1>1
<1>3. [remaining |-> left', resetAt |-> WindowEnd, refused |-> Points = 0] \in Quotas
  BY <1>1, <1>2 DEF Quotas
<1>4. reply' \in [Callers -> Quotas]
  BY <1>3
<1>5. below' \in Nat
  OBVIOUS
<1>6. pc' \in [Callers -> {"idle", "send", "reply"}]
  OBVIOUS
<1>7. QED BY <1>2, <1>4, <1>5, <1>6 DEF poolVars

(* Every step keeps the types: what is reserved of a known view is there.    *)
LEMMA TypeStep == TypeOK /\ [Next]_vars => TypeOK'
<1> SUFFICES ASSUME TypeOK, [Next]_vars PROVE TypeOK'
  OBVIOUS
<1> USE DEF TypeOK, Goto
<1>1. CASE UNCHANGED vars
  BY <1>1 DEF vars, poolVars, gitHubVars
<1>2. CASE Tick
  BY <1>2 DEF Tick, poolVars, gitHubVars
<1>3. ASSUME NEW c \in Callers, Reserve(c) PROVE TypeOK'
  <2>1. known' \in BOOLEAN
    BY <1>3 DEF Reserve
  <2>2. ASSUME known' PROVE remaining' >= 0
    <3>1. known /\ ~Elapsed
      BY <1>3, <2>2 DEF Reserve
    <3>2. QED BY <1>3, <3>1 DEF Reserve, Refused
  <2>3. remaining' \in Int /\ remaining' <= Limit
    BY <1>3 DEF Reserve
  <2>4. /\ pc' \in [Callers -> {"idle", "send", "reply"}]
        /\ UNCHANGED <<now, resetAt, reply, left, reset, below, faults>>
    BY <1>3 DEF Reserve, gitHubVars
  <2>5. QED BY <2>1, <2>2, <2>3, <2>4
<1>4. ASSUME NEW c \in Callers, CallFails(c) PROVE TypeOK'
  <2>1. NoReply \in Quotas
    BY DEF NoReply, Quotas
  <2>2. QED BY <1>4, <2>1 DEF CallFails, poolVars, gitHubVars
<1>5. ASSUME NEW c \in Callers, Observe(c) PROVE TypeOK'
  <2>1. NoReply \in Quotas /\ reply[c] \in Quotas
    BY DEF NoReply, Quotas
  <2>2. /\ remaining' \in Int /\ remaining' <= Limit
        /\ known' => remaining' >= 0
        /\ resetAt' \in Nat /\ known' \in BOOLEAN
    <3>1. CASE UNCHANGED poolVars
      BY <3>1 DEF poolVars
    <3>2. CASE Learn(reply[c])
      BY <2>1, <3>2 DEF Learn, Quotas
    <3>3. QED BY <1>5, <3>1, <3>2 DEF Observe
  <2>3. QED BY <1>5, <2>1, <2>2 DEF Observe, gitHubVars
<1>6. QED
  BY ONLY <1>1, <1>2, <1>3, <1>4, <1>5, SendTypes, TypeOK, [Next]_vars DEF Next

(* Every variable has its type, and a known view is never below zero. *)
THEOREM TypeCorrect == Spec => []TypeOK
<1>1. Init => TypeOK
  <2>1. NoReply \in Quotas
    BY DEF NoReply, Quotas
  <2> SUFFICES ASSUME Init PROVE TypeOK
    OBVIOUS
  <2>2. ~known /\ known \in BOOLEAN
    BY DEF Init
  <2>3. /\ now \in 0 .. MaxTime /\ remaining \in Int /\ remaining <= Limit
        /\ resetAt \in Nat /\ left \in 0 .. Limit /\ reset \in Nat
        /\ below \in Nat /\ faults \in 0 .. MaxFaults
    BY DEF Init
  <2>4. pc \in [Callers -> {"idle", "send", "reply"}] /\ reply \in [Callers -> Quotas]
    BY <2>1 DEF Init
  <2>5. QED BY <2>2, <2>3, <2>4 DEF TypeOK
<1>2. QED BY <1>1, TypeStep, PTL DEF Spec

--------------------------------------------------------------------------------
(* Counting callers. *)

(* Callers are finitely many. *)
LEMMA Counts ==
  ASSUME NEW T, NEW R, R \subseteq T, T \subseteq Callers
  PROVE  /\ IsFiniteSet(T) /\ IsFiniteSet(R)
         /\ Cardinality(T) \in Nat /\ Cardinality(R) \in Nat /\ Cardinality(Callers) \in Nat
         /\ Cardinality(R) <= Cardinality(T)
         /\ Cardinality(T) <= Cardinality(Callers)
  BY FS_Subset, FS_CardinalityType

(* A caller that has let go of its late reply may call again. *)
LEMMA OneMore ==
  ASSUME NEW T \in SUBSET Callers, NEW U, NEW c \in Callers, U \subseteq T \union {c}
  PROVE  Cardinality(U) <= Cardinality(T) + 1
<1>1. IsFiniteSet(T) /\ Cardinality(T) \in Nat
  BY Counts
<1>2. /\ IsFiniteSet(T \union {c}) /\ Cardinality(T \union {c}) \in Nat
      /\ Cardinality(T \union {c}) <= Cardinality(T) + 1
  <2>1. IsFiniteSet(T \union {c}) /\ Cardinality(T \union {c}) \in Nat
    BY <1>1, FS_AddElement, FS_CardinalityType
  <2>2. Cardinality(T \union {c}) = IF c \in T THEN Cardinality(T) ELSE Cardinality(T) + 1
    BY <1>1, FS_AddElement
  <2>3. QED BY <1>1, <2>1, <2>2
<1>3. Cardinality(U) <= Cardinality(T \union {c}) /\ Cardinality(U) \in Nat
  BY <1>2, FS_Subset, FS_CardinalityType
<1>4. QED BY <1>1, <1>2, <1>3

(* Only callers without a late reply may call. *)
LEMMA ReadyIsTimely == Ready \subseteq Timely /\ Timely \subseteq Callers
  BY DEF Ready, Timely, Late

(* ... and so after a step. *)
LEMMA ReadyIsTimelyNext == Ready' \subseteq Timely' /\ Timely' \subseteq Callers
  BY DEF Ready, Timely, Late

(* The bound at one state follows from the number of calls and of callers. *)
LEMMA SumWithinSlack ==
  ASSUME NEW b \in Nat, NEW r \in Nat, NEW t \in Nat, NEW n \in Nat, NEW f \in Nat, NEW m \in Nat,
         t <= n, f <= m, 2 * (b + r) <= t * (t + 1) + 2 * f
  PROVE  b <= (n * (n + 1)) \div 2 + m
<1>1. t * (t + 1) <= n * (n + 1)
  OBVIOUS
<1>2. n * (n + 1) \in Nat
  OBVIOUS
<1>3. 2 * b <= n * (n + 1) + 2 * m
  BY <1>1
<1> DEFINE x == n * (n + 1)
<1> HIDE DEF x
<1>4. x \in Nat /\ 2 * b <= x + 2 * m
  BY <1>2, <1>3 DEF x
<1>5. b <= x \div 2 + m
  BY <1>4
<1>6. QED BY <1>5 DEF x
--------------------------------------------------------------------------------
(* The headroom. *)

(* A call that GitHub meets at the floor counts against the bound, and its   *)
(* reply is not late; the first of a window leaves every bound far away.     *)
LEMMA SendKeeps ==
  ASSUME TypeOK, Overshoot, NEW c \in Callers, Send(c)
  PROVE  Overshoot'
<1> SUFFICES ASSUME now' < reset', below' > 0
             PROVE  /\ left' <= Floor
                    /\ 2 * (below' + Cardinality(Ready'))
                         <= Cardinality(Timely') * (Cardinality(Timely') + 1) + 2 * faults'
  BY DEF Overshoot
<1> DEFINE t == Cardinality(Timely')
           r == Cardinality(Ready')
<1>1. c \in Timely' /\ c \notin Ready'
  <2>1. pc'[c] = "reply"
    BY DEF Send, Goto, TypeOK
  <2>2. Points \in Nat
    BY DEF Points, TypeOK
  <2>3. Points <= Floor
    BY <2>2 DEF Send, Points, Overshoot, TypeOK, WindowEnd
  <2>4. left' <= Floor /\ reply'[c].remaining = left' /\ reply'[c].resetAt = reset'
    BY <2>2, <2>3 DEF Send, TypeOK
  <2>5. QED BY <2>1, <2>4 DEF Timely, Late, Ready
<1>2. left' <= Floor
  <2>2. Points \in Nat
    BY DEF Points, TypeOK
  <2>3. Points <= Floor
    BY <2>2 DEF Send, Points, Overshoot, TypeOK, WindowEnd
  <2>4. QED BY <2>2, <2>3 DEF Send
<1>3. /\ t \in Nat /\ r \in Nat /\ r + 1 <= t
      /\ faults \in Nat /\ faults' = faults /\ below \in Nat
  <2>1. IsFiniteSet(Ready') /\ IsFiniteSet(Timely') /\ t \in Nat /\ r \in Nat
    BY ReadyIsTimelyNext, Counts
  <2>2. Cardinality(Ready' \union {c}) = r + 1
    BY <1>1, <2>1, FS_AddElement
  <2>3. Cardinality(Ready' \union {c}) <= t
    BY <1>1, <2>1, ReadyIsTimelyNext, FS_Subset
  <2>4. QED BY <2>1, <2>2, <2>3 DEF Send, TypeOK
<1>4. CASE below' = 1
  <2>1. 2 * t <= t * (t + 1)
    <3>1. t >= 1
      BY <1>3
    <3>2. t * (t + 1) = t * (t - 1) + 2 * t /\ t * (t - 1) >= 0
      BY <1>3, <3>1
    <3>3. QED BY <1>3, <3>2
  <2>2. t * (t + 1) \in Nat
    BY <1>3
  <2>3. QED BY <1>2, <1>3, <1>4, <2>1, <2>2
<1>5. CASE below' # 1
  <2>1. now < reset /\ below > 0 /\ below' = below + 1 /\ reset' = reset
    BY <1>5 DEF Send, TypeOK, Points, Overshoot, WindowEnd
  <2>2. Shut' = Shut
    BY <2>1 DEF Shut, Send, poolVars
  <2>3. \A d \in Callers \ {c} : pc'[d] = pc[d] /\ reply'[d] = reply[d]
    BY DEF Send, Goto, TypeOK
  <2>4. pc[c] = "send" /\ c \in Timely /\ c \in Ready
    BY DEF Send, Timely, Late, Ready
  <2>5. Timely' = Timely
    BY <1>1, <2>1, <2>3, <2>4 DEF Timely, Late
  <2>6. Ready' = Ready \ {c}
    BY <1>1, <2>2, <2>3 DEF Ready
  <2>7. Cardinality(Ready) = r + 1
    BY <2>4, <2>6, ReadyIsTimely, Counts, FS_RemoveElement
  <2>8. 2 * (below + Cardinality(Ready)) <= t * (t + 1) + 2 * faults
    BY <2>1, <2>5 DEF Overshoot
  <2>9. t * (t + 1) \in Nat
    BY <1>3
  <2>10. QED BY <1>2, <1>3, <2>1, <2>7, <2>8, <2>9
<1>6. QED BY <1>4, <1>5

(* Reserving counts a caller that was ready already. *)
LEMMA ReserveKeeps ==
  ASSUME TypeOK, Overshoot, NEW c \in Callers, Reserve(c)
  PROVE  Overshoot'
<1> SUFFICES ASSUME now < reset, below > 0
             PROVE  /\ left <= Floor
                    /\ 2 * (below + Cardinality(Ready'))
                         <= Cardinality(Timely') * (Cardinality(Timely') + 1) + 2 * faults
  BY DEF Overshoot, Reserve, gitHubVars
<1>1. ~Shut
  BY DEF Reserve, Refused, Elapsed, Shut, TypeOK
<1>2. c \in Ready
  BY <1>1 DEF Ready, Reserve
<1>3. \A d \in Callers \ {c} : pc'[d] = pc[d] /\ reply'[d] = reply[d]
  BY DEF Reserve, Goto, TypeOK
<1>4. pc[c] = "idle" /\ pc'[c] = "send" /\ reset' = reset
  BY DEF Reserve, Goto, TypeOK, gitHubVars
<1>5. Timely' = Timely
  BY <1>3, <1>4 DEF Timely, Late
<1>6. Ready' \subseteq Ready
  BY <1>1, <1>2, <1>3, <1>4 DEF Ready
<1>7. Cardinality(Ready') <= Cardinality(Ready) /\ Cardinality(Ready') \in Nat
      /\ Cardinality(Ready) \in Nat
  <2>1. IsFiniteSet(Ready)
    BY ReadyIsTimely, Counts
  <2>2. QED BY <1>6, <2>1, FS_Subset, FS_CardinalityType
<1>8. /\ left <= Floor
      /\ 2 * (below + Cardinality(Ready)) <= Cardinality(Timely) * (Cardinality(Timely) + 1) + 2 * faults
  BY DEF Overshoot
<1>9. Cardinality(Timely) * (Cardinality(Timely) + 1) \in Nat /\ below \in Nat /\ faults \in Nat
  BY ReadyIsTimely, Counts DEF TypeOK
<1>10. QED BY <1>5, <1>7, <1>8, <1>9

(* Letting go of a late reply lets everyone call again who holds none; the   *)
(* sum grows by their number.                                                *)
LEMMA LateReplyEnds ==
  ASSUME NEW T \in SUBSET Callers, NEW c \in Callers \ T, NEW R \in SUBSET (T \union {c}),
         NEW b \in Nat, NEW f \in Nat, NEW g \in Nat, g >= f,
         2 * b <= Cardinality(T) * (Cardinality(T) + 1) + 2 * f
  PROVE  2 * (b + Cardinality(R))
           <= Cardinality(T \union {c}) * (Cardinality(T \union {c}) + 1) + 2 * g
<1> DEFINE t == Cardinality(T)
           r == Cardinality(R)
<1>1. t \in Nat /\ IsFiniteSet(T)
  BY Counts
<1>2. Cardinality(T \union {c}) = t + 1
  BY <1>1, FS_AddElement
<1>3. r <= t + 1 /\ r \in Nat
  BY <1>1, <1>2, FS_AddElement, FS_Subset, FS_CardinalityType
<1>4. (t + 1) * (t + 1 + 1) = t * (t + 1) + 2 * t + 2
  BY <1>1
<1>5. t * (t + 1) \in Nat
  BY <1>1
<1> HIDE DEF t, r
<1> DEFINE x == t * (t + 1)
<1>6. 2 * (b + r) <= x + 2 * t + 2 + 2 * g
  <2>1. 2 * b <= x + 2 * f /\ x \in Nat
    BY <1>5 DEF t
  <2> HIDE DEF x
  <2>2. QED BY <1>1, <1>3, <2>1
<1>7. QED BY <1>2, <1>4, <1>6 DEF t, r

(* Hearing of the floor shuts the pool; an older reply was late.             *)
LEMMA ObserveKeeps ==
  ASSUME TypeOK, Overshoot, RefusalCarriesRate, NEW c \in Callers, Observe(c)
  PROVE  Overshoot'
<1> SUFFICES ASSUME now < reset, below > 0
             PROVE  /\ left <= Floor
                    /\ 2 * (below + Cardinality(Ready'))
                         <= Cardinality(Timely') * (Cardinality(Timely') + 1) + 2 * faults
  BY DEF Overshoot, Observe, gitHubVars
<1>1. Learn(reply[c])
  BY DEF Observe
<1>2. \A d \in Callers \ {c} : pc'[d] = pc[d] /\ reply'[d] = reply[d]
  BY DEF Observe, Goto, TypeOK
<1>3. pc[c] = "reply" /\ pc'[c] = "idle" /\ reset' = reset
  BY DEF Observe, Goto, TypeOK, gitHubVars
<1>4. Timely' = Timely \union {c}
  BY <1>2, <1>3 DEF Timely, Late
<1>5. /\ left <= Floor /\ below \in Nat /\ faults \in Nat
      /\ 2 * (below + Cardinality(Ready)) <= Cardinality(Timely) * (Cardinality(Timely) + 1) + 2 * faults
      /\ Cardinality(Ready) \in Nat /\ Cardinality(Timely) * (Cardinality(Timely) + 1) \in Nat
  BY ReadyIsTimely, Counts DEF Overshoot, TypeOK
<1>6. CASE Late(c)
  <2>1. c \in Callers \ Timely
    BY <1>6 DEF Timely
  <2>2. 2 * below <= Cardinality(Timely) * (Cardinality(Timely) + 1) + 2 * faults
    BY <1>5
  <2>3. Timely \in SUBSET Callers /\ Ready' \in SUBSET (Timely \union {c})
    BY <1>4, ReadyIsTimely, ReadyIsTimelyNext
  <2>4. faults >= faults
    BY <1>5
  <2>5. 2 * (below + Cardinality(Ready'))
          <= Cardinality(Timely \union {c}) * (Cardinality(Timely \union {c}) + 1) + 2 * faults
    BY ONLY <1>5, <2>1, <2>2, <2>3, <2>4, LateReplyEnds
  <2>6. QED BY <1>4, <1>5, <2>5
<1>7. CASE ~Late(c)
  <2>1. Shut'
    BY <1>1, <1>3, <1>7 DEF Shut, Late, Learn
  <2>2. Timely' = Timely
    BY <1>4, <1>7 DEF Timely
  <2>3. Ready' \subseteq Ready
    BY <1>2, <1>3, <2>1 DEF Ready
  <2>4. Cardinality(Ready') <= Cardinality(Ready) /\ Cardinality(Ready') \in Nat
    <3>1. IsFiniteSet(Ready)
      BY ReadyIsTimely, Counts
    <3>2. QED BY <2>3, <3>1, FS_Subset, FS_CardinalityType
  <2>5. QED BY <1>5, <2>2, <2>4
<1>8. QED BY <1>6, <1>7

(* A call without a response corrects nothing: its caller may call again.    *)
LEMMA CallFailsKeeps ==
  ASSUME TypeOK, Overshoot, NEW c \in Callers, CallFails(c)
  PROVE  Overshoot'
<1> SUFFICES ASSUME now < reset, below > 0
             PROVE  /\ left <= Floor
                    /\ 2 * (below + Cardinality(Ready'))
                         <= Cardinality(Timely') * (Cardinality(Timely') + 1) + 2 * faults'
  BY DEF Overshoot, CallFails, gitHubVars
<1>1. \A d \in Callers \ {c} : pc'[d] = pc[d] /\ reply'[d] = reply[d]
  BY DEF CallFails, Goto, TypeOK
<1>2. pc'[c] = "idle" /\ reset' = reset /\ Shut' = Shut
  BY DEF CallFails, Goto, TypeOK, gitHubVars, poolVars, Shut
<1>3. Timely' = Timely \union {c}
  BY <1>1, <1>2 DEF Timely, Late
<1>4. /\ left <= Floor /\ below \in Nat /\ faults \in Nat /\ faults' = faults + 1
      /\ 2 * (below + Cardinality(Ready)) <= Cardinality(Timely) * (Cardinality(Timely) + 1) + 2 * faults
      /\ Cardinality(Ready) \in Nat /\ Cardinality(Timely) * (Cardinality(Timely) + 1) \in Nat
  BY ReadyIsTimely, Counts DEF Overshoot, TypeOK, CallFails
<1>5. CASE Late(c)
  <2>1. c \in Callers \ Timely
    BY <1>5 DEF Timely
  <2>2. 2 * below <= Cardinality(Timely) * (Cardinality(Timely) + 1) + 2 * faults
    BY <1>4
  <2>3. faults' \in Nat /\ faults' >= faults
    BY <1>4
  <2>4. QED
    BY <1>3, <1>4, <2>1, <2>2, <2>3, ReadyIsTimely, ReadyIsTimelyNext, LateReplyEnds
<1>6. CASE ~Late(c)
  <2>1. Timely' = Timely
    BY <1>3, <1>6 DEF Timely
  <2>2. Ready' \subseteq Ready \union {c}
    BY <1>1, <1>2 DEF Ready
  <2>3. Cardinality(Ready') <= Cardinality(Ready) + 1
    BY <2>2, ReadyIsTimely, OneMore
  <2>4. Cardinality(Ready') \in Nat
    BY ReadyIsTimelyNext, Counts
  <2>5. QED BY <1>4, <2>1, <2>3, <2>4
<1>7. QED BY <1>5, <1>6

(* Every step keeps the bound on what was and may still be let through.      *)
LEMMA OvershootStep ==
  ASSUME TypeOK, Overshoot, RefusalCarriesRate, [Next]_vars
  PROVE  Overshoot'
<1>1. CASE Tick
  <2>1. UNCHANGED <<remaining, resetAt, known, pc, reply, left, reset, below, faults>>
    BY <1>1 DEF Tick, poolVars, gitHubVars
  <2>2. now' = now + 1 /\ now \in Nat /\ reset \in Nat
    BY <1>1 DEF Tick, TypeOK
  <2>3. Timely' = Timely /\ Ready' = Ready
    BY <2>1 DEF Timely, Ready, Late, Shut
  <2>4. now' < reset' => now < reset
    BY <2>1, <2>2
  <2>5. QED BY <2>1, <2>3, <2>4 DEF Overshoot
<1>2. CASE UNCHANGED vars
  BY <1>2 DEF vars, poolVars, gitHubVars, Overshoot, Timely, Ready, Late, Shut
<1>3. QED
  BY <1>1, <1>2, SendKeeps, ReserveKeeps, ObserveKeeps, CallFailsKeeps DEF Next

(* A call of a window that is at its floor is within the sum, and so within *)
(* Slack.                                                                   *)
LEMMA SlackStep ==
  ASSUME TypeOK, TypeOK', Overshoot', HeadroomKept, [Next]_vars
  PROVE  HeadroomKept'
<1>1. CASE below' = below
  BY <1>1 DEF HeadroomKept, Slack
<1>2. CASE below' # below /\ below' > 0
  <2>1. PICK c \in Callers : Send(c)
    BY <1>2 DEF Next, Tick, Reserve, CallFails, Observe, gitHubVars, vars
  <2>2. now' < reset'
    BY <2>1 DEF Send, WindowEnd, TypeOK
  <2>3. 2 * (below' + Cardinality(Ready'))
          <= Cardinality(Timely') * (Cardinality(Timely') + 1) + 2 * faults'
    BY <1>2, <2>2 DEF Overshoot
  <2>4. /\ Cardinality(Ready') \in Nat /\ Cardinality(Timely') \in Nat
        /\ Cardinality(Callers) \in Nat /\ Cardinality(Timely') <= Cardinality(Callers)
        /\ below' \in Nat /\ faults' \in Nat /\ faults' <= MaxFaults
    BY ReadyIsTimelyNext, Counts DEF TypeOK
  <2>5. QED BY <2>3, <2>4, SumWithinSlack DEF HeadroomKept, Slack
<1>3. CASE below' = 0
  <2>1. Slack \in Nat
    <3>1. Cardinality(Callers) * (Cardinality(Callers) + 1) \in Nat
      BY FS_CardinalityType
    <3> DEFINE x == Cardinality(Callers) * (Cardinality(Callers) + 1)
    <3> HIDE DEF x
    <3>2. x \div 2 + MaxFaults \in Nat
      BY <3>1 DEF x
    <3>3. QED BY <3>2 DEF x, Slack
  <2>2. QED BY <1>3, <2>1 DEF HeadroomKept, Slack
<1>4. QED BY <1>1, <1>2, <1>3 DEF TypeOK

(* The account of the overshoot is inductive where refusals tell the quota,  *)
(* as those of the REST pool do: the calls that a window has met under its   *)
(* floor, with those let through or still free to go, stay within the sum    *)
(* 1 + ... + n for the n callers without a late reply, and one per lost      *)
(* response.  It is no bound on what the pool believes: a late reply may set *)
(* that back to any older quota, and each one that does is paid for here.    *)
THEOREM OvershootAccounted ==
  ASSUME RefusalCarriesRate
  PROVE  Spec => []IInv
<1>1. Init => Overshoot /\ HeadroomKept
  <2> SUFFICES ASSUME Init PROVE Overshoot /\ HeadroomKept
    OBVIOUS
  <2>1. below = 0
    BY DEF Init
  <2>2. Cardinality(Callers) * (Cardinality(Callers) + 1) \in Nat
    BY FS_CardinalityType
  <2> DEFINE x == Cardinality(Callers) * (Cardinality(Callers) + 1)
  <2> HIDE DEF x
  <2>3. 0 <= x \div 2 + MaxFaults
    BY <2>2 DEF x
  <2>4. QED BY <2>1, <2>3 DEF x, Overshoot, HeadroomKept, Slack
<1>2. IInv /\ [Next]_vars => IInv'
  BY TypeStep, OvershootStep, SlackStep DEF IInv
<1>3. Init /\ TypeOK => IInv
  BY <1>1 DEF IInv
<1>4. QED BY <1>2, <1>3, TypeCorrect, PTL DEF Spec

(* The headroom under the floor is overdrawn by at most Slack calls in any   *)
(* window, however many callers there are; without the assumption, which the *)
(* GraphQL pool does not meet, Budget_graphql shows that it is not.          *)
THEOREM HeadroomBounded ==
  ASSUME RefusalCarriesRate
  PROVE  Spec => []HeadroomKept
<1>1. IInv => HeadroomKept
  BY DEF IInv
<1>2. QED BY <1>1, OvershootAccounted, PTL
================================================================================
