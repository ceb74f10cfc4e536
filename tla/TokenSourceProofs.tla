--------------------------- MODULE TokenSourceProofs ---------------------------
(***************************************************************************)
(* Theorems about TokenSource, for any number of callers and installations *)
(* and every lifetime longer than the skew.                                *)
(***************************************************************************)
EXTENDS TokenSource, TLAPS

USE TokenAssumption DEF TokenAssumption

(* Nobody refreshes at the start. *)
LEMMA InitIInv == Init => IInv
  BY DEF Init, IInv, TypeOK, Stages, Tokens, LockIsOwn, Refreshing, NoWastedMint,
     IssuedAfterExpiry

(* Every step keeps the types. *)
LEMMA TypeStep == TypeOK /\ [Next]_vars => TypeOK'
<1> SUFFICES ASSUME TypeOK, [Next]_vars PROVE TypeOK'
  OBVIOUS
<1> USE DEF TypeOK, Stages, Tokens, Goto
<1>1. CASE Tick \/ UNCHANGED vars
  BY <1>1 DEF Tick, vars
<1>2. ASSUME NEW c \in Callers, Call(c) \/ Lock(c) PROVE TypeOK'
  BY <1>2 DEF Call, Lock
<1>3. ASSUME NEW c \in Callers, Step(c) PROVE TypeOK'
  <2>1. CASE Check(c) \/ Recheck(c) \/ MintFails(c)
    BY <2>1 DEF Check, Recheck, MintFails
  <2>2. CASE Mint(c)
    BY <2>2 DEF Mint
  <2>3. CASE Store(c) \/ Unlock(c)
    BY <2>3 DEF Store, Unlock
  <2>4. QED BY <1>3, <2>1, <2>2, <2>3 DEF Step
<1>4. QED BY <1>1, <1>2, <1>3 DEF Next

(* The lock of an installation is taken only when free and released only by  *)
(* its holder: two refreshes of one installation never overlap.              *)
LEMMA LockStep == IInv /\ [Next]_vars => LockIsOwn'
<1> SUFFICES ASSUME IInv, [Next]_vars, NEW d \in Callers, Refreshing(d)'
             PROVE  held'[inst'[d]] = d
  BY DEF LockIsOwn
<1> USE DEF IInv, TypeOK, LockIsOwn, Refreshing, Goto
<1>1. CASE Tick \/ UNCHANGED vars
  BY <1>1 DEF Tick, vars
<1>2. ASSUME NEW c \in Callers, Call(c) PROVE held'[inst'[d]] = d
  BY <1>2 DEF Call
<1>3. ASSUME NEW c \in Callers, Lock(c) PROVE held'[inst'[d]] = d
  BY <1>3 DEF Lock
<1>4. ASSUME NEW c \in Callers, Step(c) PROVE held'[inst'[d]] = d
  <2>1. CASE Check(c)
    BY <2>1 DEF Check
  <2>2. CASE Recheck(c) \/ MintFails(c) \/ Mint(c) \/ Store(c)
    BY <2>2 DEF Recheck, MintFails, Mint, Store
  <2>3. CASE Unlock(c)
    BY <2>3 DEF Unlock
  <2>4. QED BY <1>4, <2>1, <2>2, <2>3 DEF Step
<1>5. QED BY <1>1, <1>2, <1>3, <1>4 DEF Next

(* While a caller refreshes, nobody else writes its installation's cache     *)
(* entry, and a token that is no longer valid stays so.                      *)
LEMMA MintStep == IInv /\ [Next]_vars => NoWastedMint' /\ IssuedAfterExpiry'
<1> SUFFICES ASSUME IInv, [Next]_vars, NEW d \in Callers, pc'[d] \in {"mint", "store"}
             PROVE  /\ ~Valid(cache[inst[d]])'
                    /\ pc'[d] = "store" =>
                         /\ got'[d] \in Nat
                         /\ cache'[inst'[d]] = NoToken
                            \/ got'[d] + Skew >= cache'[inst'[d]] + TTL
  BY DEF NoWastedMint, IssuedAfterExpiry
<1> DEFINE Goal == /\ ~Valid(cache[inst[d]])'
                   /\ pc'[d] = "store" =>
                        /\ got'[d] \in Nat
                        /\ cache'[inst'[d]] = NoToken
                           \/ got'[d] + Skew >= cache'[inst'[d]] + TTL
<1> USE DEF IInv, TypeOK, Tokens, NoWastedMint, IssuedAfterExpiry, Valid, Goto
<1>1. CASE Tick \/ UNCHANGED vars
  BY <1>1 DEF Tick, vars
<1>2. ASSUME NEW c \in Callers, Call(c) PROVE Goal
  BY <1>2 DEF Call
<1>3. ASSUME NEW c \in Callers, Lock(c) PROVE Goal
  BY <1>3 DEF Lock
<1>4. ASSUME NEW c \in Callers, Step(c) PROVE Goal
  <2>1. CASE Check(c) \/ MintFails(c) \/ Unlock(c)
    BY <2>1 DEF Check, MintFails, Unlock
  <2>2. CASE Recheck(c)
    BY <2>2 DEF Recheck
  <2>3. CASE Mint(c)
    BY <2>3 DEF Mint
  <2>4. CASE Store(c)
    <3>1. c # d /\ inst[c] # inst[d]
      BY <2>4 DEF Store, LockIsOwn, Refreshing
    <3>2. QED BY <2>4, <3>1 DEF Store
  <2>5. QED BY <1>4, <2>1, <2>2, <2>3, <2>4 DEF Step
<1>5. QED BY <1>1, <1>2, <1>3, <1>4 DEF Next

(* The invariant, in one step. *)
LEMMA IInvStep == IInv /\ [Next]_vars => IInv'
  BY TypeStep, LockStep, MintStep DEF IInv

(* The inductive invariant: types, one refresh per installation, and tokens  *)
(* that were issued when the cached one was no longer valid.                 *)
THEOREM Invariance == Spec => []IInv
  BY InitIInv, IInvStep, PTL DEF Spec

(* token.go:81: a burst mints one token, not N.                              *)
THEOREM OneMintPerLifetime == Spec => []NoWastedMint
<1>1. IInv => NoWastedMint
  BY DEF IInv
<1>2. QED BY <1>1, Invariance, PTL

(* A refresh only ever replaces a token by one that expires later.           *)
THEOREM TokensLiveLonger == Spec => NeverShortens
<1>1. IInv /\ [Next]_vars =>
        [\A i \in Installations : cache'[i] # cache[i] /\ cache[i] # NoToken =>
           ~Valid(cache[i]) /\ cache'[i] > cache[i]]_vars
  <2> SUFFICES ASSUME IInv, Next, NEW i \in Installations,
                      cache'[i] # cache[i], cache[i] # NoToken
               PROVE  ~Valid(cache[i]) /\ cache'[i] > cache[i]
    BY DEF vars
  <2>1. PICK c \in Callers : Store(c)
    BY DEF Next, Tick, Call, Lock, Step, Check, Recheck, Mint, MintFails, Unlock
  <2>2. inst[c] = i /\ cache'[i] = got[c]
    BY <2>1 DEF Store, IInv, TypeOK
  <2>3. ~Valid(cache[i]) /\ got[c] \in Nat /\ got[c] + Skew >= cache[i] + TTL
    BY <2>1, <2>2 DEF Store, IInv, NoWastedMint, IssuedAfterExpiry
  <2>4. cache[i] \in Nat
    BY DEF IInv, TypeOK, Tokens
  <2>5. QED BY <2>2, <2>3, <2>4
<1>2. QED BY <1>1, Invariance, PTL DEF Spec, NeverShortens
================================================================================
