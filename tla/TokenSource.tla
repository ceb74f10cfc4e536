------------------------------ MODULE TokenSource ------------------------------
(***************************************************************************)
(* libs/go/githubapp/token.go: goroutines of one process ask for           *)
(* installation access tokens.  A token is cached until Skew before it     *)
(* expires; a refresh holds the lock of its installation and looks at the  *)
(* cache again before it asks GitHub.                                      *)
(*                                                                         *)
(* A token is its expiry; the clock is the process's and GitHub's at once. *)
(* mu guards single accesses to the cache and the lock table: each is one  *)
(* step here.  installLock makes the lock on first use, under mu, so every *)
(* caller meets the same one: held[i] is that lock.  GitHub is external:   *)
(* a request may fail, and time passes while it runs.                      *)
(***************************************************************************)
EXTENDS Naturals

CONSTANTS
  Callers,        \* goroutines that share the token source
  Installations,
  TTL,            \* lifetime GitHub gives a token (an hour)
  Skew,           \* expirySkew (a minute)
  MaxTime,        \* bound: how long the clock runs
  NoToken, NoOne

ASSUME TokenAssumption ==
  /\ TTL \in Nat /\ Skew \in Nat /\ Skew < TTL
  /\ MaxTime \in Nat
  /\ NoToken \notin Nat
  /\ NoOne \notin Callers

VARIABLES
  now,    \* the clock
  pc,     \* pc[c]: where caller c is in Token, or "idle"
  inst,   \* inst[c]: the installation c asks about
  got,    \* got[c]: the token c minted and has not stored yet
  cache,  \* cache[i]: expiry of the cached token, or NoToken
  held    \* held[i]: the caller that holds the refresh lock of i, or NoOne

vars == <<now, pc, inst, got, cache, held>>

Stages == {"idle", "check", "lock", "recheck", "mint", "store", "unlock"}
Tokens == Nat \union {NoToken}

TypeOK ==
  /\ now \in 0 .. MaxTime
  /\ pc \in [Callers -> Stages]
  /\ inst \in [Callers -> Installations]
  /\ got \in [Callers -> Tokens]
  /\ cache \in [Installations -> Tokens]
  /\ held \in [Installations -> Callers \union {NoOne}]

Init ==
  /\ now = 0
  /\ pc = [c \in Callers |-> "idle"]
  /\ inst \in [Callers -> Installations]
  /\ got = [c \in Callers |-> NoToken]
  /\ cache = [i \in Installations |-> NoToken]
  /\ held = [i \in Installations |-> NoOne]

--------------------------------------------------------------------------------
Valid(t) == t # NoToken /\ now + Skew < t

Goto(c, stage) == pc' = [pc EXCEPT ![c] = stage]

Tick ==
  /\ now < MaxTime
  /\ now' = now + 1
  /\ UNCHANGED <<pc, inst, got, cache, held>>

Call(c) ==
  /\ pc[c] = "idle"
  /\ \E i \in Installations : inst' = [inst EXCEPT ![c] = i]
  /\ Goto(c, "check")
  /\ UNCHANGED <<now, got, cache, held>>

(* cached, without the installation's lock. *)
Check(c) ==
  /\ pc[c] = "check"
  /\ Goto(c, IF Valid(cache[inst[c]]) THEN "idle" ELSE "lock")
  /\ UNCHANGED <<now, inst, got, cache, held>>

(* Faulty variant of Lock: the lock is not taken. *)
LockNothing(c) ==
  /\ pc[c] = "lock"
  /\ Goto(c, "recheck")
  /\ UNCHANGED <<now, inst, got, cache, held>>

Lock(c) ==
  /\ pc[c] = "lock"
  /\ held[inst[c]] = NoOne
  /\ held' = [held EXCEPT ![inst[c]] = c]
  /\ Goto(c, "recheck")
  /\ UNCHANGED <<now, inst, got, cache>>

(* Faulty variant of Recheck: straight to the refresh. *)
RecheckNothing(c) ==
  /\ pc[c] = "recheck"
  /\ Goto(c, "mint")
  /\ UNCHANGED <<now, inst, got, cache, held>>

Recheck(c) ==
  /\ pc[c] = "recheck"
  /\ Goto(c, IF Valid(cache[inst[c]]) THEN "unlock" ELSE "mint")
  /\ UNCHANGED <<now, inst, got, cache, held>>

(* Faulty variant of Mint: the lock does not cover the cache write. *)
MintUnlocked(c) ==
  /\ pc[c] = "mint"
  /\ got' = [got EXCEPT ![c] = now + TTL]
  /\ held' = [held EXCEPT ![inst[c]] = NoOne]
  /\ Goto(c, "store")
  /\ UNCHANGED <<now, inst, cache>>

(* GitHub issues a token; the answer may take its time to be stored. *)
Mint(c) ==
  /\ pc[c] = "mint"
  /\ got' = [got EXCEPT ![c] = now + TTL]
  /\ Goto(c, "store")
  /\ UNCHANGED <<now, inst, cache, held>>

(* Faulty variant of MintFails: the early return forgets the lock. *)
MintFailsLocked(c) ==
  /\ pc[c] = "mint"
  /\ Goto(c, "idle")
  /\ UNCHANGED <<now, inst, got, cache, held>>

(* The request fails or its answer is no good: Token returns the error.      *)
MintFails(c) ==
  /\ pc[c] = "mint"
  /\ Goto(c, "unlock")
  /\ UNCHANGED <<now, inst, got, cache, held>>

Store(c) ==
  /\ pc[c] = "store"
  /\ cache' = [cache EXCEPT ![inst[c]] = got[c]]
  /\ got' = [got EXCEPT ![c] = NoToken]
  /\ Goto(c, "unlock")
  /\ UNCHANGED <<now, inst, held>>

(* The deferred Unlock, on every way out. *)
Unlock(c) ==
  /\ pc[c] = "unlock"
  /\ held' = [held EXCEPT ![inst[c]] = NoOne]
  /\ Goto(c, "idle")
  /\ UNCHANGED <<now, inst, got, cache>>

Step(c) ==
  \/ Check(c) \/ Recheck(c) \/ Mint(c) \/ MintFails(c) \/ Store(c) \/ Unlock(c)

Next ==
  \/ Tick
  \/ \E c \in Callers : Call(c) \/ Lock(c) \/ Step(c)

Spec == Init /\ [][Next]_vars

(* A runnable goroutine runs, a request ends (the HTTP client times out      *)
(* after 15 s), and a sync.Mutex does not starve a waiter: after 1 ms of     *)
(* waiting it is handed over in the order of arrival.                        *)
Fairness == \A c \in Callers : WF_vars(Step(c)) /\ SF_vars(Lock(c))

FairSpec == Spec /\ Fairness

--------------------------------------------------------------------------------
(* token.go:81: "a burst mints one token, not N": GitHub is asked for a      *)
(* token of an installation only while the cache has none that is valid,     *)
(* also after the wait for the lock and for as long as the request runs.     *)
NoWastedMint ==
  \A c \in Callers : pc[c] \in {"mint", "store"} => ~Valid(cache[inst[c]])

(* Each refresh extends the cached token's life: an answer that was slow to  *)
(* arrive never replaces a token that expires later, nor one still valid.    *)
NeverShortens ==
  [][\A i \in Installations : cache'[i] # cache[i] /\ cache[i] # NoToken =>
       ~Valid(cache[i]) /\ cache'[i] > cache[i]]_vars

(* Every call returns, whatever fails while it waits or refreshes.           *)
EveryCallReturns == \A c \in Callers : pc[c] = "check" ~> pc[c] = "idle"

--------------------------------------------------------------------------------
(* The inductive invariant of TokenSourceProofs: a refresh holds its         *)
(* installation's lock, and the token it is about to store was issued when   *)
(* the cached one was no longer valid.                                       *)
Refreshing(c) == pc[c] \in {"recheck", "mint", "store", "unlock"}

LockIsOwn == \A c \in Callers : Refreshing(c) => held[inst[c]] = c

IssuedAfterExpiry ==
  \A c \in Callers : pc[c] = "store" =>
    /\ got[c] \in Nat
    /\ cache[inst[c]] = NoToken \/ got[c] + Skew >= cache[inst[c]] + TTL

IInv == TypeOK /\ LockIsOwn /\ NoWastedMint /\ IssuedAfterExpiry
================================================================================
