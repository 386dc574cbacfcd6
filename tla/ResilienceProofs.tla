-------------------------- MODULE ResilienceProofs --------------------------
(***************************************************************************)
(* The lock: HolderOwnsKey for any number of processes, callers, tokens    *)
(* and renewals.  The inductive invariant adds what makes a                *)
(* compare-and-delete harmless: the token of a lock that is held, or about *)
(* to be acquired, is its caller's alone, so that no retry or late delete  *)
(* carries it.                                                             *)
(*                                                                         *)
(* The breaker: TripsEarned for any number of calls and any thresholds.    *)
(* While the circuit is closed, its counter is the length of the run of    *)
(* failures that ends the history (Streak).                                *)
(***************************************************************************)
EXTENDS Resilience, Sequences, TLAPS

\* The caller has a token it has not given up.
Fresh(c) == call[c].pc # "idle"

Types ==
  /\ issued \in Nat
  /\ key \in [token : Nat, gen : Int]
  /\ passed \in [Tokens -> Nat]
  /\ call \in [Calls -> [pc : {"idle", "acquiring", "held", "releasing"},
                         lock : [token : Nat, gen : Int]]]
  /\ sweep \in [Procs -> [token : Nat, gen : Int]]
  /\ book \in [Procs -> [token : Nat, gen : Int]]

\* Tokens are generated in order and each has one caller.
Distinct ==
  /\ key.token <= issued /\ issued <= MaxTokens
  /\ \A c \in Calls : call[c].pc # "idle" => call[c].lock.token \in 1..issued
  /\ \A c, d \in Calls :
       c # d /\ call[c].pc # "idle" /\ call[d].pc # "idle"
         => call[c].lock.token # call[d].lock.token

\* Nobody is about to delete the key under a fresh token.
Unreleased ==
  /\ late \subseteq 0..issued
  /\ \A p \in Procs : sweep[p].token <= issued /\ book[p].token <= issued
  /\ \A c \in Calls : Fresh(c) =>
       /\ call[c].lock.token \notin late
       /\ \A p \in Procs : sweep[p].token # call[c].lock.token /\ book[p].token # call[c].lock.token

\* Redis and the holder agree on the deadline.
Covered ==
  \A c \in Calls :
    /\ call[c].pc = "acquiring" => key.token # call[c].lock.token
    /\ call[c].pc = "held" /\ key.token = call[c].lock.token => key.gen = call[c].lock.gen
    /\ call[c].pc = "held" /\ ~Lapsed(call[c].lock) => key.token = call[c].lock.token

IInv == Types /\ Distinct /\ Unreleased /\ Covered

\* No lock is held or sought at the start.
LEMMA Start == ASSUME Init PROVE IInv
<1> USE LockAssumption DEF Init, None, Idle
<1>1. Types
  BY SMTT(30) DEF Types
<1>2. Distinct /\ Unreleased /\ Covered
  BY SMTT(30) DEF Distinct, Unreleased, Covered, Fresh
<1> QED
  BY <1>1, <1>2, Zenon DEF IInv

\* Deleting the key under a token that is nobody's fresh one (RELEASE_SCRIPT)
\* takes nothing from a holder.
LEMMA DeleteHarmless ==
  ASSUME IInv, NEW t \in Nat, Delete(t), UNCHANGED <<issued, passed>>,
         call' \in [Calls -> [pc : {"idle", "acquiring", "held", "releasing"},
                              lock : [token : Nat, gen : Int]]],
         \A c \in Calls : call'[c] = call[c] \/ call'[c].pc \notin {"acquiring", "held"},
         \A c \in Calls : call'[c].pc = "held" => call[c].lock.token # t
  PROVE  Covered' /\ key' \in [token : Nat, gen : Int] /\ (key.token <= issued)'
<1>1. key' \in [token : Nat, gen : Int] /\ (key.token <= issued)'
  BY SMTT(30) DEF IInv, Types, Distinct, Delete, None
<1>2. ASSUME NEW c \in Calls, call'[c].pc = "acquiring" PROVE key'.token # call'[c].lock.token
  <2>1. call'[c] = call[c]
    BY <1>2, Zenon
  <2>2. call[c].lock.token \in 1..issued /\ key.token # call[c].lock.token
    BY <1>2, <2>1, Zenon DEF IInv, Distinct, Covered
  <2> QED
    BY <2>1, <2>2, SMTT(30) DEF Delete, None
<1>3. ASSUME NEW c \in Calls, call'[c].pc = "held"
      PROVE  key'.token = call'[c].lock.token => key'.gen = call'[c].lock.gen
  <2>1. call'[c] = call[c]
    BY <1>3, Zenon
  <2>2. call[c].lock.token \in 1..issued /\ issued \in Nat
    BY <1>3, <2>1, Zenon DEF IInv, Types, Distinct
  <2>3. key.token = call[c].lock.token => key.gen = call[c].lock.gen
    BY <1>3, <2>1, Zenon DEF IInv, Covered
  <2> QED
    BY <2>1, <2>2, <2>3, SMTT(30) DEF Delete, None
<1>4. ASSUME NEW c \in Calls, call'[c].pc = "held", ~Lapsed(call[c].lock)'
      PROVE  key'.token = call'[c].lock.token
  <2>1. call'[c] = call[c]
    BY <1>4, Zenon
  <2>2. ~Lapsed(call[c].lock)
    BY <1>4, <2>1, Zenon DEF Lapsed
  <2>3. key.token = call[c].lock.token
    BY <1>4, <2>1, <2>2, Zenon DEF IInv, Covered
  <2> QED
    BY <1>4, <2>1, <2>3, Zenon DEF Delete
<1> QED
  BY <1>1, <1>2, <1>3, <1>4, Zenon DEF Covered

-----------------------------------------------------------------------------
\* What Track and Forget leave in the map: nothing, what was there, or the lock
\* just released (trackUnconfirmedRelease, forgetUnconfirmedRelease).
LEMMA BookKept ==
  ASSUME Types, NEW p \in Procs, NEW lock \in [token : Nat, gen : Int],
         Track(p, lock) \/ Forget(p)
  PROVE  /\ book' \in [Procs -> [token : Nat, gen : Int]]
         /\ \A q \in Procs : book'[q] \in {book[q], None} \/ (Track(p, lock) /\ book'[q] = lock)
  BY SMTT(30) DEF Types, Track, Forget, None

\* Redis and the clock
LEMMA RedisStep ==
  ASSUME IInv, Expire \/ \E t \in Tokens : LateDelete(t) \/ Tick(t)
  PROVE  IInv'
<1>1. CASE Expire
  <2> USE <1>1 DEF Expire
  <2>1. Types' /\ Distinct' /\ Unreleased'
    BY SMTT(30) DEF IInv, Types, Distinct, Unreleased, Fresh, None
  <2>2. ASSUME NEW c \in Calls, call'[c].pc = "acquiring" PROVE key'.token # call'[c].lock.token
    BY <2>2, SMTT(30) DEF IInv, Distinct, None
  <2>3. ASSUME NEW c \in Calls, call'[c].pc = "held", ~Lapsed(call[c].lock)' PROVE FALSE
    <3>1. call[c].lock.token \in Tokens /\ ~Lapsed(call[c].lock) /\ call[c].lock.gen \in Int
      BY <2>3, LockAssumption, SMTT(30) DEF IInv, Distinct, Types, Lapsed, Tokens
    <3>2. key.token = call[c].lock.token /\ key.gen = call[c].lock.gen
      BY <3>1, <2>3, Zenon DEF IInv, Covered
    <3>3. passed[key.token] \in Nat /\ key.gen \in Int
      BY <3>1, <3>2, Zenon DEF IInv, Types
    <3> QED
      BY <3>1, <3>2, <3>3, Zenon DEF Lapsed
  <2>4. ASSUME NEW c \in Calls, call'[c].pc = "held" PROVE key'.token # call'[c].lock.token
    BY <2>4, SMTT(30) DEF IInv, Distinct, None
  <2> QED
    BY <2>1, <2>2, <2>3, <2>4, Zenon DEF IInv, Covered
<1>2. ASSUME NEW t \in Tokens, LateDelete(t) PROVE IInv'
  <2> USE <1>2 DEF LateDelete
  <2>0. t \in Nat /\ t # 0
    BY LockAssumption, SMTT(30) DEF Tokens
  <2>1. Covered' /\ key' \in [token : Nat, gen : Int] /\ (key.token <= issued)'
    <3>1. \A c \in Calls : call[c].pc = "held" => call[c].lock.token # t
      BY Zenon DEF IInv, Unreleased, Fresh
    <3>2. call \in [Calls -> [pc : {"idle", "acquiring", "held", "releasing"},
                             lock : [token : Nat, gen : Int]]]
      BY Zenon DEF IInv, Types
    <3> QED
      BY <2>0, <3>1, <3>2, DeleteHarmless, Zenon
  <2>2. Types' /\ Distinct' /\ Unreleased'
    BY <2>1, Zenon DEF IInv, Types, Distinct, Unreleased, Fresh
  <2> QED
    BY <2>1, <2>2, Zenon DEF IInv
<1>3. ASSUME NEW t \in Tokens, Tick(t) PROVE IInv'
  <2> USE <1>3 DEF Tick
  <2>1. Types' /\ Distinct' /\ Unreleased'
    BY SMTT(30) DEF IInv, Types, Distinct, Unreleased, Fresh
  <2>2. ASSUME NEW c \in Calls, call[c].pc = "held", ~Lapsed(call[c].lock)'
        PROVE  ~Lapsed(call[c].lock)
    <3>1. call[c].lock.token \in Tokens /\ call[c].lock.gen \in Int
      BY <2>2, LockAssumption, SMTT(30) DEF IInv, Distinct, Types, Tokens
    <3>2. passed[call[c].lock.token] \in Nat /\ passed'[call[c].lock.token] \in Nat
          /\ passed'[call[c].lock.token] >= passed[call[c].lock.token]
      <4>1. passed \in [Tokens -> Nat]
        BY Zenon DEF IInv, Types
      <4>2. \A u \in Tokens : passed'[u] = passed[u] \/ passed'[u] = passed[u] + 1
        BY <4>1, Zenon
      <4> QED
        BY <3>1, <4>1, <4>2, SMTT(30)
    <3> QED
      BY <2>2, <3>1, <3>2, SMTT(30) DEF Lapsed
  <2>3. Covered'
    BY <2>2, Zenon DEF IInv, Covered
  <2> QED
    BY <2>1, <2>3, Zenon DEF IInv
<1> QED
  BY <1>1, <1>2, <1>3, Zenon

-----------------------------------------------------------------------------
\* Taking, renewing and giving up the lock: each caller writes the key under
\* its own token only.
LEMMA HoldStep ==
  ASSUME IInv, NEW c \in Calls,
         Acquire(c) \/ Acquired(c) \/ AcquireFails(c) \/ Renew(c) \/ RenewFails(c) \/ Release(c)
  PROVE  IInv'
<1>0. /\ call[c].lock \in [token : Nat, gen : Int] /\ call[c].lock.token \in Nat
      /\ call[c].lock.gen \in Int /\ key.gen \in Int /\ key.token \in Nat /\ issued \in Nat
      /\ MaxTokens \in Nat
  BY LockAssumption, Zenon DEF IInv, Types
<1>1. CASE Acquire(c)
  <2> USE <1>1, <1>0 DEF Acquire
  <2>1. Types'
    BY SMTT(30) DEF IInv, Types
  <2>2. Distinct'
    BY SMTT(30) DEF IInv, Types, Distinct
  <2>3. Unreleased'
    <3>1. /\ late' \subseteq 0..issued'
          /\ \A p \in Procs : sweep'[p].token <= issued' /\ book'[p].token <= issued'
      BY SMTT(30) DEF IInv, Types, Unreleased
    <3>2. ASSUME NEW d \in Calls, Fresh(d)'
          PROVE  /\ call'[d].lock.token \notin late'
                 /\ \A p \in Procs : /\ sweep'[p].token # call'[d].lock.token
                                     /\ book'[p].token # call'[d].lock.token
      <4>1. CASE d = c
        <5>1. call'[d].lock.token = issued + 1
          BY <4>1, Zenon DEF IInv, Types
        <5>2. late \subseteq 0..issued
          BY Zenon DEF IInv, Unreleased
        <5>3. \A p \in Procs : /\ sweep[p].token <= issued /\ book[p].token <= issued
                               /\ sweep[p].token \in Nat /\ book[p].token \in Nat
          BY Zenon DEF IInv, Types, Unreleased
        <5> QED
          BY <5>1, <5>2, <5>3, SMTT(30)
      <4>2. CASE d # c
        BY <3>2, <4>2, Zenon DEF IInv, Types, Unreleased, Fresh
      <4> QED
        BY <4>1, <4>2, Zenon
    <3> QED
      BY <3>1, <3>2, Zenon DEF Unreleased
  <2>4. Covered'
    BY SMTT(30) DEF IInv, Types, Distinct, Covered, Lapsed
  <2> QED
    BY <2>1, <2>2, <2>3, <2>4, Zenon DEF IInv
<1>2. CASE Acquired(c) \/ AcquireFails(c)
  <2> USE <1>2, <1>0 DEF Acquired, AcquireFails, Free
  <2>1. Types'
    BY SMTT(30) DEF IInv, Types, Idle, None
  <2>0. \A d \in Calls : call'[d].pc # "idle" =>
          call[d].pc # "idle" /\ call'[d].lock = call[d].lock
    <3>1. \A d \in Calls : d # c => call'[d] = call[d]
      BY Zenon DEF IInv, Types
    <3>2. call'[c] = Idle \/ (call'[c].lock = call[c].lock /\ call[c].pc # "idle")
      BY SMTT(30) DEF IInv, Types
    <3> QED
      BY <3>1, <3>2, SMTT(30) DEF Idle
  <2>2. Distinct'
    <3>2. key'.token <= issued
      BY SMTT(30) DEF IInv, Distinct
    <3> QED
      BY <2>0, <3>2, ZenonT(40) DEF IInv, Distinct
  <2>3. Unreleased'
    <3>1. UNCHANGED <<issued, late, sweep, book>>
      OBVIOUS
    <3> HIDE <1>2 DEF Acquired, AcquireFails, Free
    <3> QED
      BY <2>0, <3>1, Zenon DEF IInv, Unreleased, Fresh
  <2>4. ASSUME NEW d \in Calls, call'[d].pc = "acquiring" PROVE key'.token # call'[d].lock.token
    <3>1. d # c /\ call'[d] = call[d]
      BY <2>4, SMTT(30) DEF IInv, Types, Idle
    <3> QED
      BY <2>4, <3>1, Zenon DEF IInv, Distinct, Covered
  <2>5. ASSUME NEW d \in Calls, call'[d].pc = "held"
        PROVE  key'.token = call'[d].lock.token => key'.gen = call'[d].lock.gen
    <3>1. CASE d = c
      BY <2>5, <3>1, SMTT(30) DEF IInv, Types, Idle
    <3>2. CASE d # c
      <4>1. call'[d] = call[d] /\ call[c].pc # "idle"
        BY <3>2, Zenon DEF IInv, Types
      <4>2. call[c].lock.token # call[d].lock.token
        BY <2>5, <3>2, <4>1, Zenon DEF IInv, Distinct
      <4>3. key.token = call[d].lock.token => key.gen = call[d].lock.gen
        BY <2>5, <4>1, Zenon DEF IInv, Covered
      <4> QED
        BY <4>1, <4>2, <4>3, Zenon
    <3> QED
      BY <3>1, <3>2, Zenon
  <2>6. ASSUME NEW d \in Calls, call'[d].pc = "held", ~Lapsed(call[d].lock)'
        PROVE  key'.token = call'[d].lock.token
    <3>1. CASE d = c
      BY <2>6, <3>1, SMTT(30) DEF IInv, Types, Idle
    <3>2. CASE d # c
      <4>1. call'[d] = call[d]
        BY <3>2, Zenon DEF IInv, Types
      <4>2. key.token = call[d].lock.token
        BY <2>6, <4>1, Zenon DEF IInv, Covered, Lapsed
      <4>3. key.token # 0
        BY <2>6, <4>1, <4>2, SMTT(30) DEF IInv, Distinct
      <4> QED
        BY <4>1, <4>2, <4>3, Zenon
    <3> QED
      BY <3>1, <3>2, Zenon
  <2> QED
    BY <2>1, <2>2, <2>3, <2>4, <2>5, <2>6, Zenon DEF IInv, Covered
<1>3. CASE Renew(c) \/ RenewFails(c)
  <2>a. \A lock \in [token : Nat, gen : Int] :
          /\ Later(lock) \in [token : Nat, gen : Int]
          /\ Later(lock).token = lock.token /\ Later(lock).gen = lock.gen + 1
    BY SMTT(30) DEF Later
  <2>b. key \in [token : Nat, gen : Int]
    BY Zenon DEF IInv, Types
  <2>c. Later(key) = [key EXCEPT !.gen = @ + 1]
    BY Zenon DEF Later
  <2> USE <1>3, <1>0, <2>a, <2>b, <2>c DEF Renew, RenewFails, Owned
  <2>d. /\ key' \in {key, Later(key)} /\ UNCHANGED <<issued, passed, book, sweep, late>>
        /\ \A d \in Calls : d # c => call'[d] = call[d]
        /\ call'[c] \in [pc : {"held", "releasing"}, lock : {call[c].lock, Later(call[c].lock)}]
    BY SMTT(30) DEF IInv, Types
  <2>e. /\ call[c].pc = "held"
        /\ call' \in [Calls -> [pc : {"idle", "acquiring", "held", "releasing"},
                                lock : [token : Nat, gen : Int]]]
    <3>1. call[c].pc = "held" /\ call' = [d \in Calls |-> call'[d]]
      BY Zenon DEF IInv, Types
    <3>2. call'[c] \in [pc : {"idle", "acquiring", "held", "releasing"}, lock : [token : Nat, gen : Int]]
      BY <2>d, SMTT(30) DEF IInv, Types
    <3>3. \A d \in Calls : call'[d] \in [pc : {"idle", "acquiring", "held", "releasing"},
                                        lock : [token : Nat, gen : Int]]
      <4> TAKE d \in Calls
      <4>1. call[d] \in [pc : {"idle", "acquiring", "held", "releasing"}, lock : [token : Nat, gen : Int]]
        BY Zenon DEF IInv, Types
      <4> QED
        BY <2>d, <3>2, <4>1, Zenon
    <3> QED
      BY <3>1, <3>3, Zenon
  <2>f. /\ \A d \in Calls : call'[d].lock.token = call[d].lock.token
        /\ \A d \in Calls : call'[d].pc # "idle" => call[d].pc # "idle"
        /\ \A d \in Calls : Fresh(d)' => Fresh(d)
    <3>1. call'[c].lock.token = call[c].lock.token
      BY <2>d, Zenon
    <3> QED
      BY <2>d, <2>e, <3>1, Zenon DEF Fresh
  <2>1. Types'
    BY <2>d, <2>e, Zenon DEF IInv, Types
  <2>2. Distinct' /\ Unreleased'
    <3>1. key'.token = key.token
      BY <2>d, Zenon
    <3> HIDE <1>3, <2>a, <2>b, <2>c DEF Renew, RenewFails, Owned
    <3>2. Distinct'
      <4>1. \A d, e \in Calls :
              d # e /\ call'[d].pc # "idle" /\ call'[e].pc # "idle"
                => call'[d].lock.token # call'[e].lock.token
        BY <2>f, Zenon DEF IInv, Distinct
      <4> QED
        BY <2>d, <2>f, <3>1, <4>1, Zenon DEF IInv, Distinct
    <3>3. Unreleased'
      BY <2>d, <2>f, ZenonT(40) DEF IInv, Unreleased
    <3> QED
      BY <3>2, <3>3, Zenon
  <2>3. key'.token = key.token /\ key'.gen \in Int /\ key'.gen >= key.gen
    BY SMTT(30) DEF IInv, Types
  <2>4. ASSUME NEW d \in Calls, call'[d].pc = "acquiring" PROVE key'.token # call'[d].lock.token
    <3>1. d # c /\ call'[d] = call[d]
      BY <2>4, <2>d, Zenon
    <3> QED
      BY <2>3, <2>4, <3>1, Zenon DEF IInv, Covered
  <2>5. ASSUME NEW d \in Calls, call'[d].pc = "held"
        PROVE  key'.token = call'[d].lock.token => key'.gen = call'[d].lock.gen
    <3>1. CASE d # c
      <4>1. call'[d] = call[d] /\ call[d].lock.gen \in Int
        BY <3>1, Zenon DEF IInv, Types
      <4>2. key.token = call[d].lock.token => key.gen = call[d].lock.gen
        BY <2>5, <4>1, Zenon DEF IInv, Covered
      <4>3. call[d].lock.token # call[c].lock.token
        BY <2>5, <2>e, <3>1, <4>1, Zenon DEF IInv, Distinct
      <4>4. key' = key \/ key.token = call[c].lock.token
        OBVIOUS
      <4> QED
        BY <2>3, <4>1, <4>2, <4>3, <4>4, Zenon
    <3>2. CASE d = c
      <4>1. Renew(c) /\ Owned(call[c].lock.token)
        BY <2>5, <3>2, SMTT(30) DEF IInv, Types
      <4>2. call'[c].lock = Later(call[c].lock) /\ key' = Later(key)
        BY <4>1, SMTT(30) DEF IInv, Types
      <4>3. key.gen = call[c].lock.gen
        BY <4>1, Zenon DEF IInv, Covered
      <4> QED
        BY <3>2, <4>2, <4>3, SMTT(30) DEF IInv, Types
    <3> QED
      BY <3>1, <3>2, Zenon
  <2>6. ASSUME NEW d \in Calls, call'[d].pc = "held", ~Lapsed(call[d].lock)'
        PROVE  key'.token = call'[d].lock.token
    <3>1. CASE d # c
      <4>1. call'[d] = call[d]
        BY <3>1, Zenon DEF IInv, Types
      <4>2. key.token = call[d].lock.token
        BY <2>6, <4>1, Zenon DEF IInv, Covered, Lapsed
      <4> QED
        BY <2>3, <4>1, <4>2, Zenon
    <3>2. CASE d = c
      <4>1. Renew(c) /\ Owned(call[c].lock.token)
        BY <2>6, <3>2, SMTT(30) DEF IInv, Types
      <4>2. call'[c].lock.token = call[c].lock.token
        BY <4>1, SMTT(30) DEF IInv, Types
      <4> QED
        BY <2>3, <3>2, <4>1, <4>2, Zenon
    <3> QED
      BY <3>1, <3>2, Zenon
  <2> QED
    BY <2>1, <2>2, <2>4, <2>5, <2>6, Zenon DEF IInv, Covered
<1>4. CASE Release(c)
  <2> USE <1>4, <1>0 DEF Release
  <2>1. Types' /\ Distinct' /\ Unreleased'
    BY ZenonT(40) DEF IInv, Types, Distinct, Unreleased, Fresh
  <2>2. Covered'
    BY Zenon DEF IInv, Types, Covered, Lapsed
  <2> QED
    BY <2>1, <2>2, Zenon DEF IInv
<1> QED
  BY <1>1, <1>2, <1>3, <1>4, Zenon

-----------------------------------------------------------------------------
\* A release, answered or not: the token was the caller's, who no longer holds
\* it.
LEMMA ReleaseStep ==
  ASSUME IInv, NEW c \in Calls, Released(c) \/ Unconfirmed(c)
  PROVE  IInv'
<1> DEFINE lock == call[c].lock
<1>0. /\ lock \in [token : Nat, gen : Int] /\ lock.token \in 1..issued /\ call[c].pc = "releasing"
      /\ Home[c] \in Procs /\ issued \in Nat
  BY LockAssumption, Zenon DEF IInv, Types, Distinct, Released, Unconfirmed
<1>1. /\ UNCHANGED <<issued, passed, sweep>> /\ call' = [call EXCEPT ![c] = Idle]
      /\ Delete(lock.token) \/ UNCHANGED key
      /\ late' \in {late, late \cup {lock.token}}
      /\ Track(Home[c], lock) \/ Forget(Home[c])
  BY Zenon DEF Released, Unconfirmed
<1>2. /\ call' \in [Calls -> [pc : {"idle", "acquiring", "held", "releasing"},
                              lock : [token : Nat, gen : Int]]]
      /\ call'[c] = Idle /\ \A d \in Calls : d # c => call'[d] = call[d]
  BY <1>1, SMTT(30) DEF IInv, Types, Idle, None
<1>3. \A d \in Calls : d # c /\ call[d].pc # "idle" => call[d].lock.token # lock.token
  BY <1>0, Zenon DEF IInv, Distinct
<1>4. /\ book' \in [Procs -> [token : Nat, gen : Int]]
      /\ \A q \in Procs : book'[q] \in {book[q], None, lock}
  BY <1>0, <1>1, BookKept, ZenonT(40) DEF IInv
<1> HIDE DEF lock
<1>5. Covered' /\ key' \in [token : Nat, gen : Int] /\ (key.token <= issued)'
  <2>1. CASE Delete(lock.token)
    <3>1. \A d \in Calls : call'[d] = call[d] \/ call'[d].pc \notin {"acquiring", "held"}
      BY <1>2, SMTT(30) DEF Idle
    <3>2. \A d \in Calls : call'[d].pc = "held" => call[d].lock.token # lock.token
      BY <1>2, <1>3, SMTT(30) DEF Idle
    <3>3. lock.token \in Nat
      BY <1>0, Zenon
    <3> QED
      BY <1>1, <1>2, <2>1, <3>1, <3>2, <3>3, DeleteHarmless, Zenon
  <2>2. CASE UNCHANGED key
    BY <1>1, <1>2, <2>2, Zenon DEF IInv, Types, Distinct, Covered, Lapsed, Idle
  <2> QED
    BY <1>1, <2>1, <2>2, Zenon
<1>6. Types'
  BY <1>1, <1>2, <1>4, <1>5, Zenon DEF IInv, Types
<1>7. Distinct'
  BY <1>1, <1>2, <1>5, ZenonT(40) DEF IInv, Distinct, Idle
<1>8. Unreleased'
  <2>1. late' \subseteq 0..issued'
    BY <1>0, <1>1, SMTT(30) DEF IInv, Unreleased
  <2>2. \A p \in Procs : sweep'[p].token <= issued' /\ book'[p].token <= issued'
    BY <1>0, <1>1, <1>4, SMTT(30) DEF IInv, Unreleased, None
  <2>3. ASSUME NEW d \in Calls, Fresh(d)'
        PROVE  /\ call'[d].lock.token \notin late'
               /\ \A p \in Procs : /\ sweep'[p].token # call'[d].lock.token
                                   /\ book'[p].token # call'[d].lock.token
    <3>1. d # c /\ call'[d] = call[d] /\ Fresh(d) /\ call[d].pc # "idle"
      BY <1>2, <2>3, SMTT(30) DEF Fresh, Idle
    <3>2. call[d].lock.token \in 1..issued /\ call[d].lock.token # lock.token
      BY <3>1, <1>3, Zenon DEF IInv, Distinct
    <3>3. call'[d].lock.token \notin late'
      BY <1>1, <3>1, <3>2, Zenon DEF IInv, Unreleased
    <3>4. \A p \in Procs : sweep[p].token # call[d].lock.token /\ book[p].token # call[d].lock.token
      BY <3>1, Zenon DEF IInv, Unreleased
    <3> QED
      BY <1>0, <1>1, <1>4, <3>1, <3>2, <3>3, <3>4, SMTT(30) DEF None
  <2> QED
    BY <2>1, <2>2, <2>3, Zenon DEF Unreleased
<1> QED
  BY <1>5, <1>6, <1>7, <1>8, Zenon DEF IInv

\* Retries and shutdown: the map's tokens are nobody's any more.
LEMMA SweepStep ==
  ASSUME IInv, NEW p \in Procs, SweepStart(p) \/ SweepEnd(p) \/ Shutdown(p)
  PROVE  IInv'
<1>0. UNCHANGED <<issued, passed, call>> /\ issued \in Nat
  BY Zenon DEF SweepStart, SweepEnd, Shutdown, IInv, Types
<1>1. /\ sweep' \in [Procs -> [token : Nat, gen : Int]] /\ book' \in [Procs -> [token : Nat, gen : Int]]
      /\ \A q \in Procs : sweep'[q] \in {None, sweep[q], book[q]} /\ book'[q] \in {None, book[q]}
  <2>1. CASE SweepStart(p)
    BY <2>1, Zenon DEF SweepStart, Forget, IInv, Types, None
  <2>2. CASE SweepEnd(p)
    BY <2>2, SMTT(30) DEF SweepEnd, Forget, IInv, Types, None
  <2>3. CASE Shutdown(p)
    BY <2>3, SMTT(30) DEF Shutdown, IInv, Types, None
  <2> QED
    BY <2>1, <2>2, <2>3, Zenon
<1>2. sweep[p].token \in Nat /\ sweep[p].token <= issued
  BY Zenon DEF IInv, Types, Unreleased
<1>3. /\ Delete(sweep[p].token) \/ UNCHANGED key
      /\ late' = late \/ (SweepEnd(p) /\ late' = late \cup {sweep[p].token})
  BY Zenon DEF SweepStart, SweepEnd, Shutdown
<1>4. \A c \in Calls : Fresh(c) => \A q \in Procs : call[c].lock.token \notin {sweep[q].token, book[q].token}
  BY Zenon DEF IInv, Unreleased
<1>5. Covered' /\ key' \in [token : Nat, gen : Int] /\ (key.token <= issued)'
  <2>1. CASE Delete(sweep[p].token)
    <3>1. \A c \in Calls : call[c].pc = "held" => call[c].lock.token # sweep[p].token
      BY <1>4, Zenon DEF Fresh
    <3>2. call \in [Calls -> [pc : {"idle", "acquiring", "held", "releasing"},
                             lock : [token : Nat, gen : Int]]]
      BY Zenon DEF IInv, Types
    <3> QED
      BY <1>0, <1>2, <2>1, <3>1, <3>2, DeleteHarmless, Zenon
  <2>2. CASE UNCHANGED key
    BY <1>0, <2>2, Zenon DEF IInv, Types, Distinct, Covered, Lapsed
  <2> QED
    BY <1>3, <2>1, <2>2, Zenon
<1>6. Types' /\ Distinct'
  BY <1>0, <1>1, <1>5, Zenon DEF IInv, Types, Distinct
<1>7. Unreleased'
  <2>1. late' \subseteq 0..issued'
    <3>1. late \subseteq 0..issued /\ sweep[p].token \in 0..issued
      BY <1>0, <1>2, SMTT(30) DEF IInv, Unreleased
    <3> QED
      BY <1>0, <1>3, <3>1, Zenon
  <2>2. \A q \in Procs : sweep'[q].token <= issued' /\ book'[q].token <= issued'
    BY <1>0, <1>1, SMTT(30) DEF IInv, Unreleased, None
  <2>3. ASSUME NEW c \in Calls, Fresh(c)
        PROVE  /\ call[c].lock.token \notin late'
               /\ \A q \in Procs : /\ sweep'[q].token # call[c].lock.token
                                   /\ book'[q].token # call[c].lock.token
    <3>1. call[c].lock.token \in 1..issued /\ call[c].lock.token \notin late
      BY <2>3, Zenon DEF IInv, Distinct, Unreleased, Fresh
    <3> QED
      BY <1>1, <1>3, <1>4, <2>3, <3>1, SMTT(30) DEF None
  <2>4. \A c \in Calls : Fresh(c)' <=> Fresh(c)
    BY <1>0, Zenon DEF Fresh
  <2> QED
    BY <1>0, <2>1, <2>2, <2>3, <2>4, Zenon DEF Unreleased
<1> QED
  BY <1>5, <1>6, <1>7, Zenon DEF IInv

-----------------------------------------------------------------------------
\* The strengthening is inductive.
LEMMA Invariance == Spec => []IInv
<1>1. ASSUME IInv, [Next]_vars PROVE IInv'
  <2>1. CASE UNCHANGED vars
    BY <1>1, <2>1, Zenon DEF vars, IInv, Types, Distinct, Unreleased, Covered, Fresh, Lapsed
  <2>2. CASE Next
    BY <1>1, <2>2, RedisStep, HoldStep, ReleaseStep, SweepStep, Zenon DEF Next, CallStep
  <2> QED
    BY <1>1, <2>1, <2>2, Zenon
<1> QED
  BY Start, <1>1, PTL DEF Spec

\* Until the deadline it knows of, a caller that holds the lock owns the Redis
\* key, whatever releases, retries and late deletes are under way.
THEOREM HolderOwnsKeyHolds == Spec => []HolderOwnsKey
<1>1. IInv => HolderOwnsKey
  BY Zenon DEF IInv, Covered, HolderOwnsKey
<1> QED
  BY Invariance, <1>1, PTL

\* The switches of the retry timer stay switches.
LEMMA FlagStep ==
  ASSUME TypeOK, [Next]_vars
  PROVE  timer' \in [Procs -> BOOLEAN] /\ enabled' \in [Procs -> BOOLEAN]
<1>0. timer \in [Procs -> BOOLEAN] /\ enabled \in [Procs -> BOOLEAN] /\ \A c \in Calls : Home[c] \in Procs
  BY LockAssumption, Zenon DEF TypeOK
<1>1. ASSUME NEW p \in Procs, NEW v \in BOOLEAN PROVE [timer EXCEPT ![p] = v] \in [Procs -> BOOLEAN]
  BY <1>0, Zenon
<1>2. ASSUME NEW p \in Procs, Forget(p) PROVE timer' \in [Procs -> BOOLEAN]
  <2>1. (timer[p] /\ book[p] = None) \in BOOLEAN
    BY Zenon
  <2> QED
    BY <1>1, <1>2, <2>1, Zenon DEF Forget
<1>3. ASSUME NEW c \in Calls, Unconfirmed(c) PROVE timer' \in [Procs -> BOOLEAN]
  <2>1. Home[c] \in Procs /\ Track(Home[c], call[c].lock)
    BY <1>0, <1>3, Zenon DEF Unconfirmed
  <2>2. TRUE \in BOOLEAN
    OBVIOUS
  <2> QED
    BY <1>0, <1>1, <1>2, <2>1, <2>2, Zenon DEF Track
<1>4. ASSUME NEW c \in Calls, CallStep(c)
      PROVE  timer' \in [Procs -> BOOLEAN] /\ enabled' \in [Procs -> BOOLEAN]
  BY <1>0, <1>2, <1>3, <1>4, Zenon
  DEF CallStep, Acquire, Acquired, AcquireFails, Renew, RenewFails, Release, Released, Unconfirmed
<1>5. ASSUME NEW p \in Procs, SweepStart(p) \/ SweepEnd(p)
      PROVE  timer' \in [Procs -> BOOLEAN] /\ enabled' \in [Procs -> BOOLEAN]
  BY <1>0, <1>2, <1>5, Zenon DEF SweepStart, SweepEnd
<1>6. ASSUME NEW p \in Procs, Shutdown(p)
      PROVE  timer' \in [Procs -> BOOLEAN] /\ enabled' \in [Procs -> BOOLEAN]
  BY <1>0, <1>6, Zenon DEF Shutdown
<1>7. CASE UNCHANGED <<timer, enabled>>
  BY <1>0, <1>7, Zenon
<1> QED
  BY <1>4, <1>5, <1>6, <1>7, Zenon DEF Next, Expire, LateDelete, Tick, vars

CallTypes == [Calls -> [pc : {"idle", "acquiring", "held", "releasing"}, lock : Entry]]

\* An entry of the map that has a token
Booked == {None} \cup {e \in Entry : e.token # 0}

\* What TypeOK says beside the switches
Ranges ==
  /\ issued \in 0..MaxTokens /\ key \in Entry /\ passed \in [Tokens -> 0..MaxRenewals + 1]
  /\ call \in CallTypes /\ book \in [Procs -> Booked] /\ sweep \in [Procs -> Booked]
  /\ late \subseteq 1..issued

\* Deadlines and tokens stay in their ranges: a key is extended only as far as a
\* holder that may still renew it has asked for.
LEMMA RangeStep ==
  ASSUME Ranges, IInv, [Next]_vars
  PROVE  Ranges'
<1> USE LockAssumption
<1>0. None \in Entry /\ None \in Booked /\ Idle \in [pc : {"idle", "acquiring", "held", "releasing"}, lock : Entry]
  BY SMTT(30) DEF None, Idle, Entry, Booked
<1>1. ASSUME NEW t PROVE Delete(t) => key' \in Entry
  BY <1>0, Zenon DEF Delete, Ranges
<1>2. ASSUME NEW c \in Calls PROVE call[c].lock \in Entry
  BY Zenon DEF Ranges, CallTypes
<1>3. ASSUME NEW p \in Procs, Forget(p) PROVE book' \in [Procs -> Booked]
  BY <1>0, <1>3, Zenon DEF Forget, Ranges
<1>4. CASE UNCHANGED vars
  BY <1>4, Zenon DEF vars, Ranges
<1>5. CASE Expire
  BY <1>0, <1>5, Zenon DEF Expire, Ranges
<1>6. ASSUME NEW t \in Tokens, LateDelete(t) PROVE Ranges'
  BY <1>1, <1>6, Zenon DEF LateDelete, Ranges
<1>7. ASSUME NEW t \in Tokens, Tick(t) PROVE Ranges'
  <2>1. passed[t] \in 0..MaxRenewals
    BY <1>7, SMTT(30) DEF Tick, Ranges
  <2>2. passed' \in [Tokens -> 0..MaxRenewals + 1]
    BY <1>7, <2>1, SMTT(30) DEF Tick, Ranges
  <2> QED
    BY <1>7, <2>2, Zenon DEF Tick, Ranges
<1>8. ASSUME NEW c \in Calls, CallStep(c) PROVE Ranges'
  <2>1. CASE Acquire(c)
    <3>1. [token |-> issued + 1, gen |-> 0] \in Entry /\ issued' \in 0..MaxTokens /\ late' \subseteq 1..issued'
      BY <2>1, SMTT(30) DEF Acquire, Entry, Ranges
    <3> QED
      BY <2>1, <3>1, Zenon DEF Acquire, Ranges, CallTypes
  <2>2. CASE Acquired(c) \/ AcquireFails(c)
    BY <1>0, <1>2, <2>2, SMTT(30) DEF Acquired, AcquireFails, Ranges, CallTypes
  <2>3. CASE Renew(c) \/ RenewFails(c)
    <3>1. call[c].pc = "held" /\ call[c].lock.gen < MaxRenewals
      BY <2>3, Zenon DEF Renew, RenewFails
    <3>2. key.token = call[c].lock.token => key.gen = call[c].lock.gen
      BY <3>1, Zenon DEF IInv, Covered
    <3>3. Later(call[c].lock) \in Entry /\ (key.token = call[c].lock.token => Later(key) \in Entry)
      BY <1>2, <3>1, <3>2, SMTT(30) DEF Later, Ranges, Entry
    <3>4. Later(key) = [key EXCEPT !.gen = @ + 1]
      BY Zenon DEF Later
    <3>5. key' \in Entry
      BY <2>3, <3>3, <3>4, Zenon DEF Renew, RenewFails, Owned, Ranges
    <3>6. call' \in CallTypes
      BY <2>3, <3>3, ZenonT(40) DEF Renew, RenewFails, Ranges, CallTypes
    <3> QED
      BY <2>3, <3>5, <3>6, Zenon DEF Renew, RenewFails, Ranges
  <2>4. CASE Release(c)
    BY <2>4, Zenon DEF Release, Ranges, CallTypes
  <2>5. CASE Released(c) \/ Unconfirmed(c)
    <3>1. call[c].lock.token \in 1..issued /\ Home[c] \in Procs
      BY <2>5, Zenon DEF Released, Unconfirmed, IInv, Distinct
    <3>2. call[c].lock \in Booked
      BY <1>2, <3>1, SMTT(30) DEF Booked
    <3>6. book' \in [Procs -> Booked]
      BY <1>3, <3>2, <2>5, <3>1, Zenon DEF Released, Unconfirmed, Track, Ranges
    <3>3. key' \in Entry
      BY <1>1, <2>5, Zenon DEF Released, Unconfirmed, Ranges
    <3>4. late' \subseteq 1..issued
      BY <2>5, <3>1, Zenon DEF Released, Unconfirmed, Ranges
    <3>5. call' \in CallTypes
      BY <1>0, <2>5, Zenon DEF Released, Unconfirmed, Ranges, CallTypes
    <3> QED
      BY <2>5, <3>3, <3>4, <3>5, <3>6, Zenon DEF Released, Unconfirmed, Ranges
  <2> QED
    BY <1>8, <2>1, <2>2, <2>3, <2>4, <2>5, Zenon DEF CallStep
<1>9. ASSUME NEW p \in Procs, SweepStart(p) PROVE Ranges'
  BY <1>3, <1>9, Zenon DEF SweepStart, Ranges
<1>10. ASSUME NEW p \in Procs, SweepEnd(p) PROVE Ranges'
  <2>1. sweep[p].token \in 1..issued
    <3>1. sweep[p] \in Entry /\ sweep[p].token # 0 /\ sweep[p].token <= issued
      BY <1>10, Zenon DEF SweepEnd, IInv, Unreleased, Ranges, Booked
    <3> QED
      BY <3>1, SMTT(30) DEF Entry, Ranges
  <2>2. late' \subseteq 1..issued /\ key' \in Entry
    BY <1>1, <1>10, <2>1, Zenon DEF SweepEnd, Ranges
  <2>3. book' \in [Procs -> Booked] /\ sweep' \in [Procs -> Booked]
    BY <1>0, <1>3, <1>10, Zenon DEF SweepEnd, Ranges
  <2> QED
    BY <1>10, <2>2, <2>3, Zenon DEF SweepEnd, Ranges
<1>11. ASSUME NEW p \in Procs, Shutdown(p) PROVE Ranges'
  BY <1>0, <1>11, Zenon DEF Shutdown, Ranges
<1> QED
  BY <1>4, <1>5, <1>6, <1>7, <1>8, <1>9, <1>10, <1>11, Zenon DEF Next

\* Every deadline, token and map entry keeps its type; in particular Redis never
\* extends a key further than its holder asked for.
THEOREM TypeHolds == Spec => []TypeOK
<1> DEFINE Flags == timer \in [Procs -> BOOLEAN] /\ enabled \in [Procs -> BOOLEAN]
<1>1. ASSUME Init PROVE Ranges /\ Flags
  <2>1. Ranges
    BY <1>1, LockAssumption, SMTT(30) DEF Init, Ranges, CallTypes, Entry, Booked, None, Idle, Tokens
  <2>2. Flags
    BY <1>1, Zenon DEF Init
  <2> QED
    BY <2>1, <2>2, Zenon
<1>2. Ranges /\ Flags => TypeOK
  <2>1. Booked \subseteq Entry
    BY LockAssumption, SMTT(30) DEF Booked, None, Entry
  <2> QED
    BY <2>1, Zenon DEF Ranges, TypeOK, CallTypes
<1>3. ASSUME Ranges, Flags, IInv, [Next]_vars PROVE Ranges' /\ Flags'
  BY <1>2, <1>3, RangeStep, FlagStep, Zenon
<1> HIDE DEF Flags
<1> QED
  BY <1>1, <1>2, <1>3, Invariance, PTL DEF Spec

\* Two callers never hold the lock at once, of one process or of two, before
\* one of them has outlived its deadline.
THEOREM MutualExclusion ==
  Spec => [](\A c, d \in Calls :
               /\ call[c].pc = "held" /\ ~Lapsed(call[c].lock)
               /\ call[d].pc = "held" /\ ~Lapsed(call[d].lock)
               => c = d)
<1>1. IInv => \A c, d \in Calls :
               /\ call[c].pc = "held" /\ ~Lapsed(call[c].lock)
               /\ call[d].pc = "held" /\ ~Lapsed(call[d].lock)
               => c = d
  BY Zenon DEF IInv, Covered, Distinct
<1> QED
  BY Invariance, <1>1, PTL

\* An unconfirmed release leaves the map while its key exists only by shutdown or
\* through the end of another release of the key.
THEOREM RetainedHolds == Spec => Retained
<1>1. ASSUME TypeOK, IInv, [Next]_vars, NEW p \in Procs, book[p].token # 0, book'[p] # book[p],
             key'.token = book[p].token, ~Lapsed(book[p])
      PROVE  \/ ~enabled'[p]
             \/ \E c \in Calls : /\ Home[c] = p /\ call[c].lock.token # book[p].token
                                 /\ call[c].pc = "releasing" /\ call'[c].pc = "idle"
             \/ sweep[p].token # book[p].token /\ sweep'[p] # sweep[p]
  <2> USE <1>1 DEF IInv, Types
  <2>1. ASSUME NEW c \in Calls, Released(c) \/ Unconfirmed(c)
        PROVE  /\ Home[c] = p /\ call[c].lock.token # book[p].token
               /\ call[c].pc = "releasing" /\ call'[c].pc = "idle"
    <3>1. Fresh(c) /\ call[c].pc = "releasing" /\ call'[c].pc = "idle"
      BY <2>1, SMTT(30) DEF Released, Unconfirmed, Fresh, Idle
    <3>2. Home[c] = p
      BY <2>1, Zenon DEF Released, Unconfirmed, Track, Forget
    <3>3. call[c].lock.token # book[p].token
      BY <3>1, Zenon DEF Unreleased
    <3> QED
      BY <3>1, <3>2, <3>3, Zenon
  <2>2. ASSUME NEW q \in Procs, SweepEnd(q) PROVE sweep[p].token # book[p].token /\ sweep'[p] # sweep[p]
    <3>1. q = p /\ Delete(sweep[p].token) /\ sweep[p] # None /\ sweep'[p] = None
      BY <2>2, Zenon DEF SweepEnd, Forget
    <3> QED
      BY <3>1, Zenon DEF Delete, None
  <2>3. ASSUME NEW q \in Procs, SweepStart(q) PROVE FALSE
    BY <2>3, Zenon DEF SweepStart, Forget
  <2>4. ASSUME NEW q \in Procs, Shutdown(q) PROVE ~enabled'[p]
    <3>1. q = p /\ enabled' = [enabled EXCEPT ![q] = FALSE] /\ enabled \in [Procs -> BOOLEAN]
      BY <2>4, Zenon DEF Shutdown, TypeOK
    <3> QED
      BY <3>1, Zenon
  <2>5. ASSUME book' = book PROVE FALSE
    BY <2>5, Zenon
  <2> QED
    BY <2>1, <2>2, <2>3, <2>4, <2>5, Zenon
    DEF Next, CallStep, vars, Expire, LateDelete, Tick, Acquire, Acquired, AcquireFails, Renew,
        RenewFails, Release
<1>2. ASSUME TypeOK, IInv, [Next]_vars
      PROVE  [\A p \in Procs :
               /\ book[p].token # 0 /\ book'[p] # book[p]
               /\ key'.token = book[p].token /\ ~Lapsed(book[p])
               => \/ ~enabled'[p]
                  \/ \E c \in Calls : /\ Home[c] = p /\ call[c].lock.token # book[p].token
                                      /\ call[c].pc = "releasing" /\ call'[c].pc = "idle"
                  \/ sweep[p].token # book[p].token /\ sweep'[p] # sweep[p]]_vars
  BY <1>1, <1>2, Zenon
<1> QED
  BY <1>2, Invariance, TypeHolds, PTL DEF Spec, Retained

-----------------------------------------------------------------------------
\* While the circuit is closed, the counter of failures is the length of the
\* run of failures that ends the history.
Streak ==
  /\ outcomes \in Seq({"ok", "failed"}) /\ Len(outcomes) <= FailureThreshold
  /\ state = "closed" =>
       /\ failures < FailureThreshold /\ failures <= Len(outcomes)
       /\ \A i \in 1..Len(outcomes) : i > Len(outcomes) - failures => outcomes[i] = "failed"

Counters ==
  /\ state \in {"closed", "open", "half-open"}
  /\ failures \in 0..FailureThreshold /\ successes \in 0..SuccessThreshold

CallsOK ==
  /\ due \in BOOLEAN /\ healthy \in BOOLEAN
  /\ running \subseteq Callers /\ doomed \subseteq running

\* Recent forgets the oldest outcome at most: the new one is the last, and the
\* others are those of before, at the same distance from the end.
LEMMA RecentShape ==
  ASSUME NEW s \in Seq({"ok", "failed"}), Len(s) <= FailureThreshold,
         NEW x \in {"ok", "failed"}
  PROVE  LET r == Breaker!Recent(s, x)
         IN  /\ r \in Seq({"ok", "failed"}) /\ Len(r) <= FailureThreshold
             /\ Len(r) = Len(s) + 1 \/ (Len(s) = FailureThreshold /\ Len(r) = FailureThreshold)
             /\ Len(r) > 0 /\ r[Len(r)] = x
             /\ \A i \in 1..Len(r) - 1 : r[i] = s[i + Len(s) + 1 - Len(r)]
<1> DEFINE longer == Append(s, x)
           r == Breaker!Recent(s, x)
<1>1. /\ longer \in Seq({"ok", "failed"}) /\ Len(longer) = Len(s) + 1
      /\ longer[Len(s) + 1] = x /\ \A i \in 1..Len(s) : longer[i] = s[i]
      /\ Len(s) \in Nat
  BY SMTT(30)
<1> HIDE DEF longer
<1>2. CASE Len(longer) > FailureThreshold
  <2>1. r = Tail(longer)
    BY <1>2, Zenon DEF Breaker!Recent, longer
  <2>2. /\ Tail(longer) \in Seq({"ok", "failed"}) /\ Len(Tail(longer)) = Len(s)
        /\ \A i \in 1..Len(s) : Tail(longer)[i] = longer[i + 1]
    BY <1>1, SMTT(30)
  <2> HIDE DEF r
  <2>3. Len(s) = FailureThreshold /\ Len(s) > 0
    BY <1>1, <1>2, BreakerAssumption, SMTT(30)
  <2>4. /\ Len(r) = Len(s) /\ r \in Seq({"ok", "failed"})
        /\ \A i \in 1..Len(s) : r[i] = longer[i + 1]
    BY <2>1, <2>2, Zenon
  <2> QED BY <1>1, <2>3, <2>4, SMTT(30) DEF r
<1>3. CASE ~(Len(longer) > FailureThreshold)
  <2>1. r = longer
    BY <1>3, Zenon DEF Breaker!Recent, longer
  <2> HIDE DEF r
  <2> QED BY <1>1, <1>3, <2>1, BreakerAssumption, SMTT(30) DEF r
<1> QED BY <1>2, <1>3

\* A new breaker is closed and has seen nothing.
LEMMA BreakerStart ==
  ASSUME Breaker!Init
  PROVE  Streak /\ Counters /\ CallsOK
<1>1. Streak
  BY BreakerAssumption, SMTT(30) DEF Breaker!Init, Streak
<1>2. Counters
  BY BreakerAssumption, SMTT(30) DEF Breaker!Init, Counters
<1>3. CallsOK
  BY Zenon DEF Breaker!Init, CallsOK
<1> QED BY <1>1, <1>2, <1>3, Zenon

\* Closing starts the count again (reset, onSuccess).
LEMMA CloseStreak ==
  ASSUME Breaker!Close
  PROVE  Streak' /\ Counters'
<1>1. state' = "closed" /\ failures' = 0 /\ successes' = 0 /\ outcomes' = << >>
  BY Zenon DEF Breaker!Close
<1> QED BY <1>1, BreakerAssumption, SMTT(30) DEF Streak, Counters

\* onSuccess: a success ends the run of a closed circuit.
LEMMA SucceedStreak ==
  ASSUME Streak, Counters, NEW c, Breaker!Succeed(c)
  PROVE  Streak' /\ Counters' /\ (state' = "open" => state = "open")
<1>1. CASE state = "half-open" /\ successes + 1 >= SuccessThreshold
  <2>1. Breaker!Close
    BY <1>1, Zenon DEF Breaker!Succeed
  <2>2. state' = "closed"
    BY <2>1, Zenon DEF Breaker!Close
  <2> QED BY <2>1, <2>2, CloseStreak, Zenon
<1>2. CASE ~(state = "half-open" /\ successes + 1 >= SuccessThreshold)
  <2>1. /\ successes' = Breaker!Capped(successes + 1, SuccessThreshold)
        /\ failures' = IF state = "closed" THEN 0 ELSE failures
        /\ outcomes' = IF state = "closed" THEN Breaker!Recent(outcomes, "ok") ELSE outcomes
        /\ state' = state
    BY <1>2, Zenon DEF Breaker!Succeed
  <2>2. successes' \in 0..SuccessThreshold
    BY <2>1, BreakerAssumption, SMTT(30) DEF Counters, Breaker!Capped
  <2>3. CASE state = "closed"
    <3>1. PICK r : r = Breaker!Recent(outcomes, "ok")
      BY Zenon
    <3>2. r \in Seq({"ok", "failed"}) /\ Len(r) <= FailureThreshold
      BY <3>1, RecentShape, SMTT(30) DEF Streak
    <3>3. outcomes' = r /\ failures' = 0 /\ state' = "closed"
      BY <2>1, <2>3, <3>1, Zenon
    <3> QED BY <2>2, <3>2, <3>3, BreakerAssumption, SMTT(30) DEF Streak, Counters
  <2>4. CASE state # "closed"
    <3>1. failures' = failures /\ outcomes' = outcomes
      BY <2>1, <2>4, Zenon
    <3> QED BY <2>1, <2>2, <2>4, <3>1, Zenon DEF Streak, Counters
  <2> QED BY <2>3, <2>4
<1> QED BY <1>1, <1>2

\* onFailure: a failure of a closed circuit makes the run longer by one, and
\* the circuit opens exactly when it is FailureThreshold long.
LEMMA FailStreak ==
  ASSUME Streak, Counters, NEW c, Breaker!Fail(c)
  PROVE  /\ Streak' /\ Counters'
         /\ state = "closed" /\ state' = "open" =>
              /\ Len(outcomes') = FailureThreshold
              /\ \A i \in 1..FailureThreshold : outcomes'[i] = "failed"
<1>1. /\ failures' = Breaker!Capped(failures + 1, FailureThreshold)
      /\ outcomes' = IF state = "closed" THEN Breaker!Recent(outcomes, "failed") ELSE outcomes
      /\ IF state = "half-open" \/ (state = "closed" /\ failures + 1 >= FailureThreshold)
           THEN state' = "open" /\ successes' = IF state = "half-open" THEN 0 ELSE successes
           ELSE state' = state /\ successes' = successes
  BY Zenon DEF Breaker!Fail
<1>2. failures \in 0..FailureThreshold /\ successes \in 0..SuccessThreshold
  BY Zenon DEF Counters
<1>3. Counters'
  <2>1. failures' \in 0..FailureThreshold
    BY <1>1, <1>2, BreakerAssumption, SMTT(30) DEF Breaker!Capped
  <2>2. successes' \in 0..SuccessThreshold
    BY <1>1, <1>2, BreakerAssumption, SMTT(30)
  <2>3. state' \in {"closed", "open", "half-open"}
    BY <1>1, Zenon DEF Counters
  <2> QED BY <2>1, <2>2, <2>3, Zenon DEF Counters
<1>4. CASE state = "closed"
  <2>1. /\ failures < FailureThreshold /\ failures <= Len(outcomes)
        /\ outcomes \in Seq({"ok", "failed"}) /\ Len(outcomes) <= FailureThreshold
        /\ \A i \in 1..Len(outcomes) : i > Len(outcomes) - failures => outcomes[i] = "failed"
        /\ Len(outcomes) \in Nat
    BY <1>4, SMTT(30) DEF Streak
  <2>2. PICK r : r = Breaker!Recent(outcomes, "failed")
    BY Zenon
  <2>3. /\ r \in Seq({"ok", "failed"}) /\ Len(r) <= FailureThreshold
        /\ \/ Len(r) = Len(outcomes) + 1
           \/ Len(outcomes) = FailureThreshold /\ Len(r) = FailureThreshold
        /\ Len(r) > 0 /\ r[Len(r)] = "failed"
        /\ \A i \in 1..Len(r) - 1 : r[i] = outcomes[i + Len(outcomes) + 1 - Len(r)]
        /\ Len(r) \in Nat
    BY <2>1, <2>2, RecentShape, SMTT(30)
  <2>4. failures + 1 <= Len(r)
    BY <1>2, <2>1, <2>3, BreakerAssumption, SMTT(30)
  <2>5. ASSUME NEW i \in 1..Len(r), i > Len(r) - (failures + 1)
        PROVE  r[i] = "failed"
    <3>1. CASE i = Len(r)
      BY <2>3, <3>1, Zenon
    <3>2. CASE i # Len(r)
      <4>1. i \in 1..Len(r) - 1
        BY <2>3, <2>5, <3>2, SMTT(30)
      <4>2. PICK j : j = i + Len(outcomes) + 1 - Len(r)
        BY Zenon
      <4>3. j \in 1..Len(outcomes) /\ j > Len(outcomes) - failures
        BY <1>2, <2>1, <2>3, <2>5, <4>1, <4>2, SMTT(30)
      <4> QED BY <2>1, <2>3, <4>1, <4>2, <4>3, Zenon
    <3> QED BY <3>1, <3>2
  <2>6. outcomes' = r /\ failures' = failures + 1
    <3>1. failures' = failures + 1
      BY <1>1, <1>2, <2>1, BreakerAssumption, SMTT(30) DEF Breaker!Capped
    <3> QED BY <1>1, <1>4, <2>2, <3>1, Zenon
  <2>7. CASE failures + 1 >= FailureThreshold
    <3>1. state' = "open" /\ state' # "closed"
      BY <1>1, <1>4, <2>7, SMTT(30)
    <3>2. Len(r) = FailureThreshold /\ failures + 1 = FailureThreshold
      BY <1>2, <2>1, <2>3, <2>4, <2>7, BreakerAssumption, SMTT(30)
    <3>3. \A i \in 1..FailureThreshold : r[i] = "failed"
      <4> TAKE i \in 1..FailureThreshold
      <4>1. i \in 1..Len(r) /\ i > Len(r) - (failures + 1)
        BY <2>3, <3>2, SMTT(30)
      <4> QED BY <2>5, <4>1, Zenon
    <3>4. Streak'
      BY <2>3, <2>6, <3>1, Zenon DEF Streak
    <3> QED BY <1>3, <2>6, <3>2, <3>3, <3>4, Zenon
  <2>8. CASE ~(failures + 1 >= FailureThreshold)
    <3>1. state' = "closed" /\ state' # "open"
      BY <1>1, <1>4, <2>8, SMTT(30)
    <3>2. failures' < FailureThreshold /\ failures' <= Len(r)
      BY <1>2, <2>4, <2>6, <2>8, BreakerAssumption, SMTT(30)
    <3>3. \A i \in 1..Len(outcomes') : i > Len(outcomes') - failures' => outcomes'[i] = "failed"
      BY <2>5, <2>6, Zenon
    <3>4. Streak'
      BY <2>3, <2>6, <3>2, <3>3, Zenon DEF Streak
    <3> QED BY <1>3, <3>1, <3>4, Zenon
  <2> QED BY <2>7, <2>8
<1>5. CASE state # "closed"
  <2>1. state' # "closed" /\ outcomes' = outcomes
    BY <1>1, <1>5, SMTT(30)
  <2> QED BY <1>3, <1>5, <2>1, Zenon DEF Streak
<1> QED BY <1>4, <1>5

\* One step of the breaker: the counter keeps its meaning, and a trip is earned.
LEMMA BreakerStep ==
  ASSUME Streak, Counters, CallsOK, [Breaker!Next]_(Breaker!vars)
  PROVE  /\ Streak' /\ Counters' /\ CallsOK'
         /\ state = "closed" /\ state' = "open" =>
              /\ Len(outcomes') = FailureThreshold
              /\ \A i \in 1..FailureThreshold : outcomes'[i] = "failed"
<1>1. ASSUME NEW c \in Callers, Breaker!Begin(c)
      PROVE  Streak' /\ Counters' /\ CallsOK' /\ ~(state = "closed" /\ state' = "open")
  <2>1. /\ UNCHANGED <<failures, due, healthy, outcomes>>
        /\ running' = running \cup {c} /\ (doomed' = doomed \/ doomed' = doomed \cup {c})
    BY <1>1, Zenon DEF Breaker!Begin
  <2>2. \/ state' = state /\ successes' = successes
        \/ state = "open" /\ state' = "half-open" /\ successes' = 0
    BY <1>1, Zenon DEF Breaker!Begin, Breaker!Admit
  <2>3. CallsOK'
    BY <2>1, Zenon DEF CallsOK
  <2>4. Streak' /\ ~(state = "closed" /\ state' = "open")
    <3>1. state' = "closed" => state = "closed"
      BY <2>2, Zenon
    <3> QED BY <2>1, <2>2, <3>1, Zenon DEF Streak
  <2>5. Counters'
    BY <2>1, <2>2, BreakerAssumption, SMTT(30) DEF Counters
  <2> QED BY <2>3, <2>4, <2>5, Zenon
<1>2. ASSUME NEW c, Breaker!Over(c), due' \in BOOLEAN
      PROVE  CallsOK'
  BY <1>2, Zenon DEF Breaker!Over, CallsOK
<1>3. ASSUME NEW c \in Callers, Breaker!Succeed(c)
      PROVE  Streak' /\ Counters' /\ CallsOK' /\ ~(state = "closed" /\ state' = "open")
  <2>1. Breaker!Over(c) /\ due' = due
    BY <1>3, Zenon DEF Breaker!Succeed
  <2>2. CallsOK'
    BY <1>2, <2>1, Zenon DEF CallsOK
  <2> QED BY <1>3, <2>2, SucceedStreak, Zenon
<1>4. ASSUME NEW c \in Callers, Breaker!Fail(c)
      PROVE  CallsOK'
  <2>1. Breaker!Over(c) /\ (due' = due \/ due' = FALSE)
    BY <1>4, Zenon DEF Breaker!Fail
  <2> QED BY <1>2, <2>1, Zenon DEF CallsOK
<1>5. CASE Breaker!Reset
  <2>1. Breaker!Close /\ UNCHANGED <<due, running, healthy, doomed>>
    BY <1>5, Zenon DEF Breaker!Reset
  <2>2. state' # "open"
    BY <2>1, Zenon DEF Breaker!Close
  <2> QED BY <2>1, <2>2, CloseStreak, Zenon DEF CallsOK
<1>6. ASSUME UNCHANGED <<state, failures, successes, outcomes>>
      PROVE  Streak' /\ Counters' /\ ~(state = "closed" /\ state' = "open")
  <2>1. ~(state = "closed" /\ state' = "open")
    BY <1>6, Zenon
  <2> QED BY <1>6, <2>1, Zenon DEF Streak, Counters
<1>7. CASE Breaker!Elapse \/ Breaker!Heal \/ UNCHANGED Breaker!vars
  <2>1. /\ UNCHANGED <<state, failures, successes, outcomes>>
        /\ running' = running /\ doomed' = doomed
        /\ due' = due \/ due' = TRUE
        /\ healthy' = healthy \/ healthy' = TRUE
    BY <1>7, Zenon DEF Breaker!Elapse, Breaker!Heal, Breaker!vars
  <2>2. CallsOK'
    BY <2>1, Zenon DEF CallsOK
  <2> QED BY <1>6, <2>1, <2>2, Zenon
<1> QED BY <1>1, <1>3, <1>4, <1>5, <1>7, FailStreak, Zenon DEF Breaker!Next

\* The counters stay within the thresholds, and a closed circuit opens only on
\* FailureThreshold failures in a row since it was closed, for any number of
\* overlapping calls and any thresholds (onFailure, onSuccess, reset).
THEOREM TripsEarnedHolds == Breaker!Spec => TripsEarned
<1> DEFINE I == Streak /\ Counters /\ CallsOK
<1>1. Breaker!Init => I
  BY BreakerStart, Zenon
<1>2. I /\ [Breaker!Next]_(Breaker!vars) => I'
  BY BreakerStep, Zenon
<1>3. I => Breaker!TypeOK
  <2>1. ASSUME I PROVE outcomes \in UNION {[1..n -> {"ok", "failed"}] : n \in 0..FailureThreshold}
    <3>1. /\ outcomes \in [1..Len(outcomes) -> {"ok", "failed"}]
          /\ Len(outcomes) \in 0..FailureThreshold
      BY <2>1, BreakerAssumption, SMTT(30) DEF Streak
    <3> QED BY <3>1, Zenon
  <2> QED BY <2>1, Zenon DEF Breaker!TypeOK, Counters, CallsOK
<1>4. I /\ [Breaker!Next]_(Breaker!vars) =>
        [state = "closed" /\ state' = "open" =>
           /\ Len(outcomes') = FailureThreshold
           /\ \A i \in 1..FailureThreshold : outcomes'[i] = "failed"]_(Breaker!vars)
  BY BreakerStep, Zenon
<1> HIDE DEF I
<1> QED BY <1>1, <1>2, <1>3, <1>4, PTL DEF Breaker!Spec, Breaker!TripEarned, TripsEarned
=============================================================================
