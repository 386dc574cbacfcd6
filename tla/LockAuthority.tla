--------------------------- MODULE LockAuthority ---------------------------
(***************************************************************************)
(* The distributed lock (infrastructure/distributedLock.ts, mode           *)
(* redis-required): calls that acquire, renew and release one Redis key,   *)
(* and each process's map of releases that were never confirmed, which a   *)
(* timer retries.                                                          *)
(*                                                                         *)
(* A token names one acquisition.  Its deadlines are numbered: 0 is that   *)
(* of the acquisition, n that of its n-th renewal.  A lock object carries  *)
(* the deadline its process knows of, the key the one Redis knows of.      *)
(***************************************************************************)
EXTENDS Integers, FiniteSets

CONSTANTS
  Procs,        \* processes
  Calls,        \* callers that take the lock, again and again
  Home,         \* the process of each caller
  MaxTokens,    \* bound on acquisitions
  MaxRenewals   \* bound on the renewals of one token

ASSUME LockAssumption ==
  Home \in [Calls -> Procs] /\ MaxTokens \in Nat /\ MaxRenewals \in Nat

VARIABLES
  issued,   \* tokens generated so far
  key,      \* the Redis key: token (0: no key) and deadline
  passed,   \* how many deadlines of each token have passed
  call,     \* what each caller is doing, with its lock object
  book,     \* unconfirmedReleases of each process
  timer,    \* reclaimTimer
  sweep,    \* the entry a sweep of the process is retrying
  enabled,  \* reclaimEnabled
  late      \* tokens of timed-out deletes Redis may still execute

vars == <<issued, key, passed, call, book, timer, sweep, enabled, late>>

Tokens == 1..MaxTokens
Entry == [token : 0..MaxTokens, gen : 0..MaxRenewals]
None == [token |-> 0, gen |-> 0]
Idle == [pc |-> "idle", lock |-> None]

\* The one type invariant.
TypeOK ==
  /\ issued \in 0..MaxTokens
  /\ key \in Entry
  /\ passed \in [Tokens -> 0..MaxRenewals + 1]
  /\ call \in [Calls -> [pc : {"idle", "acquiring", "held", "releasing"}, lock : Entry]]
  /\ book \in [Procs -> Entry] /\ sweep \in [Procs -> Entry]
  /\ timer \in [Procs -> BOOLEAN] /\ enabled \in [Procs -> BOOLEAN]
  /\ late \subseteq 1..issued

Init ==
  /\ issued = 0 /\ key = None /\ passed = [t \in Tokens |-> 0]
  /\ call = [c \in Calls |-> Idle]
  /\ book = [p \in Procs |-> None] /\ sweep = [p \in Procs |-> None]
  /\ timer = [p \in Procs |-> FALSE] /\ enabled = [p \in Procs |-> TRUE]
  /\ late = {}

Lapsed(lock) == passed[lock.token] > lock.gen

-----------------------------------------------------------------------------
(* Redis *)

\* Mutant: the key is deleted whoever holds it.
Bug_Delete(t) == key' = None

\* RELEASE_SCRIPT
Delete(t) == key' = IF key.token = t THEN None ELSE key

\* The key expires, not before the deadline every process reckons with: that
\* one was computed before the command was sent.
Expire ==
  /\ key.token # 0 /\ Lapsed(key)
  /\ key' = None
  /\ UNCHANGED <<issued, passed, call, book, timer, sweep, enabled, late>>

\* A delete that its caller has given up on
LateDelete(t) ==
  /\ t \in late /\ late' = late \ {t}
  /\ Delete(t)
  /\ UNCHANGED <<issued, passed, call, book, timer, sweep, enabled>>

\* Time: the next deadline of a token passes.
Tick(t) ==
  /\ t <= issued /\ passed[t] <= MaxRenewals
  /\ passed' = [passed EXCEPT ![t] = @ + 1]
  /\ UNCHANGED <<issued, key, call, book, timer, sweep, enabled, late>>

-----------------------------------------------------------------------------
(* Acquisition and renewal *)

\* acquireLock: the token is generated and the deadline computed.
Acquire(c) ==
  /\ call[c].pc = "idle" /\ enabled[Home[c]] /\ issued < MaxTokens
  /\ issued' = issued + 1
  /\ call' = [call EXCEPT ![c] = [pc |-> "acquiring", lock |-> [token |-> issued + 1, gen |-> 0]]]
  /\ UNCHANGED <<key, passed, book, timer, sweep, enabled, late>>

\* NX
Free == key.token = 0

\* tryAcquireLock: SET NX PX, answered; without the lock the caller gives up.
Acquired(c) ==
  /\ call[c].pc = "acquiring"
  /\ IF Free THEN /\ key' = call[c].lock
                  /\ call' = [call EXCEPT ![c].pc = "held"]
             ELSE call' = [call EXCEPT ![c] = Idle] /\ UNCHANGED key
  /\ UNCHANGED <<issued, passed, book, timer, sweep, enabled, late>>

\* The answer is lost, the key possibly set: LockAuthorityUnavailableError.
AcquireFails(c) ==
  /\ call[c].pc = "acquiring"
  /\ key' \in {key} \cup (IF Free THEN {call[c].lock} ELSE {})
  /\ call' = [call EXCEPT ![c] = Idle]
  /\ UNCHANGED <<issued, passed, book, timer, sweep, enabled, late>>

Later(lock) == [lock EXCEPT !.gen = @ + 1]

Owned(t) == key.token = t

\* renewLock; a caller that has lost the lock stops and releases what it has.
Renew(c) ==
  /\ call[c].pc = "held" /\ call[c].lock.gen < MaxRenewals
  /\ IF Owned(call[c].lock.token)
       THEN /\ key' = [key EXCEPT !.gen = @ + 1]
            /\ call' = [call EXCEPT ![c].lock = Later(@)]
       ELSE call' = [call EXCEPT ![c].pc = "releasing"] /\ UNCHANGED key
  /\ UNCHANGED <<issued, passed, book, timer, sweep, enabled, late>>

\* The answer is lost: the process takes the lock for lost, and Redis may have
\* extended it.
RenewFails(c) ==
  /\ call[c].pc = "held" /\ call[c].lock.gen < MaxRenewals
  /\ key' \in {key} \cup (IF Owned(call[c].lock.token) THEN {Later(key)} ELSE {})
  /\ call' = [call EXCEPT ![c].pc = "releasing"]
  /\ UNCHANGED <<issued, passed, book, timer, sweep, enabled, late>>

-----------------------------------------------------------------------------
(* Release *)

\* forgetUnconfirmedRelease: whatever token the entry has
Forget(p) ==
  /\ book' = [book EXCEPT ![p] = None]
  /\ timer' = [timer EXCEPT ![p] = @ /\ book[p] = None]

\* trackUnconfirmedRelease
Track(p, lock) ==
  IF ~enabled[p] THEN UNCHANGED <<book, timer>>
  ELSE IF Lapsed(lock) THEN Forget(p)
  ELSE book' = [book EXCEPT ![p] = lock] /\ timer' = [timer EXCEPT ![p] = TRUE]

\* The work is done.
Release(c) ==
  /\ call[c].pc = "held"
  /\ call' = [call EXCEPT ![c].pc = "releasing"]
  /\ UNCHANGED <<issued, key, passed, book, timer, sweep, enabled, late>>

\* releaseLock, answered `deleted' or `not-owned'
Released(c) ==
  /\ call[c].pc = "releasing"
  /\ Delete(call[c].lock.token)
  /\ Forget(Home[c])
  /\ call' = [call EXCEPT ![c] = Idle]
  /\ UNCHANGED <<issued, passed, sweep, enabled, late>>

\* LOCK_CALL_TIMEOUT_MS passes, or there is no client: the delete may have been
\* executed, may be executed later, or never is.
Unconfirmed(c) ==
  LET lock == call[c].lock
  IN  /\ call[c].pc = "releasing"
      /\ \/ Delete(lock.token) /\ UNCHANGED late
         \/ UNCHANGED key /\ late' \in {late, late \cup {lock.token}}
      /\ Track(Home[c], lock)
      /\ call' = [call EXCEPT ![c] = Idle]
      /\ UNCHANGED <<issued, passed, sweep, enabled>>

-----------------------------------------------------------------------------
(* Retrying unconfirmed releases *)

\* The timer fires; a sweep in flight is not overlapped.  An entry past its
\* deadline is dropped, the others are retried with the token they have now.
SweepStart(p) ==
  /\ timer[p] /\ sweep[p] = None /\ book[p] # None
  /\ IF Lapsed(book[p]) THEN Forget(p) /\ UNCHANGED sweep
                        ELSE sweep' = [sweep EXCEPT ![p] = book[p]] /\ UNCHANGED <<book, timer>>
  /\ UNCHANGED <<issued, key, passed, call, enabled, late>>

\* Mutant: the entry is forgotten before the delete is answered.
Bug_SweepEnd(p) ==
  /\ sweep[p] # None
  /\ sweep' = [sweep EXCEPT ![p] = None]
  /\ Forget(p)
  /\ \/ Delete(sweep[p].token) /\ UNCHANGED late
     \/ UNCHANGED key /\ late' \in {late, late \cup {sweep[p].token}}
  /\ UNCHANGED <<issued, passed, call, enabled>>

\* reclaimUnconfirmedLocks: the delete of the entry is answered, and the map
\* forgets the key; or it fails as in Unconfirmed.
SweepEnd(p) ==
  /\ sweep[p] # None
  /\ sweep' = [sweep EXCEPT ![p] = None]
  /\ \/ Delete(sweep[p].token) /\ Forget(p) /\ UNCHANGED late
     \/ /\ \/ Delete(sweep[p].token) /\ UNCHANGED late
           \/ UNCHANGED key /\ late' \in {late, late \cup {sweep[p].token}}
        /\ UNCHANGED <<book, timer>>
  /\ UNCHANGED <<issued, passed, call, enabled>>

\* shutdownDistributedLock; calls and sweeps in flight go on.
Shutdown(p) ==
  /\ enabled[p]
  /\ enabled' = [enabled EXCEPT ![p] = FALSE]
  /\ book' = [book EXCEPT ![p] = None] /\ timer' = [timer EXCEPT ![p] = FALSE]
  /\ UNCHANGED <<issued, key, passed, call, sweep, late>>

-----------------------------------------------------------------------------
CallStep(c) ==
  \/ Acquire(c) \/ Acquired(c) \/ AcquireFails(c) \/ Renew(c) \/ RenewFails(c)
  \/ Release(c) \/ Released(c) \/ Unconfirmed(c)

Next ==
  \/ Expire
  \/ \E t \in Tokens : LateDelete(t) \/ Tick(t)
  \/ \E c \in Calls : CallStep(c)
  \/ \E p \in Procs : SweepStart(p) \/ SweepEnd(p) \/ Shutdown(p)

Spec == Init /\ [][Next]_vars

-----------------------------------------------------------------------------
\* A caller that holds the lock owns the Redis key until the deadline it knows
\* of has passed, whatever releases, retries and late deletes of other tokens,
\* of its own process or another one, are on their way; so no two callers hold
\* it at once (compare-and-delete, expiresAt computed before the command).
HolderOwnsKey ==
  \A c \in Calls :
    call[c].pc = "held" /\ ~Lapsed(call[c].lock) => key.token = call[c].lock.token

\* An unconfirmed release is kept for retry while its key exists and the deadline
\* in the map has not passed ("the token is retained here and retried, because an
\* abandoned token becomes a tombstone that blocks the resource until its TTL",
\* releaseLock), unless the process shuts down or ends another release of the
\* same key, of another token: the map knows one token per key.  A key Redis
\* extended by a renewal whose answer was lost outlives that deadline, and from
\* there on goes only with its TTL.
Retained ==
  [][\A p \in Procs :
       /\ book[p].token # 0 /\ book'[p] # book[p]
       /\ key'.token = book[p].token /\ ~Lapsed(book[p])
       => \/ ~enabled'[p]
          \/ \E c \in Calls : /\ Home[c] = p /\ call[c].lock.token # book[p].token
                              /\ call[c].pc = "releasing" /\ call'[c].pc = "idle"
          \/ sweep[p].token # book[p].token /\ sweep'[p] # sweep[p]]_vars
=============================================================================
