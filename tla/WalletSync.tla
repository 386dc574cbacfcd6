----------------------------- MODULE WalletSync -----------------------------
(***************************************************************************)
(* Wallet-history synchronisation of one wallet: API producers and the     *)
(* worker's recovery timer persist coalesced intent in the wallet row and  *)
(* announce it with BullMQ wake-ups; workers take a wake-up, acquire the   *)
(* wallet's Redis lock, claim a generation in the row under a fresh lease  *)
(* token, rebuild or extend the history under that fence and complete or   *)
(* release the claim; the API process sweeps rows that look stuck.         *)
(*                                                                         *)
(* One action is one database statement or transaction, one Redis command  *)
(* or one queue operation, so everything between two awaits of different   *)
(* processes interleaves.  Clocks are abstracted: a lease, a lock or a     *)
(* retry delay may elapse at any time.  The activation gate may refuse at  *)
(* every point where the code consults it.                                 *)
(***************************************************************************)
EXTENDS WalletSyncRow, FiniteSets

CONSTANTS
  Workers,      \* concurrently running job slots of the worker fleet
  Nobody,       \* a free lock, a job no worker is executing
  Orphan,       \* a lock or job whose process died
  Cleaner,      \* the API process sweeping stuck rows
  MaxAttempts,  \* SYNC_WALLET_JOB_OPTIONS.attempts
  MaxInFlight   \* bound: wake-ups decided on but not yet in the queue

ASSUME SyncAssumption ==
  /\ Nobody \notin Workers /\ Orphan \notin Workers /\ Cleaner \notin Workers
  /\ Nobody # Orphan /\ Nobody # Cleaner /\ Orphan # Cleaner
  /\ MaxAttempts \in Nat \ {0}
  /\ MaxInFlight \in Nat

VARIABLES
  row,       \* the wallet's synchronisation columns
  lock,      \* holder of the Redis key of the wallet
  queue,     \* live BullMQ jobs
  inFlight,  \* wake-ups between the decision to enqueue and queue.add
  worker,    \* per worker: program counter, job, fence and what it fetched
  cleaner,   \* the stuck-row sweep
  history,   \* rebuild epochs whose transactions the wallet's history holds
  notes,     \* where the user's labels and memos are: live rows, snapshot
  dirty      \* observer: activity no completed attempt has covered yet

vars == <<row, lock, queue, inFlight, worker, cleaner, history, notes, dirty>>

-----------------------------------------------------------------------------
(* Jobs: full = 0 is an incremental wake-up. *)

Wakeup == [full : Fulls, gen : Gens]
Job == [full : Fulls, gen : Gens, made : 0..(MaxAttempts - 1),
        at : Workers \cup {Nobody, Orphan}]

NewJob(x) == [full |-> x.full, gen |-> x.gen, made |-> 0, at |-> Nobody]

\* Stable job ids: sync:intent:<gen> and full-resync-attempt:<full>.
SameId(x, y) == x.full = y.full /\ (x.full # 0 \/ x.gen = y.gen)

Phases == {"idle", "contended", "locked", "missed", "reclaim", "observed",
           "claimed", "prepared", "fetched", "written", "settling"}

\* The phases in which an attempt holds a fence it acts under.
Attempting == {"claimed", "prepared", "fetched", "written"}

Worker == [phase : Phases, full : Fulls, gen : Gens,
           made : 0..(MaxAttempts - 1), token : Tokens \cup {NoToken},
           base : Fulls, unseen : BOOLEAN,
           outcome : {"none", "done", "failed", "unrecoverable"}]

IdleWorker == [phase |-> "idle", full |-> 0, gen |-> 0, made |-> 0,
               token |-> NoToken, base |-> 0, unseen |-> FALSE,
               outcome |-> "none"]

Init ==
  /\ row = InitRow
  /\ lock = Nobody
  /\ queue = {}
  /\ inFlight = {}
  /\ worker = [w \in Workers |-> IdleWorker]
  /\ cleaner = [phase |-> "idle", token |-> NoToken]
  /\ history = {0}
  /\ notes = [live |-> TRUE, saved |-> FALSE]
  /\ dirty = FALSE

HasFence(w) == worker[w].phase \in Attempting
Fence(w) == Fenced(row, worker[w].gen, worker[w].token)
FinalAttempt(made) == made + 1 >= MaxAttempts

\* randomUUID(): a token no row, attempt or observation mentions.
FreshTokens == {t \in Tokens : /\ t # row.token
                               /\ \A w \in Workers : t # worker[w].token
                               /\ t # cleaner.token}

-----------------------------------------------------------------------------
(* Producers *)

\* A decided wake-up is in flight, or is lost on the way to the queue.
Announce(x) ==
  \/ inFlight' = inFlight
  \/ /\ Cardinality(inFlight) < MaxInFlight
     /\ inFlight' = inFlight \cup {x}

\* New activity is unseen by every attempt that already holds a claim.
MarkUnseen ==
  worker' = [w \in Workers |-> IF HasFence(w)
                                 THEN [worker[w] EXCEPT !.unseen = TRUE]
                                 ELSE worker[w]]

\* request and bridgeRetained: persist, then announce unless deferred.
Request(reopen) ==
  /\ CanRequest(row)
  /\ row' = Requested(row, reopen)
  /\ dirty' = TRUE
  /\ MarkUnseen
  /\ IF Deferred(row')
       THEN inFlight' = inFlight
       ELSE Announce([full |-> 0, gen |-> row'.requested])
  /\ UNCHANGED <<lock, queue, cleaner, history, notes>>

\* requestFullResync and the full-resync branch of bridgeRetained.
RequestFull ==
  /\ CanRequestFull(row)
  /\ row' = FullRequested(row)
  /\ Announce([full |-> row'.reqFull, gen |-> row'.requested])
  /\ UNCHANGED <<lock, queue, worker, cleaner, history, notes, dirty>>

\* resetWalletSyncState: the user revokes any attempt, without the lock.
ManualReset ==
  /\ row' = ResetAttempt(row)
  /\ UNCHANGED <<lock, queue, inFlight, worker, cleaner, history, notes, dirty>>

-----------------------------------------------------------------------------
(* The queue *)

\* enqueueIncrementalSyncWakeup and enqueueReservedFullResyncWakeup: a live
\* job with the same id, or a processed rebuild, makes the add a no-op.
Enqueue(x) ==
  /\ x \in inFlight
  /\ inFlight' = inFlight \ {x}
  /\ IF \/ \E j \in queue : SameId(j, x)
        \/ x.full # 0 /\ x.full <= row.procFull
       THEN queue' = queue
       ELSE queue' = queue \cup {NewJob(x)}
  /\ UNCHANGED <<row, lock, worker, cleaner, history, notes, dirty>>

\* The gate closed before queue.add, Redis refused it, or the process died.
DropWakeup(x) ==
  /\ x \in inFlight
  /\ inFlight' = inFlight \ {x}
  /\ UNCHANGED <<row, lock, queue, worker, cleaner, history, notes, dirty>>

\* BullMQ returns the job of a dead worker to the wait list.
RedeliverStalled(j) ==
  /\ j \in queue /\ j.at = Orphan
  /\ queue' = (queue \ {j}) \cup {[j EXCEPT !.at = Nobody]}
  /\ UNCHANGED <<row, lock, inFlight, worker, cleaner, history, notes, dirty>>

\* A worker that stops renewing its job is taken for dead while it runs on.
RedeliverRunning(j) ==
  /\ j \in queue /\ j.at \in Workers
  /\ queue' = (queue \ {j}) \cup {[j EXCEPT !.at = Nobody]}
  /\ UNCHANGED <<row, lock, inFlight, worker, cleaner, history, notes, dirty>>

\* Redis loses the job, or BullMQ fails it at its stall limit.
LoseJob(j) ==
  /\ j \in queue /\ j.at \in {Nobody, Orphan}
  /\ queue' = queue \ {j}
  /\ UNCHANGED <<row, lock, inFlight, worker, cleaner, history, notes, dirty>>

-----------------------------------------------------------------------------
(* processJobWithLock: before and after the handler *)

Start(w, j, phase) ==
  /\ worker[w].phase = "idle"
  /\ j \in queue /\ j.at = Nobody
  /\ queue' = (queue \ {j}) \cup {[j EXCEPT !.at = w]}
  /\ worker' = [worker EXCEPT ![w] =
       [IdleWorker EXCEPT !.phase = phase, !.full = j.full, !.gen = j.gen,
                          !.made = j.made]]

TakeJob(w, j) ==
  /\ lock = Nobody
  /\ lock' = w
  /\ Start(w, j, "locked")
  /\ UNCHANGED <<row, inFlight, cleaner, history, notes, dirty>>

\* The lock stayed unavailable for the whole retry window.  (A re-delay
\* within the window leaves the job where it was.)
GiveUpLock(w, j) ==
  /\ lock # Nobody
  /\ Start(w, j, "contended")
  /\ UNCHANGED <<row, lock, inFlight, cleaner, history, notes, dirty>>

\* The live job that this delivery still owns in BullMQ.
Delivered(w) ==
  {j \in queue : j.at = w /\ j.full = worker[w].full /\ j.gen = worker[w].gen}

\* Completed and exhausted jobs leave the live set; others await a retry.
FinishJob(w, outcome) ==
  queue' = (queue \ Delivered(w)) \cup
    {[j EXCEPT !.made = @ + 1, !.at = Nobody] :
       j \in {k \in Delivered(w) : outcome = "failed" /\ ~FinalAttempt(k.made)}}

\* recordLockRetryBudgetExhausted, then the failure of the job.
RecordContention(w) ==
  /\ worker[w].phase = "contended"
  /\ row' = IF FinalAttempt(worker[w].made) /\ CanRecordContention(row)
              THEN ContentionRecorded(row) ELSE row
  /\ FinishJob(w, "failed")
  /\ worker' = [worker EXCEPT ![w] = IdleWorker]
  /\ UNCHANGED <<lock, inFlight, cleaner, history, notes, dirty>>

Settle(w) ==
  /\ worker[w].phase = "settling"
  /\ lock' = IF lock = w THEN Nobody ELSE lock
  /\ FinishJob(w, worker[w].outcome)
  /\ worker' = [worker EXCEPT ![w] = IdleWorker]
  /\ UNCHANGED <<row, inFlight, cleaner, history, notes, dirty>>

-----------------------------------------------------------------------------
(* executeCanonicalIncrementalSync: claiming a generation *)

Move(w, phase) == worker' = [worker EXCEPT ![w].phase = phase]

\* Leave the handler: "done" returns, "failed" throws for a BullMQ retry,
\* "unrecoverable" throws UnrecoverableError.
Leave(w, outcome) ==
  worker' = [worker EXCEPT ![w] =
    [IdleWorker EXCEPT !.phase = "settling", !.full = worker[w].full,
                       !.gen = worker[w].gen, !.made = worker[w].made,
                       !.outcome = outcome]]

\* The gate refuses the claim or the reclaim: a neutral completion.
ClaimBlocked(w) ==
  /\ worker[w].phase \in {"locked", "reclaim", "observed"}
  /\ Leave(w, "done")
  /\ UNCHANGED <<row, lock, queue, inFlight, cleaner, history, notes, dirty>>

\* An attempt starts: it will see everything requested before this claim.
Claim(w, t) ==
  /\ row' = ClaimedBy(row, worker[w].gen, t)
  /\ worker' = [worker EXCEPT ![w].phase = "claimed", ![w].token = t]
  /\ UNCHANGED <<lock, queue, inFlight, cleaner, history, notes, dirty>>

ClaimFresh(w) ==
  /\ worker[w].phase = "locked"
  /\ CanClaimFresh(row, worker[w].gen, worker[w].full)
  /\ \E t \in FreshTokens : Claim(w, t)

ClaimMissed(w) ==
  /\ worker[w].phase = "locked"
  /\ ~CanClaimFresh(row, worker[w].gen, worker[w].full)
  /\ Move(w, "missed")
  /\ UNCHANGED <<row, lock, queue, inFlight, cleaner, history, notes, dirty>>

\* The re-read after a miss: not_claimed ends the job, already_claimed tries
\* to reclaim.
ClassifyMiss(w) ==
  /\ worker[w].phase = "missed"
  /\ IF AlreadyClaimed(row, worker[w].gen, worker[w].full)
       THEN Move(w, "reclaim")
       ELSE Leave(w, "done")
  /\ UNCHANGED <<row, lock, queue, inFlight, cleaner, history, notes, dirty>>

\* reclaimExpired's advisory read of the expired fence.
ObserveExpired(w) ==
  /\ worker[w].phase = "reclaim"
  /\ IF /\ row.claimed = worker[w].gen
        /\ row.claimed > row.processed
        /\ row.token # NoToken
        /\ row.expired
       THEN worker' = [worker EXCEPT ![w].phase = "observed",
                                     ![w].token = row.token]
       ELSE Leave(w, "failed")
  /\ UNCHANGED <<row, lock, queue, inFlight, cleaner, history, notes, dirty>>

Reclaim(w) ==
  /\ worker[w].phase = "observed"
  /\ CanReclaim(row, worker[w].gen, worker[w].full, worker[w].token)
  /\ \E t \in FreshTokens : Claim(w, t)

ReclaimMissed(w) ==
  /\ worker[w].phase = "observed"
  /\ ~CanReclaim(row, worker[w].gen, worker[w].full, worker[w].token)
  /\ Leave(w, "failed")
  /\ UNCHANGED <<row, lock, queue, inFlight, cleaner, history, notes, dirty>>

-----------------------------------------------------------------------------
(* executeCanonicalIncrementalSync: the fenced attempt *)

\* Mutant: the capture overwrites the snapshot of an earlier rebuild.
Bug_CapturedAnew(n) == [live |-> FALSE, saved |-> n.live]

\* captureAnnotations merges the live labels and memos into any snapshot that
\* an earlier rebuild left behind; the rows are deleted with it.
Captured(n) == [live |-> FALSE, saved |-> n.saved \/ n.live]

\* restoreAnnotations: an entry whose transaction was not found again stays
\* in the snapshot.
Restorations(n) ==
  IF n.saved THEN {[live |-> TRUE, saved |-> FALSE], n} ELSE {n}

\* resetWalletForFullResync deletes every transaction, once per generation.
Prepare(w) ==
  /\ worker[w].phase = "claimed" /\ worker[w].full # 0
  /\ Fence(w) /\ worker[w].full <= row.reqFull
  /\ IF MustWipe(row, worker[w].full)
       THEN /\ row' = Wiped(row, worker[w].full)
            /\ history' = {}
            /\ notes' = Captured(notes)
       ELSE UNCHANGED <<row, history, notes>>
  /\ Move(w, "prepared")
  /\ UNCHANGED <<lock, queue, inFlight, cleaner, dirty>>

\* syncWallet reads the stored history it extends and fetches the rest.
Fetch(w) ==
  /\ \/ worker[w].phase = "claimed" /\ worker[w].full = 0
     \/ worker[w].phase = "prepared"
  /\ worker' = [worker EXCEPT ![w].phase = "fetched", ![w].base = row.prepared]
  /\ UNCHANGED <<row, lock, queue, inFlight, cleaner, history, notes, dirty>>

\* Mutant: the batch is written without checking the fence.
Bug_WriteUnfenced(w) ==
  /\ worker[w].phase = "fetched"
  /\ history' = history \cup {worker[w].base}
  /\ \E phase \in {"fetched", "written"} : Move(w, phase)
  /\ UNCHANGED <<row, lock, queue, inFlight, cleaner, notes, dirty>>

\* runWalletSyncMutation under the fence; more batches may follow.
Write(w) ==
  /\ worker[w].phase = "fetched"
  /\ Fence(w)
  /\ history' = history \cup {worker[w].base}
  /\ \E phase \in {"fetched", "written"} : Move(w, phase)
  /\ UNCHANGED <<row, lock, queue, inFlight, cleaner, notes, dirty>>

\* WalletSyncMutationFenceLostError: the release in the catch block finds the
\* claim lost as well, and the error is rethrown.
FenceLost(w) ==
  /\ \/ worker[w].phase = "claimed" /\ worker[w].full # 0
     \/ worker[w].phase = "fetched"
  /\ ~Fence(w)
  /\ Leave(w, "failed")
  /\ UNCHANGED <<row, lock, queue, inFlight, cleaner, history, notes, dirty>>

\* completeCanonicalSync, then the wake-up of a trailing generation.
CanComplete(w) ==
  IF worker[w].full = 0
    THEN OwnsClaim(row, worker[w].gen, worker[w].token)
    ELSE Fence(w) /\ CanCompleteFull(row, worker[w].full)

Complete(w) ==
  /\ worker[w].phase = "written"
  /\ CanComplete(w)
  /\ row' = IF worker[w].full = 0
              THEN Completed(row)
              ELSE FullCompleted(row, worker[w].full, worker[w].gen)
  /\ notes' \in IF worker[w].full = 0 THEN {notes} ELSE Restorations(notes)
  /\ dirty' = worker[w].unseen
  /\ IF row'.requested > row'.processed
       THEN Announce([full |-> 0, gen |-> row'.requested])
       ELSE inFlight' = inFlight
  /\ Leave(w, "done")
  /\ UNCHANGED <<lock, queue, cleaner, history>>

\* LostIncrementalSyncFenceError: nothing to release.
CompletionLost(w) ==
  /\ worker[w].phase = "written"
  /\ ~CanComplete(w)
  /\ Leave(w, "failed")
  /\ UNCHANGED <<row, lock, queue, inFlight, cleaner, history, notes, dirty>>

\* Any error of the attempt (network, timeout, abort, lost fence) releases
\* the claim, unless it was lost.  A permanent error is always terminal.
FailAttempt(w, permanent) ==
  /\ HasFence(w)
  /\ row' = CASE ~OwnsClaim(row, worker[w].gen, worker[w].token) -> row
              [] permanent \/ FinalAttempt(worker[w].made)
                   -> ReleasedAsActionRequired(row)
              [] OTHER -> ReleasedForRetry(row)
  /\ Leave(w, IF permanent THEN "unrecoverable" ELSE "failed")
  /\ UNCHANGED <<lock, queue, inFlight, cleaner, history, notes, dirty>>

\* The attempt fails and so does the statement that would release its claim.
ReleaseFails(w) ==
  /\ HasFence(w)
  /\ Leave(w, "failed")
  /\ UNCHANGED <<row, lock, queue, inFlight, cleaner, history, notes, dirty>>

\* The worker process dies, by itself or through loseOwnership.
Crash(w) ==
  /\ worker[w].phase # "idle"
  /\ worker' = [worker EXCEPT ![w] = IdleWorker]
  /\ lock' = IF lock = w THEN Orphan ELSE lock
  /\ queue' = {IF j.at = w THEN [j EXCEPT !.at = Orphan] ELSE j : j \in queue}
  /\ UNCHANGED <<row, inFlight, cleaner, history, notes, dirty>>

-----------------------------------------------------------------------------
(* recoverOnce: the three phases of a worker recovery pass *)

RecoverWith(x) ==
  /\ Announce(x)
  /\ UNCHANGED <<row, lock, queue, worker, cleaner, history, notes, dirty>>

RecoverFull ==
  /\ Stranded(row)
  /\ RecoverWith([full |-> row.reqFull, gen |-> row.requested])

RecoverIncremental ==
  /\ Actionable(row)
  /\ RecoverWith([full |-> 0, gen |-> row.requested])

RecoverExpired ==
  /\ ExpiredClaim(row)
  /\ lock = Nobody
  /\ RecoverWith([full |-> 0, gen |-> row.claimed])

-----------------------------------------------------------------------------
(* clearStuckSyncIfAuthorized, run by the API process *)

\* findStuckSyncing; the age of the attempt is a matter of the clock.
CleanerScan ==
  /\ cleaner.phase = "idle"
  /\ row.inProgress
  /\ cleaner' = [phase |-> "scanned", token |-> row.token]
  /\ row' = [row EXCEPT !.bumped = FALSE]
  /\ UNCHANGED <<lock, queue, inFlight, worker, history, notes, dirty>>

CleanerLock ==
  /\ cleaner.phase = "scanned"
  /\ lock = Nobody
  /\ lock' = Cleaner
  /\ cleaner' = [cleaner EXCEPT !.phase = "locked"]
  /\ UNCHANGED <<row, queue, inFlight, worker, history, notes, dirty>>

\* The lock is taken (lock_present_deferred) or the API process restarts.
CleanerAbandon ==
  /\ cleaner.phase # "idle"
  /\ cleaner' = [phase |-> "idle", token |-> NoToken]
  /\ lock' = IF lock = Cleaner THEN Orphan ELSE lock
  /\ UNCHANGED <<row, queue, inFlight, worker, history, notes, dirty>>

\* The conditional reset, then the release of the lock.
CleanerReset ==
  /\ cleaner.phase = "locked"
  /\ row' = IF CanClear(row) THEN ResetAttempt(row) ELSE row
  /\ cleaner' = [phase |-> "idle", token |-> NoToken]
  /\ lock' = IF lock = Cleaner THEN Nobody ELSE lock
  /\ UNCHANGED <<queue, inFlight, worker, history, notes, dirty>>

-----------------------------------------------------------------------------
(* Clocks *)

LeaseExpires ==
  /\ row.token # NoToken /\ ~row.expired
  /\ row' = [row EXCEPT !.expired = TRUE]
  /\ UNCHANGED <<lock, queue, inFlight, worker, cleaner, history, notes, dirty>>

RetryComesDue ==
  /\ row.waiting
  /\ row' = [row EXCEPT !.waiting = FALSE]
  /\ UNCHANGED <<lock, queue, inFlight, worker, cleaner, history, notes, dirty>>

\* The TTL of a lock whose holder is gone elapses.
OrphanLockExpires ==
  /\ lock = Orphan
  /\ lock' = Nobody
  /\ UNCHANGED <<row, queue, inFlight, worker, cleaner, history, notes, dirty>>

\* A holder that stops renewing (a blocked event loop, a lost Redis) keeps
\* running without its lock until it notices.
HeldLockExpires ==
  /\ lock \in Workers \cup {Cleaner}
  /\ lock' = Nobody
  /\ UNCHANGED <<row, queue, inFlight, worker, cleaner, history, notes, dirty>>

-----------------------------------------------------------------------------
(* The next-state relation: what the processes do, what goes wrong *)

WorkerStep(w) ==
  \/ RecordContention(w) \/ Settle(w)
  \/ ClaimFresh(w) \/ ClaimMissed(w) \/ ClassifyMiss(w)
  \/ ObserveExpired(w) \/ Reclaim(w) \/ ReclaimMissed(w)
  \/ Prepare(w) \/ Fetch(w) \/ Write(w) \/ FenceLost(w)
  \/ Complete(w) \/ CompletionLost(w)

Users ==
  \/ \E reopen \in BOOLEAN : Request(reopen)
  \/ RequestFull

Recovery == RecoverFull \/ RecoverIncremental \/ RecoverExpired

Clocks == LeaseExpires \/ RetryComesDue \/ OrphanLockExpires

Steps ==
  \/ Users \/ Recovery \/ Clocks
  \/ \E x \in inFlight : Enqueue(x)
  \/ \E j \in queue : RedeliverStalled(j)
  \/ \E w \in Workers : WorkerStep(w)
  \/ \E w \in Workers, j \in queue : TakeJob(w, j)

Crashes == \E w \in Workers : Crash(w) \/ ReleaseFails(w)

Mishaps ==
  \/ \E x \in inFlight : DropWakeup(x)
  \/ \E j \in queue : RedeliverRunning(j) \/ LoseJob(j)
  \/ \E w \in Workers, j \in queue : GiveUpLock(w, j)
  \/ \E w \in Workers : ClaimBlocked(w)
  \/ \E w \in Workers, permanent \in BOOLEAN : FailAttempt(w, permanent)
  \/ HeldLockExpires
  \/ ManualReset

Sweep == CleanerScan \/ CleanerLock \/ CleanerAbandon \/ CleanerReset

Next == Steps \/ Crashes \/ Mishaps \/ Sweep

Spec == Init /\ [][Next]_vars

\* Timers fire, TTLs elapse, a running handler goes on (its network calls are
\* bounded by maxSyncDurationMs), and the recovery interval announces what its
\* queries select.  BullMQ serves waiting jobs in order, so that no wake-up
\* that finds the lock free again and again is passed over for ever; nor does
\* the recovery timer always fire while the lock is held.  No fairness for
\* users and faults.
Fairness ==
  /\ WF_vars(LeaseExpires) /\ WF_vars(RetryComesDue)
  /\ WF_vars(OrphanLockExpires)
  /\ WF_vars(RecoverFull) /\ WF_vars(RecoverIncremental)
  /\ SF_vars(RecoverExpired)
  /\ WF_vars(\E x \in inFlight : Enqueue(x))
  /\ WF_vars(\E j \in queue : RedeliverStalled(j))
  /\ \A x \in Wakeup :
       SF_vars(\E w \in Workers, j \in queue :
                 j.full = x.full /\ j.gen = x.gen /\ TakeJob(w, j))
  /\ \A w \in Workers : WF_vars(WorkerStep(w))

-----------------------------------------------------------------------------
(* Safety *)

TypeOK ==
  /\ row \in Row
  /\ lock \in Workers \cup {Nobody, Orphan, Cleaner}
  /\ queue \subseteq Job
  /\ inFlight \subseteq Wakeup
  /\ worker \in [Workers -> Worker]
  /\ cleaner \in [phase : {"idle", "scanned", "locked"},
                  token : Tokens \cup {NoToken}]
  /\ history \subseteq Fulls
  /\ notes \in [live : BOOLEAN, saved : BOOLEAN]
  /\ dirty \in BOOLEAN

\* The CHECK constraints of the wallets table are never hit: generations are
\* ordered, a lease token is present exactly while a claim is outstanding,
\* and the "in progress" flag the UI shows agrees with the claim.
RowCoherent == Coherent(row)

\* Activity reported by an accepted request is covered by an attempt that
\* claimed after it and completed, or is still pending in the row: no
\* interleaving of merging, completing, resetting and reclaiming loses it.
NoLostActivity == dirty => row.requested > row.processed

\* At most one attempt can pass the mutation fence, however many workers
\* believe they hold the wallet's lock.
SingleWriter ==
  \A v, w \in Workers :
    HasFence(v) /\ Fence(v) /\ HasFence(w) /\ Fence(w) => v = w

\* After a full resync wiped the history, no batch computed against the
\* history before the wipe is ever written.
NoStaleBatch == history \subseteq {row.prepared}

\* A full-resync generation counts as processed only once the rebuilt
\* history is in place.
RebuiltBeforeProcessed == ~FullPending(row) => row.reqFull \in history

\* The transaction history is that of one rebuild, the last one prepared, and
\* a rebuild counts as done only with its history in place: a batch computed
\* before the wipe and an attempt that died after it both leave it so.
HistoryCurrent == NoStaleBatch /\ RebuiltBeforeProcessed

\* The user's labels and memos survive any number of rebuilds: they are on
\* live rows or in the snapshot, also when a rebuild did not find their
\* transaction again.
NotesPreserved == notes.live \/ notes.saved

\* The stuck-row sweep revokes no claim made after the one it looked at.
SweepSparesNewerClaims ==
  [][CleanerReset /\ row.token # NoToken /\ row'.token = NoToken
       => row.token = cleaner.token]_vars

-----------------------------------------------------------------------------
(* Liveness *)

\* A requested rebuild is eventually done, or visibly waits for the operator:
\* whatever is lost in the queue or dies in a worker, recovery finds it.
FullResyncSettles ==
  FullPending(row) ~> ~FullPending(row) \/ row.actionRequired
=============================================================================
