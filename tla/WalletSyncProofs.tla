-------------------------- MODULE WalletSyncProofs --------------------------
(***************************************************************************)
(* Proofs that the safety properties of WalletSync hold for every number   *)
(* of workers, tokens, generations and attempts, and that WalletSync       *)
(* implements SyncIntent.                                                  *)
(***************************************************************************)
EXTENDS WalletSyncRefinement, TLAPS

-----------------------------------------------------------------------------
(* The SQL statements keep the columns well typed and coherent. *)

\* A request stays within the generation bound and leaves work pending beyond
\* the active claim.
LEMMA RequestedRow ==
  ASSUME NEW r \in Row, Coherent(r), CanRequest(r), NEW reopen \in BOOLEAN
  PROVE  /\ Requested(r, reopen) \in Row
         /\ Coherent(Requested(r, reopen))
         /\ Requested(r, reopen).requested > r.claimed
         /\ Requested(r, reopen).requested >= r.requested
<1> DEFINE s == Requested(r, reopen)
<1>1. s \in Row
  <2>1. Ahead(r) \in Gens
    BY RowAssumption DEF Row, CanRequest, Ahead, Gens
  <2>2. /\ (r.actionRequired /\ ~reopen) \in BOOLEAN
        /\ (r.waiting /\ ~reopen) \in BOOLEAN
        /\ (r.retried /\ ~reopen) \in BOOLEAN
        /\ (\/ r.bumped
            \/ Ahead(r) # r.requested
            \/ reopen /\ (r.actionRequired \/ r.waiting \/ r.retried)) \in BOOLEAN
    BY Zenon DEF Row
  <2>3. ASSUME NEW a \in BOOLEAN, NEW b \in BOOLEAN, NEW c \in BOOLEAN,
               NEW d \in BOOLEAN
        PROVE  [r EXCEPT !.requested = Ahead(r), !.actionRequired = a,
                         !.waiting = b, !.retried = c, !.bumped = d] \in Row
    BY <2>1, Zenon DEF Row
  <2> QED BY <2>2, <2>3, ZenonT(30) DEF Requested
<1>2. Coherent(s)
  BY RowAssumption DEF Row, Coherent, Requested, Ahead, Gens, Fulls
<1>3. s.requested > r.claimed /\ s.requested >= r.requested
  BY DEF Row, Requested, Ahead, Gens
<1> QED BY <1>1, <1>2, <1>3, Zenon

\* A request for a full resync leaves the rebuild pending.
LEMMA FullRequestedRow ==
  ASSUME NEW r \in Row, Coherent(r), CanRequestFull(r)
  PROVE  /\ FullRequested(r) \in Row
         /\ Coherent(FullRequested(r))
         /\ FullPending(FullRequested(r))
         /\ FullRequested(r).requested >= r.requested
<1> DEFINE s == FullRequested(r)
<1>1. s \in Row
  <2>1. (IF KeepsGeneration(r) THEN r.requested ELSE Ahead(r)) \in Gens
    BY RowAssumption
       DEF Row, CanRequestFull, KeepsGeneration, FullPending, Ahead, Gens
  <2>2. (IF FullPending(r) THEN r.reqFull ELSE r.reqFull + 1) \in Fulls
    BY RowAssumption DEF Row, Coherent, CanRequestFull, FullPending, Fulls
  <2>3. (\/ r.bumped \/ ~KeepsGeneration(r) \/ r.actionRequired \/ r.waiting
         \/ r.retried) \in BOOLEAN
    BY Zenon DEF Row
  <2>4. ASSUME NEW f \in Fulls, NEW g \in Gens, NEW d \in BOOLEAN
        PROVE  [r EXCEPT !.reqFull = f, !.requested = g,
                         !.actionRequired = FALSE, !.waiting = FALSE,
                         !.retried = FALSE, !.bumped = d] \in Row
    BY Zenon DEF Row
  <2> QED BY <2>1, <2>2, <2>3, <2>4, Zenon DEF FullRequested
<1>2. Coherent(s) /\ FullPending(s)
  BY RowAssumption DEF Row, Coherent, FullRequested, KeepsGeneration,
                       FullPending, Ahead, Gens, Fulls
<1>3. s.requested >= r.requested
  BY RowAssumption DEF Row, FullRequested, Ahead, Gens
<1> QED BY <1>1, <1>2, <1>3, Zenon

\* A claim of a generation beyond the processed one, under a real token.
LEMMA ClaimedRow ==
  ASSUME NEW r \in Row, Coherent(r), NEW gen \in Gens, NEW t \in Tokens,
         gen > r.processed, gen <= r.requested
  PROVE  ClaimedBy(r, gen, t) \in Row /\ Coherent(ClaimedBy(r, gen, t))
<1>1. ClaimedBy(r, gen, t) \in Row
  BY RowAssumption, Zenon DEF Row, ClaimedBy, Gens, Fulls
<1>2. Coherent(ClaimedBy(r, gen, t))
  BY RowAssumption DEF Row, Coherent, ClaimedBy, Gens, Fulls
<1> QED BY <1>1, <1>2, Zenon

\* The terminal writes of an owned claim and the two resets.
LEMMA CompletedRow ==
  ASSUME NEW r \in Row, Coherent(r)
  PROVE  Completed(r) \in Row /\ Coherent(Completed(r))
<1>1. Completed(r) \in Row
  BY ZenonT(30) DEF Row, Completed, Unleased
<1>2. Coherent(Completed(r))
  BY RowAssumption DEF Row, Coherent, Completed, Unleased, Gens, Fulls
<1> QED BY <1>1, <1>2, Zenon

\* A release or a reset gives the claim back and keeps the row coherent.
LEMMA ReleasedRow ==
  ASSUME NEW r \in Row, Coherent(r)
  PROVE  /\ ReleasedForRetry(r) \in Row /\ Coherent(ReleasedForRetry(r))
         /\ ReleasedAsActionRequired(r) \in Row
         /\ Coherent(ReleasedAsActionRequired(r))
         /\ ResetAttempt(r) \in Row /\ Coherent(ResetAttempt(r))
<1>1. /\ ReleasedForRetry(r) \in Row
      /\ ReleasedAsActionRequired(r) \in Row
      /\ ResetAttempt(r) \in Row
  BY ZenonT(30)
     DEF Row, ReleasedForRetry, ReleasedAsActionRequired, ResetAttempt, Unleased
<1>2. Coherent(ReleasedForRetry(r))
  BY RowAssumption DEF Row, Coherent, ReleasedForRetry, Unleased, Gens, Fulls
<1>3. Coherent(ReleasedAsActionRequired(r))
  BY RowAssumption
     DEF Row, Coherent, ReleasedAsActionRequired, Unleased, Gens, Fulls
<1>4. Coherent(ResetAttempt(r))
  BY RowAssumption DEF Row, Coherent, ResetAttempt, Unleased, Gens, Fulls
<1> QED BY <1>1, <1>2, <1>3, <1>4, Zenon

\* The wipe and the completion of a full resync, under the fence.
LEMMA WipedRow ==
  ASSUME NEW r \in Row, Coherent(r), NEW full \in Fulls, full <= r.reqFull,
         r.token # NoToken
  PROVE  Wiped(r, full) \in Row /\ Coherent(Wiped(r, full))
BY RowAssumption, ZenonT(30) DEF Row, Coherent, Wiped, Gens, Fulls

\* Completing a rebuild processes its incremental and its full generation.
LEMMA FullCompletedRow ==
  ASSUME NEW r \in Row, Coherent(r), NEW full \in Fulls,
         CanCompleteFull(r, full)
  PROVE  /\ FullCompleted(r, full, r.claimed) \in Row
         /\ Coherent(FullCompleted(r, full, r.claimed))
<1>1. FullCompleted(r, full, r.claimed) \in Row
  BY ZenonT(30) DEF Row, FullCompleted, Unleased
<1>2. Coherent(FullCompleted(r, full, r.claimed))
  BY RowAssumption
     DEF Row, Coherent, FullCompleted, CanCompleteFull, Unleased, Gens, Fulls
<1> QED BY <1>1, <1>2, Zenon

\* Recording an exhausted lock budget touches no claim.
LEMMA ContentionRow ==
  ASSUME NEW r \in Row, Coherent(r)
  PROVE  ContentionRecorded(r) \in Row /\ Coherent(ContentionRecorded(r))
BY RowAssumption, Zenon DEF Row, Coherent, ContentionRecorded, Gens, Fulls

-----------------------------------------------------------------------------
(* The inductive invariant.  What makes the safety properties inductive is  *)
(* that an attempt is tied to the row by its token: tokens of attempts are  *)
(* real and distinct, and whatever an attempt remembers about the row is    *)
(* still true for as long as its fence holds.                               *)

FencesDistinct ==
  /\ \A w \in Workers : HasFence(w) => worker[w].token \in Tokens
  /\ \A v, w \in Workers :
       HasFence(v) /\ HasFence(w) /\ worker[v].token = worker[w].token => v = w

AttemptsCurrent ==
  \A w \in Workers :
    /\ worker[w].unseen => HasFence(w)
    /\ HasFence(w) /\ Fence(w) =>
         /\ worker[w].unseen => row.requested > row.claimed
         /\ worker[w].phase \in {"fetched", "written"}
              => worker[w].base = row.prepared
         /\ worker[w].phase = "written" => row.prepared \in history

IInv ==
  /\ TypeOK
  /\ RowCoherent
  /\ FencesDistinct
  /\ AttemptsCurrent
  /\ NoLostActivity
  /\ NoStaleBatch
  /\ RebuiltBeforeProcessed

-----------------------------------------------------------------------------
(* Typing of the queue and of the workers *)

\* Announcing a well-formed wake-up.
LEMMA AnnounceType ==
  ASSUME TypeOK, NEW x \in Wakeup, Announce(x)
  PROVE  inFlight' \subseteq Wakeup
BY Zenon DEF TypeOK, Announce

\* A wake-up becomes a job that was never attempted.
LEMMA NewJobType ==
  ASSUME NEW x \in Wakeup
  PROVE  NewJob(x) \in Job
BY SyncAssumption DEF Wakeup, Job, NewJob

\* A job keeps its type whoever holds it.
LEMMA MovedJobType ==
  ASSUME NEW j \in Job, NEW p \in Workers \cup {Nobody, Orphan}
  PROVE  [j EXCEPT !.at = p] \in Job
BY Zenon DEF Job

\* Settling a delivery removes its job or counts one more attempt.
LEMMA FinishJobType ==
  ASSUME TypeOK, NEW w \in Workers, NEW outcome, FinishJob(w, outcome)
  PROVE  queue' \subseteq Job
<1>1. ASSUME NEW j \in Job, ~FinalAttempt(j.made)
      PROVE  [j EXCEPT !.made = j.made + 1, !.at = Nobody] \in Job
  <2>1. j.made + 1 \in 0..(MaxAttempts - 1)
    BY <1>1, SyncAssumption DEF Job, FinalAttempt
  <2> QED BY <1>1, <2>1, Zenon DEF Job
<1> QED BY <1>1, ZenonT(30) DEF TypeOK, FinishJob, Delivered

\* The worker between two jobs is well-formed.
LEMMA IdleWorkerType == IdleWorker \in Worker
BY SyncAssumption, RowAssumption
   DEF IdleWorker, Worker, Phases, Fulls, Gens

\* Taking a job keeps the queue and the worker well-formed.
LEMMA StartType ==
  ASSUME TypeOK, NEW w \in Workers, NEW j, NEW phase \in Phases,
         Start(w, j, phase)
  PROVE  /\ queue' \subseteq Job
         /\ worker' \in [Workers -> Worker]
<1>1. j \in Job
  BY Zenon DEF TypeOK, Start
<1>2. [IdleWorker EXCEPT !.phase = phase, !.full = j.full, !.gen = j.gen,
                         !.made = j.made] \in Worker
  BY <1>1, IdleWorkerType, Zenon DEF Worker, Job
<1> QED BY <1>1, <1>2, MovedJobType, Zenon DEF TypeOK, Start

\* Leaving the handler or its attempt drops the fence.
LEMMA LeaveType ==
  ASSUME TypeOK, NEW w \in Workers,
         NEW outcome \in {"none", "done", "failed", "unrecoverable"},
         Leave(w, outcome)
  PROVE  /\ worker' \in [Workers -> Worker]
         /\ worker'[w].phase = "settling" /\ ~worker'[w].unseen
         /\ \A v \in Workers \ {w} : worker'[v] = worker[v]
<1> DEFINE x == [IdleWorker EXCEPT !.phase = "settling", !.full = worker[w].full,
                                  !.gen = worker[w].gen, !.made = worker[w].made,
                                  !.outcome = outcome]
<1>1. x \in Worker /\ x.phase = "settling" /\ ~x.unseen
  <2>1. worker[w] \in Worker
    BY Zenon DEF TypeOK
  <2> QED BY <2>1, IdleWorkerType, ZenonT(30) DEF IdleWorker, Worker, Phases
<1> QED BY <1>1, Zenon DEF TypeOK, Leave

-----------------------------------------------------------------------------
(* Most steps are quiet: they revoke at most the claim and end at most some *)
(* attempts, and touch neither the history nor what was processed.          *)

QuietRow ==
  /\ row'.prepared = row.prepared
  /\ row'.processed = row.processed
  /\ row'.requested >= row.requested
  /\ \/ row'.token = NoToken
     \/ row'.token = row.token /\ row'.claimed = row.claimed
  /\ \/ FullPending(row')
     \/ row'.reqFull = row.reqFull /\ row'.procFull = row.procFull

QuietWorkers ==
  \A w \in Workers :
    \/ worker'[w] = worker[w]
    \/ worker'[w].phase \notin Attempting /\ ~worker'[w].unseen

\* A step that is quiet on the row and on the workers keeps the invariant.
LEMMA QuietStep ==
  ASSUME IInv, TypeOK', RowCoherent', QuietRow, QuietWorkers,
         UNCHANGED <<history, dirty>>
  PROVE  IInv'
<1> USE DEF HasFence, Fence, Fenced
<1>1. FencesDistinct'
  BY Zenon DEF IInv, FencesDistinct, QuietWorkers
<1>2. AttemptsCurrent'
  <2> SUFFICES ASSUME NEW w \in Workers
               PROVE  /\ worker'[w].unseen => HasFence(w)'
                      /\ HasFence(w)' /\ Fence(w)' =>
                           /\ worker'[w].unseen => row'.requested > row'.claimed
                           /\ worker'[w].phase \in {"fetched", "written"}
                                => worker'[w].base = row'.prepared
                           /\ worker'[w].phase = "written"
                                => row'.prepared \in history'
    BY Zenon DEF AttemptsCurrent
  <2>1. CASE worker'[w].phase \notin Attempting /\ ~worker'[w].unseen
    BY <2>1, Zenon
  <2>2. CASE worker'[w] = worker[w] /\ row'.token = NoToken
    <3>1. HasFence(w) => worker[w].token # NoToken
      BY RowAssumption, Zenon DEF IInv, FencesDistinct
    <3>2. ~(HasFence(w)' /\ Fence(w)')
      BY <2>2, <3>1, Zenon
    <3> QED BY <2>2, <3>2, Zenon DEF IInv, AttemptsCurrent
  <2>3. CASE /\ worker'[w] = worker[w]
             /\ row'.token = row.token /\ row'.claimed = row.claimed
    <3>1. /\ row.requested \in Nat /\ row.claimed \in Nat
          /\ row'.requested \in Nat /\ row'.claimed \in Nat
      BY RowAssumption DEF IInv, TypeOK, Row, Gens
    <3> QED BY <2>3, <3>1 DEF IInv, AttemptsCurrent, QuietRow
  <2> QED BY <2>1, <2>2, <2>3, Zenon DEF QuietRow, QuietWorkers
<1>3. NoLostActivity'
  BY RowAssumption DEF IInv, TypeOK, Row, Gens, NoLostActivity, QuietRow
<1>4. NoStaleBatch'
  BY Zenon DEF IInv, NoStaleBatch, QuietRow
<1>5. RebuiltBeforeProcessed'
  BY Zenon DEF IInv, RebuiltBeforeProcessed, QuietRow, FullPending
<1> QED BY <1>1, <1>2, <1>3, <1>4, <1>5, Zenon DEF IInv

\* A step that leaves the row and the attempts alone.
LEMMA IdleStep ==
  ASSUME IInv, TypeOK', QuietWorkers, UNCHANGED <<row, history, dirty>>
  PROVE  IInv'
<1>1. QuietRow
  BY RowAssumption DEF IInv, TypeOK, Row, Gens, QuietRow
<1>2. RowCoherent'
  BY Zenon DEF IInv, RowCoherent
<1> QED BY <1>1, <1>2, QuietStep, Zenon

-----------------------------------------------------------------------------
(* Queue, recovery, sweep and clocks *)

\* Queue operations, lossy ones included, leave the row and attempts alone.
LEMMA QueueStep ==
  ASSUME IInv,
         \/ \E x \in inFlight : Enqueue(x) \/ DropWakeup(x)
         \/ \E j \in queue : \/ RedeliverStalled(j) \/ RedeliverRunning(j)
                             \/ LoseJob(j)
  PROVE  IInv'
<1>1. UNCHANGED <<row, lock, worker, cleaner, history, notes, dirty>>
  BY Zenon DEF Enqueue, DropWakeup, RedeliverStalled, RedeliverRunning, LoseJob
<1>2. queue' \subseteq Job /\ inFlight' \subseteq Wakeup
  <2>1. ASSUME NEW x \in inFlight, Enqueue(x)
        PROVE  queue' \subseteq Job /\ inFlight' \subseteq Wakeup
    BY <2>1, NewJobType DEF IInv, TypeOK, Enqueue
  <2>2. ASSUME NEW x \in inFlight, DropWakeup(x)
        PROVE  queue' \subseteq Job /\ inFlight' \subseteq Wakeup
    BY <2>2, Zenon DEF IInv, TypeOK, DropWakeup
  <2>3. ASSUME NEW j \in queue, RedeliverStalled(j) \/ RedeliverRunning(j)
        PROVE  queue' \subseteq Job /\ inFlight' \subseteq Wakeup
    <3>1. [j EXCEPT !.at = Nobody] \in Job
      BY MovedJobType, Zenon DEF IInv, TypeOK
    <3> QED BY <2>3, <3>1, Zenon DEF IInv, TypeOK, RedeliverStalled, RedeliverRunning
  <2>4. ASSUME NEW j \in queue, LoseJob(j)
        PROVE  queue' \subseteq Job /\ inFlight' \subseteq Wakeup
    BY <2>4, Zenon DEF IInv, TypeOK, LoseJob
  <2> QED BY <2>1, <2>2, <2>3, <2>4, Zenon
<1>3. TypeOK'
  BY <1>1, <1>2, Zenon DEF IInv, TypeOK
<1> QED BY <1>1, <1>3, IdleStep, Zenon DEF QuietWorkers

\* A recovery pass only announces wake-ups of existing generations.
LEMMA RecoveryStep ==
  ASSUME IInv, Recovery
  PROVE  IInv'
<1>1. row.requested \in Gens /\ row.claimed \in Gens /\ row.reqFull \in Fulls
  BY Zenon DEF IInv, TypeOK, Row
<1>2. 0 \in Fulls
  BY RowAssumption DEF Fulls
<1>3. \E x \in Wakeup : RecoverWith(x)
  BY <1>1, <1>2, Zenon
     DEF Recovery, RecoverFull, RecoverIncremental, RecoverExpired, Wakeup
<1>4. inFlight' \subseteq Wakeup
  BY <1>3, AnnounceType, Zenon DEF IInv, RecoverWith
<1>5. UNCHANGED <<row, lock, queue, worker, cleaner, history, notes, dirty>>
  BY <1>3, Zenon DEF RecoverWith
<1>6. TypeOK'
  BY <1>4, <1>5, Zenon DEF IInv, TypeOK
<1> QED BY <1>5, <1>6, IdleStep, Zenon DEF QuietWorkers

\* Losing or taking the Redis lock changes nothing the fence relies on.
LEMMA LockStep ==
  ASSUME IInv,
         CleanerLock \/ CleanerAbandon \/ OrphanLockExpires \/ HeldLockExpires
  PROVE  IInv'
<1>1. UNCHANGED <<row, queue, inFlight, worker, history, notes, dirty>>
  BY Zenon DEF CleanerLock, CleanerAbandon, OrphanLockExpires, HeldLockExpires
<1>2. TypeOK'
  BY <1>1, RowAssumption
     DEF IInv, TypeOK, CleanerLock, CleanerAbandon, OrphanLockExpires,
         HeldLockExpires
<1> QED BY <1>1, <1>2, IdleStep, Zenon DEF QuietWorkers

\* Steps that change the row only, and quietly.
LEMMA RowStep ==
  ASSUME IInv,
         \/ RequestFull \/ ManualReset \/ CleanerScan \/ CleanerReset
         \/ LeaseExpires \/ RetryComesDue
  PROVE  IInv'
<1>0. row \in Row /\ Coherent(row)
  BY Zenon DEF IInv, TypeOK, RowCoherent
<1>1. CASE RequestFull
  <2>1. row' \in Row /\ Coherent(row') /\ row'.requested >= row.requested
        /\ FullPending(row')
    BY <1>0, <1>1, FullRequestedRow, Zenon DEF RequestFull
  <2>2. QuietRow
    BY <1>0, <1>1, <2>1, ZenonT(40) DEF RequestFull, FullRequested, QuietRow, Row
  <2>3. [full |-> row'.reqFull, gen |-> row'.requested] \in Wakeup
    BY <2>1, Zenon DEF Row, Wakeup
  <2>4. TypeOK'
    BY <1>1, <2>1, <2>3, AnnounceType, Zenon DEF IInv, TypeOK, RequestFull
  <2> QED BY <1>1, <2>1, <2>2, <2>4, QuietStep, Zenon
          DEF RequestFull, QuietWorkers, RowCoherent
<1>2. CASE ManualReset
  <2>1. row' \in Row /\ Coherent(row')
    BY <1>0, <1>2, ReleasedRow, Zenon DEF ManualReset
  <2>2. QuietRow
    BY <1>0, <1>2, RowAssumption
       DEF ManualReset, ResetAttempt, Unleased, QuietRow, Row, Gens
  <2>3. TypeOK'
    BY <1>2, <2>1, Zenon DEF IInv, TypeOK, ManualReset
  <2> QED BY <1>2, <2>1, <2>2, <2>3, QuietStep, Zenon
          DEF ManualReset, QuietWorkers, RowCoherent
<1>3. CASE CleanerScan
  <2>1. row' \in Row /\ Coherent(row')
    BY <1>0, <1>3, Zenon DEF CleanerScan, Row, Coherent
  <2>2. QuietRow
    BY <1>0, <1>3, RowAssumption DEF CleanerScan, QuietRow, Row, Gens
  <2>3. TypeOK'
    BY <1>0, <1>3, <2>1, Zenon DEF IInv, TypeOK, CleanerScan, Row
  <2> QED BY <1>3, <2>1, <2>2, <2>3, QuietStep, Zenon
          DEF CleanerScan, QuietWorkers, RowCoherent
<1>4. CASE CleanerReset
  <2>1. row' \in Row /\ Coherent(row')
    BY <1>0, <1>4, ReleasedRow, Zenon DEF CleanerReset
  <2>2. QuietRow
    BY <1>0, <1>4, RowAssumption
       DEF CleanerReset, ResetAttempt, Unleased, QuietRow, Row, Gens
  <2>3. TypeOK'
    BY <1>4, <2>1, Zenon DEF IInv, TypeOK, CleanerReset
  <2> QED BY <1>4, <2>1, <2>2, <2>3, QuietStep, Zenon
          DEF CleanerReset, QuietWorkers, RowCoherent
<1>5. CASE LeaseExpires \/ RetryComesDue
  <2>1. row' \in Row /\ Coherent(row')
    BY <1>0, <1>5, ZenonT(30) DEF LeaseExpires, RetryComesDue, Row, Coherent
  <2>2. QuietRow
    BY <1>0, <1>5, RowAssumption
       DEF LeaseExpires, RetryComesDue, QuietRow, Row, Gens
  <2>3. TypeOK'
    BY <1>5, <2>1, Zenon DEF IInv, TypeOK, LeaseExpires, RetryComesDue
  <2> QED BY <1>5, <2>1, <2>2, <2>3, QuietStep, Zenon
          DEF LeaseExpires, RetryComesDue, QuietWorkers, RowCoherent
<1> QED BY <1>1, <1>2, <1>3, <1>4, <1>5, Zenon

-----------------------------------------------------------------------------
(* Steps of a worker outside an attempt, or that end one *)

\* A worker that leaves the handler changes nothing for the others.
LEMMA LeaveQuiet ==
  ASSUME TypeOK, NEW w \in Workers,
         NEW outcome \in {"none", "done", "failed", "unrecoverable"},
         Leave(w, outcome)
  PROVE  worker' \in [Workers -> Worker] /\ QuietWorkers
<1>1. "settling" \notin Attempting
  BY Zenon DEF Attempting
<1> QED BY <1>1, LeaveType, Zenon DEF QuietWorkers

\* Taking a job, with or without the lock, and settling it.
LEMMA DeliveryStep ==
  ASSUME IInv, NEW w \in Workers,
         \/ \E j \in queue : TakeJob(w, j) \/ GiveUpLock(w, j)
         \/ Settle(w) \/ Crash(w)
  PROVE  IInv'
<1>1. UNCHANGED <<row, inFlight, cleaner, history, notes, dirty>>
  BY Zenon DEF TakeJob, GiveUpLock, Settle, Crash
<1>2. lock' \in Workers \cup {Nobody, Orphan, Cleaner}
  BY Zenon DEF IInv, TypeOK, TakeJob, GiveUpLock, Settle, Crash
<1>3. CASE \E j \in queue : TakeJob(w, j) \/ GiveUpLock(w, j)
  <2>1. PICK j \in queue, phase \in {"locked", "contended"} : Start(w, j, phase)
    BY <1>3, Zenon DEF TakeJob, GiveUpLock
  <2>2. phase \in Phases \ Attempting
    BY Zenon DEF Phases, Attempting
  <2>3. queue' \subseteq Job /\ worker' \in [Workers -> Worker]
    BY <2>1, <2>2, StartType, Zenon DEF IInv
  <2>4. QuietWorkers
    BY <2>1, <2>2, Zenon DEF IInv, TypeOK, Start, QuietWorkers, IdleWorker
  <2>5. TypeOK'
    BY <1>1, <1>2, <2>3, Zenon DEF IInv, TypeOK
  <2> QED BY <1>1, <2>4, <2>5, IdleStep, Zenon
<1>4. CASE Settle(w) \/ Crash(w)
  <2>1. worker' = [worker EXCEPT ![w] = IdleWorker]
    BY <1>4, Zenon DEF Settle, Crash
  <2>2. worker' \in [Workers -> Worker] /\ QuietWorkers
    BY <2>1, IdleWorkerType, Zenon
       DEF IInv, TypeOK, QuietWorkers, IdleWorker, Attempting
  <2>3. queue' \subseteq Job
    <3>1. CASE Settle(w)
      BY <3>1, FinishJobType, Zenon DEF IInv, Settle
    <3>2. CASE Crash(w)
      BY <3>2, MovedJobType, SMTT(30) DEF IInv, TypeOK, Crash
    <3> QED BY <1>4, <3>1, <3>2, Zenon
  <2>4. TypeOK'
    BY <1>1, <1>2, <2>2, <2>3, Zenon DEF IInv, TypeOK
  <2> QED BY <1>1, <2>2, <2>4, IdleStep, Zenon
<1> QED BY <1>3, <1>4, Zenon

\* Every way out of the handler that does not write the row.
LEMMA MissStep ==
  ASSUME IInv, NEW w \in Workers,
         \/ ClaimBlocked(w) \/ ClaimMissed(w) \/ ClassifyMiss(w)
         \/ ObserveExpired(w) \/ ReclaimMissed(w) \/ FenceLost(w)
         \/ CompletionLost(w) \/ ReleaseFails(w)
  PROVE  IInv'
<1>1. UNCHANGED <<row, lock, queue, inFlight, cleaner, history, notes, dirty>>
  BY Zenon DEF ClaimBlocked, ClaimMissed, ClassifyMiss, ObserveExpired,
         ReclaimMissed, FenceLost, CompletionLost, ReleaseFails
<1>2. worker[w] \in Worker /\ worker \in [Workers -> Worker]
  BY Zenon DEF IInv, TypeOK
<1>3. ASSUME NEW outcome \in {"done", "failed"}, Leave(w, outcome)
      PROVE  worker' \in [Workers -> Worker] /\ QuietWorkers
  BY <1>3, LeaveQuiet, Zenon DEF IInv
<1>4. ASSUME NEW phase \in {"missed", "reclaim"}, Move(w, phase),
             ~HasFence(w)
      PROVE  worker' \in [Workers -> Worker] /\ QuietWorkers
  <2>1. phase \in Phases \ Attempting
    BY Zenon DEF Phases, Attempting
  <2>2. ~worker[w].unseen
    BY <1>4, Zenon DEF IInv, AttemptsCurrent
  <2>3. /\ [worker[w] EXCEPT !.phase = phase] \in Worker
        /\ [worker[w] EXCEPT !.phase = phase].phase = phase
        /\ [worker[w] EXCEPT !.phase = phase].unseen = worker[w].unseen
    BY <1>2, <2>1, Zenon DEF Worker
  <2> QED BY <1>2, <1>4, <2>1, <2>2, <2>3, Zenon DEF Move, QuietWorkers
<1>5. CASE ObserveExpired(w) /\ worker'[w].phase = "observed"
  <2>1. worker' = [worker EXCEPT ![w].phase = "observed", ![w].token = row.token]
    BY <1>2, <1>5, ZenonT(30) DEF ObserveExpired, Leave, IdleWorker
  <2>2. ~worker[w].unseen
    BY <1>5, Zenon DEF IInv, AttemptsCurrent, ObserveExpired, HasFence, Attempting
  <2>3. row.token \in Tokens \cup {NoToken}
    BY Zenon DEF IInv, TypeOK, Row
  <2>4. worker' \in [Workers -> Worker]
    BY <1>2, <2>1, <2>3, ZenonT(30) DEF Worker, Phases
  <2>5. QuietWorkers
    BY <1>2, <2>1, <2>2, Zenon DEF QuietWorkers, Attempting, Worker
  <2> QED BY <1>1, <2>4, <2>5, IdleStep, Zenon DEF IInv, TypeOK
<1>6. CASE ~(ObserveExpired(w) /\ worker'[w].phase = "observed")
  <2>1. \/ \E outcome \in {"done", "failed"} : Leave(w, outcome)
        \/ ~HasFence(w) /\ \E phase \in {"missed", "reclaim"} : Move(w, phase)
    <3>1. CASE ObserveExpired(w)
      <4>1. \/ Leave(w, "failed")
            \/ worker' = [worker EXCEPT ![w].phase = "observed",
                                       ![w].token = row.token]
        BY <3>1, Zenon DEF ObserveExpired
      <4>2. [[worker[w] EXCEPT !.phase = "observed"]
               EXCEPT !.token = row.token].phase = "observed"
        BY <1>2, Zenon DEF Worker
      <4> QED BY <1>2, <1>6, <3>1, <4>1, <4>2, Zenon
    <3>2. CASE ClaimMissed(w) \/ ClassifyMiss(w)
      BY <3>2, ZenonT(30) DEF ClaimMissed, ClassifyMiss, HasFence, Attempting
    <3>3. CASE \/ ClaimBlocked(w) \/ ReclaimMissed(w) \/ FenceLost(w)
               \/ CompletionLost(w) \/ ReleaseFails(w)
      BY <3>3, Zenon DEF ClaimBlocked, ReclaimMissed, FenceLost, CompletionLost,
                  ReleaseFails
    <3> QED BY <3>1, <3>2, <3>3, Zenon
  <2>2. worker' \in [Workers -> Worker] /\ QuietWorkers
    BY <1>3, <1>4, <2>1, Zenon
  <2> QED BY <1>1, <2>2, IdleStep, Zenon DEF IInv, TypeOK
<1> QED BY <1>5, <1>6, Zenon

\* Giving up on the lock and giving up an attempt also write the row.
LEMMA FailStep ==
  ASSUME IInv, NEW w \in Workers,
         \/ RecordContention(w)
         \/ \E permanent \in BOOLEAN : FailAttempt(w, permanent)
  PROVE  IInv'
<1>0. row \in Row /\ Coherent(row)
  BY Zenon DEF IInv, TypeOK, RowCoherent
<1>1. UNCHANGED <<lock, inFlight, cleaner, history, notes, dirty>>
  BY Zenon DEF RecordContention, FailAttempt
<1>2. row' \in {row, ContentionRecorded(row), ReleasedForRetry(row),
                ReleasedAsActionRequired(row)}
  BY Zenon DEF RecordContention, FailAttempt
<1>3. row' \in Row /\ Coherent(row')
  BY <1>0, <1>2, ContentionRow, ReleasedRow, Zenon
<1>4. QuietRow
  <2>1. CASE row' = row
    BY <1>0, <2>1, RowAssumption DEF QuietRow, Row, Gens
  <2>2. CASE row' = ContentionRecorded(row)
    BY <1>0, <2>2, RowAssumption DEF QuietRow, ContentionRecorded, Row, Gens
  <2>3. CASE row' = ReleasedForRetry(row)
    BY <1>0, <2>3, RowAssumption
       DEF QuietRow, ReleasedForRetry, Unleased, Row, Gens
  <2>4. CASE row' = ReleasedAsActionRequired(row)
    BY <1>0, <2>4, RowAssumption
       DEF QuietRow, ReleasedAsActionRequired, Unleased, Row, Gens
  <2> QED BY <1>2, <2>1, <2>2, <2>3, <2>4, Zenon
<1>5. worker' \in [Workers -> Worker] /\ QuietWorkers
  <2>1. CASE RecordContention(w)
    BY <2>1, IdleWorkerType, Zenon
       DEF IInv, TypeOK, RecordContention, QuietWorkers, IdleWorker, Attempting
  <2>2. CASE \E permanent \in BOOLEAN : FailAttempt(w, permanent)
    <3>1. \E outcome \in {"failed", "unrecoverable"} : Leave(w, outcome)
      BY <2>2, Zenon DEF FailAttempt
    <3> QED BY <3>1, LeaveQuiet, Zenon DEF IInv
  <2> QED BY <2>1, <2>2, Zenon
<1>6. queue' \subseteq Job
  BY FinishJobType, Zenon DEF IInv, TypeOK, RecordContention, FailAttempt
<1>7. TypeOK'
  BY <1>1, <1>3, <1>5, <1>6, Zenon DEF IInv, TypeOK
<1> QED BY <1>1, <1>3, <1>4, <1>5, <1>7, QuietStep, Zenon DEF RowCoherent

-----------------------------------------------------------------------------
(* Requests, and the steps of an attempt *)

\* Requests open a later generation than any attempt in progress.
LEMMA RequestStep ==
  ASSUME IInv, NEW reopen \in BOOLEAN, Request(reopen)
  PROVE  IInv'
<1>0. /\ row \in Row /\ Coherent(row) /\ CanRequest(row)
      /\ worker \in [Workers -> Worker]
  BY Zenon DEF IInv, TypeOK, RowCoherent, Request
<1>1. /\ row' \in Row /\ Coherent(row')
      /\ row'.requested > row.claimed /\ row'.requested >= row.requested
  BY <1>0, RequestedRow, Zenon DEF Request
<1>2. /\ row'.claimed = row.claimed /\ row'.token = row.token
      /\ row'.prepared = row.prepared /\ row'.processed = row.processed
      /\ row'.reqFull = row.reqFull /\ row'.procFull = row.procFull
  BY <1>0, Zenon DEF Request, Requested, Row
<1>3. ASSUME NEW w \in Workers
      PROVE  /\ worker'[w] \in Worker
             /\ worker'[w].phase = worker[w].phase
             /\ worker'[w].token = worker[w].token
             /\ worker'[w].gen = worker[w].gen
             /\ worker'[w].base = worker[w].base
             /\ worker'[w].unseen => HasFence(w) \/ worker[w].unseen
  BY <1>0, ZenonT(30) DEF Request, MarkUnseen, Worker
<1>4. TypeOK'
  <2>1. [full |-> 0, gen |-> row'.requested] \in Wakeup
    BY <1>1, RowAssumption DEF Row, Wakeup, Fulls
  <2>2. inFlight' \subseteq Wakeup
    BY <2>1, AnnounceType, Zenon DEF IInv, TypeOK, Request
  <2>3. worker' \in [Workers -> Worker]
    BY <1>3, Zenon DEF Request, MarkUnseen
  <2> QED BY <1>1, <2>2, <2>3, Zenon DEF IInv, TypeOK, Request
<1>5. FencesDistinct'
  BY <1>3, Zenon DEF IInv, FencesDistinct, HasFence
<1>6. AttemptsCurrent'
  <2> SUFFICES ASSUME NEW w \in Workers
               PROVE  /\ worker'[w].unseen => HasFence(w)'
                      /\ HasFence(w)' /\ Fence(w)' =>
                           /\ worker'[w].unseen => row'.requested > row'.claimed
                           /\ worker'[w].phase \in {"fetched", "written"}
                                => worker'[w].base = row'.prepared
                           /\ worker'[w].phase = "written"
                                => row'.prepared \in history'
    BY Zenon DEF AttemptsCurrent
  <2>1. (HasFence(w)' <=> HasFence(w)) /\ (Fence(w)' <=> Fence(w))
    BY <1>2, <1>3, Zenon DEF HasFence, Fence, Fenced
  <2>2. history' = history
    BY Zenon DEF Request
  <2> QED BY <1>1, <1>2, <1>3, <2>1, <2>2, ZenonT(30) DEF IInv, AttemptsCurrent
<1>7. NoLostActivity'
  BY <1>0, <1>1, <1>2, RowAssumption, SMTT(30)
     DEF NoLostActivity, Coherent, Row, Gens
<1>8. NoStaleBatch' /\ RebuiltBeforeProcessed'
  BY <1>2, Zenon DEF IInv, NoStaleBatch, RebuiltBeforeProcessed, FullPending, Request
<1> QED BY <1>1, <1>4, <1>5, <1>6, <1>7, <1>8, Zenon DEF IInv, RowCoherent

\* The fresh token shuts out every other attempt.
LEMMA ClaimStep ==
  ASSUME IInv, NEW w \in Workers, ClaimFresh(w) \/ Reclaim(w)
  PROVE  IInv'
<1>0. /\ row \in Row /\ Coherent(row) /\ worker \in [Workers -> Worker]
      /\ worker[w] \in Worker
  BY Zenon DEF IInv, TypeOK, RowCoherent
<1>1. PICK t \in FreshTokens : Claim(w, t)
  BY Zenon DEF ClaimFresh, Reclaim
<1> DEFINE gen == worker[w].gen
<1>2. gen \in Gens /\ gen > row.processed /\ gen <= row.requested
  BY <1>0, RowAssumption, Zenon
     DEF ClaimFresh, Reclaim, CanClaimFresh, CanReclaim, ClaimEligible,
         Coherent, Row, Worker, Gens
<1>3. t \in Tokens /\ \A v \in Workers : worker[v].token # t
  BY Zenon DEF FreshTokens
<1>4. row' \in Row /\ Coherent(row')
  BY <1>0, <1>1, <1>2, <1>3, ClaimedRow, Zenon DEF Claim
<1>5. /\ row'.claimed = gen /\ row'.token = t
      /\ row'.requested = row.requested /\ row'.processed = row.processed
      /\ row'.prepared = row.prepared
      /\ row'.reqFull = row.reqFull /\ row'.procFull = row.procFull
  BY <1>0, <1>1, Zenon DEF Claim, ClaimedBy, Row
<1>6. /\ worker' \in [Workers -> Worker]
      /\ worker'[w].phase = "claimed" /\ worker'[w].token = t
      /\ worker'[w].unseen = worker[w].unseen
      /\ \A v \in Workers \ {w} : worker'[v] = worker[v]
  BY <1>0, <1>1, <1>3, Zenon DEF Claim, Worker, Phases
<1>7. ~worker[w].unseen
  BY Zenon DEF IInv, AttemptsCurrent, HasFence, Attempting, ClaimFresh, Reclaim
<1>8. TypeOK'
  BY <1>1, <1>4, <1>6, Zenon DEF IInv, TypeOK, Claim
<1>9. FencesDistinct'
  BY <1>3, <1>6, ZenonT(30) DEF IInv, FencesDistinct, HasFence
<1>10. AttemptsCurrent'
  <2>1. ASSUME NEW v \in Workers \ {w} PROVE ~Fence(v)'
    BY <1>3, <1>5, <1>6, Zenon DEF Fence, Fenced
  <2> QED BY <1>6, <1>7, <2>1, Zenon
          DEF IInv, AttemptsCurrent, HasFence, Attempting
<1>11. NoLostActivity' /\ NoStaleBatch' /\ RebuiltBeforeProcessed'
  BY <1>1, <1>5, Zenon
     DEF IInv, NoLostActivity, NoStaleBatch, RebuiltBeforeProcessed,
         FullPending, Claim
<1> QED BY <1>4, <1>8, <1>9, <1>10, <1>11, Zenon DEF IInv, RowCoherent

\* An attempt that passes the fence is the only one that does.
LEMMA FenceExcludes ==
  ASSUME IInv, NEW v \in Workers, NEW w \in Workers,
         HasFence(v), HasFence(w), Fence(v), Fence(w)
  PROVE  v = w /\ row.token # NoToken
BY RowAssumption, Zenon DEF IInv, FencesDistinct, Fence, Fenced

\* A step that creates no fence and keeps the token of every other one.
LEMMA FencesKept ==
  ASSUME FencesDistinct,
         \A v \in Workers :
           HasFence(v)' => HasFence(v) /\ worker'[v].token = worker[v].token
  PROVE  FencesDistinct'
BY Zenon DEF FencesDistinct

\* What moving on within an attempt leaves alone.
LEMMA MoveType ==
  ASSUME TypeOK, NEW w \in Workers, NEW phase \in Phases, Move(w, phase)
  PROVE  /\ worker' \in [Workers -> Worker]
         /\ worker'[w].phase = phase
         /\ worker'[w].token = worker[w].token
         /\ worker'[w].gen = worker[w].gen
         /\ worker'[w].base = worker[w].base
         /\ worker'[w].unseen = worker[w].unseen
         /\ \A v \in Workers \ {w} : worker'[v] = worker[v]
BY ZenonT(40) DEF TypeOK, Move, Worker

\* Only the fenced attempt wipes, so no other batch is outstanding.
LEMMA PrepareStep ==
  ASSUME IInv, NEW w \in Workers, Prepare(w)
  PROVE  IInv'
<1>0. /\ row \in Row /\ Coherent(row) /\ worker[w] \in Worker
      /\ HasFence(w) /\ Fence(w)
  BY Zenon DEF IInv, TypeOK, RowCoherent, Prepare, HasFence, Attempting
<1>1. row.token # NoToken
  BY <1>0, FenceExcludes, ZenonT(30)
<1>2. /\ worker' \in [Workers -> Worker]
      /\ worker'[w].phase = "prepared"
      /\ worker'[w].token = worker[w].token
      /\ worker'[w].gen = worker[w].gen
      /\ worker'[w].unseen = worker[w].unseen
      /\ \A v \in Workers \ {w} : worker'[v] = worker[v]
  BY MoveType, Zenon DEF IInv, Prepare, Phases
<1>3. FencesDistinct'
  <2>1. ASSUME NEW v \in Workers, HasFence(v)'
        PROVE  HasFence(v) /\ worker'[v].token = worker[v].token
    BY <1>0, <1>2, <2>1, Zenon DEF HasFence
  <2> QED BY <2>1, FencesKept, Zenon DEF IInv
<1>4. CASE MustWipe(row, worker[w].full)
  <2>1. row' \in Row /\ Coherent(row')
    BY <1>0, <1>1, <1>4, WipedRow, Zenon DEF Prepare, Worker
  <2>2. /\ row'.claimed = row.claimed /\ row'.token = row.token
        /\ row'.requested = row.requested /\ row'.processed = row.processed
        /\ row'.reqFull = row.reqFull /\ row'.procFull = row.procFull
    BY <1>0, <1>4, ZenonT(30) DEF Prepare, Wiped, Row
  <2>3. TypeOK'
    <3>1. Captured(notes) \in [live : BOOLEAN, saved : BOOLEAN]
      <4>1. (notes.saved \/ notes.live) \in BOOLEAN
        BY Zenon
      <4> QED BY <4>1, Zenon DEF Captured
    <3> QED BY <1>2, <1>4, <2>1, <3>1, Zenon DEF IInv, TypeOK, Prepare
  <2>4. AttemptsCurrent'
    <3>1. ASSUME NEW v \in Workers \ {w}, HasFence(v) PROVE ~Fence(v)'
      <4>1. ~Fence(v)
        BY <1>0, <3>1, FenceExcludes, ZenonT(30)
      <4> QED BY <1>2, <2>2, <4>1, Zenon DEF Fence, Fenced
    <3>2. ASSUME NEW v \in Workers \ {w}
          PROVE  /\ worker'[v].unseen => HasFence(v)'
                 /\ HasFence(v)' => ~Fence(v)'
      BY <1>2, <3>1, Zenon DEF IInv, AttemptsCurrent, HasFence
    <3>3. /\ HasFence(w)'
          /\ Fence(w)' /\ worker'[w].unseen => row'.requested > row'.claimed
      BY <1>0, <1>2, <2>2, Zenon
         DEF IInv, AttemptsCurrent, HasFence, Attempting, Fence, Fenced
    <3> QED BY <1>2, <3>2, <3>3, Zenon DEF AttemptsCurrent
  <2>5. FullPending(row')
    <3>1. /\ row.reqFull \in Nat /\ row.procFull \in Nat
          /\ worker[w].full \in Nat
      BY <1>0, RowAssumption DEF Row, Worker, Fulls
    <3>2. row.procFull < worker[w].full /\ worker[w].full <= row.reqFull
      BY <1>4, ZenonT(30) DEF Prepare, MustWipe
    <3> QED BY <2>2, <3>1, <3>2, SMTT(30) DEF FullPending
  <2>6. NoLostActivity' /\ NoStaleBatch' /\ RebuiltBeforeProcessed'
    <3>1. history' = {} /\ dirty' = dirty
      BY <1>4, Zenon DEF Prepare
    <3> QED BY <2>2, <2>5, <3>1, Zenon
            DEF IInv, NoLostActivity, NoStaleBatch, RebuiltBeforeProcessed
  <2> QED BY <1>3, <2>1, <2>3, <2>4, <2>6, ZenonT(30) DEF IInv, RowCoherent
<1>5. CASE ~MustWipe(row, worker[w].full)
  <2>1. UNCHANGED <<row, history, notes, dirty>>
    BY <1>5, Zenon DEF Prepare
  <2>2. TypeOK'
    BY <1>2, <2>1, ZenonT(30) DEF IInv, TypeOK, Prepare
  <2>3. AttemptsCurrent'
    BY <1>0, <1>2, <2>1, Zenon
       DEF IInv, AttemptsCurrent, HasFence, Attempting, Fence, Fenced
  <2> QED BY <1>3, <2>1, <2>2, <2>3, Zenon
          DEF IInv, RowCoherent, NoLostActivity, NoStaleBatch,
              RebuiltBeforeProcessed
<1> QED BY <1>4, <1>5, Zenon

\* What a fenced attempt fetches is based on the current rebuild epoch.
LEMMA FetchStep ==
  ASSUME IInv, NEW w \in Workers, Fetch(w)
  PROVE  IInv'
<1>1. /\ worker \in [Workers -> Worker] /\ row.prepared \in Fulls
      /\ HasFence(w)
  BY Zenon DEF IInv, TypeOK, Row, Fetch, HasFence, Attempting
<1>2. /\ worker' \in [Workers -> Worker]
      /\ worker'[w].phase = "fetched" /\ worker'[w].base = row.prepared
      /\ worker'[w].token = worker[w].token
      /\ worker'[w].gen = worker[w].gen
      /\ worker'[w].unseen = worker[w].unseen
      /\ \A v \in Workers \ {w} : worker'[v] = worker[v]
  <2> DEFINE x == [worker[w] EXCEPT !.phase = "fetched", !.base = row.prepared]
  <2>1. /\ x \in Worker /\ x.phase = "fetched" /\ x.base = row.prepared
        /\ x.token = worker[w].token /\ x.gen = worker[w].gen
        /\ x.unseen = worker[w].unseen
    <3>1. worker[w] \in Worker
      BY <1>1, Zenon
    <3> QED BY <1>1, <3>1, Zenon DEF Worker, Phases
  <2>2. worker' = [worker EXCEPT ![w] = x]
    BY <1>1, Zenon DEF Fetch, Worker
  <2> QED BY <1>1, <2>1, <2>2, Zenon
<1>3. UNCHANGED <<row, lock, queue, inFlight, cleaner, history, notes, dirty>>
  BY Zenon DEF Fetch
<1>4. TypeOK'
  BY <1>2, <1>3, Zenon DEF IInv, TypeOK
<1>5. FencesDistinct'
  <2>1. ASSUME NEW v \in Workers, HasFence(v)'
        PROVE  HasFence(v) /\ worker'[v].token = worker[v].token
    BY <1>1, <1>2, <2>1, ZenonT(30) DEF HasFence
  <2> QED BY <2>1, FencesKept, Zenon DEF IInv
<1>6. AttemptsCurrent'
  BY <1>1, <1>2, <1>3, ZenonT(40)
     DEF IInv, AttemptsCurrent, HasFence, Attempting, Fence, Fenced
<1> QED BY <1>3, <1>4, <1>5, <1>6, Zenon
        DEF IInv, RowCoherent, NoLostActivity, NoStaleBatch,
            RebuiltBeforeProcessed, FullPending

\* The fence makes the batch one of the current epoch.
LEMMA WriteStep ==
  ASSUME IInv, NEW w \in Workers, Write(w)
  PROVE  IInv'
<1>1. /\ HasFence(w) /\ Fence(w) /\ worker[w].base = row.prepared
      /\ worker[w].phase = "fetched" /\ worker[w] \in Worker
  BY Zenon DEF IInv, TypeOK, AttemptsCurrent, Write, HasFence, Attempting
<1>2. /\ worker' \in [Workers -> Worker]
      /\ worker'[w].phase \in {"fetched", "written"}
      /\ worker'[w].token = worker[w].token
      /\ worker'[w].gen = worker[w].gen
      /\ worker'[w].base = worker[w].base
      /\ worker'[w].unseen = worker[w].unseen
      /\ \A v \in Workers \ {w} : worker'[v] = worker[v]
  BY MoveType, Zenon DEF IInv, Write, Phases
<1>3. /\ UNCHANGED <<row, lock, queue, inFlight, cleaner, notes, dirty>>
      /\ history' = history \cup {row.prepared}
  BY <1>1, Zenon DEF Write
<1>4. TypeOK'
  BY <1>2, <1>3, SMTT(30) DEF IInv, TypeOK, Row
<1>5. FencesDistinct'
  <2>1. ASSUME NEW v \in Workers, HasFence(v)'
        PROVE  HasFence(v) /\ worker'[v].token = worker[v].token
    BY <1>1, <1>2, <2>1, Zenon DEF HasFence
  <2> QED BY <2>1, FencesKept, Zenon DEF IInv
<1>6. AttemptsCurrent'
  <2>1. row' = row /\ history' = history \cup {row.prepared}
    BY <1>3, Zenon
  <2>2. ASSUME NEW v \in Workers
        PROVE  /\ worker'[v].token = worker[v].token
               /\ worker'[v].gen = worker[v].gen
               /\ worker'[v].base = worker[v].base
               /\ worker'[v].unseen = worker[v].unseen
               /\ HasFence(v)' <=> HasFence(v)
    <3>1. HasFence(w)'
      BY <1>2, Zenon DEF HasFence, Attempting
    <3>2. CASE v = w
      BY <1>1, <1>2, <3>1, <3>2, Zenon
    <3>3. CASE v # w
      <4>1. worker'[v] = worker[v]
        BY <1>2, <3>3, Zenon
      <4> QED BY <4>1, Zenon DEF HasFence
    <3> QED BY <3>2, <3>3, Zenon
  <2>3. ASSUME NEW v \in Workers, HasFence(v)', Fence(v)'
        PROVE  /\ v = w /\ worker[v].base = row.prepared
               /\ worker[v].unseen => row.requested > row.claimed
    <3>1. HasFence(v) /\ Fence(v)
      BY <2>1, <2>2, <2>3, Zenon DEF Fence, Fenced
    <3>2. v = w
      BY <1>1, <3>1, FenceExcludes, Zenon
    <3> QED BY <1>1, <3>1, <3>2, Zenon DEF IInv, AttemptsCurrent
  <2>4. ASSUME NEW v \in Workers, worker'[v].unseen PROVE HasFence(v)'
    BY <2>2, <2>4, Zenon DEF IInv, AttemptsCurrent
  <2> QED BY <2>1, <2>2, <2>3, <2>4, Zenon DEF AttemptsCurrent
<1>7. NoStaleBatch' /\ RebuiltBeforeProcessed'
  BY <1>3, Zenon DEF IInv, NoStaleBatch, RebuiltBeforeProcessed, FullPending
<1> QED BY <1>3, <1>4, <1>5, <1>6, <1>7, Zenon
        DEF IInv, RowCoherent, NoLostActivity

\* A completion processes the claimed generation; activity its attempt did
\* not see has already been given a later one.
LEMMA CompleteStep ==
  ASSUME IInv, NEW w \in Workers, Complete(w)
  PROVE  IInv'
<1>a. /\ worker[w].phase = "written" /\ CanComplete(w)
      /\ row' = IF worker[w].full = 0
                  THEN Completed(row)
                  ELSE FullCompleted(row, worker[w].full, worker[w].gen)
      /\ dirty' = worker[w].unseen
      /\ \/ Announce([full |-> 0, gen |-> row'.requested])
         \/ inFlight' = inFlight
      /\ Leave(w, "done")
      /\ lock' = lock /\ queue' = queue /\ cleaner' = cleaner
      /\ history' = history
  BY ZenonT(30) DEF Complete
<1>0. /\ row \in Row /\ Coherent(row) /\ worker[w] \in Worker
      /\ HasFence(w) /\ worker[w].phase = "written"
  BY <1>a, Zenon DEF IInv, TypeOK, RowCoherent, HasFence, Attempting
<1>1. Fence(w) /\ row.claimed = worker[w].gen
  BY <1>a, ZenonT(30) DEF CanComplete, OwnsClaim, Fence, Fenced
<1>2. /\ worker[w].unseen => row.requested > row.claimed
      /\ row.prepared \in history
  BY <1>0, <1>1, Zenon DEF IInv, AttemptsCurrent
<1>3. worker[w].full # 0 => CanCompleteFull(row, worker[w].full)
  BY <1>a, Zenon DEF CanComplete
<1>4. row' \in Row /\ Coherent(row')
  <2>1. CASE worker[w].full = 0
    BY <1>0, <1>a, <2>1, CompletedRow, Zenon
  <2>2. CASE worker[w].full # 0
    <3>1. worker[w].full \in Fulls
      BY <1>0, ZenonT(30) DEF Worker
    <3>2. row' = FullCompleted(row, worker[w].full, row.claimed)
      BY <1>1, <1>a, <2>2, Zenon
    <3> QED BY <1>0, <1>3, <2>2, <3>1, <3>2, FullCompletedRow, Zenon
  <2> QED BY <2>1, <2>2, Zenon
<1>5. /\ row'.token = NoToken /\ row'.processed = row.claimed
      /\ row'.requested = row.requested /\ row'.prepared = row.prepared
      /\ row'.reqFull = row.reqFull
  BY <1>0, <1>1, <1>a, Zenon DEF Completed, FullCompleted, Unleased, Row
<1>6. /\ worker' \in [Workers -> Worker]
      /\ worker'[w].phase = "settling" /\ ~worker'[w].unseen
      /\ \A v \in Workers \ {w} : worker'[v] = worker[v]
  BY <1>a, LeaveType, Zenon DEF IInv
<1>7. TypeOK'
  <2>1. [full |-> 0, gen |-> row'.requested] \in Wakeup
    BY <1>4, RowAssumption DEF Row, Wakeup, Fulls
  <2>2. inFlight' \subseteq Wakeup
    BY <1>a, <2>1, AnnounceType, Zenon DEF IInv, TypeOK
  <2>3. notes' \in [live : BOOLEAN, saved : BOOLEAN]
    <3>1. notes \in [live : BOOLEAN, saved : BOOLEAN]
      BY Zenon DEF IInv, TypeOK
    <3>2. notes' \in {notes, [live |-> TRUE, saved |-> FALSE]}
      BY Zenon DEF Complete, Restorations
    <3>3. CASE notes' = notes
      BY <3>1, <3>3, Zenon
    <3>4. CASE notes' = [live |-> TRUE, saved |-> FALSE]
      BY <3>4, Zenon
    <3> QED BY <3>2, <3>3, <3>4, Zenon
  <2>4. dirty' \in BOOLEAN
    BY <1>0, <1>a, Zenon DEF Worker
  <2> QED BY <1>4, <1>6, <1>a, <2>2, <2>3, <2>4, Zenon DEF IInv, TypeOK
<1>8. FencesDistinct'
  <2>1. ASSUME NEW v \in Workers, HasFence(v)'
        PROVE  HasFence(v) /\ worker'[v].token = worker[v].token
    BY <1>6, <2>1, Zenon DEF HasFence, Attempting
  <2> QED BY <2>1, FencesKept, Zenon DEF IInv
<1>9. AttemptsCurrent'
  <2>1. ASSUME NEW v \in Workers, HasFence(v)' PROVE ~Fence(v)' /\ v # w
    BY <1>5, <1>6, <2>1, RowAssumption, Zenon
       DEF IInv, FencesDistinct, HasFence, Attempting, Fence, Fenced
  <2>2. ASSUME NEW v \in Workers, worker'[v].unseen PROVE HasFence(v)'
    BY <1>6, <2>2, Zenon DEF IInv, AttemptsCurrent, HasFence
  <2> QED BY <2>1, <2>2, Zenon DEF AttemptsCurrent
<1>10. NoLostActivity'
  BY <1>2, <1>5, <1>a, Zenon DEF NoLostActivity
<1>11. NoStaleBatch'
  BY <1>5, <1>a, Zenon DEF IInv, NoStaleBatch
<1>12. RebuiltBeforeProcessed'
  <2>1. CASE worker[w].full = 0
    <3>1. row'.procFull = row.procFull
      BY <1>0, <1>a, <2>1, ZenonT(30) DEF Completed, Unleased, Row
    <3> QED BY <1>5, <1>a, <3>1, Zenon
            DEF IInv, RebuiltBeforeProcessed, FullPending
  <2>2. CASE worker[w].full # 0
    <3>1. row.prepared = row.reqFull
      BY <1>0, <1>3, <2>2, RowAssumption
         DEF CanCompleteFull, Coherent, Row, Worker, Fulls
    <3> QED BY <1>2, <1>5, <1>a, <3>1, Zenon DEF RebuiltBeforeProcessed
  <2> QED BY <2>1, <2>2, Zenon
<1> QED BY <1>4, <1>7, <1>8, <1>9, <1>10, <1>11, <1>12, Zenon DEF IInv, RowCoherent

-----------------------------------------------------------------------------
(* The theorems *)

\* Init establishes the inductive invariant.
LEMMA InitIInv == Init => IInv
<1> SUFFICES ASSUME Init PROVE IInv
  BY Zenon
<1>1. InitRow \in Row /\ Coherent(InitRow)
  BY RowAssumption, SMTT(30) DEF InitRow, Row, Coherent, Gens, Fulls
<1>2. \A w \in Workers : worker[w].phase = "idle" /\ ~worker[w].unseen
  BY Zenon DEF Init, IdleWorker
<1>3. TypeOK
  <2>1. notes \in [live : BOOLEAN, saved : BOOLEAN]
    BY Zenon DEF Init
  <2>2. cleaner \in [phase : {"idle", "scanned", "locked"},
                    token : Tokens \cup {NoToken}]
    BY Zenon DEF Init
  <2>3. history \subseteq Fulls
    BY RowAssumption DEF Init, Fulls
  <2> QED BY <1>1, <2>1, <2>2, <2>3, IdleWorkerType, Zenon DEF Init, TypeOK
<1>4. FencesDistinct /\ AttemptsCurrent
  <2>1. \A w \in Workers : ~HasFence(w)
    BY <1>2, Zenon DEF HasFence, Attempting
  <2> QED BY <1>2, <2>1, Zenon DEF FencesDistinct, AttemptsCurrent
<1>5. NoLostActivity /\ NoStaleBatch /\ RebuiltBeforeProcessed
  BY Zenon DEF Init, InitRow, NoLostActivity, NoStaleBatch, RebuiltBeforeProcessed
<1> QED BY <1>1, <1>3, <1>4, <1>5, Zenon DEF Init, IInv, RowCoherent

\* Every step preserves it, one case per group of actions.
LEMMA NextIInv == IInv /\ [Next]_vars => IInv'
<1> SUFFICES ASSUME IInv, [Next]_vars PROVE IInv'
  OBVIOUS
<1>1. CASE Users
  <2>1. CASE RequestFull
    BY <2>1, RowStep, Zenon
  <2> QED BY <1>1, <2>1, RequestStep, Zenon DEF Users
<1>2. CASE Recovery
  BY <1>2, RecoveryStep, Zenon
<1>3. CASE Clocks
  BY <1>3, RowStep, LockStep, Zenon DEF Clocks
<1>4. CASE \/ \E x \in inFlight : Enqueue(x) \/ DropWakeup(x)
           \/ \E j \in queue : \/ RedeliverStalled(j) \/ RedeliverRunning(j)
                               \/ LoseJob(j)
  BY <1>4, QueueStep, Zenon
<1>5. ASSUME NEW w \in Workers, WorkerStep(w)
      PROVE  IInv'
  BY <1>5, DeliveryStep, MissStep, FailStep, ClaimStep, PrepareStep, FetchStep,
     WriteStep, CompleteStep, Zenon DEF WorkerStep
<1>6. ASSUME NEW w \in Workers,
             \/ \E j \in queue : TakeJob(w, j) \/ GiveUpLock(w, j)
             \/ Crash(w)
      PROVE  IInv'
  BY <1>6, DeliveryStep, Zenon
<1>7. ASSUME NEW w \in Workers,
             \/ ClaimBlocked(w) \/ ReleaseFails(w)
             \/ \E permanent \in BOOLEAN : FailAttempt(w, permanent)
      PROVE  IInv'
  BY <1>7, MissStep, FailStep, Zenon
<1>8. CASE HeldLockExpires \/ ManualReset \/ Sweep
  BY <1>8, LockStep, RowStep, Zenon DEF Sweep
<1>9. CASE UNCHANGED vars
  <2>1. TypeOK'
    BY <1>9, Zenon DEF IInv, TypeOK, vars
  <2> QED BY <1>9, <2>1, IdleStep, Zenon DEF vars, QuietWorkers
<1> QED BY <1>1, <1>2, <1>3, <1>4, <1>5, <1>6, <1>7, <1>8, <1>9, Zenon
        DEF Next, Steps, Crashes, Mishaps

\* The inductive invariant holds of every behaviour of the sync protocol.
THEOREM Inductive == Spec => []IInv
BY InitIInv, NextIInv, PTL DEF Spec

\* Every column, queue entry and worker keeps its type: in particular no
\* request pushes a generation past MAX_SYNC_GENERATION.
THEOREM Typing == Spec => []TypeOK
<1>1. IInv => TypeOK
  BY Zenon DEF IInv
<1> QED BY <1>1, Inductive, PTL

\* No statement ever hits a CHECK constraint of the wallets table.
THEOREM Coherence == Spec => []RowCoherent
<1>1. IInv => RowCoherent
  BY Zenon DEF IInv
<1> QED BY <1>1, Inductive, PTL

\* No interleaving of merging requests, completions, releases, resets and
\* reclaims loses requested activity.
THEOREM ActivityKept == Spec => []NoLostActivity
<1>1. IInv => NoLostActivity
  BY Zenon DEF IInv
<1> QED BY <1>1, Inductive, PTL

\* At most one attempt passes withWalletSyncMutationFence, for any number of
\* workers and whatever happens to the Redis lock.
THEOREM OneWriter == Spec => []SingleWriter
<1>1. IInv => SingleWriter
  BY FenceExcludes, Zenon DEF SingleWriter
<1> QED BY <1>1, Inductive, PTL

\* No batch computed before a full resync's wipe is written after it.
THEOREM FreshBatches == Spec => []NoStaleBatch
<1>1. IInv => NoStaleBatch
  BY Zenon DEF IInv
<1> QED BY <1>1, Inductive, PTL

\* A full-resync generation is processed only with its rebuilt history.
THEOREM RebuildFirst == Spec => []RebuiltBeforeProcessed
<1>1. IInv => RebuiltBeforeProcessed
  BY Zenon DEF IInv
<1> QED BY <1>1, Inductive, PTL

-----------------------------------------------------------------------------
(* Labels and memos *)

\* Capturing before the wipe and restoring after the rebuild never leave the
\* user's labels and memos in neither place.
THEOREM NotesKept == Spec => []NotesPreserved
<1>1. Init => NotesPreserved
  BY DEF Init, NotesPreserved
<1>2. IInv /\ NotesPreserved /\ [Next]_vars => NotesPreserved'
  <2> SUFFICES ASSUME IInv, NotesPreserved, [Next]_vars PROVE NotesPreserved'
    OBVIOUS
  <2>1. ASSUME NEW w \in Workers, Prepare(w) PROVE NotesPreserved'
    <3>1. notes' = notes \/ notes' = Captured(notes)
      BY <2>1, Zenon DEF Prepare
    <3>2. Captured(notes).saved = (notes.saved \/ notes.live)
      BY Zenon DEF Captured
    <3> QED BY <3>1, <3>2, ZenonT(30) DEF NotesPreserved
  <2>2. ASSUME NEW w \in Workers, Complete(w) PROVE NotesPreserved'
    <3>1. notes' \in {notes, [live |-> TRUE, saved |-> FALSE]}
      BY <2>2, Zenon DEF Complete, Restorations
    <3> QED BY <3>1, SMTT(30) DEF NotesPreserved
  <2>3. CASE UNCHANGED notes
    BY <2>3, Zenon DEF NotesPreserved
  <2>4. \/ UNCHANGED notes
        \/ \E w \in Workers : Prepare(w) \/ Complete(w)
    BY ZenonT(30)
       DEF Next, Steps, Crashes, Mishaps, Sweep, Users, Recovery, Clocks,
           WorkerStep, vars, Request, RequestFull, ManualReset, Enqueue,
           DropWakeup, RedeliverStalled, RedeliverRunning, LoseJob, TakeJob,
           GiveUpLock, RecordContention, Settle, ClaimBlocked, ClaimFresh,
           ClaimMissed, ClassifyMiss, ObserveExpired, Reclaim, ReclaimMissed,
           Claim, Fetch, Write, FenceLost, CompletionLost, FailAttempt, Crash,
           ReleaseFails,
           RecoverFull, RecoverIncremental, RecoverExpired, RecoverWith,
           CleanerScan, CleanerLock, CleanerAbandon, CleanerReset,
           LeaseExpires, RetryComesDue, OrphanLockExpires, HeldLockExpires
  <2> QED BY <2>1, <2>2, <2>3, <2>4, Zenon
<1> QED BY <1>1, <1>2, Inductive, PTL DEF Spec

-----------------------------------------------------------------------------
(* The stuck-row sweep *)

\* While syncStateVersion has not moved, the row still has the token that the
\* sweep saw when it captured the version.
SweepCurrent ==
  cleaner.phase # "idle" /\ ~row.bumped => row.token = cleaner.token

\* Every statement that changes the token moves the version.
RowBumps == row'.bumped \/ (row'.token = row.token /\ ~row.bumped)

\* Every statement that changes the lease token increments syncStateVersion.
LEMMA StatementsBump ==
  ASSUME TypeOK, [Next]_vars, ~CleanerScan
  PROVE  RowBumps
<1>0. row \in Row
  BY Zenon DEF TypeOK
<1> USE DEF RowBumps, Row
<1>1. CASE row' = row
  BY <1>0, <1>1, Zenon
<1>2. ASSUME NEW reopen \in BOOLEAN, Request(reopen) PROVE RowBumps
  BY <1>0, <1>2, Zenon DEF Request, Requested
<1>3. CASE RequestFull
  BY <1>0, <1>3, Zenon DEF RequestFull, FullRequested
<1>4. CASE row' = ResetAttempt(row)
  BY <1>0, <1>4, Zenon DEF ResetAttempt, Unleased
<1>5. CASE LeaseExpires \/ RetryComesDue
  BY <1>0, <1>5, Zenon DEF LeaseExpires, RetryComesDue
<1>6. ASSUME NEW w \in Workers, RecordContention(w) PROVE RowBumps
  BY <1>0, <1>1, <1>6, Zenon DEF RecordContention, ContentionRecorded
<1>7. ASSUME NEW w \in Workers, ClaimFresh(w) \/ Reclaim(w) PROVE RowBumps
  BY <1>0, <1>7, Zenon DEF ClaimFresh, Reclaim, Claim, ClaimedBy
<1>8. ASSUME NEW w \in Workers, Prepare(w) PROVE RowBumps
  BY <1>0, <1>1, <1>8, Zenon DEF Prepare, Wiped
<1>9. ASSUME NEW w \in Workers, Complete(w) PROVE RowBumps
  BY <1>0, <1>9, Zenon DEF Complete, Completed, FullCompleted, Unleased
<1>10. ASSUME NEW w \in Workers, NEW permanent \in BOOLEAN,
              FailAttempt(w, permanent)
       PROVE  RowBumps
  <2>1. row' \in {row, ReleasedForRetry(row), ReleasedAsActionRequired(row)}
    BY <1>10, Zenon DEF FailAttempt
  <2> QED BY <1>0, <1>1, <2>1, Zenon
          DEF ReleasedForRetry, ReleasedAsActionRequired, Unleased
<1>11. \/ row' = row \/ row' = ResetAttempt(row)
       \/ \E reopen \in BOOLEAN : Request(reopen)
       \/ RequestFull \/ LeaseExpires \/ RetryComesDue
       \/ \E w \in Workers : \/ RecordContention(w) \/ ClaimFresh(w)
                             \/ Reclaim(w) \/ Prepare(w) \/ Complete(w)
       \/ \E w \in Workers, permanent \in BOOLEAN : FailAttempt(w, permanent)
  BY Zenon DEF Next, Steps, Crashes, Mishaps, Sweep, Users, Recovery, Clocks,
         WorkerStep, vars, ManualReset, Enqueue, DropWakeup, RedeliverStalled,
         RedeliverRunning, LoseJob, TakeJob, GiveUpLock, Settle, ClaimBlocked,
         ClaimMissed, ClassifyMiss, ObserveExpired, ReclaimMissed, Fetch,
         Write, FenceLost, CompletionLost, Crash, ReleaseFails, RecoverFull,
         RecoverIncremental, RecoverExpired, RecoverWith, CleanerLock,
         CleanerAbandon, CleanerReset, OrphanLockExpires, HeldLockExpires
<1> QED BY <1>1, <1>2, <1>3, <1>4, <1>5, <1>6, <1>7, <1>8, <1>9, <1>10,
           <1>11, Zenon

\* Outside a scan the sweep keeps the token it observed, or is over.
LEMMA SweepKeepsToken ==
  ASSUME [Next]_vars, TypeOK, ~CleanerScan
  PROVE  \/ cleaner' = cleaner \/ cleaner'.phase = "idle"
         \/ cleaner.phase # "idle" /\ cleaner'.token = cleaner.token
<1>1. CASE CleanerLock \/ CleanerAbandon \/ CleanerReset
  BY <1>1 DEF CleanerLock, CleanerAbandon, CleanerReset, TypeOK
<1>2. \/ cleaner' = cleaner \/ CleanerLock \/ CleanerAbandon \/ CleanerReset
  BY ZenonT(30)
     DEF Next, Steps, Crashes, Mishaps, Sweep, Users, Recovery, Clocks,
         WorkerStep, vars, Request, RequestFull, ManualReset, Enqueue,
         DropWakeup, RedeliverStalled, RedeliverRunning, LoseJob, TakeJob,
         GiveUpLock, RecordContention, Settle, ClaimBlocked, ClaimFresh,
         ClaimMissed, ClassifyMiss, ObserveExpired, Reclaim, ReclaimMissed,
         Claim, Prepare, Fetch, Write, FenceLost, Complete, CompletionLost,
         FailAttempt, Crash, ReleaseFails, RecoverFull, RecoverIncremental,
         RecoverExpired, RecoverWith, LeaseExpires, RetryComesDue, OrphanLockExpires,
         HeldLockExpires
<1> QED BY <1>1, <1>2, Zenon

\* The sweep of the API process revokes only the claim it looked at, however
\* long it waits between the scan, the lock and the conditional reset.
THEOREM SweepIsExact == Spec => SweepSparesNewerClaims
<1>1. Init => SweepCurrent
  BY DEF Init, SweepCurrent
<1>2. TypeOK /\ SweepCurrent /\ [Next]_vars => SweepCurrent'
  <2> SUFFICES ASSUME TypeOK, SweepCurrent, [Next]_vars PROVE SweepCurrent'
    OBVIOUS
  <2>1. CASE CleanerScan
    BY <2>1, Zenon DEF CleanerScan, SweepCurrent, TypeOK, Row
  <2>2. CASE ~CleanerScan
    BY <2>2, StatementsBump, SweepKeepsToken, Zenon DEF SweepCurrent, RowBumps
  <2> QED BY <2>1, <2>2, Zenon
<1>3. TypeOK /\ SweepCurrent /\ [Next]_vars
        => [CleanerReset /\ row.token # NoToken /\ row'.token = NoToken
              => row.token = cleaner.token]_vars
  BY Zenon DEF CleanerReset, CanClear, SweepCurrent
<1> QED BY <1>1, <1>2, <1>3, Typing, PTL DEF Spec, SweepSparesNewerClaims

\* The two together: the history is that of the last rebuild, and that rebuild
\* counts as done only with it (writeBatch, completeFullResync).
THEOREM HistoryHolds == Spec => []HistoryCurrent
BY FreshBatches, RebuildFirst, PTL DEF HistoryCurrent

-----------------------------------------------------------------------------
(* WalletSync implements SyncIntent *)

(* What a step does to the promised state *)

\* No attempt gains a fence, and those that keep one keep it as it is.
AttemptsEnd ==
  \A w \in Workers :
    HasFence(w)' => /\ HasFence(w)
                    /\ worker'[w].gen = worker[w].gen
                    /\ worker'[w].token = worker[w].token
                    /\ worker'[w].unseen = worker[w].unseen
                    /\ worker'[w].full = worker[w].full

\* The claim is left alone or revoked.
ClaimEnds ==
  \/ row'.token = NoToken
  \/ row'.token = row.token /\ row'.claimed = row.claimed

\* The columns that say what is owed and what is built are left alone.
WorkKept ==
  /\ row'.requested = row.requested /\ row'.processed = row.processed
  /\ row'.reqFull = row.reqFull /\ row'.procFull = row.procFull

\* At most one attempt may write.
LEMMA OneAttempt ==
  ASSUME IInv, NEW w \in Writers
  PROVE  Writers = {w} /\ (Missed <=> worker[w].unseen)
<1>1. \A v \in Writers : v = w
  BY FenceExcludes, Zenon DEF Writers
<1> QED BY <1>1, Zenon DEF Missed

\* A step that gives no one a fence leaves the writer, or removes it.
LEMMA WritersEnd ==
  ASSUME IInv, AttemptsEnd, ClaimEnds
  PROVE  \/ Writers' = Writers /\ (Missed' <=> Missed)
         \/ Writers' = {} /\ ~Missed'
<1>1. ASSUME NEW w \in Writers'
      PROVE  w \in Writers /\ worker'[w].unseen = worker[w].unseen
  <2>1. w \in Workers /\ HasFence(w)' /\ Fence(w)'
    BY <1>1, Zenon DEF Writers
  <2>2. /\ HasFence(w) /\ worker'[w].gen = worker[w].gen
        /\ worker'[w].token = worker[w].token
        /\ worker'[w].unseen = worker[w].unseen
    BY <2>1, Zenon DEF AttemptsEnd
  <2>3. worker[w].token # NoToken
    BY <2>1, <2>2, RowAssumption, Zenon DEF IInv, FencesDistinct
  <2>4. Fence(w)
    BY <2>1, <2>2, <2>3, Zenon DEF Fence, Fenced, ClaimEnds
  <2> QED BY <2>1, <2>2, <2>4, Zenon DEF Writers
<1>2. CASE Writers' = {}
  BY <1>2, Zenon DEF Missed
<1>3. ASSUME NEW w \in Writers'
      PROVE  Writers' = Writers /\ (Missed' <=> Missed)
  <2>1. Writers = {w}
    BY <1>1, OneAttempt, Zenon
  <2>2. Writers' = {w}
    BY <1>1, <1>3, <2>1, Zenon
  <2> QED BY <1>1, <2>1, <2>2, Zenon DEF Missed
<1> QED BY <1>2, <1>3, Zenon

\* Such a step is a loss of the writer or nothing.
LEMMA QuietPromise ==
  ASSUME IInv, AttemptsEnd, ClaimEnds, WorkKept, row'.prepared = row.prepared,
         UNCHANGED <<dirty, history>>
  PROVE  [Promise!SNext]_(Promise!svars)
<1>1. Owed' = Owed
  BY Zenon DEF WorkKept, Owed
<1>2. CASE Writers' = Writers /\ (Missed' <=> Missed)
  <2>1. Missed' = Missed
    BY <1>2, Zenon DEF Missed
  <2> QED BY <1>1, <1>2, <2>1, Zenon DEF WorkKept, Promise!svars
<1>3. CASE Writers' = {} /\ ~Missed' /\ Writers # {}
  <2>1. Missed' = FALSE
    BY <1>3, Zenon DEF Missed
  <2> QED BY <1>1, <1>3, <2>1, Zenon DEF WorkKept, Promise!SNext, Promise!Lose
<1>4. CASE Writers' = {} /\ Writers = {}
  <2>1. Missed' = Missed
    BY <1>4, Zenon DEF Missed
  <2> QED BY <1>1, <1>4, <2>1, Zenon DEF WorkKept, Promise!svars
<1> QED BY <1>2, <1>3, <1>4, WritersEnd, Zenon

-----------------------------------------------------------------------------
(* Steps that give no one a fence *)

\* Steps of the queue, recovery, the sweep and the clocks.
LEMMA OutsideAttempts ==
  ASSUME IInv,
         \/ Recovery \/ Clocks \/ HeldLockExpires \/ ManualReset \/ Sweep
         \/ \E x \in inFlight : Enqueue(x) \/ DropWakeup(x)
         \/ \E j \in queue : \/ RedeliverStalled(j) \/ RedeliverRunning(j)
                             \/ LoseJob(j)
  PROVE  /\ AttemptsEnd /\ ClaimEnds /\ WorkKept /\ row'.prepared = row.prepared
         /\ UNCHANGED <<worker, dirty, history>>
<1>0. row \in Row
  BY Zenon DEF IInv, TypeOK
<1>1. UNCHANGED <<worker, dirty, history>>
  BY ZenonT(30)
     DEF Recovery, RecoverFull, RecoverIncremental, RecoverExpired, RecoverWith,
         Clocks, LeaseExpires, RetryComesDue, OrphanLockExpires, HeldLockExpires,
         ManualReset, Sweep, CleanerScan, CleanerLock, CleanerAbandon,
         CleanerReset, Enqueue, DropWakeup, RedeliverStalled, RedeliverRunning,
         LoseJob
<1>2. \/ row' = row \/ row' = ResetAttempt(row)
      \/ row' = [row EXCEPT !.bumped = FALSE]
      \/ row' = [row EXCEPT !.expired = TRUE]
      \/ row' = [row EXCEPT !.waiting = FALSE]
  BY ZenonT(30)
     DEF Recovery, RecoverFull, RecoverIncremental, RecoverExpired, RecoverWith,
         Clocks, LeaseExpires, RetryComesDue, OrphanLockExpires, HeldLockExpires,
         ManualReset, Sweep, CleanerScan, CleanerLock, CleanerAbandon,
         CleanerReset, Enqueue, DropWakeup, RedeliverStalled, RedeliverRunning,
         LoseJob
<1>3. ClaimEnds /\ WorkKept /\ row'.prepared = row.prepared
  BY <1>0, <1>2, Zenon DEF Row, ResetAttempt, Unleased, ClaimEnds, WorkKept
<1>4. AttemptsEnd
  BY <1>1, Zenon DEF AttemptsEnd, HasFence
<1> QED BY <1>1, <1>3, <1>4, Zenon

\* A worker that is not, or no longer, in an attempt has no fence.
LEMMA WorkerEnds ==
  ASSUME NEW w \in Workers, worker'[w].phase \notin Attempting,
         \A v \in Workers \ {w} : worker'[v] = worker[v]
  PROVE  AttemptsEnd
BY Zenon DEF AttemptsEnd, HasFence

\* Leaving the handler.
LEMMA LeaveEnds ==
  ASSUME IInv, NEW w \in Workers,
         NEW outcome \in {"none", "done", "failed", "unrecoverable"},
         Leave(w, outcome)
  PROVE  AttemptsEnd
BY LeaveType, WorkerEnds, Zenon DEF IInv, Attempting

\* Steps of a worker that is outside an attempt or ends one.
LEMMA WorkerOutside ==
  ASSUME IInv, NEW w \in Workers,
         \/ \E j \in queue : TakeJob(w, j) \/ GiveUpLock(w, j)
         \/ Settle(w) \/ Crash(w) \/ RecordContention(w)
         \/ ClaimMissed(w) \/ ClassifyMiss(w) \/ ObserveExpired(w)
         \/ ReclaimMissed(w) \/ ClaimBlocked(w) \/ FenceLost(w)
         \/ CompletionLost(w) \/ ReleaseFails(w)
         \/ \E permanent \in BOOLEAN : FailAttempt(w, permanent)
  PROVE  /\ AttemptsEnd /\ ClaimEnds /\ WorkKept /\ row'.prepared = row.prepared
         /\ UNCHANGED <<dirty, history>>
<1>0. row \in Row /\ worker \in [Workers -> Worker] /\ TypeOK
  BY Zenon DEF IInv, TypeOK
<1>1. UNCHANGED <<dirty, history>>
  BY ZenonT(30)
     DEF TakeJob, GiveUpLock, Settle, Crash, RecordContention, ClaimMissed,
         ClassifyMiss, ObserveExpired, ReclaimMissed, ClaimBlocked, FenceLost,
         CompletionLost, ReleaseFails, FailAttempt
<1>2. row' \in {row, ContentionRecorded(row), ReleasedForRetry(row),
                ReleasedAsActionRequired(row)}
  BY ZenonT(30)
     DEF TakeJob, GiveUpLock, Settle, Crash, RecordContention, ClaimMissed,
         ClassifyMiss, ObserveExpired, ReclaimMissed, ClaimBlocked, FenceLost,
         CompletionLost, ReleaseFails, FailAttempt
<1>3. ClaimEnds /\ WorkKept /\ row'.prepared = row.prepared
  BY <1>0, <1>2, Zenon
     DEF Row, ContentionRecorded, ReleasedForRetry, ReleasedAsActionRequired,
         Unleased, ClaimEnds, WorkKept
<1>4. AttemptsEnd
  <2>1. CASE \E j \in queue : TakeJob(w, j) \/ GiveUpLock(w, j)
    <3>1. PICK j \in queue, phase \in {"locked", "contended"} : Start(w, j, phase)
      BY <2>1, Zenon DEF TakeJob, GiveUpLock
    <3>2. worker'[w].phase = phase /\ \A v \in Workers \ {w} : worker'[v] = worker[v]
      BY <1>0, <3>1, Zenon DEF Start, IdleWorker
    <3> QED BY <3>1, <3>2, WorkerEnds, Zenon DEF Attempting
  <2>2. CASE Settle(w) \/ Crash(w) \/ RecordContention(w)
    <3>1. worker' = [worker EXCEPT ![w] = IdleWorker]
      BY <2>2, Zenon DEF Settle, Crash, RecordContention
    <3>2. worker'[w].phase = "idle" /\ \A v \in Workers \ {w} : worker'[v] = worker[v]
      BY <1>0, <3>1, Zenon DEF IdleWorker
    <3> QED BY <3>2, WorkerEnds, Zenon DEF Attempting
  <2>3. CASE \E outcome \in {"none", "done", "failed", "unrecoverable"} : Leave(w, outcome)
    BY <2>3, LeaveEnds, Zenon
  <2>4. CASE \E phase \in {"missed", "reclaim"} : Move(w, phase)
    <3>1. PICK phase \in {"missed", "reclaim"} : Move(w, phase)
      BY <2>4, Zenon
    <3>2. worker'[w].phase = phase /\ \A v \in Workers \ {w} : worker'[v] = worker[v]
      BY <1>0, <3>1, Zenon DEF Move, Worker
    <3> QED BY <3>1, <3>2, WorkerEnds, Zenon DEF Attempting
  <2>5. CASE worker' = [worker EXCEPT ![w].phase = "observed", ![w].token = row.token]
    <3>1. worker'[w].phase = "observed" /\ \A v \in Workers \ {w} : worker'[v] = worker[v]
      BY <1>0, <2>5, Zenon DEF Worker
    <3> QED BY <3>1, WorkerEnds, Zenon DEF Attempting
  <2>6. \/ ~(ClaimMissed(w) \/ ClassifyMiss(w) \/ ObserveExpired(w)
             \/ ReclaimMissed(w) \/ ClaimBlocked(w) \/ FenceLost(w)
             \/ CompletionLost(w) \/ ReleaseFails(w)
             \/ \E permanent \in BOOLEAN : FailAttempt(w, permanent))
        \/ \E outcome \in {"none", "done", "failed", "unrecoverable"} : Leave(w, outcome)
        \/ \E phase \in {"missed", "reclaim"} : Move(w, phase)
        \/ worker' = [worker EXCEPT ![w].phase = "observed", ![w].token = row.token]
    BY ZenonT(30)
       DEF ClaimMissed, ClassifyMiss, ObserveExpired, ReclaimMissed, ClaimBlocked,
           FenceLost, CompletionLost, ReleaseFails, FailAttempt
  <2> QED BY <2>1, <2>2, <2>3, <2>4, <2>5, <2>6, Zenon
<1> QED BY <1>1, <1>3, <1>4, Zenon

-----------------------------------------------------------------------------
(* Steps of a fenced attempt *)

\* A step of an attempt that goes on.
LEMMA AttemptGoesOn ==
  ASSUME IInv, NEW w \in Workers,
         Prepare(w) \/ Fetch(w) \/ Write(w)
  PROVE  /\ AttemptsEnd /\ HasFence(w) /\ HasFence(w)'
         /\ worker'[w].gen = worker[w].gen /\ worker'[w].token = worker[w].token
<1>0. worker \in [Workers -> Worker] /\ TypeOK
  BY Zenon DEF IInv, TypeOK
<1>1. HasFence(w)
  BY Zenon DEF Prepare, Fetch, Write, HasFence, Attempting
<1>2. /\ worker'[w].phase \in {"prepared", "fetched", "written"}
      /\ worker'[w].gen = worker[w].gen /\ worker'[w].token = worker[w].token
      /\ worker'[w].unseen = worker[w].unseen /\ worker'[w].full = worker[w].full
      /\ \A v \in Workers \ {w} : worker'[v] = worker[v]
  <2>1. \/ \E phase \in {"prepared", "fetched", "written"} : Move(w, phase)
        \/ worker' = [worker EXCEPT ![w].phase = "fetched", ![w].base = row.prepared]
    BY Zenon DEF Prepare, Fetch, Write
  <2> QED BY <1>0, <2>1, ZenonT(40) DEF Move, Worker
<1>3. HasFence(w)'
  BY <1>2, Zenon DEF HasFence, Attempting
<1> QED BY <1>1, <1>2, <1>3, Zenon DEF AttemptsEnd, HasFence

\* The fence passed with the row's claim untouched: the same attempt writes on.
LEMMA WriterStays ==
  ASSUME IInv, NEW w \in Workers, AttemptsEnd, HasFence(w), Fence(w), HasFence(w)',
         worker'[w].gen = worker[w].gen, worker'[w].token = worker[w].token,
         row'.token = row.token, row'.claimed = row.claimed
  PROVE  Writers # {} /\ Writers' = Writers /\ Missed' = Missed
<1>1. w \in Writers /\ w \in Writers'
  BY Zenon DEF Writers, Fence, Fenced
<1>2. Missed' <=> Missed
  BY <1>1, WritersEnd, Zenon DEF ClaimEnds
<1>3. Missed' = Missed
  BY <1>2, Zenon DEF Missed
<1> QED BY <1>1, <1>3, WritersEnd, Zenon DEF ClaimEnds

\* Only the writer deletes the history, and only for a rebuild asked for.
LEMMA PreparePromise ==
  ASSUME IInv, NEW w \in Workers, Prepare(w)
  PROVE  [Promise!SNext]_(Promise!svars)
<1>0. row \in Row /\ worker[w] \in Worker
  BY Zenon DEF IInv, TypeOK
<1>1. AttemptsEnd /\ HasFence(w) /\ HasFence(w)' /\ Fence(w)
      /\ worker'[w].gen = worker[w].gen /\ worker'[w].token = worker[w].token
  BY AttemptGoesOn, Zenon DEF Prepare
<1>2. CASE MustWipe(row, worker[w].full)
  <2>1. row' = Wiped(row, worker[w].full) /\ history' = {} /\ dirty' = dirty
    BY <1>2, Zenon DEF Prepare
  <2>2. /\ row'.token = row.token /\ row'.claimed = row.claimed /\ WorkKept
        /\ row'.prepared = worker[w].full
    BY <1>0, <2>1, Zenon DEF Wiped, Row, WorkKept
  <2>3. worker[w].full \in (row.prepared + 1)..row.reqFull
    <3>1. /\ worker[w].full \in Nat /\ row.prepared \in Nat /\ row.reqFull \in Nat
      BY <1>0, RowAssumption DEF Worker, Row, Fulls
    <3>2. worker[w].full > row.prepared /\ worker[w].full <= row.reqFull
      BY <1>2, Zenon DEF MustWipe, Prepare
    <3> QED BY <3>1, <3>2
  <2>4. Writers # {} /\ Writers' = Writers /\ Missed' = Missed
    BY <1>1, <2>2, WriterStays, Zenon
  <2>5. Owed' = Owed
    BY <2>2, Zenon DEF WorkKept, Owed
  <2> QED BY <2>1, <2>2, <2>3, <2>4, <2>5, Zenon DEF WorkKept, Promise!SNext, Promise!Wipe
<1>3. CASE ~MustWipe(row, worker[w].full)
  <2>1. UNCHANGED <<row, history, dirty>>
    BY <1>3, Zenon DEF Prepare
  <2> QED BY <1>1, <2>1, QuietPromise, Zenon DEF ClaimEnds, WorkKept
<1> QED BY <1>2, <1>3, Zenon

\* Fetching changes nothing that is stored.
LEMMA FetchPromise ==
  ASSUME IInv, NEW w \in Workers, Fetch(w)
  PROVE  [Promise!SNext]_(Promise!svars)
<1>1. AttemptsEnd
  BY AttemptGoesOn, Zenon
<1>2. UNCHANGED <<row, history, dirty>>
  BY Zenon DEF Fetch
<1> QED BY <1>1, <1>2, QuietPromise, Zenon DEF ClaimEnds, WorkKept

\* Only the writer extends the history, in the current rebuild.
LEMMA WritePromise ==
  ASSUME IInv, NEW w \in Workers, Write(w)
  PROVE  [Promise!SNext]_(Promise!svars)
<1>1. AttemptsEnd /\ HasFence(w) /\ HasFence(w)' /\ Fence(w)
      /\ worker'[w].gen = worker[w].gen /\ worker'[w].token = worker[w].token
  BY AttemptGoesOn, Zenon DEF Write
<1>2. worker[w].base = row.prepared
  BY <1>1, Zenon DEF IInv, AttemptsCurrent, Write
<1>3. row' = row /\ dirty' = dirty /\ history' = history \cup {row.prepared}
  BY <1>2, Zenon DEF Write
<1>4. history' = {row.prepared}
  BY <1>3, Zenon DEF IInv, NoStaleBatch
<1>5. Writers # {} /\ Writers' = Writers /\ Missed' = Missed
  BY <1>1, <1>3, WriterStays, Zenon
<1>6. Owed' = Owed
  BY <1>3, Zenon DEF Owed
<1> QED BY <1>3, <1>4, <1>5, <1>6, Zenon DEF Promise!SNext, Promise!Extend

-----------------------------------------------------------------------------
(* Requests and claims *)

\* A request is owed and marked as unseen by the writer.
LEMMA RequestPromise ==
  ASSUME IInv, IInv', NEW reopen \in BOOLEAN, Request(reopen)
  PROVE  [Promise!SNext]_(Promise!svars)
<1>0. row \in Row /\ Coherent(row) /\ CanRequest(row) /\ worker \in [Workers -> Worker]
  BY Zenon DEF IInv, TypeOK, RowCoherent, Request
<1>1. /\ row'.claimed = row.claimed /\ row'.token = row.token
      /\ row'.prepared = row.prepared /\ row'.processed = row.processed
      /\ row'.reqFull = row.reqFull /\ row'.procFull = row.procFull
  BY <1>0, Zenon DEF Request, Requested, Row
<1>2. Owed'
  <2>1. row'.requested > row.claimed
    BY <1>0, RequestedRow, Zenon DEF Request
  <2>2. row.processed <= row.claimed /\ row.processed \in Nat /\ row.claimed \in Nat
        /\ row'.requested \in Nat
    BY <1>0, RowAssumption DEF Coherent, Row, Gens, IInv, TypeOK
  <2> QED BY <1>1, <2>1, <2>2 DEF Owed
<1>3. ASSUME NEW w \in Workers
      PROVE  /\ worker'[w].gen = worker[w].gen /\ worker'[w].token = worker[w].token
             /\ worker'[w].phase = worker[w].phase
             /\ HasFence(w) => worker'[w].unseen = TRUE
  BY <1>0, Zenon DEF Request, MarkUnseen, Worker
<1>4. Writers' = Writers
  BY <1>1, <1>3, Zenon DEF Writers, HasFence, Fence, Fenced
<1>5. Missed' <=> Writers # {}
  BY <1>3, <1>4, Zenon DEF Missed, Writers
<1>6. dirty' = TRUE /\ history' = history
  BY Zenon DEF Request
<1>7. Missed' = (Writers # {}) /\ Owed' = TRUE
  BY <1>2, <1>5, Zenon DEF Missed, Owed
<1> QED BY <1>1, <1>4, <1>6, <1>7, Zenon DEF Promise!SNext, Promise!Ask

\* A rebuild is owed from its request on.
LEMMA RequestFullPromise ==
  ASSUME IInv, IInv', RequestFull
  PROVE  /\ Promise!SNext
         /\ row'.requested > row'.claimed \/ (FullPending(row) /\ row'.requested = row.requested)
<1>0. row \in Row /\ row' \in Row /\ Coherent(row) /\ CanRequestFull(row)
  BY Zenon DEF IInv, TypeOK, RowCoherent, RequestFull
<1>1. /\ row'.claimed = row.claimed /\ row'.token = row.token
      /\ row'.prepared = row.prepared /\ row'.processed = row.processed
      /\ row'.procFull = row.procFull
      /\ row'.reqFull = IF FullPending(row) THEN row.reqFull ELSE row.reqFull + 1
      /\ row'.requested = IF KeepsGeneration(row) THEN row.requested ELSE Ahead(row)
  BY <1>0, ZenonT(40) DEF RequestFull, FullRequested, Row
<1>2. /\ row.requested \in Nat /\ row.processed \in Nat /\ row.claimed \in Nat
      /\ row.reqFull \in Nat /\ row.procFull \in Nat
      /\ row.processed <= row.claimed /\ row.procFull <= row.reqFull
  BY <1>0, RowAssumption DEF Row, Gens, Fulls, Coherent
<1>3. row'.reqFull = IF row.reqFull = row.procFull THEN row.reqFull + 1 ELSE row.reqFull
  BY <1>1, <1>2 DEF FullPending
<1>4. row'.requested > row'.processed
  BY <1>1, <1>2 DEF KeepsGeneration, Ahead
<1>5. row'.requested > row'.claimed \/ (FullPending(row) /\ row'.requested = row.requested)
  BY <1>1, <1>2 DEF KeepsGeneration, Ahead
<1>6. UNCHANGED <<worker, dirty, history>>
  BY Zenon DEF RequestFull
<1>7. Writers' = Writers
  BY <1>1, <1>6, Zenon DEF Writers, HasFence, Fence, Fenced
<1>8. Missed' = Missed
  BY <1>6, <1>7, Zenon DEF Missed
<1>9. Owed' = TRUE
  BY <1>4, Zenon DEF Owed
<1> QED BY <1>1, <1>3, <1>5, <1>6, <1>7, <1>8, <1>9, Zenon DEF Promise!SNext, Promise!AskRebuild

\* A claim takes the right to write from whoever had it.
LEMMA ClaimPromise ==
  ASSUME IInv, IInv', NEW w \in Workers, ClaimFresh(w) \/ Reclaim(w)
  PROVE  [Promise!SNext]_(Promise!svars)
<1>0. row \in Row /\ Coherent(row) /\ worker \in [Workers -> Worker]
  BY Zenon DEF IInv, TypeOK, RowCoherent
<1>1. PICK t \in FreshTokens : Claim(w, t)
  BY Zenon DEF ClaimFresh, Reclaim
<1>2. t \in Tokens /\ \A v \in Workers : worker[v].token # t
  BY Zenon DEF FreshTokens
<1>3. /\ row'.claimed = worker[w].gen /\ row'.token = t /\ WorkKept
      /\ row'.prepared = row.prepared
  BY <1>0, <1>1, Zenon DEF Claim, ClaimedBy, Row, WorkKept
<1>4. /\ worker'[w].phase = "claimed" /\ worker'[w].token = t
      /\ worker'[w].gen = worker[w].gen /\ worker'[w].unseen = worker[w].unseen
      /\ \A v \in Workers \ {w} : worker'[v] = worker[v]
  BY <1>0, <1>1, Zenon DEF Claim, Worker
<1>5. ~worker'[w].unseen
  <2>1. ~worker[w].unseen
    BY Zenon DEF IInv, AttemptsCurrent, HasFence, Attempting, ClaimFresh, Reclaim
  <2> QED BY <1>4, <2>1, Zenon
<1>6. Writers' = {w}
  BY <1>2, <1>3, <1>4, ZenonT(40) DEF Writers, HasFence, Attempting, Fence, Fenced
<1>7. Missed' = FALSE
  BY <1>5, <1>6, Zenon DEF Missed
<1>8. Owed /\ Owed' = Owed
  <2>1. row.requested > row.processed
    BY Zenon DEF ClaimFresh, Reclaim, CanClaimFresh, CanReclaim, ClaimEligible
  <2> QED BY <1>3, <2>1, Zenon DEF Owed, WorkKept
<1>9. UNCHANGED <<dirty, history>>
  BY <1>1, Zenon DEF Claim
<1> QED BY <1>3, <1>6, <1>7, <1>8, <1>9, Zenon DEF WorkKept, Promise!SNext, Promise!Take

-----------------------------------------------------------------------------
(* A pending rebuild is owed *)

\* ... and an incremental attempt that is overtaken by the request of a rebuild
\* does not finish the work.
RebuildOwed ==
  /\ FullPending(row) => row.requested > row.processed
  /\ \A w \in Workers :
       HasFence(w) /\ Fence(w) /\ worker[w].full = 0 /\ FullPending(row)
         => row.requested > row.claimed

\* Steps that give no one a fence and leave the generations alone keep it.
LEMMA QuietOwed ==
  ASSUME IInv, RebuildOwed, AttemptsEnd, ClaimEnds, WorkKept
  PROVE  RebuildOwed'
<1>1. FullPending(row)' <=> FullPending(row)
  BY Zenon DEF FullPending, WorkKept
<1>2. ASSUME NEW w \in Workers, HasFence(w)', Fence(w)'
      PROVE  /\ HasFence(w) /\ Fence(w) /\ worker'[w].full = worker[w].full
             /\ row'.claimed = row.claimed
  <2>1. /\ HasFence(w) /\ worker'[w].gen = worker[w].gen
        /\ worker'[w].token = worker[w].token /\ worker'[w].full = worker[w].full
    BY <1>2, Zenon DEF AttemptsEnd
  <2>2. worker[w].token # NoToken
    BY <2>1, RowAssumption, Zenon DEF IInv, FencesDistinct
  <2> QED BY <1>2, <2>1, <2>2, Zenon DEF Fence, Fenced, ClaimEnds
<1> QED BY <1>1, <1>2, Zenon DEF RebuildOwed, WorkKept

\* What Complete does to the row and the attempts.
LEMMA CompleteEffect ==
  ASSUME IInv, IInv', NEW w \in Workers, Complete(w)
  PROVE  /\ HasFence(w) /\ Fence(w) /\ AttemptsEnd
         /\ row'.token = NoToken
         /\ row'.requested = row.requested /\ row'.processed = row.claimed
         /\ row'.reqFull = row.reqFull /\ row'.prepared = row.prepared
         /\ worker[w].full = 0 => row'.procFull = row.procFull
         /\ worker[w].full # 0 => /\ row'.procFull = row.reqFull
                                  /\ row.prepared = row.reqFull
         /\ dirty' = worker[w].unseen /\ history' = history
<1>0. row \in Row /\ Coherent(row) /\ worker[w] \in Worker
  BY Zenon DEF IInv, TypeOK, RowCoherent
<1>1. /\ worker[w].phase = "written" /\ CanComplete(w)
      /\ row' = IF worker[w].full = 0
                  THEN Completed(row)
                  ELSE FullCompleted(row, worker[w].full, worker[w].gen)
      /\ dirty' = worker[w].unseen
      /\ Leave(w, "done") /\ history' = history
  BY ZenonT(30) DEF Complete
<1>2. HasFence(w)
  BY <1>1, Zenon DEF HasFence, Attempting
<1>3. Fence(w) /\ row.claimed = worker[w].gen
  BY <1>1, ZenonT(30) DEF CanComplete, OwnsClaim, Fence, Fenced
<1>4. AttemptsEnd
  BY <1>1, LeaveEnds, Zenon
<1>5. CASE worker[w].full = 0
  BY <1>0, <1>1, <1>2, <1>3, <1>4, <1>5, Zenon DEF Completed, Unleased, Row
<1>6. CASE worker[w].full # 0
  <2>1. row.reqFull = worker[w].full /\ row.prepared >= worker[w].full
    BY <1>1, <1>6, Zenon DEF CanComplete, CanCompleteFull
  <2>2. row.prepared = row.reqFull
    BY <1>0, <2>1, RowAssumption DEF Row, Fulls, Coherent
  <2>3. row' = FullCompleted(row, worker[w].full, worker[w].gen)
    BY <1>1, <1>6, Zenon
  <2>4. /\ row'.token = NoToken /\ row'.requested = row.requested
        /\ row'.processed = row.claimed /\ row'.reqFull = row.reqFull
        /\ row'.prepared = row.prepared /\ row'.procFull = row.reqFull
    BY <1>0, <1>3, <2>1, <2>3, Zenon DEF FullCompleted, Unleased, Row
  <2> QED BY <1>1, <1>2, <1>3, <1>4, <1>6, <2>2, <2>4, Zenon
<1> QED BY <1>5, <1>6, Zenon

\* Finishing settles what the attempt saw; the rest stays owed.
LEMMA CompletePromise ==
  ASSUME IInv, IInv', RebuildOwed, NEW w \in Workers, Complete(w)
  PROVE  Promise!SNext /\ RebuildOwed'
<1>0. /\ row \in Row /\ Coherent(row) /\ row' \in Row
      /\ row.requested \in Nat /\ row.claimed \in Nat
      /\ row.reqFull \in Nat /\ row.procFull \in Nat
  BY RowAssumption DEF IInv, TypeOK, RowCoherent, Row, Gens, Fulls
<1>1. /\ HasFence(w) /\ Fence(w) /\ AttemptsEnd
      /\ row'.token = NoToken
      /\ row'.requested = row.requested /\ row'.processed = row.claimed
      /\ row'.reqFull = row.reqFull /\ row'.prepared = row.prepared
      /\ worker[w].full = 0 => row'.procFull = row.procFull
      /\ worker[w].full # 0 => /\ row'.procFull = row.reqFull
                               /\ row.prepared = row.reqFull
      /\ dirty' = worker[w].unseen /\ history' = history
  BY CompleteEffect, Zenon
<1>2. w \in Writers /\ Writers = {w} /\ (Missed <=> worker[w].unseen)
  BY <1>1, OneAttempt, Zenon DEF Writers
<1>3. Writers' = {}
  <2>1. ASSUME NEW v \in Writers' PROVE FALSE
    <3>1. v \in Workers /\ HasFence(v)' /\ Fence(v)'
      BY <2>1, Zenon DEF Writers
    <3>2. worker'[v].token \in Tokens
      BY <3>1, Zenon DEF IInv, FencesDistinct
    <3> QED BY <1>1, <3>1, <3>2, RowAssumption, Zenon DEF Fence, Fenced
  <2> QED BY <2>1, Zenon
<1>4. Missed' = FALSE
  BY <1>3, Zenon DEF Missed
<1>5. dirty' = Missed
  BY <1>1, <1>2, Zenon DEF Missed, IInv, TypeOK, Worker
<1>6. Missed => Owed'
  <2>1. Missed => row.requested > row.claimed
    BY <1>1, <1>2, Zenon DEF IInv, AttemptsCurrent
  <2> QED BY <1>1, <2>1, Zenon DEF Owed
<1>7. row'.procFull # row'.reqFull => Owed'
  <2>1. CASE worker[w].full = 0 /\ FullPending(row)
    <3>1. row.requested > row.claimed
      BY <1>1, <2>1, Zenon DEF RebuildOwed
    <3> QED BY <1>1, <3>1, Zenon DEF Owed
  <2>2. CASE worker[w].full = 0 /\ ~FullPending(row)
    BY <1>0, <1>1, <2>2 DEF FullPending, Coherent
  <2>3. CASE worker[w].full # 0
    BY <1>1, <2>3, Zenon
  <2> QED BY <2>1, <2>2, <2>3, Zenon
<1>8. row'.procFull = row'.reqFull => history' = {row'.reqFull}
  <2>1. row'.procFull = row'.reqFull => row'.reqFull \in history'
    <3>1. row'.reqFull \in Nat /\ row'.procFull \in Nat
      BY <1>0, RowAssumption DEF Row, Fulls
    <3>2. ~FullPending(row)' => row'.reqFull \in history'
      BY Zenon DEF IInv, RebuiltBeforeProcessed
    <3> QED BY <3>1, <3>2 DEF FullPending
  <2> QED BY <2>1, Zenon DEF IInv, NoStaleBatch
<1>9. Owed' \in BOOLEAN
  BY DEF Owed
<1>10. RebuildOwed'
  <2>1. \A v \in Workers : ~(HasFence(v)' /\ Fence(v)')
    BY <1>3, Zenon DEF Writers
  <2>2. FullPending(row)' => row'.requested > row'.processed
    BY <1>0, <1>1, <1>7 DEF FullPending, Owed
  <2> QED BY <2>1, <2>2, Zenon DEF RebuildOwed
<1>11. Promise!Finish
  <2>1. row'.procFull \in {row.procFull, row.reqFull}
    BY <1>1, Zenon
  <2>2. row'.procFull # row.procFull => row.prepared = row.reqFull
    BY <1>1, Zenon
  <2>3. row'.procFull = row.reqFull => history = {row.reqFull}
    BY <1>1, <1>8, Zenon
  <2>4. Missed \/ row'.procFull # row.reqFull => Owed'
    BY <1>1, <1>6, <1>7, Zenon
  <2>5. Writers # {}
    BY <1>2, Zenon
  <2>6. row'.reqFull = row.reqFull /\ row'.prepared = row.prepared /\ history' = history
    BY <1>1, Zenon
  <2> QED BY <1>3, <1>4, <1>5, <1>9, <2>1, <2>2, <2>3, <2>4, <2>5, <2>6, Zenon DEF Promise!Finish
<1> QED BY <1>10, <1>11, Zenon DEF Promise!SNext

-----------------------------------------------------------------------------
(* Every step *)

\* Requests, claims and the steps of an attempt keep a pending rebuild owed.
LEMMA StepOwed ==
  ASSUME IInv, IInv', RebuildOwed,
         \/ \E reopen \in BOOLEAN : Request(reopen)
         \/ RequestFull
         \/ \E w \in Workers : \/ ClaimFresh(w) \/ Reclaim(w)
                               \/ Prepare(w) \/ Fetch(w) \/ Write(w)
  PROVE  RebuildOwed'
<1>0. /\ row \in Row /\ row' \in Row /\ Coherent(row) /\ Coherent(row')
      /\ worker \in [Workers -> Worker]
      /\ row.requested \in Nat /\ row'.requested \in Nat
      /\ row.claimed \in Nat /\ row.processed \in Nat
      /\ row'.claimed \in Nat /\ row'.processed \in Nat
      /\ row'.processed <= row'.claimed
  BY RowAssumption DEF IInv, TypeOK, RowCoherent, Row, Gens, Coherent
<1>1. ASSUME NEW reopen \in BOOLEAN, Request(reopen) PROVE RebuildOwed'
  <2>1. row'.requested > row.claimed /\ row'.claimed = row.claimed
    <3>1. CanRequest(row) /\ row' = Requested(row, reopen)
      BY <1>1, Zenon DEF Request
    <3>2. row'.requested > row.claimed
      BY <1>0, <3>1, RequestedRow, Zenon
    <3> QED BY <1>0, <3>1, <3>2, ZenonT(40) DEF Requested, Row
  <2>2. row'.requested > row'.claimed /\ row'.requested > row'.processed
    BY <1>0, <2>1
  <2> QED BY <2>2, Zenon DEF RebuildOwed
<1>2. CASE RequestFull
  <2>1. row'.requested > row'.claimed \/ (FullPending(row) /\ row'.requested = row.requested)
    BY <1>2, RequestFullPromise, Zenon
  <2>2. /\ row'.claimed = row.claimed /\ row'.token = row.token
        /\ row'.processed = row.processed /\ worker' = worker
    BY <1>0, <1>2, Zenon DEF RequestFull, FullRequested, Row
  <2>3. CASE row'.requested > row'.claimed
    <3>1. row'.requested > row'.processed BY <1>0, <2>3
    <3> QED BY <2>3, <3>1, Zenon DEF RebuildOwed
  <2>4. CASE FullPending(row) /\ row'.requested = row.requested
    BY <2>2, <2>4, Zenon DEF RebuildOwed, HasFence, Fence, Fenced
  <2> QED BY <2>1, <2>3, <2>4, Zenon
<1>3. ASSUME NEW w \in Workers, ClaimFresh(w) \/ Reclaim(w) PROVE RebuildOwed'
  <2>1. PICK t \in FreshTokens : Claim(w, t)
    BY <1>3, Zenon DEF ClaimFresh, Reclaim
  <2>2. ClaimEligible(row, worker[w].gen, worker[w].full)
    BY <1>3, Zenon DEF ClaimFresh, Reclaim, CanClaimFresh, CanReclaim
  <2>3. row'.token = t /\ WorkKept
    BY <1>0, <2>1, Zenon DEF Claim, ClaimedBy, Row, WorkKept
  <2>4. /\ worker'[w].full = worker[w].full
        /\ \A v \in Workers \ {w} : worker'[v] = worker[v] /\ worker[v].token # t
    BY <1>0, <2>1, Zenon DEF Claim, Worker, FreshTokens
  <2>5. \A v \in Workers \ {w} : ~Fence(v)'
    BY <2>3, <2>4, Zenon DEF Fence, Fenced
  <2>6. worker[w].full = 0 => ~FullPending(row)
    BY <1>0, <2>2, RowAssumption DEF ClaimEligible, ResyncEligible, FullPending, Row, Fulls
  <2>7. FullPending(row)' <=> FullPending(row)
    BY <2>3, Zenon DEF FullPending, WorkKept
  <2> QED BY <2>3, <2>4, <2>5, <2>6, <2>7, Zenon DEF RebuildOwed, WorkKept
<1>4. ASSUME NEW w \in Workers, Prepare(w) \/ Fetch(w) \/ Write(w) PROVE RebuildOwed'
  <2>1. row' = row \/ row' = Wiped(row, worker[w].full)
    BY <1>4, Zenon DEF Prepare, Fetch, Write
  <2>2. ClaimEnds /\ WorkKept
    BY <1>0, <2>1, Zenon DEF Row, Wiped, ClaimEnds, WorkKept
  <2>3. AttemptsEnd
    BY <1>4, AttemptGoesOn, Zenon
  <2> QED BY <2>2, <2>3, QuietOwed, Zenon
<1> QED BY <1>1, <1>2, <1>3, <1>4, Zenon

\* Every step of the processes is a step of the promise or changes none of it.
LEMMA StepPromise ==
  ASSUME IInv, IInv', RebuildOwed, [Next]_vars
  PROVE  [Promise!SNext]_(Promise!svars) /\ RebuildOwed'
<1>1. ASSUME NEW reopen \in BOOLEAN, Request(reopen)
      PROVE  [Promise!SNext]_(Promise!svars) /\ RebuildOwed'
  BY <1>1, RequestPromise, StepOwed, Zenon
<1>2. CASE RequestFull
  BY <1>2, RequestFullPromise, StepOwed, Zenon
<1>3. CASE \/ Recovery \/ Clocks \/ HeldLockExpires \/ ManualReset \/ Sweep
           \/ \E x \in inFlight : Enqueue(x) \/ DropWakeup(x)
           \/ \E j \in queue : \/ RedeliverStalled(j) \/ RedeliverRunning(j)
                               \/ LoseJob(j)
  BY <1>3, OutsideAttempts, QuietPromise, QuietOwed, Zenon
<1>4. ASSUME NEW w \in Workers,
             \/ \E j \in queue : TakeJob(w, j) \/ GiveUpLock(w, j)
             \/ Settle(w) \/ Crash(w) \/ RecordContention(w)
             \/ ClaimMissed(w) \/ ClassifyMiss(w) \/ ObserveExpired(w)
             \/ ReclaimMissed(w) \/ ClaimBlocked(w) \/ FenceLost(w)
             \/ CompletionLost(w) \/ ReleaseFails(w)
             \/ \E permanent \in BOOLEAN : FailAttempt(w, permanent)
      PROVE  [Promise!SNext]_(Promise!svars) /\ RebuildOwed'
  <2>1. /\ AttemptsEnd /\ ClaimEnds /\ WorkKept /\ row'.prepared = row.prepared
        /\ UNCHANGED <<dirty, history>>
    BY <1>4, WorkerOutside, Zenon
  <2> QED BY <2>1, QuietPromise, QuietOwed, Zenon
<1>5. ASSUME NEW w \in Workers,
             ClaimFresh(w) \/ Reclaim(w) \/ Prepare(w) \/ Fetch(w) \/ Write(w)
      PROVE  [Promise!SNext]_(Promise!svars) /\ RebuildOwed'
  <2>1. RebuildOwed'
    BY <1>5, StepOwed, Zenon
  <2> QED BY <1>5, <2>1, ClaimPromise, PreparePromise, FetchPromise, WritePromise, Zenon
<1>6. ASSUME NEW w \in Workers, Complete(w)
      PROVE  [Promise!SNext]_(Promise!svars) /\ RebuildOwed'
  BY <1>6, CompletePromise, Zenon
<1>7. CASE UNCHANGED vars
  <2>1. AttemptsEnd /\ ClaimEnds /\ WorkKept
    BY <1>7, Zenon DEF vars, AttemptsEnd, ClaimEnds, WorkKept, HasFence
  <2> QED BY <1>7, <2>1, QuietPromise, QuietOwed, Zenon DEF vars
<1>8. ASSUME NEW w \in Workers, WorkerStep(w)
      PROVE  [Promise!SNext]_(Promise!svars) /\ RebuildOwed'
  BY <1>4, <1>5, <1>6, <1>8, Zenon DEF WorkerStep
<1> QED BY <1>1, <1>2, <1>3, <1>4, <1>7, <1>8, Zenon
        DEF Next, Steps, Users, Crashes, Mishaps

\* WalletSync implements SyncIntent: with any number of workers, whatever
\* crashes, expires, is lost or delivered twice, the history is changed only
\* by the one attempt the row names, and nothing owed is dropped.
THEOREM PromiseKept == Spec => KeepsPromise
<1>1. Init => Promise!SInit /\ RebuildOwed
  <2> SUFFICES ASSUME Init PROVE Promise!SInit /\ RebuildOwed
    OBVIOUS
  <2>1. \A w \in Workers : ~HasFence(w)
    BY Zenon DEF Init, IdleWorker, HasFence, Attempting
  <2>2. Writers = {} /\ Missed = FALSE
    BY <2>1, Zenon DEF Writers, Missed
  <2>3. Owed = FALSE /\ ~FullPending(row)
    <3>1. /\ row.requested = 0 /\ row.processed = 0
          /\ row.reqFull = 0 /\ row.procFull = 0
      BY Zenon DEF Init, InitRow
    <3>2. (row.requested > row.processed) = FALSE /\ ~(row.reqFull > row.procFull) BY <3>1
    <3> QED BY <3>2, Zenon DEF Owed, FullPending
  <2>4. /\ row.reqFull = 0 /\ row.procFull = 0 /\ row.prepared = 0
        /\ dirty = FALSE /\ history = {0}
    BY Zenon DEF Init, InitRow
  <2> QED BY <2>1, <2>2, <2>3, <2>4, Zenon DEF Promise!SInit, RebuildOwed
<1>2. IInv /\ IInv' /\ RebuildOwed /\ [Next]_vars => RebuildOwed'
  BY StepPromise, Zenon
<1>3. IInv /\ IInv' /\ RebuildOwed /\ [Next]_vars => [Promise!SNext]_(Promise!svars)
  BY StepPromise, Zenon
<1> QED BY <1>1, <1>2, <1>3, Inductive, PTL DEF Spec, KeepsPromise, Promise!SSpec
=============================================================================
