# A TLA+ development for Sanctuary

Sanctuary is a self-hosted coordinator for bitcoin wallets: an API server, a
worker process that follows the chain, a PostgreSQL database, a Redis instance
(locks, BullMQ queues, event bridge), a gateway, an egress proxy and a browser
client. This directory models the parts of it whose correctness depends on how
several processes interleave, checks them on small instances with TLC, and
proves their safety properties for every instance with TLAPS.

Contents: 1 the system; 2 the modules; 3 what the runs check; 4 what is proved;
5 what does not hold; 6 what is not modelled.

## 1. The system

| Part | Code | State it owns | Who acts on it | Module |
|---|---|---|---|---|
| Wallet synchronisation | `repositories/syncIntentRepository.ts`, `resyncRepository.ts`, `services/sync/syncIntentAdmission.ts`, `worker/jobs/canonicalIncrementalSync.ts`, `worker/syncIntentRecovery.ts`, `services/sync/stuckSyncRecovery.ts` | generations, lease and retry columns of `wallets` | API, worker, recovery timer, sweep | `WalletSyncRow`, `WalletSync` |
| Signing intents, broadcast, usage windows | `repositories/transactionSigningIntentRepository.ts`, `services/bitcoin/signingIntent/*`, `api/transactions/broadcasting.ts`, `services/vaultPolicy/policyEvaluationEngine.ts` | broadcast state and lease of an intent, amounts per window | API, reconciliation job, node | `SigningIntentRow`, `Broadcast` |
| Approval requests | `services/vaultPolicy/approvalService.ts` | requests, votes, draft status, UTXO locks | users, expiry sweep | `Approvals` |
| Webhook deliveries | `services/webhooks/deliveryService.ts`, `repositories/webhookRepository.ts` | delivery status, attempt lease | API, worker, recovery | `WebhookDelivery` |
| Ownership transfer | `services/transferService/*`, `api/wallets/sharing.ts` | transfers, roles, owner column | two users, expiry | `Transfer` |
| Browser sessions | `repositories/sessionRefreshTokenRotation.ts`, `api/auth/tokens.ts`, `src/api/refresh.ts`, `authCoordination.ts` | token rows, revoked families, cookies | tabs, other devices | `SessionRefresh` |
| Header reconciliation | `services/sync/networkHeaderReconciler.ts`, `repositories/networkHeader*` | checkpoint, staged headers, confirmation retries | worker, Electrum servers | `HeaderReconciliation` |
| Distributed lock | `infrastructure/distributedLock.ts` | a Redis key, unconfirmed releases | jobs of several processes | `LockAuthority` |
| Circuit breaker | `services/circuitBreaker.ts` | state and counters in memory | overlapping calls | `CircuitBreaker` |
| Everything else | see `components` in `PROJECT.json` | - | - | - |

`PROJECT.json` has one `components` entry for each part, with the reason where
a part is not modelled, and a `hazards` entry for everything found that a test
would hardly reach, at its line.

### How wallet synchronisation works

The first core is wallet-history synchronisation (`docs/adr/0004-wallet-sync-lifecycle.md`).
Every producer - a user, an address subscription, the schedule, a new wallet, an
admitted dead-letter retry - first **persists** intent in the wallet row: a
*requested* generation, coalesced with what is already pending, or a *full
resync* generation that asks for the history to be deleted and rebuilt. It then
**announces** the generation by a BullMQ wake-up, which may be lost. A worker
that takes the wake-up acquires the wallet's Redis lock, **claims** the
generation under a fresh lease token, and from then on writes history only
inside transactions that check this **fence** (generation and token) with the
row locked. It ends by **completing** the claim, by **releasing** it for a retry
or as needing action by the operator, or by dying. A **recovery timer** in the
worker revisits stranded rebuilds, unclaimed intent and expired claims. While the
worker is unhealthy the API process **sweeps** rows that look stuck. Correctness
rests on the database row alone: locks may expire under their holders, wake-ups
may be lost, delayed or duplicated.

### How broadcasting works

The second core decides whether coins are spent once, and counted. A *signing
intent* row fixes an unsigned transaction. A broadcast request first **reserves**
the amount in every usage window of the wallet's policies, one conditional UPDATE
per window, unless an earlier attempt at the same transaction still **holds**
reservations, which it then reuses. It **claims** the intent (`ready`, or an
attempt of the same bytes that ended `unknown` or whose lease expired) under a
fresh lease token, submits to a node, and records the answer under that token:
**accepted**; **rejected**, which only a first claim may turn back into `ready`,
releasing the reservations it took; or **unknown**, which keeps the bytes and the
reservations. An accepted transaction is saved in the history and the intent
**completed**. The maintenance job **reconciles** unknown and expired attempts:
it claims them, looks the transaction up and resubmits the same bytes, up to an
attempt cap; a *stalled* intent beyond it is only looked up. A payjoin proposal
**supersedes** the intent of the original transaction, which can be **restored**
while the proposal is untouched.

## 2. Modules

| Module | Models |
|---|---|
| `WalletSyncRow` | the synchronisation columns of one wallet row; one operator per SQL statement (the row before to the row after) and one per WHERE clause |
| `WalletSync` | the processes: producers, queue, lock, workers, recovery, sweep, clocks; extends `WalletSyncRow` |
| `SyncIntent`, `WalletSyncRefinement` | the promise of the core (pending work and who may write), and the mapping under which `WalletSync` keeps it |
| `SigningIntentRow`, `Broadcast` | the broadcast columns of an intent; requests, reconcilers, usage windows, node, payjoin pairs |
| `SpendIntent`, `BroadcastRefinement` | the promise of broadcasting (unsent, possibly sent, settled) and the mapping |
| `BroadcastInTime` | `Broadcast` with a record of whether a lease ran out under its attempt, and the limits |
| `Approvals`, `WebhookDelivery`, `Transfer`, `SessionRefresh`, `HeaderReconciliation`, `LockAuthority`, `CircuitBreaker` | one component each |
| `Resilience` | the lock and a breaker side by side, and what a breaker promises |
| `MC...` | instances for TLC |
| `...Proofs` | the theorems of a component |

In every module one action is one SQL statement or transaction, one Redis command,
one queue operation or one network message: what lies between two awaits of
different processes interleaves.

### State of `WalletSync`

| Variable | Code |
|---|---|
| `row.requested / claimed / processed` | `requestedIncrementalSyncGeneration`, `claimed...`, `processed...` |
| `row.token`, `row.expired` | `incrementalSyncLeaseToken`; `incrementalSyncLeaseExpiresAt <= now` |
| `row.reqFull / prepared / procFull` | `requestedFullResyncGeneration`, `prepared...`, `processed...` |
| `row.waiting / retried / actionRequired / inProgress` | `syncNextRetryAt > now`, `syncRetryCount # 0`, `syncActionRequiredAt` set, `syncInProgress` |
| `row.bumped` | whether `syncStateVersion` moved since the sweep read it (the only comparison ever made of it) |
| `lock` | holder of the Redis key; `Orphan` when the holder died or its release was not confirmed |
| `queue`, `inFlight` | live BullMQ jobs; wake-ups between the decision and `queue.add` |
| `worker[w]` | one job slot: where it is in `processJobWithLock` / `executeCanonicalIncrementalSync`, its job and its fence; `base` is the rebuild epoch its batch was computed against |
| `cleaner` | `clearStuckSyncIfAuthorized`: what it captured and whether it holds the lock |
| `history` | the rebuild epochs whose transactions the stored history contains |
| `notes` | whether the user's labels and memos are on live rows and in the annotation snapshot |
| `dirty`, `worker[w].unseen` | observers, read by no guard: activity that no completed attempt has covered, and activity newer than the attempt's claim |

### Actions of `WalletSync`

One action is one SQL statement or transaction, one Redis command or one queue
operation: what lies between two awaits of different processes interleaves.

| Actions | Code |
|---|---|
| `Request`, `RequestFull`, `ManualReset` | `syncIntentAdmission.request`, `.bridgeRetained`, `.requestFullResync`, `.reset` |
| `Enqueue`, `DropWakeup` | `workerSyncQueue.ts` and what can keep it from adding |
| `RedeliverStalled`, `RedeliverRunning`, `LoseJob` | BullMQ (external): stall check, a worker taken for dead, loss |
| `TakeJob`, `GiveUpLock`, `RecordContention`, `Settle` | `processJobWithLock`, `recordLockRetryBudgetExhausted` |
| `ClaimFresh`, `ClaimMissed`, `ClassifyMiss`, `ObserveExpired`, `Reclaim`, `ReclaimMissed`, `ClaimBlocked` | `claimIncrementalExecution`, `claimIncrementalSync`, `reclaimExpired`; the gate's refusal |
| `Prepare`, `Fetch`, `Write`, `FenceLost` | `resetWalletForFullResync`, `syncWallet`, `runWalletSyncMutation` |
| `Complete`, `CompletionLost`, `FailAttempt`, `ReleaseFails`, `Crash` | the end of an attempt and its `catch` block; death of the process |
| `RecoverFull`, `RecoverIncremental`, `RecoverExpired` | the three phases of `recoverOnce` |
| `CleanerScan`, `CleanerLock`, `CleanerReset`, `CleanerAbandon` | `findStuckSyncing`, `clearStuckSyncIfAuthorized` |
| `LeaseExpires`, `RetryComesDue`, `OrphanLockExpires`, `HeldLockExpires` | clocks and TTLs |

Abstractions. Clocks are gone: a lease, a lock or a delay may elapse at any
moment, which includes every real timing. The activation gate may refuse at
every point where the code asks it. Transactions are abstracted to the rebuild
epoch they belong to, labels and memos to where they are. One wallet is modelled:
rows, locks, jobs and attempts of different wallets share nothing but worker
slots and paging. Publishing of events, logging and telemetry are left out; the
publisher never throws.

### State of `Broadcast`

| Variable | Code |
|---|---|
| `row[i].state / raw / owner / expired / count` | `broadcastState`, `broadcastRawTx` (with its txid), `broadcastLeaseToken`, `broadcastLeaseExpiresAt <= now`, `broadcastAttemptCount` |
| `row[i].resv` | `broadcastMetadata.policyReservations`, as the set of windows |
| `row[i].link` | `supersededById`; "absent" before the row is inserted |
| `usage[w]` | the guarded counter of a `policy_usage_windows` row |
| `actor[a]` | the locals of one request, or of one row in the hands of the job |
| `wire`, `out` | submissions that may still arrive after their call ended; what the network has |
| `saved` | intents whose transaction `persistTransaction` committed |

### Actions of `Broadcast`

| Actions | Code |
|---|---|
| `Begin`, `Reserve`, `ReserveLost`, `ReserveFails`, `Reserved` | `reservePolicyUsage`, `reserveEnforcedUsage`, `reserveUsageWindow` |
| `Release`, `ReleaseFails`, `Released` | `releaseReservationsOnFailure`, `releaseUsageWindow` |
| `Claim`, `ClaimRefused`, `AlreadyAccepted` | `claimBroadcast` and its callers in the route and the job |
| `CheckFails`, `ChildKnown` | `assertPreNetworkChecks`, `isRetriedCpfpChildKnown` |
| `LookupHit`, `Withhold` | `reconcileUncertain`, `withholdConfirmedCpfpChild` |
| `NodeAccepts`, `ReplyLost`, `SubmissionDelayed`, `NodeRefuses`, `WireArrives`, `WireDrops` | `broadcastAuthenticatedRawTransaction`; the network (external) |
| `RecordFailure`, `MarkAccepted`, `MarkAcceptedFails`, `Persist`, `Complete` | `recordClaimFailure`, `recordUncertainFailure`, `recordAcceptedIntent`, `persistTransaction`, `completeAcceptedIntent` |
| `List`, `ListStalled`, `StalledFound`, `StalledMissed` | `reconcileSigningIntentBroadcasts`, `lookupStalledIntent` |
| `LeaseExpires`, `Abandon` | the clock; the death of a process, or a failed statement nothing records |
| `Propose`, `Restore` | `create` with a superseded intent, `restorePayjoinOriginal` |

Abstractions. The signed transactions of an intent are a set of variants; the
constant `Segwit` says whether they share a txid, as the code compares txids in
some places and bytes in others. What a submission costs in a window is a
constant of the intent and the window, 0 where no policy reserves. A refusal by
the node is *definite*, *answered* or *unanswered*, as `isDefiniteNodeRejection`
and the callers tell them apart; which one occurs is arbitrary, except that a
definite refusal leaves nothing on the network. The attempt count is merged above
the cap, where no statement tells values apart.

### `Approvals`

One draft with its approval requests. `draft` is the `draft_transactions` row,
whether it took UTXO locks when it was created (`taken`) and whether it holds them
(`locked`); `triggers` the policies its evaluation triggered; `policy`, `request` the
rows by policy, a request with its votes; `approvers` the effective approvers of the
wallet; `op` the call running in each slot, with what it has read. Taking locks is a
choice of `CreateDraft`: `lockSelectedUtxos` locks nothing for a replacement (`isRBF`)
or when no selected UTXO is found, and a conflict rolls the creation back.
A vote reads the request and the approvers, records itself, counts, resolves and derives the status of the draft in separate statements, so that two
votes, an override, a mobile reject, the deletion of a policy and the sweep
overlap in any way. The three kinds of quorum are `any_n`, `all` and `specific`.
The update of `resolveApprovalRequestIfPending` and its read-back are one step.
`Abandon` is the death of a call between two of its statements.

### `WebhookDelivery`

`endpoint` and `row[d]` are the database rows; `jobs` the waiting jobs; `proc[p]`
what a process is doing with which delivery and attempt; a worker that queues the
retry still has the job of the failed attempt in hand (`JobOf`). `turn`, `owed`, `got` and
`by` are observers: the replays so far, the destination and secret a delivery was
queued for, the turns the receiver accepted, and the turn of the recorded outcome.
Actions: `Emit`, `Admit`, `Announce`, `AnnounceFails` (queueing under the endpoint
lock and the wake-up), `Take`, `Look`, `Claim`, `Accepted`, `Refused`, `Record`,
`RecordFails`, `Abandon` (one attempt), `ListDue` (recovery), `Replay`,
`LeaseExpires`, `BecomesDue`, `UpdateEndpoint`, `DeleteEndpoint`.

### `Transfer`

One resource, a wallet or a device (`resourceType`, which never changes): `role`
of each user, `grouped`, the owner `column` devices kept, the `transfers`, and what
each `call` in progress has read. A serializable transaction is a snapshot and a
commit; a commit that another one has overtaken is `stale` and retried or refused
as the code does. The sharing calls run at the database's default isolation, one
statement per step.

### `SessionRefresh`

The tabs of one browser with their cookie `jar`, Web Lock and BroadcastChannel
(`post`), and the server's rows. Credentials come in numbered pairs of an access
and a refresh token; a login starts a `family`. `rows`, `tomb`, `revoked` and
`outdated` are the tables and the session version. The lock is not a variable: a
refresh holds it while it is sent or answered, a mutation shares it while it is
sent. `adrift` are requests the browser gave up that the server may still handle.
A behaviour has a `scene`: which requests the tabs make, whether other devices end
sessions, and whether there are faults (timeouts, failing transactions).

### `HeaderReconciliation`

The durable row of a network (`row`), the headers it has `staged` as proof, the
promoted checkpoint (`ckpt`, `history`), the open `gap`, the wallets to refresh
again (`retries`), the workers with their epoch (`state`) and the operation at the
head of their queue (`op`), and the tips the servers present (`views`). The block
tree is given by the chain of every block, `ChainAssumption`. `served`, the wallets
refreshed since the target is the target, is an observer.

### `LockAuthority` and `CircuitBreaker`

`LockAuthority` is one Redis key: its `key`, the deadlines `passed`, the `call` of
each caller with its lock object, the unconfirmed releases of each process
(`book`), the retry `timer` and `sweep`, and deletes Redis may execute `late`.
`CircuitBreaker` is the state, counters and timeout of one breaker with the calls
that are `running`; `healthy` and `doomed` stand for the service behind it, and
`outcomes` observes the last outcomes.

## 3. What the runs check

A run plays one or several scenes: restrictions of the next-state relation in
the MC module, which keep an instance small without narrowing what happens in it.
Each property of a run has a mutant: a plausible bug in a definition that makes
TLC find the property violated.

| Run | Instance | Properties |
|---|---|---|
| `sync_safety` | 2 workers, 3 tokens, generations to 2, 2 full resyncs, 2 faults; scenes workers, resyncs, sweep | `NoLostActivity`, `SingleWriter`, `HistoryCurrent`, `NotesPreserved`, `SweepSparesNewerClaims`, `KeepsPromise` |
| `sync_liveness` | 2 workers, 1 full resync, 1 fault | `WorkSettles` |
| `resync_stranded` | the same | `FullResyncSettles`, violated (section 5) |
| `broadcast_safety` | 2 requests, 1 reconciler, 2 signatures, a payjoin pair and a third intent, 1 window; scenes pair, race | `OneArtifact`, `SettledIsReal`, `NeverBoth`, `LimitsInTime`, `KeepsSpendPromise` |
| `broadcast_liveness` | 1 request, 1 reconciler | `OutSettles` |
| `approval_votes` | 2 calls, the sweep, 2 users; scenes overlap (two policies), edits (a third one, edited) | `ClearedSound`, `ApprovedByQuorum`, `NothingMissed`, `ClearedKeepsLocks`, `RefusalTerminal` |
| `approval_release` | 1 policy that can be deleted, 1 crash | `SweepReleases`, `CleanupReleases` |
| `webhook` | 1 delivery, 2 processes, 2 URLs, 2 attempts, 1 replay, 1 rotation; scenes outbox, replays, edits | `OutcomeIsCurrent`, `SentWhereQueued`, `FinalStays`, `OutboxDrains` |
| `transfer` | 2 users, 2 transfers, 2 calls, a wallet or a device | `OneOwner`, `OneOffer`, `OwnerByTransfer`, `EndsForGood` |
| `session` | 2 tabs, 2 pairs, 5 scenes | `ClearedIsOver`, `CredentialKept`, `Coordinated`, `RequestSettles`, `EndReachesTabs` |
| `resilience` | 3 callers in 2 processes, 2 tokens; or a breaker with 3 calls, thresholds 3 and 2 | `HolderOwnsKey`, `Retained`, `TripsAndRecovers` |
| `header` | 4 blocks on two branches, 2 wallets, 2 workers; scenes alone, rivals | `RowSound`, `ProofIsChain`, `NothingSkipped`, `Settles` |

| Property | Says |
|---|---|
| `NoLostActivity` | activity accepted by a request is covered by an attempt that claimed after it and completed, or is still pending |
| `SingleWriter` | at most one attempt passes the mutation fence, however many workers believe they hold the lock |
| `HistoryCurrent` | after a wipe no batch computed before it is written, and a full resync counts as processed only with the rebuilt history in place |
| `NotesPreserved` | labels and memos are on live rows or in the snapshot, across failed rebuilds |
| `SweepSparesNewerClaims` | the sweep revokes no claim made after the one it looked at |
| `KeepsPromise` | `WalletSync` implements `SyncIntent` |
| `WorkSettles` | requested work is eventually processed or visibly needs the operator, except a full resync once a worker has died |
| `OneArtifact` | nothing but the bytes the row names is, or may yet arrive, on the network |
| `SettledIsReal` | accepted: the network has it; complete: the history has it too |
| `NeverBoth` | of a payjoin original and its proposal at most one is handed to the network |
| `LimitsInTime` | while no lease ran out under a live attempt, usage windows count every transaction that may be out, within the limit |
| `KeepsSpendPromise` | `Broadcast` implements `SpendIntent` |
| `OutSettles` | once requests stop, what the network has becomes complete and saved |
| `ClearedSound` | a draft that was cleared has no open or refused request |
| `ApprovedByQuorum` | a request is approved only by a quorum of those who voted or by the owner's override |
| `NothingMissed` | when all calls have ended no request with a quorum is pending, and a pending draft has an open request |
| `ClearedKeepsLocks`, `RefusalTerminal` | a cleared draft still has the UTXO locks it took when it was created (a replacement takes none); a refused draft is never cleared later |
| `SweepReleases`, `CleanupReleases` | the sweep alone releases a draft whose request is overdue, expired or gone; the rest ends with the draft's expiry |
| `OutcomeIsCurrent` | a recorded outcome is of an attempt of the current turn |
| `SentWhereQueued` | an attempt goes to the destination and secret its delivery was queued for |
| `FinalStays` | a settled delivery changes only by a replay, a retired one never |
| `OutboxDrains` | an open delivery is delivered or given up |
| `OneOwner`, `OneOffer` | at most one owner, and the column agrees; at most one open transfer, and by the owner |
| `OwnerByTransfer` | ownership moves only by an accepted and confirmed transfer, and is lost only by a stale sharing call |
| `EndsForGood` | a closed transfer stays closed; every transfer is closed in the end |
| `ClearedIsOver` | the browser drops its cookies only for a session that is over |
| `CredentialKept` | one stored credential per session; the browser has it or is about to; nobody changes the jar under a refresh |
| `Coordinated` | without faults no refresh meets a used credential and no mutation loses its token |
| `RequestSettles`, `EndReachesTabs` | requests end; every tab learns of the end of the session, unless a refresh that failed for now left it without a timer and it asks for nothing |
| `HolderOwnsKey`, `Retained` | a holder owns the key until the deadline it knows of; an unconfirmed release is kept until it is answered or its deadline has passed |
| `TripsAndRecovers` | a breaker opens only on failures in a row, and closes for good once the service recovers |
| `RowSound` | the durable row can always be read, and the gap is open exactly while there is work |
| `ProofIsChain` | what is recorded as proof is one chain from the checkpoint |
| `NothingSkipped` | no header is promoted before every wallet was refreshed at it, and a waiting header is kept |
| `Settles` | once the servers agree, their tip is promoted |

**Bounds.** Two actors of a kind are what it takes for one to act on what the
other has overtaken; a third one (a token, a reconciler, the sweep) is what both
have overtaken. Two faults allow a fault during the recovery from a fault. One
wake-up in flight is enough because a second one differs from it only by being
enqueued later. The limit of 3 against costs of 2 leaves a remainder that a wrong
comparison would take for room. Two pairs of a session are one rotation; the
proofs cover any number, and the invariant of the proof was checked with three.
In `session` other devices end sessions at any time, but with two writing tabs only
before the last pair is issued.
Of the generations a header row may have (`MaxGen`), `Reserve` are kept for after the
servers agree, so that the bound does not stop what must settle: until then the run has
generations 1 and 2, and the proofs have any. `usage` needs no bound since a
reservation never passes the limit.
Where counters are bounded the system may come to rest, and deadlock is not
checked; it is checked for `Broadcast`, which is finite without bounds.

**Fairness.** It is assumed only in the runs with a liveness property.
*Sync*: timers and TTLs elapse; the recovery interval announces what its queries
select; an admitted wake-up reaches the queue; BullMQ's stall check returns the
jobs of dead workers; a running handler goes on, since its network calls are
bounded by `maxSyncDurationMs`. Strong: a waiting job that finds the lock free
again and again is taken (BullMQ serves its wait list in order), and the timer
does not fire only while the lock is held. *Broadcast*: leases run out; the job is
scheduled for ever and its list is ordered by the last attempt; a database and a
node that are reachable again and again eventually serve it; requests for the
intent stop in the end. *Approvals*: a call goes on unless it dies, the hourly
sweep runs (`SweepFairness`); drafts run out and are cleaned up
(`CleanupFairness`). *Webhooks*: leases and delays elapse, a process goes on;
strong: the recovery job, the queue and the claim get their turn, and an attempt
ends within its lease now and then. *Transfer*: a transfer lapses, and the expiry
job finds it. *Sessions*: answers, timers, messages and the clock arrive; strong:
the Web Lock, which the browser grants in the order of the requests. *Breaker*:
calls are made and end, the timeout elapses. *Headers*: the retry delay elapses
and a worker goes on; strong: recovery, observations, and a fetch or refresh that
is tried again and again succeeds. Users and faults have no fairness.

## 4. What is proved

Each theorem below is a machine-checked `Spec => []P` (or `Spec => P` for an action
property or a refinement), for every value of the constants that satisfies the named
assumption of the module: sets of workers, users, tabs or blocks of any size, and any
bound. Each proof rests on an inductive invariant that adds to the property what it
needs.

### Wallet synchronisation (`WalletSyncProofs`)

`Typing`, `Coherence`, `ActivityKept` (`NoLostActivity`), `OneWriter`
(`SingleWriter`), `FreshBatches` and `RebuildFirst` (together `HistoryHolds`),
`NotesKept`, the action property of the sweep (`SweepIsExact`) and the refinement
(`PromiseKept`). The assumptions are `RowAssumption` and `SyncAssumption`: the bounds
are naturals, at least one attempt, and the special values are distinct.

`IInv` adds two conjuncts. `FencesDistinct`: attempts that hold a fence hold
different, real tokens; with the fence comparing tokens, this gives `SingleWriter`,
and it is what a fence on generations alone would lack. `AttemptsCurrent`, about the
attempt whose fence is still valid: if activity arrived after its claim, a newer
generation is requested, so completing cannot cover it; its batch was computed
against the current rebuild epoch; once it has written, the rebuilt history is in
place. Attempts whose fence was revoked are left unconstrained: that is the point of
the fence. The proof has a lemma per SQL statement, a lemma `QuietStep` for the steps
that neither claim, wipe, write nor complete, and one lemma per remaining step.
`SweepIsExact` rests on `SweepCurrent`: as long as the version is the captured one, so
is the token, because every statement that changes the token moves the version.

`PromiseKept` maps every step to a step of `SyncIntent` or a stutter. It needs one
more invariant, `RebuildOwed`: while a rebuild is pending, a generation is owed, and an
attempt that does not rebuild cannot be the last one. `SyncIntent` itself says: only
the one attempt the row names changes the history, and nothing owed is dropped.

### Broadcast (`BroadcastProofs`)

`TypeCorrect`, `NoSecondArtifact` (`OneArtifact`), `SettledIsTrue` (`SettledIsReal`),
`PayjoinExclusive` (`NeverBoth`) and the refinement of `SpendIntent`
(`SpendPromiseKept`), whether or not leases outlive attempts. The assumptions are
`IntentRowAssumption` and `BroadcastAssumption`: special values are distinct,
requests and reconcilers are disjoint, a proposal belongs to one original and is not
there at the start.

`Inv` adds what the columns say together (`RowsOK`); what an actor has in hand and
where the network stands with it at each of its steps (`InHand`, `Saving`); and three
conjuncts that carry the argument. `DefiniteIsFirst`: a definite failure belongs to a
request's first claim. `Alone`: as long as the holder of a first claim still owns it,
nothing of the intent is out except what it has itself submitted, so that rolling back
to `ready` is safe. `OneCurrent`: of an original and its proposals at most one is
current. In `SpendIntent` a step is `Commit`, `TakeBack`, `Submit`, `Arrive`, `Settle`,
`Keep` or `Close`; an intent is never taken back once something of it may be out.

`LimitsHold` (`LimitsInTime`) is about `ISpec`, `Broadcast` with a history variable
`late` that no action reads (`BroadcastInTime`): until a lease has run out under the
attempt that held it, the usage windows count all that may be on the network, and this
stays within the limits. Usage is counted unit by unit, so that sums are cardinalities
of finite sets. The invariant `Ledger` names who answers for each unit: the row from
the claim on (`RowHeld`), a fresh request before it claims and after a rejection (its
`Purse`), never both; the total of these charges is at most the usage, which is at most
the limit (`Books`). A reservation adds a charge, a claim hands it from the request to
the row, a rejection hands it back, a release removes it; all other steps add none
(`CalmStep`). An attempt that resumes an earlier one brings no units of its own, so the
invariant also says that the earlier one can no longer be rejected (`Resuming`), which
is what a lease that runs out under its attempt destroys (`Timely`). It assumes finitely
many actors and intents.

### Approvals (`ApprovalsProofs`)

`ClearedSoundHolds`, also when policies are deleted: a call about to clear the draft
read requests that are still settled, because a request never reopens and none is
added to an existing draft. `RefusalTerminalHolds` and `ClearedKeepsLocksHolds` (a draft
not refused holds what it took, `HoldsLocks`) assume
`NoDeletion` (no policy of the draft is deleted); with deletion they do not hold
(section 5).

`ApprovedByQuorumHolds`, through edits, deletions and crashes, and
`NothingMissedHolds`, under `NoDeletion` (its first half, `QuorumNotMissed`, does not
need it). `VoteInv` says that the votes a voter counted are among those recorded
(`CountsReal`), that a request about to be approved is carried by its recorded votes
(`Carried`), and that votes which settle an open request have a voter who will still
see all of them (`Heard`). `QuorumGrows` is the lemma behind it: more votes never undo
a quorum, of any of the three kinds. `OweInv` adds that a draft whose requests are
settled has a call that will derive its status (`DeriveOwed`). The one assumption
beyond the shapes of the constants is that `Users` is finite.

### Webhook deliveries (`WebhookDeliveryProofs`)

`TypeCorrect`, `OutcomeIsCurrentHolds`, `SentWhereQueuedHolds`, `FinalStaysHolds`. The
invariant says of a row that a lease is on an open row only, that an open row is owed
to the endpoint as it is now, and that an outcome is of the last turn; and of an
attempt that one still holding its lease is of this turn, and that one of this turn
goes where the delivery is owed. An attempt that lost its lease may be of any turn.

### Transfer (`TransferProofs`)

`TypeCorrect`, `OneOwnerHolds`, `OneOfferHolds`, `OwnerByTransferHolds`,
`ClosedStaysHolds`. `Inv` is the types, `SoleOwner`, `OneActive`, that an open transfer
is between two users, and `Sound` of every call: a transaction that is not stale still
sees the rows it is about to write as they are, and no sharing call gives ownership. A
second layer (`Links`) has the owner column and that an open transfer is by the owner.

### Browser sessions (`SessionRefreshProofs`)

`ClearedIsOverHolds`, `CredentialKeptHolds`, `CoordinatedHolds`, for any number of tabs,
logins and rotations. The first, and of the second all but the browser's own copy, hold
with timeouts and late handling too. `Inv` adds: `Excluded`, the Web Lock is held by one
refresh or by mutations only; `Handed`, a session that has a stored credential at all
has the one in the jar, or the one on its way there; that a row's access token is not
revoked; and that a refresh carries what is in the jar. A session counts as stored while
its rows are there even if its version is outdated, since between the two statements of
a logout-all the server still rotates: with `Alive` in place of it the invariant is not
inductive. `StaysOver` says that no family comes back, which is why a terminal answer
stays right.

### Header reconciliation (`HeaderReconciliationProofs`)

`RowSoundHolds`, `NothingSkippedHolds`, `ProofIsChainHolds`, for any block tree that
satisfies `ChainAssumption` (the chain of a block has one block at each height, and the
chains are closed under prefixes). `Inv` says that the wallets up to the page are
refreshed or kept for a retry (`Counted`) and what a worker whose fence still holds
relies on (`Mine`). The second layer, `Chained`, says that the staged headers are the
stretch of one chain from the trusted anchor to the cursor, that the history is a piece
of a chain, and what the operations have read of it.

### Distributed lock and circuit breaker (`ResilienceProofs`)

`TypeHolds`, `HolderOwnsKeyHolds`, `MutualExclusion` (two callers never hold at once
before a deadline they know of has passed), `RetainedHolds`. The invariant adds that
tokens are one caller's each (`Distinct`), that nobody is about to delete the key under
a token that is held (`Unreleased`), and that Redis and the holder agree on the deadline
(`Covered`).

`TripsEarnedHolds` is the safety half of `TripsAndRecovers` (`TripsEarned`), for any
number of overlapping calls and any thresholds of at least one (`BreakerAssumption`).
`Streak` says what the counter means while the circuit is closed: it is the length of
the run of failures that ends the history, and below the threshold. In the other states
the counter means nothing, and closing resets it. `RecentShape` is the lemma about the
bounded history: a new outcome is the last one, and the others keep their distance from
the end.

### Only model-checked

Every liveness property: `WorkSettles`, `OutSettles`, `SweepReleases`,
`CleanupReleases`, `OutboxDrains`, the second half of `EndsForGood`, `RequestSettles`,
`EndReachesTabs`, `Settles`, and the recovery half of `TripsAndRecovers`. Fairness and
`ENABLED` are outside the prover's reach. Every safety property that a run checks is
also proved.

## 5. What does not hold

`resync_stranded` is a run that TLC refutes: one worker crash can strand a full
resync. The crashed attempt's claim of generation g is skipped by the recovery of
expired claims because a rebuild is pending, and the rebuild's job, which expects
generation g + 1, can neither claim (g is still claimed) nor reclaim (it compares the
claim with g + 1). Quotations are in `PROJECT.json`.

The following were met while modelling. The properties above are stated with the
exception each of them calls for; without it TLC refutes them.

- *Usage after an expired lease* (`LimitsInTime`). A first attempt outlives its lease and
  the job lists the row; the node's definite refusal returns the intent to `ready` and
  releases the reservations; the job claims the `ready` row, since it does not set
  `resumeOnly` (`broadcastReconciliation.ts:117`), and its submission is counted nowhere.
- *A refused draft after a policy was deleted* (`RefusalTerminal`, `ClearedKeepsLocks`).
  The derive that follows a deletion writes without comparing what it read
  (`approvalService.ts:809` and `825`), so that it can overwrite a refusal made meanwhile.
- *The owner removed by a stale sharing call* (`OwnerKept`). A member is read as not the
  owner, a transfer to them is confirmed, and the row is then changed by its id alone
  (`api/wallets/sharing.ts:161`).
- *A refresh that times out after its rotation* (`HoldsCredential`, `NeverSuperseded`).
  The browser keeps a credential that is used up (`src/api/refresh.ts:318`); both are
  stated without faults.
- *A tab that is not told* (`EndReachesTabs`). A scheduled refresh that fails for now arms
  no further timer (`src/api/refresh.ts:152`), so that a tab whose session is then ended on
  another device stays signed in until its next request.
- *A key that outlives its retries* (`Retained`). When the answer to a renewal is lost, Redis
  may keep the key longer than the deadline the process knows; the retries of its release
  stop at that deadline.
- *An unconfirmed release forgotten by another one* (`Retained`). The retry map is by key
  and not by token (`distributedLock.ts:404` and `449`).
- *An old success counted as a probe.* A success reported while the circuit is half open
  counts also when its call began before the circuit opened (`circuitBreaker.ts:160`);
  `TripsAndRecovers` does not say that only probes count.
- *A waiting header dropped by a reset* (`WaitingKept`). Clearing the cursor clears the
  header that waits behind the target (`networkHeaderReconciliationRepository.ts:231`).

## 6. Not modelled

Bitcoin computations (derivation, PSBTs, fees, coin selection), rendering, formatting
and read-only services have no protocol to check. BullMQ, Redis and PostgreSQL are
taken to behave as the code uses them: conditional updates and row-locked transactions
are atomic, `SET NX PX` and compare-and-delete are atomic, jobs are delivered at least
once or lost. A statement that commits although its caller sees an error is modelled
for the network, for Redis and for the browser's requests, not for the database.

- *Sync*: the paging of the recovery timer over many wallets (each is eventually
  reached), the policy behind the activation gate.
- *Broadcast*: the validation of the signed artifact and its expiry, the binding of
  drafts to intents, fee-bump deltas of replacements, monitor-mode counting, metadata
  written before reservations were recorded with it, replays of a consumed intent.
- *Approvals*: which draft locks which UTXO; the event log and notifications.
- *Webhooks*: edits of name, filters and the enabled flag, the URL policy, signing,
  payloads.
- *Transfer*: the deletion of a user by an administrator, audit, cached access decisions.
- *Sessions*: the seven-day expiry of refresh tokens, recovery from a stale CSRF token,
  browsers without Web Locks, two-factor and email verification, password changes.
- *Headers*: what the refresh of one wallet computes, the height cache, the sizes of
  delays.
- *Lock*: the local single-process authority, re-initialisation, several keys that share
  the retry timer, `lockAuthorityRecovery.ts`.
- *Parts without a model*: Electrum subscriptions, the dead-letter queue, rate limits,
  WebSocket queues, notifications, backup, import, price, AI and MCP integrations, the
  HTTP layer, the gateway, the egress proxy, the rest of the frontend.
