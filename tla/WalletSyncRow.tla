---------------------------- MODULE WalletSyncRow ----------------------------
(***************************************************************************)
(* The durable synchronisation columns of one row of the "wallets" table   *)
(* and the SQL statements that change them, one operator per statement.    *)
(* Every statement of syncIntentRepository.ts and resyncRepository.ts is   *)
(* a single conditional UPDATE or a transaction that locks the row, so     *)
(* each is a function from the row before to the row after, with its WHERE *)
(* clause as a separate predicate.                                         *)
(*                                                                         *)
(* Wall-clock columns appear as what the code asks of them: `expired` is   *)
(* leaseExpiresAt <= now, `waiting` is nextRetryAt > now, `retried` is     *)
(* retryCount # 0.  syncStateVersion is only ever compared with the value  *)
(* the stuck-row sweep captured, so `bumped` records whether the column    *)
(* was incremented since that capture.                                     *)
(***************************************************************************)
EXTENDS Naturals

CONSTANTS
  Tokens,       \* lease tokens (UUIDs)
  NoToken,      \* the NULL lease token
  MaxGen,       \* MAX_SYNC_GENERATION
  MaxFull       \* FULL_RESYNC_GENERATION_MAX

ASSUME RowAssumption ==
  /\ NoToken \notin Tokens
  /\ MaxGen \in Nat
  /\ MaxFull \in Nat

Gens  == 0..MaxGen
Fulls == 0..MaxFull

Row == [requested : Gens, claimed : Gens, processed : Gens,
        token : Tokens \cup {NoToken}, expired : BOOLEAN,
        reqFull : Fulls, prepared : Fulls, procFull : Fulls,
        waiting : BOOLEAN, retried : BOOLEAN, actionRequired : BOOLEAN,
        inProgress : BOOLEAN, bumped : BOOLEAN]

InitRow == [requested |-> 0, claimed |-> 0, processed |-> 0,
            token |-> NoToken, expired |-> FALSE,
            reqFull |-> 0, prepared |-> 0, procFull |-> 0,
            waiting |-> FALSE, retried |-> FALSE, actionRequired |-> FALSE,
            inProgress |-> FALSE, bumped |-> FALSE]

-----------------------------------------------------------------------------
(* Requests *)

\* Mutant: activity during an attempt merges into the running generation.
Bug_AheadOfProcessed(r) ==
  IF r.requested >= r.processed + 1 THEN r.requested ELSE r.processed + 1

\* GREATEST(requested, claimed + 1): one generation ahead of the active claim.
Ahead(r) == IF r.requested >= r.claimed + 1 THEN r.requested ELSE r.claimed + 1

CanRequest(r) == Ahead(r) <= MaxGen

\* requestIncrementalSyncWithClient; reopen is mode = 'explicit_reopen'.
Requested(r, reopen) ==
  [r EXCEPT !.requested = Ahead(r),
            !.actionRequired = @ /\ ~reopen,
            !.waiting = @ /\ ~reopen,
            !.retried = @ /\ ~reopen,
            !.bumped = \/ @
                       \/ Ahead(r) # r.requested
                       \/ reopen /\ (r.actionRequired \/ r.waiting \/ r.retried)]

FullPending(r) == r.reqFull > r.procFull

\* An outstanding rebuild with pending work keeps its incremental generation.
KeepsGeneration(r) == FullPending(r) /\ r.requested > r.processed

\* The last conjunct is the cast ::INTEGER, which aborts the statement.
CanRequestFull(r) ==
  /\ FullPending(r) \/ r.reqFull < MaxFull
  /\ r.requested > r.processed \/ Ahead(r) <= MaxGen
  /\ KeepsGeneration(r) \/ Ahead(r) <= MaxGen

FullRequested(r) ==
  [r EXCEPT !.reqFull = IF FullPending(r) THEN @ ELSE @ + 1,
            !.requested = IF KeepsGeneration(r) THEN @ ELSE Ahead(r),
            !.actionRequired = FALSE,
            !.waiting = FALSE,
            !.retried = FALSE,
            !.bumped = \/ @
                       \/ ~KeepsGeneration(r)
                       \/ r.actionRequired
                       \/ r.waiting
                       \/ r.retried]

-----------------------------------------------------------------------------
(* Claims.  full = 0 stands for a claim without a full-resync generation.  *)

ResyncEligible(r, full) ==
  IF full = 0
    THEN r.reqFull = r.procFull
    ELSE r.reqFull = full /\ r.procFull < full

ClaimEligible(r, gen, full) ==
  /\ r.requested > r.processed
  /\ r.requested >= gen
  /\ ResyncEligible(r, full)
  /\ ~r.actionRequired
  /\ ~r.waiting

CanClaimFresh(r, gen, full) ==
  /\ ClaimEligible(r, gen, full)
  /\ r.requested = gen
  /\ r.claimed = r.processed

\* The reclaim compares the exact expired fence it observed.
CanReclaim(r, gen, full, observed) ==
  /\ ClaimEligible(r, gen, full)
  /\ r.claimed = gen
  /\ r.token = observed
  /\ r.expired

ClaimedBy(r, gen, token) ==
  [r EXCEPT !.claimed = gen, !.token = token, !.expired = FALSE,
            !.inProgress = TRUE, !.waiting = FALSE, !.bumped = TRUE]

\* The classification of a missed claim by the re-read that follows it.
AlreadyClaimed(r, gen, full) ==
  /\ ~(full = 0 /\ FullPending(r))
  /\ r.claimed > r.processed
  /\ r.claimed <= gen
  /\ r.processed < gen

-----------------------------------------------------------------------------
(* Fenced mutations and terminal writes *)

\* Mutant: the fence compares generations only.
Bug_FencedByGeneration(r, gen, token) == r.claimed = gen

\* withWalletSyncMutationFence: generation and token, not the lease clock.
Fenced(r, gen, token) == r.claimed = gen /\ r.token = token

\* The WHERE clause the three terminal writes share.
OwnsClaim(r, gen, token) == Fenced(r, gen, token) /\ r.claimed > r.processed

Unleased(r) ==
  [r EXCEPT !.token = NoToken, !.expired = FALSE, !.inProgress = FALSE,
            !.waiting = FALSE, !.bumped = TRUE]

\* Mutant: a successful sync of any kind satisfies the pending full resync.
Bug_CompletedAll(r) ==
  [Unleased(r) EXCEPT !.processed = r.claimed, !.procFull = r.reqFull,
                      !.retried = FALSE, !.actionRequired = FALSE]

\* completeIncrementalSync
Completed(r) ==
  [Unleased(r) EXCEPT !.processed = r.claimed, !.retried = FALSE,
                      !.actionRequired = FALSE]

\* releaseIncrementalSyncForRetry
ReleasedForRetry(r) ==
  [Unleased(r) EXCEPT !.claimed = r.processed, !.retried = TRUE,
                      !.waiting = TRUE, !.actionRequired = FALSE]

\* releaseIncrementalSyncAsActionRequired
ReleasedAsActionRequired(r) ==
  [Unleased(r) EXCEPT !.claimed = r.processed, !.retried = TRUE,
                      !.actionRequired = TRUE]

\* resetIncrementalSyncAttempt; the snapshot comparison is CanClear.
ResetAttempt(r) ==
  [Unleased(r) EXCEPT !.claimed = r.processed, !.retried = FALSE]

\* Mutant: the sweep compares only the flag, not the version it captured.
Bug_CanClearAny(r) == r.inProgress

\* The expected-snapshot form of the reset used by the stuck-row sweep.
CanClear(r) == r.inProgress /\ ~r.bumped

\* recordLockContentionIfIdle
CanRecordContention(r) == ~r.inProgress /\ r.token = NoToken

ContentionRecorded(r) ==
  [r EXCEPT !.retried = FALSE, !.waiting = FALSE, !.bumped = TRUE]

-----------------------------------------------------------------------------
(* The full resync *)

\* resetWalletForFullResync deletes history at most once per generation.
MustWipe(r, full) == full > r.prepared /\ full > r.procFull

Wiped(r, full) ==
  [r EXCEPT !.prepared = full, !.inProgress = TRUE, !.retried = FALSE,
            !.waiting = FALSE, !.bumped = TRUE]

\* completeFencedWalletFullResync, under the fence.
CanCompleteFull(r, full) ==
  /\ r.reqFull = full
  /\ r.prepared >= full
  /\ r.procFull < full

FullCompleted(r, full, gen) ==
  [Unleased(r) EXCEPT !.processed = gen, !.procFull = full,
                      !.retried = FALSE, !.actionRequired = FALSE]

-----------------------------------------------------------------------------
(* Recovery queries *)

\* findStrandedFullResyncWallets and isExactFullResyncPending
Stranded(r) == FullPending(r) /\ ~r.actionRequired

\* findActionableIncrementalSyncIntents
Actionable(r) ==
  /\ r.requested > r.processed
  /\ ~FullPending(r)
  /\ ~r.actionRequired
  /\ ~r.waiting
  /\ r.claimed = r.processed

\* Mutant: an expired claim is revisited only if nothing newer was requested.
Bug_ExpiredNewest(r) ==
  /\ r.expired
  /\ r.token # NoToken
  /\ r.claimed > r.processed
  /\ r.requested = r.claimed
  /\ ~FullPending(r)
  /\ ~r.actionRequired
  /\ ~r.waiting

\* findExpiredIncrementalSyncClaims
ExpiredClaim(r) ==
  /\ r.expired
  /\ r.token # NoToken
  /\ r.claimed > r.processed
  /\ r.requested >= r.claimed
  /\ ~FullPending(r)
  /\ ~r.actionRequired
  /\ ~r.waiting

\* deferredWakeup: the persisted request must not be announced now.
Deferred(r) == FullPending(r) \/ r.actionRequired \/ r.waiting

-----------------------------------------------------------------------------
\* The CHECK constraints of the table: generations are ordered, a lease is
\* present exactly while a claim is outstanding, no rebuild is prepared or
\* processed that was not requested; and the flag shown as "in progress"
\* agrees with the claim.
Coherent(r) ==
  /\ r.processed <= r.claimed /\ r.claimed <= r.requested
  /\ r.procFull <= r.reqFull /\ r.prepared <= r.reqFull
  /\ r.token # NoToken <=> r.claimed > r.processed
  /\ r.expired => r.token # NoToken
  /\ r.inProgress <=> r.claimed > r.processed
=============================================================================
