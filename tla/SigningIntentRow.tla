-------------------------- MODULE SigningIntentRow --------------------------
(***************************************************************************)
(* The broadcast columns of one row of "transaction_signing_intents" and   *)
(* the statements of transactionSigningIntentRepository.ts that change     *)
(* them.  Every statement is a conditional UPDATE: its WHERE clause is a   *)
(* predicate on the row, its SET clause a function of the row.             *)
(*                                                                         *)
(* `expired` is broadcastLeaseExpiresAt <= now.  A lease token is the      *)
(* actor that made the claim: an actor holds one claim at a time.          *)
(* consumedAt is set together with the state "accepted" and never cleared. *)
(***************************************************************************)
EXTENDS Integers

CONSTANTS
  Actors,       \* requests and reconcilers, as lease holders
  Nobody,       \* the NULL lease token
  Variants,     \* signed raw transactions of an intent
  NoRaw,        \* the NULL raw transaction
  Segwit,       \* whether the variants of an intent share one txid
  Windows,      \* policy usage windows
  MaxReconcile  \* MAX_RECONCILE_ATTEMPTS

ASSUME IntentRowAssumption ==
  /\ Nobody \notin Actors
  /\ NoRaw \notin Variants
  /\ Segwit \in BOOLEAN
  /\ MaxReconcile \in Nat \ {0}

\* The attempt count is only compared with MaxReconcile, and every give-back
\* follows the increment of its own claim: counts above the cap are merged.
CountCap == MaxReconcile + 1

States == {"ready", "claimed", "unknown", "accepted", "complete"}

Row == [state : States, raw : Variants \cup {NoRaw}, resv : SUBSET Windows,
        owner : Actors \cup {Nobody}, expired : BOOLEAN,
        count : 0..CountCap, link : {"absent", "current", "superseded"}]

\* link abstracts supersededById; "absent" is a row not yet inserted.
InitRow(link) ==
  [state |-> "ready", raw |-> NoRaw, resv |-> {}, owner |-> Nobody,
   expired |-> FALSE, count |-> 0, link |-> link]

Consumed(r) == r.state \in {"accepted", "complete"}

\* Derived, not stored: an unknown outcome at the attempt cap.
Stalled(r) == r.state = "unknown" /\ r.count >= MaxReconcile

SameTxid(v, u) == v # NoRaw /\ u # NoRaw /\ (Segwit \/ v = u)

-----------------------------------------------------------------------------
(* The claim.  mode is "fresh" for a request that reserved policy usage,   *)
(* "held" for one that reuses the reservations of an earlier attempt       *)
(* (resumeOnly) and "reconcile" for the maintenance job.                   *)

\* An attempt that ended without a verdict, or whose lease ran out.
Resumable(r) ==
  \/ r.state = "claimed" /\ r.expired
  \/ r.state = "unknown"

\* claimStateConditions, with guardHeldReservations for a fresh claim.
CanClaim(r, v, mode) ==
  /\ r.link = "current"
  /\ \/ r.state = "ready" /\ mode # "held"
     \/ /\ Resumable(r) /\ r.raw = v
        /\ mode = "fresh" => r.resv = {}
        /\ mode = "reconcile" => ~Stalled(r)

\* The step of the claim that matched.
PriorState(r) ==
  CASE r.state = "ready" -> "ready"
    [] Stalled(r) -> "stalled"
    [] OTHER -> "resumed"

Claimed(r, v, resv, a) ==
  [r EXCEPT !.state = "claimed", !.raw = v, !.resv = resv, !.owner = a,
            !.expired = FALSE,
            !.count = IF @ < CountCap THEN @ + 1 ELSE @]

-----------------------------------------------------------------------------
(* What a claim's holder may do with it *)

\* Mutant: a transition of a claim does not compare the lease token.
Bug_OwnsAnyClaim(r, a) == r.state = "claimed"

\* The WHERE clause of transitionClaim: not the lease's expiry.
OwnsClaim(r, a) == r.state = "claimed" /\ r.owner = a

\* releaseToUnknown, which markBroadcastStalled applies as it is
ReleasedToUnknown(r) ==
  [r EXCEPT !.state = "unknown", !.owner = Nobody, !.expired = FALSE]

\* markBroadcastUnknown
MarkedUnknown(r, counted) ==
  [ReleasedToUnknown(r) EXCEPT !.count = IF counted THEN @ ELSE @ - 1]

\* markBroadcastWithheld
Withheld(r) == [ReleasedToUnknown(r) EXCEPT !.count = MaxReconcile]

\* releaseRejectedBroadcast
Rejected(r) ==
  [r EXCEPT !.state = "ready", !.raw = NoRaw, !.resv = {}, !.owner = Nobody,
            !.expired = FALSE]

\* markBroadcastAccepted and markStalledBroadcastAccepted
Accepted(r) ==
  [r EXCEPT !.state = "accepted", !.owner = Nobody, !.expired = FALSE]

\* markBroadcastComplete
CanComplete(r, v) == SameTxid(r.raw, v) /\ r.state = "accepted"

Completed(r) == [r EXCEPT !.state = "complete"]

-----------------------------------------------------------------------------
(* What recovery looks for *)

\* Mutant: an attempt whose holder died is left to its own retry.
Bug_ForReconciliationReleased(r) ==
  /\ r.raw # NoRaw
  /\ \/ r.state = "accepted"
     \/ r.state = "unknown" /\ ~Stalled(r)

\* listBroadcastsForReconciliation
ForReconciliation(r) ==
  /\ r.raw # NoRaw
  /\ \/ r.state = "accepted"
     \/ r.state = "unknown" /\ ~Stalled(r)
     \/ r.state = "claimed" /\ r.expired

\* findHeldPolicyReservations: a reusable earlier attempt at this txid
HoldsFor(r, v) == SameTxid(r.raw, v) /\ Resumable(r)

-----------------------------------------------------------------------------
(* Payjoin pairs *)

\* `create` with supersedesIntentId
CanPropose(original, proposal) ==
  /\ original.link = "current" /\ original.state = "ready"
  /\ proposal.link = "absent"

\* Mutant: a proposal whose broadcast was started may be parked.
Bug_CanRestoreStarted(original, proposal) ==
  /\ original.link = "superseded"
  /\ proposal.link = "current" /\ ~Consumed(proposal)

\* restorePayjoinOriginal
CanRestore(original, proposal) ==
  /\ original.link = "superseded" /\ ~Consumed(original)
  /\ proposal.link = "current"
  /\ proposal.state = "ready" /\ proposal.raw = NoRaw
=============================================================================
