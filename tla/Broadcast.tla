------------------------------ MODULE Broadcast ------------------------------
(***************************************************************************)
(* Broadcasting a signed transaction: HTTP requests that reserve policy    *)
(* usage, claim the signing intent, submit to a node and record what it    *)
(* said; the maintenance job that settles attempts nobody finished; payjoin *)
(* pairs whose two intents spend the same coins; and the network, where a  *)
(* submission may arrive after its sender has given up on it.              *)
(*                                                                         *)
(* A statement or transaction of the database is one step, and so is one   *)
(* call to the node; anything may happen between two steps of an actor.    *)
(* A reconciler handles one listed row: the rows of one batch are handled  *)
(* by different reconcilers here, in any order.  A replay of a consumed    *)
(* intent writes nothing and is left out.                                  *)
(***************************************************************************)
EXTENDS SigningIntentRow, FiniteSets

CONSTANTS
  Requests,     \* concurrent HTTP broadcast requests
  Reconcilers,  \* rows in the hands of the maintenance job
  Intents,      \* signing intents of one wallet
  Originals,    \* intents present from the start
  Pairs,        \* <<original, proposal>> payjoin pairs
  External,     \* intents with an output that leaves the wallet
  Cpfp,         \* intents with source 'cpfp'
  Cost,         \* Cost[i][w]: what a broadcast of i takes from window w,
                \* 0 when no policy has it reserve there
  Limit,        \* Limit[w]: the enforced limit of window w
  LeaseOutlivesAttempt  \* whether attempts always end within BROADCAST_LEASE_MS

ASSUME BroadcastAssumption ==
  /\ Actors = Requests \cup Reconcilers
  /\ Requests \cap Reconcilers = {}
  /\ IsFiniteSet(Actors) /\ IsFiniteSet(Intents)
  /\ Originals \subseteq Intents
  /\ Pairs \subseteq Originals \X (Intents \ Originals)
  /\ \A p, q \in Pairs : p[2] = q[2] => p = q
  /\ External \subseteq Intents /\ Cpfp \subseteq Intents
  /\ Cost \in [Intents -> [Windows -> Nat]]
  /\ \A i \in Intents \ External, w \in Windows : Cost[i][w] = 0
  /\ Limit \in [Windows -> Nat]
  /\ LeaseOutlivesAttempt \in BOOLEAN

VARIABLES
  row,          \* the transaction_signing_intents table
  usage,        \* the policy_usage_windows table, as the guarded counter
  actor,        \* what every request and reconciler is doing
  wire,         \* submissions that may still reach the network
  out,          \* transactions the network has
  saved         \* intents whose transaction persistTransaction committed

vars == <<row, usage, actor, wire, out, saved>>

Steps == {"idle", "reserving", "claiming", "claimed", "looking", "failed",
          "sent", "persisting", "completing", "releasing"}

Idle == [pc |-> "idle"]

\* pc, the intent and raw transaction in hand, the claim's mode, the
\* reservations in hand, the state the claim came from, how the attempt
\* failed, and whether markBroadcastAccepted took effect.
Working == [pc : Steps \ {"idle"}, i : Intents, v : Variants,
            mode : {"fresh", "held", "reconcile"}, resv : SUBSET Windows,
            prior : {"none", "ready", "resumed", "stalled"},
            why : {"none", "definite", "answered", "unanswered"},
            ok : BOOLEAN]

Start(pc, i, v, mode, resv) ==
  [pc |-> pc, i |-> i, v |-> v, mode |-> mode, resv |-> resv,
   prior |-> "none", why |-> "none", ok |-> FALSE]

\* The one type invariant: the shape of the tables and of an actor's locals.
TypeOK ==
  /\ row \in [Intents -> Row]
  /\ usage \in [Windows -> Nat]
  /\ actor \in [Actors -> Working \cup {Idle}]
  /\ wire \in [Intents -> SUBSET Variants]
  /\ out \in [Intents -> SUBSET Variants]
  /\ saved \in SUBSET Intents

Init ==
  /\ row = [i \in Intents |->
              InitRow(IF i \in Originals THEN "current" ELSE "absent")]
  /\ usage = [w \in Windows |-> 0]
  /\ actor = [a \in Actors |-> Idle]
  /\ wire = [i \in Intents |-> {}]
  /\ out = [i \in Intents |-> {}]
  /\ saved = {}

At(a, pc) == actor[a].pc = pc
Goto(a, pc) == actor' = [actor EXCEPT ![a].pc = pc]
Finish(a) == actor' = [actor EXCEPT ![a] = Idle]
Fail(a, why) == actor' = [actor EXCEPT ![a].pc = "failed", ![a].why = why]
SetRow(i, r) == row' = [row EXCEPT ![i] = r]

\* The node serves the transaction id of v (assertTransactionKnownToNode).
KnownToNode(i, v) == \E u \in out[i] : SameTxid(u, v)

Holds(a) == OwnsClaim(row[actor[a].i], a)

-----------------------------------------------------------------------------
(* A request: policy usage *)

\* handleTransactionBroadcast up to reservePolicyUsage's read of the held
\* reservations.  The row was loaded before, so it may have moved on since.
Begin(a, i, v) ==
  /\ a \in Requests /\ At(a, "idle") /\ row[i].link # "absent"
  /\ actor' = [actor EXCEPT ![a] =
       IF i \in External /\ HoldsFor(row[i], v)
         THEN Start("claiming", i, v, "held", row[i].resv)
         ELSE Start("reserving", i, v, "fresh", {})]
  /\ UNCHANGED <<row, usage, wire, out, saved>>

Unreserved(a) == {w \in Windows \ actor[a].resv : Cost[actor[a].i][w] > 0}

\* Mutant: the reservation compares the total before the increment.
Bug_FitsBefore(i, w) == usage[w] < Limit[w]

\* The WHERE clause of reserveUsageWindow.
Fits(i, w) == usage[w] + Cost[i][w] <= Limit[w]

\* reserveUsageWindow took effect
Reserve(a, w) ==
  /\ At(a, "reserving") /\ w \in Unreserved(a)
  /\ Fits(actor[a].i, w)
  /\ usage' = [usage EXCEPT ![w] = @ + Cost[actor[a].i][w]]
  /\ actor' = [actor EXCEPT ![a].resv = @ \cup {w}]
  /\ UNCHANGED <<row, wire, out, saved>>

\* A window without headroom: reserveEnforcedUsage gives the others back.
ReserveLost(a, w) ==
  /\ At(a, "reserving") /\ w \in Unreserved(a)
  /\ ~Fits(actor[a].i, w)
  /\ Goto(a, "releasing")
  /\ UNCHANGED <<row, usage, wire, out, saved>>

\* A failed statement in the same loop.
ReserveFails(a) ==
  /\ At(a, "reserving") /\ Unreserved(a) # {}
  /\ Goto(a, "releasing")
  /\ UNCHANGED <<row, usage, wire, out, saved>>

Reserved(a) ==
  /\ At(a, "reserving") /\ Unreserved(a) = {}
  /\ Goto(a, "claiming")
  /\ UNCHANGED <<row, usage, wire, out, saved>>

\* releaseUsageWindow, floored at zero by its WHERE clause
Release(a, w) ==
  /\ At(a, "releasing") /\ w \in actor[a].resv
  /\ LET cost == Cost[actor[a].i][w]
     IN  usage' = [usage EXCEPT ![w] = IF @ >= cost THEN @ - cost ELSE @]
  /\ actor' = [actor EXCEPT ![a].resv = @ \ {w}]
  /\ UNCHANGED <<row, wire, out, saved>>

\* A release that throws is logged and skipped: the usage stays counted.
ReleaseFails(a, w) ==
  /\ At(a, "releasing") /\ w \in actor[a].resv
  /\ actor' = [actor EXCEPT ![a].resv = @ \ {w}]
  /\ UNCHANGED <<row, usage, wire, out, saved>>

Released(a) ==
  /\ At(a, "releasing") /\ actor[a].resv = {}
  /\ Finish(a)
  /\ UNCHANGED <<row, usage, wire, out, saved>>

-----------------------------------------------------------------------------
(* The claim, by a request or a reconciler *)

Claim(a) ==
  LET i == actor[a].i  v == actor[a].v
  IN  /\ At(a, "claiming")
      /\ CanClaim(row[i], v, actor[a].mode)
      /\ SetRow(i, Claimed(row[i], v, actor[a].resv, a))
      /\ actor' = [actor EXCEPT ![a].pc = "claimed",
                                ![a].prior = PriorState(row[i])]
      /\ UNCHANGED <<usage, wire, out, saved>>

\* releaseReservationsOnFailure after a failure without a claim: only fresh
\* reservations, those this request took, are released.
AfterRefusal(a) ==
  IF actor[a].mode = "fresh" THEN [actor[a] EXCEPT !.pc = "releasing"] ELSE Idle

\* busy, conflict, a hardware refusal: nothing was claimed.  The claim's
\* UPDATEs run one after the other, so a row that moves between them may be
\* refused although it could have been claimed before or after.
ClaimRefused(a) ==
  /\ At(a, "claiming")
  /\ actor' = [actor EXCEPT ![a] = AfterRefusal(a)]
  /\ UNCHANGED <<row, usage, wire, out, saved>>

\* The claim reports accepted or complete: success, with the usage counted.
AlreadyAccepted(a) ==
  LET i == actor[a].i
  IN  /\ At(a, "claiming") /\ Consumed(row[i]) /\ row[i].raw = actor[a].v
      /\ Finish(a)
      /\ UNCHANGED <<row, usage, wire, out, saved>>

-----------------------------------------------------------------------------
(* Before the network *)

\* assertPreNetworkChecks throws: the replacement link or the CPFP parent.
CheckFails(a) ==
  /\ a \in Requests /\ At(a, "claimed")
  /\ Fail(a, IF actor[a].prior = "ready" THEN "definite" ELSE "unanswered")
  /\ UNCHANGED <<row, usage, wire, out, saved>>

\* isRetriedCpfpChildKnown
ChildKnown(a) ==
  /\ a \in Requests /\ At(a, "claimed")
  /\ actor[a].i \in Cpfp /\ actor[a].prior # "ready"
  /\ KnownToNode(actor[a].i, actor[a].v)
  /\ Goto(a, "sent")
  /\ UNCHANGED <<row, usage, wire, out, saved>>

\* reconcileUncertain finds the transaction and marks it accepted.  A failed
\* write is taken for a missed lookup: the reconciler goes on to resubmit.
LookupHit(a) ==
  LET i == actor[a].i
  IN  /\ a \in Reconcilers /\ At(a, "claimed")
      /\ KnownToNode(i, actor[a].v)
      /\ IF Holds(a)
           THEN /\ SetRow(i, Accepted(row[i]))
                /\ actor' = [actor EXCEPT ![a].pc = "persisting", ![a].ok = TRUE]
           ELSE UNCHANGED row /\ Finish(a)
      /\ UNCHANGED <<usage, wire, out, saved>>

\* withholdConfirmedCpfpChild
Withhold(a) ==
  LET i == actor[a].i
  IN  /\ a \in Reconcilers /\ At(a, "claimed") /\ i \in Cpfp
      /\ SetRow(i, IF Holds(a) THEN Withheld(row[i]) ELSE row[i])
      /\ Finish(a)
      /\ UNCHANGED <<usage, wire, out, saved>>

-----------------------------------------------------------------------------
(* The node *)

\* broadcastAuthenticatedRawTransaction returns the expected txid.
NodeAccepts(a) ==
  /\ At(a, "claimed")
  /\ out' = [out EXCEPT ![actor[a].i] = @ \cup {actor[a].v}]
  /\ Goto(a, "sent")
  /\ UNCHANGED <<row, usage, wire, saved>>

\* The node took the transaction, but its answer is lost or unreadable.
ReplyLost(a) ==
  /\ At(a, "claimed")
  /\ out' = [out EXCEPT ![actor[a].i] = @ \cup {actor[a].v}]
  /\ Fail(a, "unanswered")
  /\ UNCHANGED <<row, usage, wire, saved>>

\* The call times out while the submission is still under way.
SubmissionDelayed(a) ==
  /\ At(a, "claimed")
  /\ wire' = [wire EXCEPT ![actor[a].i] = @ \cup {actor[a].v}]
  /\ Fail(a, "unanswered")
  /\ UNCHANGED <<row, usage, out, saved>>

\* How a submission that leaves nothing on the network is reported: a failed
\* preflight or a policy verdict is definite only for a first claim.
Refusals(a) ==
  {"answered", "unanswered"}
    \cup (IF a \in Requests /\ actor[a].prior = "ready" THEN {"definite"} ELSE {})

NodeRefuses(a) ==
  /\ At(a, "claimed")
  /\ \E why \in Refusals(a) : Fail(a, why)
  /\ UNCHANGED <<row, usage, wire, out, saved>>

WireArrives(i, v) ==
  /\ v \in wire[i]
  /\ wire' = [wire EXCEPT ![i] = @ \ {v}]
  /\ out' = [out EXCEPT ![i] = @ \cup {v}]
  /\ UNCHANGED <<row, usage, actor, saved>>

WireDrops(i, v) ==
  /\ v \in wire[i]
  /\ wire' = [wire EXCEPT ![i] = @ \ {v}]
  /\ UNCHANGED <<row, usage, actor, out, saved>>

-----------------------------------------------------------------------------
(* Recording the outcome *)

\* recordClaimFailure, recordPreNetworkCheckFailure, recordUncertainFailure
AfterFailure(a, r) ==
  CASE actor[a].prior = "stalled" -> ReleasedToUnknown(r)
    [] actor[a].why = "definite" -> Rejected(r)
    [] OTHER -> MarkedUnknown(r, actor[a].why = "answered")

\* The route releases the request's own reservations when the rollback to
\* ready took effect, and no others.
RecordFailure(a) ==
  LET i == actor[a].i
  IN  /\ At(a, "failed")
      /\ SetRow(i, IF Holds(a) THEN AfterFailure(a, row[i]) ELSE row[i])
      /\ IF Holds(a) /\ actor[a].why = "definite" /\ actor[a].mode = "fresh"
           THEN Goto(a, "releasing")
           ELSE Finish(a)
      /\ UNCHANGED <<usage, wire, out, saved>>

\* markBroadcastAccepted.  A request whose claim was taken over still saves
\* the transaction; a reconciler leaves that to the new holder.
MarkAccepted(a) ==
  LET i == actor[a].i
  IN  /\ At(a, "sent")
      /\ SetRow(i, IF Holds(a) THEN Accepted(row[i]) ELSE row[i])
      /\ IF Holds(a) \/ a \in Requests
           THEN actor' = [actor EXCEPT ![a].pc = "persisting", ![a].ok = Holds(a)]
           ELSE Finish(a)
      /\ UNCHANGED <<usage, wire, out, saved>>

\* recordAcceptedIntent catches a failed write; the attempt goes on.
MarkAcceptedFails(a) ==
  /\ a \in Requests /\ At(a, "sent")
  /\ Goto(a, "persisting")
  /\ UNCHANGED <<row, usage, wire, out, saved>>

\* Mutant: the intent is completed although the transaction was not saved.
Bug_PersistSkipped(a) ==
  /\ At(a, "persisting")
  /\ saved' \in {saved, saved \cup {actor[a].i}}
  /\ IF actor[a].ok THEN Goto(a, "completing") ELSE Finish(a)
  /\ UNCHANGED <<row, usage, wire, out>>

\* persistTransaction, one transaction
Persist(a) ==
  /\ At(a, "persisting")
  /\ saved' = saved \cup {actor[a].i}
  /\ IF actor[a].ok THEN Goto(a, "completing") ELSE Finish(a)
  /\ UNCHANGED <<row, usage, wire, out>>

Complete(a) ==
  LET i == actor[a].i
  IN  /\ At(a, "completing")
      /\ SetRow(i, IF CanComplete(row[i], actor[a].v)
                     THEN Completed(row[i]) ELSE row[i])
      /\ Finish(a)
      /\ UNCHANGED <<usage, wire, out, saved>>

-----------------------------------------------------------------------------
(* The maintenance job *)

\* reconcileSigningIntentBroadcasts lists the row; it acts on this snapshot.
List(a, i) ==
  /\ a \in Reconcilers /\ At(a, "idle") /\ ForReconciliation(row[i])
  /\ actor' = [actor EXCEPT ![a] =
       IF row[i].state = "accepted"
         THEN [Start("persisting", i, row[i].raw, "reconcile", {}) EXCEPT !.ok = TRUE]
         ELSE Start("claiming", i, row[i].raw, "reconcile", row[i].resv)]
  /\ UNCHANGED <<row, usage, wire, out, saved>>

\* listStalledBroadcastsForLookup
ListStalled(a, i) ==
  /\ a \in Reconcilers /\ At(a, "idle") /\ Stalled(row[i])
  /\ actor' = [actor EXCEPT ![a] = Start("looking", i, row[i].raw, "reconcile", {})]
  /\ UNCHANGED <<row, usage, wire, out, saved>>

\* lookupStalledIntent; markStalledBroadcastAccepted needs no lease.
StalledFound(a) ==
  LET i == actor[a].i
  IN  /\ At(a, "looking") /\ KnownToNode(i, actor[a].v)
      /\ IF Stalled(row[i]) /\ SameTxid(row[i].raw, actor[a].v)
           THEN /\ SetRow(i, Accepted(row[i]))
                /\ actor' = [actor EXCEPT ![a].pc = "persisting", ![a].ok = TRUE]
           ELSE UNCHANGED row /\ Finish(a)
      /\ UNCHANGED <<usage, wire, out, saved>>

StalledMissed(a) ==
  /\ At(a, "looking")
  /\ Finish(a)
  /\ UNCHANGED <<row, usage, wire, out, saved>>

-----------------------------------------------------------------------------
(* Time, failures and payjoin *)

\* a is between its claim of i and the write that records the outcome.
Attempting(a, i) ==
  /\ actor[a].pc \in {"claimed", "failed", "sent"}
  /\ actor[a].i = i

LeaseExpires(i) ==
  /\ row[i].state = "claimed" /\ ~row[i].expired
  /\ LeaseOutlivesAttempt => ~Attempting(row[i].owner, i)
  /\ SetRow(i, [row[i] EXCEPT !.expired = TRUE])
  /\ UNCHANGED <<usage, actor, wire, out, saved>>

\* The process dies, or a statement of the attempt fails and nothing records
\* it: the lease is left to expire and the usage stays counted.
Abandon(a) ==
  /\ ~At(a, "idle")
  /\ Finish(a)
  /\ UNCHANGED <<row, usage, wire, out, saved>>

\* persistSigningIntent of a payjoin proposal
Propose(o, p) ==
  /\ CanPropose(row[o], row[p])
  /\ row' = [row EXCEPT ![o].link = "superseded", ![p] = InitRow("current")]
  /\ UNCHANGED <<usage, actor, wire, out, saved>>

\* restorePayjoinOriginalIntent
Restore(o, p) ==
  /\ CanRestore(row[o], row[p])
  /\ row' = [row EXCEPT ![o].link = "current", ![p].link = "superseded"]
  /\ UNCHANGED <<usage, actor, wire, out, saved>>

-----------------------------------------------------------------------------
RequestSteps(a) ==
  \/ \E i \in Intents, v \in Variants : Begin(a, i, v)
  \/ \E w \in Windows : Reserve(a, w) \/ ReserveLost(a, w) \/ Release(a, w)
  \/ Reserved(a) \/ Released(a)
  \/ CheckFails(a) \/ ChildKnown(a)

ReconcilerSteps(a) ==
  \/ \E i \in Intents : List(a, i) \/ ListStalled(a, i)
  \/ LookupHit(a) \/ Withhold(a)
  \/ StalledFound(a) \/ StalledMissed(a)

AttemptSteps(a) ==
  \/ Claim(a) \/ ClaimRefused(a) \/ AlreadyAccepted(a)
  \/ NodeAccepts(a) \/ NodeRefuses(a)
  \/ RecordFailure(a) \/ MarkAccepted(a) \/ Persist(a) \/ Complete(a)

Faults(a) ==
  \/ ReplyLost(a) \/ SubmissionDelayed(a)
  \/ ReserveFails(a) \/ (\E w \in Windows : ReleaseFails(a, w))
  \/ MarkAcceptedFails(a) \/ Abandon(a)

Environment ==
  \/ \E i \in Intents : \/ LeaseExpires(i)
                        \/ \E v \in Variants : WireArrives(i, v) \/ WireDrops(i, v)
  \/ \E p \in Pairs : Propose(p[1], p[2]) \/ Restore(p[1], p[2])

Next ==
  \/ \E a \in Actors : \/ RequestSteps(a) \/ ReconcilerSteps(a)
                       \/ AttemptSteps(a) \/ Faults(a)
  \/ Environment

Spec == Init /\ [][Next]_vars

\* The job is scheduled for ever; its statements and its lookups of a known
\* transaction succeed now and then, however often they fail or its process
\* dies; a lease runs out.
Fairness ==
  /\ \A i \in Intents : WF_vars(LeaseExpires(i))
  /\ \A a \in Reconcilers :
       /\ \A i \in Intents : SF_vars(List(a, i)) /\ SF_vars(ListStalled(a, i))
       /\ WF_vars(AttemptSteps(a)) /\ WF_vars(StalledMissed(a))
       /\ SF_vars(Claim(a)) /\ SF_vars(LookupHit(a)) /\ SF_vars(StalledFound(a))
       /\ SF_vars(Persist(a)) /\ SF_vars(Complete(a))

FairSpec == Spec /\ Fairness

-----------------------------------------------------------------------------
\* The intent's transaction is, or may yet be, on the network.
Gone(i) == wire[i] \cup out[i] # {}

\* The row names the only bytes of the intent that can ever reach the network:
\* as long as a submission may arrive, the intent is neither open for a fresh
\* broadcast nor for another signature of the same transaction.
OneArtifact == \A i \in Intents : wire[i] \cup out[i] \subseteq {row[i].raw}

\* An intent is accepted only when the network has its transaction, and
\* complete only when the wallet's history has it too, which holds nothing
\* else.
SettledIsReal ==
  \A i \in Intents :
    /\ Consumed(row[i]) => row[i].raw \in out[i]
    /\ row[i].state = "complete" => i \in saved
    /\ i \in saved => out[i] # {}

\* A payjoin original and its proposal spend the same coins: at most one of
\* them is ever handed to the network.
NeverBoth == \A p \in Pairs : ~(Gone(p[1]) /\ Gone(p[2]))

\* What the intents in S take from window w together, unit by unit.
Units(S, w) == UNION {{i} \X (1..Cost[i][w]) : i \in S}

Spent(w) == Cardinality(Units({i \in Intents : Gone(i)}, w))

\* A usage window counts every transaction that may be on the network.
SpendsCounted == \A w \in Windows : usage[w] >= Spent(w)

\* What is on the network stays within the enforced limits.
LimitRespected == \A w \in Windows : Spent(w) <= Limit[w]

\* Once requests stop coming, a transaction the network has is settled and
\* saved in the wallet's history, whatever failed on the way.
OutSettles ==
  <>[](\A a \in Requests : At(a, "idle")) =>
    \A i \in Intents : out[i] # {} ~> row[i].state = "complete" /\ i \in saved
=============================================================================
