------------------------------ MODULE Approvals ------------------------------
(***************************************************************************)
(* Approval of one draft transaction: the requests its vault policies put  *)
(* on it, the votes, the owner override, the expiry sweep, policy deletion *)
(* and the broadcast gate (services/vaultPolicy/approvalService.ts with    *)
(* the repositories it calls).                                             *)
(*                                                                         *)
(* Every database statement is one step, and any number of service calls   *)
(* (Calls) interleave between statements: a call acts on what it read      *)
(* earlier.  The hourly expiry job has a slot of its own, Sweep.  A policy *)
(* puts at most one request on the draft, so requests are named by policy. *)
(***************************************************************************)
EXTENDS Naturals, FiniteSets

CONSTANTS
  Policies,     \* the approval_required policies that can trigger on the draft
  Kind,         \* [Policies -> {"any_n", "all", "specific"}]: config.quorumType
  SelfAllowed,  \* the policies whose config has allowSelfApproval
  Expiring,     \* the policies whose config has expirationHours > 0
  Deletable,    \* the policies deletePolicy removes during a run
  GroupOwned,   \* the policies that may go when their group is deleted
  Users,        \* people who may be wallet approvers
  Creator,      \* the user who created the draft
  Calls,        \* slots for concurrent service calls
  Sweep,        \* the slot of the expiry job
  MaxNeeded,    \* bound: largest requiredApprovals of a policy
  MaxEdits,     \* bound: policy edits and membership changes
  MaxCrashes    \* bound: calls cut short

ASSUME ApprovalsAssumption ==
  /\ Kind \in [Policies -> {"any_n", "all", "specific"}]
  /\ SelfAllowed \subseteq Policies
  /\ Expiring \subseteq Policies
  /\ Deletable \subseteq Policies /\ GroupOwned \subseteq Policies
  /\ IsFiniteSet(Users) /\ Creator \in Users
  /\ Sweep \notin Calls
  /\ MaxNeeded \in Nat /\ MaxEdits \in Nat /\ MaxCrashes \in Nat

VARIABLES
  draft,      \* the draft_transactions row, whether it took UTXO locks and whether
              \* it holds them
  triggers,   \* the policies evaluated as triggered by the draft
  policy,     \* the vault_policies rows
  request,    \* the approval_requests rows with their votes, by policy
  approvers,  \* walletSharingRepository.findEffectiveApproverIds
  op,         \* the call running in each slot
  edits, crashes

vars == <<draft, triggers, policy, request, approvers, op, edits, crashes>>

Slots == Calls \cup {Sweep}

\* RESOLVED_APPROVAL_STATUSES, and the statuses assertDraftAllowsBroadcast accepts
Refusals == {"rejected", "vetoed", "expired"}
Cleared == {"approved", "not_required"}
Decisions == {"approve", "reject", "veto"}

Idle == [pc |-> "idle"]
NoVotes == [u \in Users |-> "none"]
NoRequest == [status |-> "none", required |-> 0, overdue |-> FALSE, votes |-> NoVotes,
              overridden |-> FALSE]

Present == draft.state \in {"actionable", "broadcasted"}
Has(p) == request[p].status # "none"

\* where a derive is (updateDraftApprovalFromRequests)
DerivePc == {"derive", "readDraft", "write", "release"}

(* The decision each user recorded, restricted to one kind. *)
Voted(votes, d) == {u \in Users : votes[u] = d}

(* getEligibleApproverIds: live membership without the requester. *)
EligibleApprovers(p) ==
  IF p \in SelfAllowed THEN approvers ELSE approvers \ {Creator}

(* checkAnyNQuorumMet, checkAllQuorumMet and checkSpecificQuorumMet of a policy
   row, the snapshot of requiredApprovals, the eligible approvers and the
   approve votes. *)
Quorum(p, row, required, eligible, approve) ==
  LET listed == IF row.live THEN row.listed ELSE {}
      needed == IF row.live /\ row.needed >= 1 THEN row.needed ELSE required
      floor == IF needed < Cardinality(listed) THEN needed ELSE Cardinality(listed)
  IN CASE Kind[p] = "any_n" -> required >= 1 /\ Cardinality(approve \cap eligible) >= required
       [] Kind[p] = "all" -> eligible # {} /\ eligible \subseteq approve
       [] Kind[p] = "specific" -> /\ listed # {} /\ needed >= 1
                                  /\ Cardinality(approve \cap listed \cap eligible) >= floor

(* The quorum on the approve votes the caller read; the live policy and
   membership are read now. *)
QuorumMet(p, approve) ==
  Quorum(p, policy[p], request[p].required, EligibleApprovers(p), approve)

\* Mutation: one approved request is enough
Bug_DerivedAnyApproved(statuses) ==
  CASE "approved" \in statuses -> "approved"
    [] "approved" \notin statuses /\ "rejected" \in statuses -> "rejected"
    [] statuses \cap {"approved", "rejected"} = {} /\ "vetoed" \in statuses -> "vetoed"
    [] statuses \cap {"approved", "rejected", "vetoed"} = {} /\ "expired" \in statuses -> "expired"
    [] OTHER -> "pending"

(* What updateDraftApprovalFromRequests writes for the requests it read: the
   first refusal in priority order, approved when all are, nothing otherwise. *)
DerivedStatus(statuses) ==
  CASE "rejected" \in statuses -> "rejected"
    [] "rejected" \notin statuses /\ "vetoed" \in statuses -> "vetoed"
    [] statuses \cap {"rejected", "vetoed"} = {} /\ "expired" \in statuses -> "expired"
    [] statuses = {"approved"} -> "approved"
    [] OTHER -> "pending"

RequestStatuses == {request[p].status : p \in {q \in Policies : Has(q)}}

-----------------------------------------------------------------------------
(* The draft: created with its locks, if it takes any, and its requests in *)
(* one transaction.                                                        *)

\* lockSelectedUtxos: nothing is locked for a replacement (isRBF), nor for a
\* draft that selects no UTXO the wallet has.  taken records which it was.
LockSelectedUtxos(d, taken) == [d EXCEPT !.taken = taken, !.locked = taken]

\* createDraft, createApprovalRequestsForDraft: a triggering policy deleted
\* since the evaluation is skipped, and with none left nothing is required.
CreateDraft(T, taken) ==
  LET Required(p) == IF Kind[p] = "all" THEN Cardinality(EligibleApprovers(p))
                     ELSE policy[p].needed
      live == {p \in T : policy[p].live}
  IN /\ draft.state = "none"
     /\ draft' = [LockSelectedUtxos(draft, taken) EXCEPT
                     !.state = "actionable",
                     !.approval = IF live = {} THEN "not_required" ELSE "pending"]
     /\ triggers' = T
     /\ request' = [p \in Policies |->
                      IF p \in live
                      THEN [NoRequest EXCEPT !.status = "pending", !.required = Required(p)]
                      ELSE request[p]]
     /\ UNCHANGED <<policy, approvers, op, edits, crashes>>

\* Rows that reference the draft go with it: requests, votes and locks.
GoneDraft == [draft EXCEPT !.state = "deleted", !.locked = FALSE]
NoRequests == [p \in Policies |-> NoRequest]

\* deleteDraft (creator or owner), deleteExpiredDrafts (hourly) and the sync's
\* deleteManyByIds for a spent input: each deletes only an actionable draft.
DeleteDraft ==
  /\ draft.state = "actionable"
  /\ draft' = GoneDraft
  /\ request' = NoRequests
  /\ UNCHANGED <<triggers, policy, approvers, op, edits, crashes>>

\* Mutation: a draft that waits for approval is not cleaned up
Bug_DeleteExpiredNotPending == draft.overdue /\ draft.approval # "pending" /\ DeleteDraft

DeleteExpiredDraft == draft.overdue /\ DeleteDraft

-----------------------------------------------------------------------------
(* castVote, one statement at a time.                                      *)

Start(s, o) == op[s] = Idle /\ op' = [op EXCEPT ![s] = o]
Go(s, o) == op' = [op EXCEPT ![s] = o]
Done(s) == Go(s, Idle)
At(s, pc) == op[s].pc = pc

\* the route needs approve access; getPendingApprovalRequest: an overdue request is expired and the vote refused
GetPendingApprovalRequest(s, p, u, d) ==
  /\ s \in Calls
  /\ u \in approvers
  /\ request[p].status = "pending"
  /\ Start(s, IF request[p].overdue
              THEN [pc |-> "expire", todo |-> {p}, won |-> FALSE]
              ELSE [pc |-> "eligible", req |-> p, user |-> u, decision |-> d])
  /\ UNCHANGED <<draft, triggers, policy, request, approvers, edits, crashes>>

\* ensureUserHasNotVoted and ensureEligibleToVote (the live list for specific)
EnsureEligibleToVote(s) ==
  LET p == op[s].req
      u == op[s].user
      listed == IF policy[p].live THEN policy[p].listed ELSE {}
  IN /\ At(s, "eligible")
     /\ IF request[p].votes[u] = "none" /\ (Kind[p] = "specific" => u \in listed)
        THEN Go(s, [pc |-> "draft", req |-> p, user |-> u, decision |-> op[s].decision])
        ELSE Done(s)
     /\ UNCHANGED <<draft, triggers, policy, request, approvers, edits, crashes>>

\* getDraftForAllowedVote: not on a refused draft, nor on one's own
GetDraftForAllowedVote(s) ==
  LET p == op[s].req
      self == op[s].user = Creator /\ p \notin SelfAllowed
  IN /\ At(s, "draft")
     /\ IF Present /\ (draft.approval \in Refusals \/ self)
        THEN Done(s)
        ELSE Go(s, [pc |-> "vote", req |-> p, user |-> op[s].user, decision |-> op[s].decision])
     /\ UNCHANGED <<draft, triggers, policy, request, approvers, edits, crashes>>

\* createApprovalVote: one vote per request and user (unique), on an existing row
CreateApprovalVote(s) ==
  LET p == op[s].req
      u == op[s].user
      ok == Has(p) /\ request[p].votes[u] = "none"
  IN /\ At(s, "vote")
     /\ request' = IF ok THEN [request EXCEPT ![p].votes[u] = op[s].decision] ELSE request
     /\ IF ok THEN Go(s, [pc |-> "reread", req |-> p]) ELSE Done(s)
     /\ UNCHANGED <<draft, triggers, policy, approvers, edits, crashes>>

\* Mutation: a veto is left to the quorum check
Bug_AfterVoteNoVeto(s) ==
  LET p == op[s].req
      votes == request[p].votes
  IN /\ At(s, "reread")
     /\ CASE ~Has(p) -> Done(s)
          [] Has(p) /\ Voted(votes, "reject") # {} ->
               Go(s, [pc |-> "resolve", req |-> p, status |-> "rejected"])
          [] OTHER -> Go(s, [pc |-> "quorum", req |-> p, approve |-> Voted(votes, "approve")])
     /\ UNCHANGED <<draft, triggers, policy, request, approvers, edits, crashes>>

\* getApprovalRequestAfterVote and the first half of checkAndResolveRequest:
\* any rejection rejects, else any veto vetoes, else the quorum is checked
GetApprovalRequestAfterVote(s) ==
  LET p == op[s].req
      votes == request[p].votes
  IN /\ At(s, "reread")
     /\ CASE ~Has(p) -> Done(s)
          [] Has(p) /\ Voted(votes, "reject") # {} ->
               Go(s, [pc |-> "resolve", req |-> p, status |-> "rejected"])
          [] Has(p) /\ Voted(votes, "reject") = {} /\ Voted(votes, "veto") # {} ->
               Go(s, [pc |-> "resolve", req |-> p, status |-> "vetoed"])
          [] OTHER -> Go(s, [pc |-> "quorum", req |-> p, approve |-> Voted(votes, "approve")])
     /\ UNCHANGED <<draft, triggers, policy, request, approvers, edits, crashes>>

\* Mutation: one approve vote settles the request
Bug_CheckQuorumAnyVote(s) ==
  /\ At(s, "quorum")
  /\ Go(s, [pc |-> "resolve", req |-> op[s].req, status |-> "approved"])
  /\ UNCHANGED <<draft, triggers, policy, request, approvers, edits, crashes>>

\* the quorum check of checkAndResolveRequest on the votes read above
CheckQuorum(s) ==
  LET p == op[s].req
  IN /\ At(s, "quorum")
     /\ IF QuorumMet(p, op[s].approve)
        THEN Go(s, [pc |-> "resolve", req |-> p, status |-> "approved"])
        ELSE Done(s)
     /\ UNCHANGED <<draft, triggers, policy, request, approvers, edits, crashes>>

\* Mutation: the status is written by id whatever it is by now
Bug_ResolveUnconditionally(s) ==
  LET p == op[s].req
  IN /\ At(s, "resolve")
     /\ request' = IF Has(p) THEN [request EXCEPT ![p].status = op[s].status] ELSE request
     /\ Go(s, [pc |-> "derive"])
     /\ UNCHANGED <<draft, triggers, policy, approvers, edits, crashes>>

\* resolveRequest: the status moves only from pending, and only the call that
\* moved it derives the draft's status
ResolveRequest(s) ==
  LET p == op[s].req
      won == request[p].status = "pending"
  IN /\ At(s, "resolve")
     /\ request' = IF won THEN [request EXCEPT ![p].status = op[s].status] ELSE request
     /\ IF won THEN Go(s, [pc |-> "derive"]) ELSE Done(s)
     /\ UNCHANGED <<draft, triggers, policy, approvers, edits, crashes>>

-----------------------------------------------------------------------------
(* ownerOverride.                                                          *)

\* the first check: the draft must not hold a refusal
BeginOverride(s) ==
  /\ s \in Calls
  /\ Present /\ draft.approval \notin Refusals
  /\ Start(s, [pc |-> "overrideRead"])
  /\ UNCHANGED <<draft, triggers, policy, request, approvers, edits, crashes>>

\* the pending requests; any overdue one turns the call into an expiry
ReadForOverride(s) ==
  LET pending == {p \in Policies : request[p].status = "pending"}
      overdue == {p \in pending : request[p].overdue}
  IN /\ At(s, "overrideRead")
     /\ CASE pending = {} -> Done(s)
          [] overdue # {} -> Go(s, [pc |-> "expire", todo |-> overdue, won |-> FALSE])
          [] OTHER -> Go(s, [pc |-> "override", todo |-> pending, won |-> FALSE])
     /\ UNCHANGED <<draft, triggers, policy, request, approvers, edits, crashes>>

\* The loops of ownerOverride and expireRequests: each request in turn, only
\* while it is pending; with none won an override refuses and an expiry ends.
ResolveNext(s, pc, status, p) ==
  LET won == request[p].status = "pending"
  IN /\ At(s, pc)
     /\ p \in op[s].todo
     /\ request' = IF won THEN [request EXCEPT ![p].status = status,
                                               ![p].overridden = (pc = "override")]
                   ELSE request
     /\ Go(s, [pc |-> pc, todo |-> op[s].todo \ {p}, won |-> op[s].won \/ won])
     /\ UNCHANGED <<draft, triggers, policy, approvers, edits, crashes>>

OverrideNext(s, p) == ResolveNext(s, "override", "approved", p)
ExpireNext(s, p) == ResolveNext(s, "expire", "expired", p)

\* The sweep, having derived the draft or not, goes on to the stranded drafts.
AfterExpiry(s) == IF s = Sweep THEN [pc |-> "stranded"] ELSE Idle

LoopDone(s) ==
  /\ op[s].pc \in {"override", "expire"}
  /\ op[s].todo = {}
  /\ Go(s, IF op[s].won THEN [pc |-> "derive"]
           ELSE IF op[s].pc = "override" THEN Idle ELSE AfterExpiry(s))
  /\ UNCHANGED <<draft, triggers, policy, request, approvers, edits, crashes>>

-----------------------------------------------------------------------------
(* updateDraftApprovalFromRequests: a read, then unconditional writes.     *)

DeriveRead(s) ==
  /\ At(s, "derive")
  /\ LET status == DerivedStatus(RequestStatuses)
     IN CASE RequestStatuses = {} -> Go(s, [pc |-> "readDraft"])
          [] RequestStatuses # {} /\ status = "pending" -> Done(s)
          [] OTHER -> Go(s, [pc |-> "write", status |-> status])
  /\ UNCHANGED <<draft, triggers, policy, request, approvers, edits, crashes>>

\* with no request left, a draft still pending needs no approval
ReadDraft(s) ==
  /\ At(s, "readDraft")
  /\ IF Present /\ draft.approval = "pending"
     THEN Go(s, [pc |-> "write", status |-> "not_required"])
     ELSE Done(s)
  /\ UNCHANGED <<draft, triggers, policy, request, approvers, edits, crashes>>

\* Mutation: every status written releases the locks
Bug_WriteReleasing(s) ==
  /\ At(s, "write")
  /\ draft' = IF Present THEN [draft EXCEPT !.approval = op[s].status] ELSE draft
  /\ Go(s, IF Present THEN [pc |-> "release"] ELSE Idle)
  /\ UNCHANGED <<triggers, policy, request, approvers, edits, crashes>>

\* updateApprovalStatus by id; it throws when the row is gone
WriteApprovalStatus(s) ==
  /\ At(s, "write")
  /\ draft' = IF Present THEN [draft EXCEPT !.approval = op[s].status] ELSE draft
  /\ IF Present /\ op[s].status \in Refusals THEN Go(s, [pc |-> "release"]) ELSE Done(s)
  /\ UNCHANGED <<triggers, policy, request, approvers, edits, crashes>>

\* draftLockRepository.deleteByDraftId
ReleaseLocks(s) ==
  /\ At(s, "release")
  /\ draft' = [draft EXCEPT !.locked = FALSE]
  /\ Done(s)
  /\ UNCHANGED <<triggers, policy, request, approvers, edits, crashes>>

-----------------------------------------------------------------------------
(* The hourly sweep, expireOverdueApprovals.                               *)

BeginSweep ==
  LET overdue == {p \in Policies : request[p].status = "pending" /\ request[p].overdue}
  IN /\ Start(Sweep, IF overdue = {} THEN [pc |-> "stranded"]
                     ELSE [pc |-> "expire", todo |-> overdue, won |-> FALSE])
     /\ UNCHANGED <<draft, triggers, policy, request, approvers, edits, crashes>>

\* Mutation: drafts without any request are not looked for
Bug_FindStrandedExpired ==
  /\ At(Sweep, "stranded")
  /\ Go(Sweep, IF Present /\ draft.approval = "pending"
                  /\ \E p \in Policies : request[p].status = "expired" THEN [pc |-> "derive"] ELSE Idle)
  /\ UNCHANGED <<draft, triggers, policy, request, approvers, edits, crashes>>

\* pending with an expired request, or actionable and pending with no request
FindStranded ==
  LET expired == draft.approval = "pending" /\ \E p \in Policies : request[p].status = "expired"
      bare == draft.state = "actionable" /\ draft.approval = "pending"
              /\ \A p \in Policies : ~Has(p)
  IN /\ At(Sweep, "stranded")
     /\ Go(Sweep, IF Present /\ (expired \/ bare) THEN [pc |-> "derive"] ELSE Idle)
     /\ UNCHANGED <<draft, triggers, policy, request, approvers, edits, crashes>>

-----------------------------------------------------------------------------
(* Policy deletion (deletePolicy) and the cascade of a group delete.       *)

Deleted(p) ==
  /\ policy[p].live
  /\ policy' = [policy EXCEPT ![p].live = FALSE]
  /\ request' = [request EXCEPT ![p] = NoRequest]

\* deletePolicy reads the pending drafts it will have to re-derive...
BeginDeletePolicy(s, p) ==
  /\ s \in Calls
  /\ p \in Deletable /\ policy[p].live
  /\ Start(s, [pc |-> IF Present /\ draft.approval = "pending" /\ Has(p)
                     THEN "removeAffecting" ELSE "remove",
               req |-> p])
  /\ UNCHANGED <<draft, triggers, policy, request, approvers, edits, crashes>>

\* ...then deletes the policy, and its requests with it
RemovePolicy(s) ==
  /\ op[s].pc \in {"remove", "removeAffecting"}
  /\ IF policy[op[s].req].live
     THEN Deleted(op[s].req) /\ Go(s, IF At(s, "removeAffecting") THEN [pc |-> "derive"] ELSE Idle)
     ELSE Done(s) /\ UNCHANGED <<policy, request>>
  /\ UNCHANGED <<draft, triggers, approvers, edits, crashes>>

\* a group's policies go with the group and no draft is re-derived
CascadeDelete(p) ==
  /\ p \in GroupOwned
  /\ Deleted(p)
  /\ UNCHANGED <<draft, triggers, approvers, op, edits, crashes>>

-----------------------------------------------------------------------------
(* rejectAgentFundingDraft on a draft without requests.                    *)

BeginReject(s) ==
  /\ s \in Calls
  /\ draft.state = "actionable" /\ draft.approval = "not_required"
  /\ \A p \in Policies : ~Has(p)
  /\ Start(s, [pc |-> "write", status |-> "rejected"])
  /\ UNCHANGED <<draft, triggers, policy, request, approvers, edits, crashes>>

-----------------------------------------------------------------------------
(* Broadcasting the draft.                                                 *)

\* assertDraftAllowsBroadcast, assertApprovalSatisfied: a live triggering
\* policy needs an approved draft, not merely one that required nothing
BroadcastGate(s) ==
  /\ s \in Calls
  /\ draft.state = "actionable"
  /\ draft.approval \in Cleared
  /\ (\E p \in triggers : policy[p].live) => draft.approval = "approved"
  /\ Start(s, [pc |-> "archive"])
  /\ UNCHANGED <<draft, triggers, policy, request, approvers, edits, crashes>>

\* persistTransaction: the draft is archived and its locks released together
ArchiveDraft(s) ==
  /\ At(s, "archive")
  /\ draft' = IF Present THEN [draft EXCEPT !.state = "broadcasted", !.locked = FALSE] ELSE draft
  /\ Done(s)
  /\ UNCHANGED <<triggers, policy, request, approvers, edits, crashes>>

-----------------------------------------------------------------------------
(* The environment: clocks, membership, policy edits, crashes.             *)

RequestOverdue(p) ==
  /\ p \in Expiring /\ Has(p) /\ ~request[p].overdue
  /\ request' = [request EXCEPT ![p].overdue = TRUE]
  /\ UNCHANGED <<draft, triggers, policy, approvers, op, edits, crashes>>

DraftOverdue ==
  /\ draft.state = "actionable" /\ ~draft.overdue
  /\ draft' = [draft EXCEPT !.overdue = TRUE]
  /\ UNCHANGED <<triggers, policy, request, approvers, op, edits, crashes>>

Edited == edits < MaxEdits /\ edits' = edits + 1

MembershipChange(u) ==
  /\ Edited
  /\ approvers' = IF u \in approvers THEN approvers \ {u} ELSE approvers \cup {u}
  /\ UNCHANGED <<draft, triggers, policy, request, op, crashes>>

\* validateApprovalRequiredConfig keeps requiredApprovals within the list
EditPolicy(p, listed, needed) ==
  /\ Edited
  /\ policy[p].live
  /\ needed \in 1..MaxNeeded
  /\ Kind[p] = "specific" => needed <= Cardinality(listed)
  /\ policy' = [policy EXCEPT ![p].listed = listed, ![p].needed = needed]
  /\ UNCHANGED <<draft, triggers, request, approvers, op, crashes>>

\* a failed statement, an aborted job or a process that died
Abandon(s) ==
  /\ op[s] # Idle
  /\ crashes < MaxCrashes
  /\ crashes' = crashes + 1
  /\ Done(s)
  /\ UNCHANGED <<draft, triggers, policy, request, approvers, edits>>

-----------------------------------------------------------------------------
Init ==
  /\ draft = [state |-> "none", approval |-> "not_required", taken |-> FALSE, locked |-> FALSE,
              overdue |-> FALSE]
  /\ triggers = {}
  /\ policy \in [Policies -> {[live |-> TRUE, listed |-> l, needed |-> n] :
                                l \in SUBSET Users, n \in 1..MaxNeeded}]
  /\ \A p \in Policies : IF Kind[p] = "specific" THEN policy[p].needed <= Cardinality(policy[p].listed)
                         ELSE policy[p].listed = {}
  /\ request = NoRequests
  /\ approvers = Users
  /\ op = [s \in Slots |-> Idle]
  /\ edits = 0 /\ crashes = 0

Step(s) ==
  \/ EnsureEligibleToVote(s)
  \/ GetDraftForAllowedVote(s)
  \/ CreateApprovalVote(s)
  \/ GetApprovalRequestAfterVote(s)
  \/ CheckQuorum(s)
  \/ ResolveRequest(s)
  \/ ReadForOverride(s)
  \/ \E p \in Policies : OverrideNext(s, p) \/ ExpireNext(s, p)
  \/ LoopDone(s)
  \/ DeriveRead(s)
  \/ ReadDraft(s)
  \/ WriteApprovalStatus(s)
  \/ ReleaseLocks(s)
  \/ RemovePolicy(s)
  \/ ArchiveDraft(s)

Next ==
  \/ \E T \in SUBSET Policies, taken \in BOOLEAN : CreateDraft(T, taken)
  \/ \E s \in Slots, p \in Policies, u \in Users, d \in Decisions :
       GetPendingApprovalRequest(s, p, u, d)
  \/ \E s \in Slots : \/ Step(s) \/ Abandon(s)
                      \/ BeginOverride(s) \/ BeginReject(s) \/ BroadcastGate(s)
                      \/ \E p \in Policies : BeginDeletePolicy(s, p)
  \/ BeginSweep \/ FindStranded
  \/ DeleteDraft \/ DeleteExpiredDraft \/ DraftOverdue
  \/ \E p \in Policies : \/ CascadeDelete(p) \/ RequestOverdue(p)
                         \/ \E l \in SUBSET Users, n \in 1..MaxNeeded : EditPolicy(p, l, n)
  \/ \E u \in Users : MembershipChange(u)

Spec == Init /\ [][Next]_vars

\* A call runs on unless it is cut short, and the sweep runs every hour...
SweepFairness ==
  /\ \A s \in Slots : WF_vars(Step(s))
  /\ WF_vars(BeginSweep) /\ WF_vars(FindStranded)

\* ...as does the deletion of drafts past their own expiry, which comes.
CleanupFairness == WF_vars(DraftOverdue) /\ WF_vars(DeleteExpiredDraft)

-----------------------------------------------------------------------------
Statuses == Refusals \cup {"pending", "approved"}
OpType ==
  {Idle} \cup [pc : {"derive", "readDraft", "release", "stranded", "overrideRead", "archive"}]
  \cup [pc : {"eligible", "draft", "vote"}, req : Policies, user : Users, decision : Decisions]
  \cup [pc : {"reread"}, req : Policies]
  \cup [pc : {"quorum"}, req : Policies, approve : SUBSET Users]
  \cup [pc : {"resolve"}, req : Policies, status : Statuses]
  \cup [pc : {"override", "expire"}, todo : SUBSET Policies, won : BOOLEAN]
  \cup [pc : {"write"}, status : Refusals \cup Cleared]
  \cup [pc : {"remove", "removeAffecting"}, req : Policies]

(* Every row and every call in flight has one of the shapes above. *)
TypeOK ==
  /\ draft \in [state : {"none", "actionable", "broadcasted", "deleted"},
                approval : Statuses \cup Cleared, taken : BOOLEAN, locked : BOOLEAN,
                overdue : BOOLEAN]
  /\ triggers \subseteq Policies
  /\ policy \in [Policies -> [live : BOOLEAN, listed : SUBSET Users, needed : 1..MaxNeeded]]
  /\ request \in [Policies -> [status : Statuses \cup {"none"}, required : Nat,
                               overdue : BOOLEAN, votes : [Users -> Decisions \cup {"none"}],
                               overridden : BOOLEAN]]
  /\ approvers \subseteq Users
  /\ op \in [Slots -> OpType]
  /\ edits \in Nat /\ crashes \in Nat

(* A draft cleared for broadcast (approved or not_required) has no request
   left that is open or refused, whatever calls interleaved with the derive
   that cleared it, policy deletions included. *)
ClearedSound ==
  Present /\ draft.approval \in Cleared =>
    \A p \in Policies : request[p].status \in {"none", "approved"}

(* A request approved by votes carries the approve votes its snapshot asks for
   (any_n), from people other than the draft's creator unless the policy allows
   self-approval, whatever membership did since; and while membership and the
   policy stand unedited, its recorded votes meet the quorum of its kind. *)
ApprovedByQuorum ==
  \A p \in Policies :
    LET approve == Voted(request[p].votes, "approve")
    IN request[p].status = "approved" /\ ~request[p].overridden =>
         /\ Kind[p] = "any_n" =>
              Cardinality(approve \ (IF p \in SelfAllowed THEN {} ELSE {Creator}))
                >= request[p].required
         /\ edits = 0 => QuorumMet(p, approve)

\* some call recorded a vote on p and has not finished with it
Voting(p) == \E s \in Slots : op[s].pc \in {"reread", "quorum", "resolve"} /\ op[s].req = p

(* Concurrent voters do not miss the quorum between them: once no voter is
   still working on a request, an open request has no rejection, no veto and
   no quorum (with no call cut short and no membership or policy edit). *)
QuorumNotMissed ==
  crashes = 0 /\ edits = 0 =>
    \A p \in Policies : request[p].status = "pending" /\ ~Voting(p) =>
      /\ Voted(request[p].votes, "reject") = {} /\ Voted(request[p].votes, "veto") = {}
      /\ ~QuorumMet(p, Voted(request[p].votes, "approve"))

\* some call still has the draft to derive
Deriving == \E s \in Slots : op[s].pc \in DerivePc \cup {"override", "expire", "removeAffecting"}

(* The last resolver sees every sibling request settled: with no derive left
   to run, a draft still pending really has an open request. *)
PendingMeansOpen ==
  crashes = 0 /\ ~Deriving /\ Present /\ draft.approval = "pending" /\ RequestStatuses # {} =>
    "pending" \in RequestStatuses /\ RequestStatuses \cap Refusals = {}

(* No overlap of voters, resolvers and sweeps leaves a request or the draft
   waiting for what has already happened. *)
NothingMissed == QuorumNotMissed /\ PendingMeansOpen

(* No refusal releases the locks of a draft that is or becomes cleared: a draft
   that can still be broadcast has the locks it took when it was created.  A
   replacement took none and has none to keep. *)
ClearedKeepsLocks ==
  draft.state = "actionable" /\ draft.approval \in Cleared /\ draft.taken => draft.locked

(* "Each is terminal for the draft" (approvalService.ts:815): a refused draft
   is never again anything but refused. *)
RefusalTerminal ==
  [][Present /\ draft.approval \in Refusals => draft'.approval \in Refusals]_vars

\* the draft no longer waits for approvals
Released == ~Present \/ draft.approval # "pending"

(* "So a draft no one votes on is released too": an overdue open request ends
   with its draft released, unless a vote or an override settles it first,
   even if the sweep itself is cut short once. *)
OverdueReleased ==
  (\E p \in Policies : request[p].status = "pending" /\ request[p].overdue)
    ~> Released \/ \E p \in Policies : request[p].status \in {"approved", "rejected", "vetoed"}

(* An expired request releases its draft even when the call that expired it
   was cut short before it derived the draft's status. *)
ExpiredReleased == (\E p \in Policies : request[p].status = "expired") ~> Released

(* A pending draft whose requests were all cascaded away does not wait. *)
BareReleased ==
  (draft.state = "actionable" /\ draft.approval = "pending" /\ RequestStatuses = {}) ~> Released

(* A call cut short between settling the last request and deriving the draft
   leaves it pending with nothing to vote on, and the sweep does not see it;
   the draft's own expiry bounds the wait. *)
SettledReleased ==
  (draft.state = "actionable" /\ draft.approval = "pending" /\ "pending" \notin RequestStatuses)
    ~> Released

(* The inputs of a refused draft come free again even if the call that
   refused it was cut short before releasing them. *)
RefusedReleasesLocks == (draft.state = "actionable" /\ draft.approval \in Refusals) ~> ~draft.locked
==============================================================================
