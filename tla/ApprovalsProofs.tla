--------------------------- MODULE ApprovalsProofs ---------------------------
(***************************************************************************)
(* Proofs about Approvals, in layers.  ClearedSound needs to know what a   *)
(* call that is about to write the draft's status read: its snapshot can   *)
(* only have become more settled, because a request never reopens and none *)
(* is added to an existing draft.  RefusalTerminal and ClearedKeepsLocks   *)
(* add what backs a refusal.  ApprovedByQuorum and NothingMissed follow    *)
(* the votes: what a voter counted was cast, votes are only added, the     *)
(* last voter sees them all, and who settles a request derives the draft.  *)
(***************************************************************************)
EXTENDS Approvals, FiniteSetTheorems, TLAPS

Settled == \A p \in Policies : request[p].status \in {"none", "approved"}
Bare == \A p \in Policies : request[p].status = "none"

(* The fields the argument reads exist. *)
Shape ==
  /\ {"state", "approval", "taken", "locked", "overdue"} \subseteq DOMAIN draft
  /\ DOMAIN request = Policies
  /\ \A p \in Policies : {"status", "overdue", "overridden", "votes"} \subseteq DOMAIN request[p]
  /\ DOMAIN op = Slots

(* A call about to clear the draft read requests that are still settled. *)
ClearingSound ==
  \A s \in Slots : /\ At(s, "write") /\ op[s].status \in Cleared => Settled
                   /\ At(s, "readDraft") => Bare

(* Before the draft exists no call has anything to derive. *)
NothingYet ==
  draft.state = "none" =>
    Bare /\ \A s \in Slots : op[s].pc \in {"idle", "stranded", "remove"}

(* The inductive invariant behind ClearedSound. *)
ClearedInv == Shape /\ ClearedSound /\ ClearingSound /\ NothingYet

-----------------------------------------------------------------------------
(* What a derive concludes from the requests it read: approved means all of
   them are, it never concludes not_required, and no statuses means none. *)
LEMMA DerivedFacts ==
  /\ DerivedStatus(RequestStatuses) = "approved" => Settled /\ ~Bare
  /\ DerivedStatus(RequestStatuses) \in Refusals \cup {"approved", "pending"}
  /\ RequestStatuses = {} => Bare
  /\ DerivedStatus(RequestStatuses) \in Refusals =>
       \E p \in Policies : request[p].status \in Refusals
<1> DEFINE R == RequestStatuses
<1>1. \A p \in Policies : request[p].status # "none" => request[p].status \in R
  BY Zenon DEF RequestStatuses, Has
<1>2. \A x \in R : \E p \in Policies : request[p].status = x /\ x # "none"
  BY Zenon DEF RequestStatuses, Has
<1>3. DerivedStatus(R) = "approved" => R = {"approved"}
  <2>1. CASE "rejected" \in R  BY <2>1, Zenon DEF DerivedStatus
  <2>2. CASE "rejected" \notin R /\ "vetoed" \in R  BY <2>2, Zenon DEF DerivedStatus
  <2>3. CASE R \cap {"rejected", "vetoed"} = {} /\ "expired" \in R  BY <2>3, Zenon DEF DerivedStatus
  <2>4. CASE R = {"approved"}  BY <2>4, Zenon
  <2>5. CASE R \cap Refusals = {} /\ R # {"approved"}  BY <2>5, Zenon DEF DerivedStatus, Refusals
  <2> QED  BY <2>1, <2>2, <2>3, <2>4, <2>5, Zenon DEF Refusals
<1>4. DerivedStatus(R) \in Refusals \cup {"approved", "pending"}
  BY Zenon DEF DerivedStatus, Refusals
<1>5. DerivedStatus(R) \in Refusals => R \cap Refusals # {}
  <2>1. CASE R = {"approved"}  BY <2>1, Zenon DEF DerivedStatus, Refusals
  <2>2. CASE R \cap Refusals = {} /\ R # {"approved"}  BY <2>2, Zenon DEF DerivedStatus, Refusals
  <2> QED  BY <2>1, <2>2, Zenon DEF Refusals
<1> HIDE DEF R
<1> QED  BY <1>1, <1>2, <1>3, <1>4, <1>5, Zenon DEF Settled, Bare, R

(* Init satisfies the invariant. *)
LEMMA ClearedInit == Init => ClearedInv
  BY SMTT(30) DEF Init, ClearedInv, Shape, ClearedSound, ClearingSound, NothingYet, Bare, Settled,
     Present, At, Cleared, NoRequests, NoRequest, Idle

(* createDraft: the first requests are open and the draft pending. *)
LEMMA CreateDraftCleared ==
  ASSUME ClearedInv, NEW T \in SUBSET Policies, NEW t \in BOOLEAN, CreateDraft(T, t)
  PROVE ClearedInv'
  BY ZenonT(30) DEF CreateDraft, LockSelectedUtxos, NoRequest, Slots, ClearedInv, Shape, ClearedSound,
     ClearingSound, NothingYet, Bare, Settled, Present, At, Cleared

(* Deleting the draft takes its requests along. *)
LEMMA DeleteDraftCleared ==
  ASSUME ClearedInv, DeleteDraft
  PROVE ClearedInv'
  BY Zenon DEF DeleteDraft, GoneDraft, NoRequests, NoRequest, ClearedInv, Shape, ClearedSound,
     ClearingSound, NothingYet, Bare, Settled, Present, At, Cleared

(* EnsureEligibleToVote keeps it. *)
LEMMA EnsureEligibleToVoteCleared ==
  ASSUME ClearedInv, NEW s \in Slots, EnsureEligibleToVote(s)
  PROVE ClearedInv'
  BY SMTT(30) DEF EnsureEligibleToVote, Go, Done, Start, Idle, ClearedInv, Shape, ClearedSound,
     ClearingSound, NothingYet, Bare, Settled, Present, At, Cleared

(* GetDraftForAllowedVote keeps it. *)
LEMMA GetDraftForAllowedVoteCleared ==
  ASSUME ClearedInv, NEW s \in Slots, GetDraftForAllowedVote(s)
  PROVE ClearedInv'
  BY SMTT(30) DEF GetDraftForAllowedVote, Go, Done, Start, Idle, ClearedInv, Shape, ClearedSound,
     ClearingSound, NothingYet, Bare, Settled, Present, At, Cleared

(* CreateApprovalVote keeps it. *)
LEMMA CreateApprovalVoteCleared ==
  ASSUME ClearedInv, NEW s \in Slots, CreateApprovalVote(s)
  PROVE ClearedInv'
  BY SMTT(30) DEF CreateApprovalVote, Go, Done, Start, Idle, Has, ClearedInv, Shape, ClearedSound,
     ClearingSound, NothingYet, Bare, Settled, Present, At, Cleared

(* GetApprovalRequestAfterVote keeps it. *)
LEMMA GetApprovalRequestAfterVoteCleared ==
  ASSUME ClearedInv, NEW s \in Slots, GetApprovalRequestAfterVote(s)
  PROVE ClearedInv'
  BY SMTT(30) DEF GetApprovalRequestAfterVote, Go, Done, Start, Idle, Has, ClearedInv, Shape,
     ClearedSound, ClearingSound, NothingYet, Bare, Settled, Present, At, Cleared

(* CheckQuorum keeps it. *)
LEMMA CheckQuorumCleared ==
  ASSUME ClearedInv, NEW s \in Slots, CheckQuorum(s)
  PROVE ClearedInv'
  BY SMTT(30)
  DEF CheckQuorum, Go, Done, Start, Idle, ClearedInv, Shape, ClearedSound, ClearingSound,
     NothingYet, Bare, Settled, Present, At, Cleared

(* ResolveRequest keeps it. *)
LEMMA ResolveRequestCleared ==
  ASSUME ClearedInv, NEW s \in Slots, ResolveRequest(s)
  PROVE ClearedInv'
  BY SMTT(30) DEF ResolveRequest, Go, Done, Start, Idle, ClearedInv, Shape, ClearedSound,
     ClearingSound, NothingYet, Bare, Settled, Present, At, Cleared

(* ReadForOverride keeps it. *)
LEMMA ReadForOverrideCleared ==
  ASSUME ClearedInv, NEW s \in Slots, ReadForOverride(s)
  PROVE ClearedInv'
  BY SMTT(30) DEF ReadForOverride, Go, Done, Start, Idle, ClearedInv, Shape, ClearedSound,
     ClearingSound, NothingYet, Bare, Settled, Present, At, Cleared

(* LoopDone keeps it. *)
LEMMA LoopDoneCleared ==
  ASSUME ClearedInv, NEW s \in Slots, LoopDone(s)
  PROVE ClearedInv'
  BY Zenon DEF LoopDone, Go, Done, Start, Idle, AfterExpiry, ClearedInv, Shape, ClearedSound,
     ClearingSound, NothingYet, Bare, Settled, Present, At, Cleared

(* ReadDraft keeps it. *)
LEMMA ReadDraftCleared ==
  ASSUME ClearedInv, NEW s \in Slots, ReadDraft(s)
  PROVE ClearedInv'
  BY Zenon DEF ReadDraft, Go, Done, Start, Idle, ClearedInv, Shape, ClearedSound, ClearingSound,
     NothingYet, Bare, Settled, Present, At, Cleared

(* WriteApprovalStatus keeps it. *)
LEMMA WriteApprovalStatusCleared ==
  ASSUME ClearedInv, NEW s \in Slots, WriteApprovalStatus(s)
  PROVE ClearedInv'
  BY SMTT(30) DEF WriteApprovalStatus, Go, Done, Start, Idle, Refusals, ClearedInv, Shape,
     ClearedSound, ClearingSound, NothingYet, Bare, Settled, Present, At, Cleared

(* ReleaseLocks keeps it. *)
LEMMA ReleaseLocksCleared ==
  ASSUME ClearedInv, NEW s \in Slots, ReleaseLocks(s)
  PROVE ClearedInv'
  BY Zenon DEF ReleaseLocks, Go, Done, Start, Idle, ClearedInv, Shape, ClearedSound, ClearingSound,
     NothingYet, Bare, Settled, Present, At, Cleared

(* RemovePolicy keeps it. *)
LEMMA RemovePolicyCleared ==
  ASSUME ClearedInv, NEW s \in Slots, RemovePolicy(s)
  PROVE ClearedInv'
  BY SMTT(30) DEF RemovePolicy, Go, Done, Start, Idle, Deleted, NoRequest, ClearedInv, Shape,
     ClearedSound, ClearingSound, NothingYet, Bare, Settled, Present, At, Cleared

(* ArchiveDraft keeps it. *)
LEMMA ArchiveDraftCleared ==
  ASSUME ClearedInv, NEW s \in Slots, ArchiveDraft(s)
  PROVE ClearedInv'
  BY Zenon DEF ArchiveDraft, Go, Done, Start, Idle, ClearedInv, Shape, ClearedSound, ClearingSound,
     NothingYet, Bare, Settled, Present, At, Cleared

(* BeginOverride keeps it. *)
LEMMA BeginOverrideCleared ==
  ASSUME ClearedInv, NEW s \in Slots, BeginOverride(s)
  PROVE ClearedInv'
  BY Zenon DEF BeginOverride, Go, Done, Start, Idle, Refusals, ClearedInv, Shape, ClearedSound,
     ClearingSound, NothingYet, Bare, Settled, Present, At, Cleared

(* BeginReject keeps it. *)
LEMMA BeginRejectCleared ==
  ASSUME ClearedInv, NEW s \in Slots, BeginReject(s)
  PROVE ClearedInv'
  BY Zenon DEF BeginReject, Go, Done, Start, Idle, Has, ClearedInv, Shape, ClearedSound,
     ClearingSound, NothingYet, Bare, Settled, Present, At, Cleared

(* BroadcastGate keeps it. *)
LEMMA BroadcastGateCleared ==
  ASSUME ClearedInv, NEW s \in Slots, BroadcastGate(s)
  PROVE ClearedInv'
  BY Zenon DEF BroadcastGate, Go, Done, Start, Idle, ClearedInv, Shape, ClearedSound, ClearingSound,
     NothingYet, Bare, Settled, Present, At, Cleared

(* Abandon keeps it. *)
LEMMA AbandonCleared ==
  ASSUME ClearedInv, NEW s \in Slots, Abandon(s)
  PROVE ClearedInv'
  BY Zenon DEF Abandon, Go, Done, Start, Idle, ClearedInv, Shape, ClearedSound, ClearingSound,
     NothingYet, Bare, Settled, Present, At, Cleared

(* One turn of the override or expiry loop keeps it. *)
LEMMA ResolveNextCleared ==
  ASSUME ClearedInv, NEW s \in Slots, NEW pc \in {"override", "expire"}, NEW status \in
         {"approved", "expired"}, NEW p \in Policies, ResolveNext(s, pc, status, p)
  PROVE ClearedInv'
  BY Zenon DEF ResolveNext, Go, Done, Start, Idle, ClearedInv, Shape, ClearedSound, ClearingSound,
     NothingYet, Bare, Settled, Present, At, Cleared

(* The read of a derive keeps it. *)
LEMMA DeriveReadCleared ==
  ASSUME ClearedInv, NEW s \in Slots, DeriveRead(s)
  PROVE ClearedInv'
  BY DerivedFacts, SMTT(30) DEF DeriveRead, Go, Done, Start, Idle, Refusals, ClearedInv, Shape,
     ClearedSound, ClearingSound, NothingYet, Bare, Settled, Present, At, Cleared

(* Starting a vote keeps it. *)
LEMMA GetPendingCleared ==
  ASSUME ClearedInv, NEW s \in Slots, NEW p \in Policies, NEW u \in Users, NEW d \in
         Decisions, GetPendingApprovalRequest(s, p, u, d)
  PROVE ClearedInv'
  BY Zenon DEF GetPendingApprovalRequest, Go, Done, Start, Idle, ClearedInv, Shape, ClearedSound,
     ClearingSound, NothingYet, Bare, Settled, Present, At, Cleared

(* Starting a policy deletion keeps it. *)
LEMMA BeginDeleteCleared ==
  ASSUME ClearedInv, NEW s \in Slots, NEW p \in Policies, BeginDeletePolicy(s, p)
  PROVE ClearedInv'
  BY Zenon DEF BeginDeletePolicy, Go, Done, Start, Idle, ClearedInv, Shape, ClearedSound,
     ClearingSound, NothingYet, Bare, Settled, Present, At, Cleared

(* Starting a sweep keeps it. *)
LEMMA BeginSweepCleared ==
  ASSUME ClearedInv, BeginSweep
  PROVE ClearedInv'
  BY Zenon DEF BeginSweep, Go, Done, Start, Idle, Slots, ClearedInv, Shape, ClearedSound,
     ClearingSound, NothingYet, Bare, Settled, Present, At, Cleared

(* Looking for stranded drafts keeps it. *)
LEMMA FindStrandedCleared ==
  ASSUME ClearedInv, FindStranded
  PROVE ClearedInv'
  BY Zenon DEF FindStranded, Go, Done, Start, Idle, Slots, ClearedInv, Shape, ClearedSound,
     ClearingSound, NothingYet, Bare, Settled, Present, At, Cleared

(* A group delete keeps it. *)
LEMMA CascadeCleared ==
  ASSUME ClearedInv, NEW p \in Policies, CascadeDelete(p)
  PROVE ClearedInv'
  BY Zenon DEF CascadeDelete, Deleted, NoRequest, ClearedInv, Shape, ClearedSound, ClearingSound,
     NothingYet, Bare, Settled, Present, At, Cleared

(* The clocks keep it. *)
LEMMA ClockCleared ==
  ASSUME ClearedInv, NEW p \in Policies, RequestOverdue(p) \/ DraftOverdue
  PROVE ClearedInv'
  BY ZenonT(40) DEF RequestOverdue, DraftOverdue, ClearedInv, Shape, ClearedSound, ClearingSound,
     NothingYet, Bare, Settled, Present, At, Cleared

(* Every step keeps the invariant. *)
LEMMA ClearedStep == ClearedInv /\ [Next]_vars => ClearedInv'
<1> SUFFICES ASSUME ClearedInv, [Next]_vars PROVE ClearedInv'
  OBVIOUS
<1>1. ASSUME NEW T \in SUBSET Policies, NEW t \in BOOLEAN, CreateDraft(T, t) PROVE ClearedInv'
  BY <1>1, CreateDraftCleared, Zenon
<1>2. ASSUME NEW s \in Slots, NEW p \in Policies, NEW u \in Users, NEW d \in Decisions,
             GetPendingApprovalRequest(s, p, u, d)
      PROVE ClearedInv'
  BY <1>2, GetPendingCleared, Zenon
<1>3. ASSUME NEW s \in Slots, Step(s) PROVE ClearedInv'
  <2>1. ASSUME NEW p \in Policies, OverrideNext(s, p) \/ ExpireNext(s, p) PROVE ClearedInv'
    BY <2>1, ResolveNextCleared, Zenon DEF OverrideNext, ExpireNext
  <2> QED
    BY <1>3, <2>1, EnsureEligibleToVoteCleared, GetDraftForAllowedVoteCleared,
       CreateApprovalVoteCleared, GetApprovalRequestAfterVoteCleared, CheckQuorumCleared,
       ResolveRequestCleared, ReadForOverrideCleared, LoopDoneCleared, DeriveReadCleared,
       ReadDraftCleared, WriteApprovalStatusCleared, ReleaseLocksCleared, RemovePolicyCleared,
       ArchiveDraftCleared, Zenon DEF Step
<1>4. ASSUME NEW s \in Slots,
             Abandon(s) \/ BeginOverride(s) \/ BeginReject(s) \/ BroadcastGate(s)
      PROVE ClearedInv'
  BY <1>4, AbandonCleared, BeginOverrideCleared, BeginRejectCleared, BroadcastGateCleared, Zenon
<1>5. ASSUME NEW s \in Slots, NEW p \in Policies, BeginDeletePolicy(s, p) PROVE ClearedInv'
  BY <1>5, BeginDeleteCleared, Zenon
<1>6. CASE BeginSweep \/ FindStranded
  BY <1>6, BeginSweepCleared, FindStrandedCleared, Zenon
<1>7. CASE DeleteDraft \/ DeleteExpiredDraft
  BY <1>7, DeleteDraftCleared, Zenon DEF DeleteExpiredDraft
<1>8. ASSUME NEW p \in Policies, CascadeDelete(p) \/ RequestOverdue(p) \/ DraftOverdue
      PROVE ClearedInv'
  BY <1>8, CascadeCleared, ClockCleared, Zenon
<1>9. CASE DraftOverdue
  BY <1>9, Zenon DEF DraftOverdue, ClearedInv, Shape, ClearedSound, ClearingSound, NothingYet, Bare,
              Settled, Present, At, Cleared
<1>10. ASSUME NEW p \in Policies, NEW l \in SUBSET Users, NEW n \in 1..MaxNeeded,
              EditPolicy(p, l, n)
       PROVE ClearedInv'
  BY <1>10, Zenon DEF EditPolicy, ClearedInv, Shape, ClearedSound, ClearingSound, NothingYet, Bare,
               Settled, Present, At, Cleared
<1>11. ASSUME NEW u \in Users, MembershipChange(u) PROVE ClearedInv'
  BY <1>11, Zenon
  DEF MembershipChange, ClearedInv, Shape, ClearedSound, ClearingSound, NothingYet, Bare,
               Settled, Present, At, Cleared
<1>12. CASE UNCHANGED vars
  BY <1>12, Zenon DEF vars, ClearedInv, Shape, ClearedSound, ClearingSound, NothingYet, Bare,
               Settled, Present, At, Cleared
<1> QED
  BY <1>1, <1>2, <1>3, <1>4, <1>5, <1>6, <1>7, <1>8, <1>9, <1>10, <1>11, <1>12, Zenon DEF Next

(* A draft cleared for broadcast never has an open or refused request left:
   updateDraftApprovalFromRequests writes from a stale read, and still no
   interleaving of votes, overrides, sweeps, policy deletions, edits and
   crashes makes it clear a draft it should not, for any number of policies,
   users and concurrent calls. *)
THEOREM ClearedSoundHolds == Spec => []ClearedSound
<1>1. ClearedInv => ClearedSound
  BY Zenon DEF ClearedInv
<1> QED
  BY <1>1, ClearedInit, ClearedStep, PTL DEF Spec

-----------------------------------------------------------------------------
(* While no policy is deleted the requests of a draft are never taken away,
   so a refusal keeps its evidence and nothing can clear the draft again. *)

HasRequest == \E p \in Policies : request[p].status # "none"
SomeRefused == \E p \in Policies : request[p].status \in Refusals

PendingHasRequest == Present /\ draft.approval = "pending" => HasRequest

\* a refused draft has a refused request, or was declined with no request at all
RefusedBacked == Present /\ draft.approval \in Refusals => SomeRefused \/ Bare

\* what a call is about to write is still backed by the requests
WritesBacked ==
  \A s \in Slots : At(s, "write") =>
    /\ op[s].status \in Refusals \cup {"approved"}
    /\ Present /\ op[s].status = "approved" => HasRequest
    /\ Present /\ op[s].status \in Refusals => SomeRefused \/ Bare

\* a request is only ever settled one way or another
ResolvesSettled ==
  \A s \in Slots : At(s, "resolve") => op[s].status \in Refusals \cup {"approved"}

NoRemoval == \A s \in Slots : op[s].pc \notin {"remove", "removeAffecting"}

ReleasesRefused ==
  \A s \in Slots : At(s, "release") /\ Present => draft.approval \in Refusals

\* a draft not refused still holds the locks it took
HoldsLocks ==
  draft.state = "actionable" /\ draft.approval \notin Refusals => draft.locked = draft.taken

(* The inductive invariant behind RefusalTerminal and ClearedKeepsLocks. *)
RefusalInv ==
  /\ ClearedInv /\ PendingHasRequest /\ RefusedBacked /\ WritesBacked
  /\ ResolvesSettled /\ NoRemoval /\ ReleasesRefused /\ HoldsLocks

NoDeletion == Deletable = {} /\ GroupOwned = {}

(* Init satisfies it. *)
LEMMA RefusalInit == Init => RefusalInv
  BY ClearedInit, SMTT(30) DEF Init, RefusalInv, PendingHasRequest, RefusedBacked, WritesBacked,
     ResolvesSettled, NoRemoval,
     ReleasesRefused, HoldsLocks, Idle, Present, At, Cleared, Refusals, Bare, HasRequest, SomeRefused

(* createDraft: a pending draft has the requests just created. *)
LEMMA CreateDraftRefusal ==
  ASSUME RefusalInv, ClearedInv', NEW T \in SUBSET Policies, NEW t \in BOOLEAN, CreateDraft(T, t)
  PROVE RefusalInv'
<1> DEFINE live == {p \in T : policy[p].live}
<1>1. draft'.state = "actionable" /\ draft'.locked = draft'.taken /\ UNCHANGED op
  BY ZenonT(30) DEF CreateDraft, LockSelectedUtxos, RefusalInv, ClearedInv, Shape
<1>2. draft'.approval = IF live = {} THEN "not_required" ELSE "pending"
  BY ZenonT(30) DEF CreateDraft, LockSelectedUtxos, RefusalInv, ClearedInv, Shape
<1>3. \A p \in live : request'[p].status = "pending"
  BY ZenonT(30) DEF CreateDraft, NoRequest
<1>4. \A s \in Slots : op[s].pc \in {"idle", "stranded", "remove"}
  BY ZenonT(30) DEF CreateDraft, RefusalInv, ClearedInv, NothingYet
<1> HIDE DEF live
<1>5. live \subseteq Policies
  BY Zenon DEF live
<1> QED
  BY <1>1, <1>2, <1>3, <1>4, <1>5, Zenon
  DEF RefusalInv, PendingHasRequest, RefusedBacked, WritesBacked,
     ResolvesSettled, NoRemoval, ReleasesRefused, HoldsLocks, Present, At, Refusals, HasRequest

(* A deleted draft is past approval. *)
LEMMA DeleteDraftRefusal ==
  ASSUME RefusalInv, ClearedInv', DeleteDraft
  PROVE RefusalInv'
  BY Zenon DEF DeleteDraft, GoneDraft, NoRequests, NoRequest, RefusalInv, PendingHasRequest,
     RefusedBacked, WritesBacked, ResolvesSettled, NoRemoval, ReleasesRefused, HoldsLocks,
     Shape, ClearedInv, Present, At, Cleared, Refusals, Bare, HasRequest, SomeRefused,
     ClearedSound, ClearingSound, NothingYet, Settled

(* EnsureEligibleToVote keeps it. *)
LEMMA EnsureEligibleToVoteRefusal ==
  ASSUME RefusalInv, ClearedInv', NEW s \in Slots, EnsureEligibleToVote(s)
  PROVE RefusalInv'
  BY SMTT(30) DEF EnsureEligibleToVote, Go, Done, Start, Idle, RefusalInv, PendingHasRequest,
     RefusedBacked, WritesBacked, ResolvesSettled, NoRemoval, ReleasesRefused, HoldsLocks,
     Shape, ClearedInv, Present, At, Cleared, Refusals, Bare, HasRequest, SomeRefused,
     ClearedSound, ClearingSound, NothingYet, Settled

(* GetDraftForAllowedVote keeps it. *)
LEMMA GetDraftForAllowedVoteRefusal ==
  ASSUME RefusalInv, ClearedInv', NEW s \in Slots, GetDraftForAllowedVote(s)
  PROVE RefusalInv'
  BY SMTT(30) DEF GetDraftForAllowedVote, Go, Done, Start, Idle, RefusalInv, PendingHasRequest,
     RefusedBacked, WritesBacked, ResolvesSettled, NoRemoval, ReleasesRefused, HoldsLocks,
     Shape, ClearedInv, Present, At, Cleared, Refusals, Bare, HasRequest, SomeRefused,
     ClearedSound, ClearingSound, NothingYet, Settled

(* GetApprovalRequestAfterVote keeps it. *)
LEMMA GetApprovalRequestAfterVoteRefusal ==
  ASSUME RefusalInv, ClearedInv', NEW s \in Slots, GetApprovalRequestAfterVote(s)
  PROVE RefusalInv'
  BY SMTT(30) DEF GetApprovalRequestAfterVote, Go, Done, Start, Idle, Has, RefusalInv,
     PendingHasRequest, RefusedBacked, WritesBacked, ResolvesSettled, NoRemoval,
     ReleasesRefused, HoldsLocks, Shape, ClearedInv, Present, At, Cleared, Refusals, Bare,
     HasRequest, SomeRefused, ClearedSound, ClearingSound, NothingYet, Settled

(* CheckQuorum keeps it. *)
LEMMA CheckQuorumRefusal ==
  ASSUME RefusalInv, ClearedInv', NEW s \in Slots, CheckQuorum(s)
  PROVE RefusalInv'
  BY SMTT(30) DEF CheckQuorum, Go, Done, Start, Idle, RefusalInv, PendingHasRequest, RefusedBacked,
     WritesBacked, ResolvesSettled, NoRemoval, ReleasesRefused, HoldsLocks, Shape, ClearedInv,
     Present, At, Cleared, Refusals, Bare, HasRequest, SomeRefused, ClearedSound,
     ClearingSound, NothingYet, Settled

(* ResolveRequest keeps it. *)
LEMMA ResolveRequestRefusal ==
  ASSUME RefusalInv, ClearedInv', NEW s \in Slots, ResolveRequest(s)
  PROVE RefusalInv'
  BY SMTT(30)
  DEF ResolveRequest, Go, Done, Start, Idle, RefusalInv, PendingHasRequest, RefusedBacked,
     WritesBacked, ResolvesSettled, NoRemoval, ReleasesRefused, HoldsLocks, Shape, ClearedInv,
     Present, At, Cleared, Refusals, Bare, HasRequest, SomeRefused, ClearedSound,
     ClearingSound, NothingYet, Settled

(* ReadForOverride keeps it. *)
LEMMA ReadForOverrideRefusal ==
  ASSUME RefusalInv, ClearedInv', NEW s \in Slots, ReadForOverride(s)
  PROVE RefusalInv'
  BY SMTT(30)
  DEF ReadForOverride, Go, Done, Start, Idle, RefusalInv, PendingHasRequest, RefusedBacked,
     WritesBacked, ResolvesSettled, NoRemoval, ReleasesRefused, HoldsLocks, Shape, ClearedInv,
     Present, At, Cleared, Refusals, Bare, HasRequest, SomeRefused, ClearedSound,
     ClearingSound, NothingYet, Settled

(* LoopDone keeps it. *)
LEMMA LoopDoneRefusal ==
  ASSUME RefusalInv, ClearedInv', NEW s \in Slots, LoopDone(s)
  PROVE RefusalInv'
  BY ZenonT(40) DEF LoopDone, Go, Done, Start, Idle, AfterExpiry, RefusalInv, PendingHasRequest,
     RefusedBacked, WritesBacked, ResolvesSettled, NoRemoval, ReleasesRefused, HoldsLocks,
     Shape, ClearedInv, Present, At, Cleared, Refusals, Bare, HasRequest, SomeRefused,
     ClearedSound, ClearingSound, NothingYet, Settled

(* ReadDraft keeps it. *)
LEMMA ReadDraftRefusal ==
  ASSUME RefusalInv, ClearedInv', NEW s \in Slots, ReadDraft(s)
  PROVE RefusalInv'
  BY SMTT(30) DEF ReadDraft, Go, Done, Start, Idle, RefusalInv, PendingHasRequest, RefusedBacked,
     WritesBacked, ResolvesSettled, NoRemoval, ReleasesRefused, HoldsLocks, Shape, ClearedInv,
     Present, At, Cleared, Refusals, Bare, HasRequest, SomeRefused, ClearedSound,
     ClearingSound, NothingYet, Settled

(* WriteApprovalStatus keeps it. *)
LEMMA WriteApprovalStatusRefusal ==
  ASSUME RefusalInv, ClearedInv', NEW s \in Slots, WriteApprovalStatus(s)
  PROVE RefusalInv'
  BY SMTT(30)
  DEF WriteApprovalStatus, Go, Done, Start, Idle, Refusals, RefusalInv, PendingHasRequest,
     RefusedBacked, WritesBacked, ResolvesSettled, NoRemoval, ReleasesRefused, HoldsLocks,
     Shape, ClearedInv, Present, At, Cleared, Refusals, Bare, HasRequest, SomeRefused,
     ClearedSound, ClearingSound, NothingYet, Settled

(* ReleaseLocks keeps it. *)
LEMMA ReleaseLocksRefusal ==
  ASSUME RefusalInv, ClearedInv', NEW s \in Slots, ReleaseLocks(s)
  PROVE RefusalInv'
  BY ZenonT(40)
  DEF ReleaseLocks, Go, Done, Start, Idle, RefusalInv, PendingHasRequest, RefusedBacked,
     WritesBacked, ResolvesSettled, NoRemoval, ReleasesRefused, HoldsLocks, Shape, ClearedInv,
     Present, At, Cleared, Refusals, Bare, HasRequest, SomeRefused, ClearedSound,
     ClearingSound, NothingYet, Settled

(* ArchiveDraft keeps it. *)
LEMMA ArchiveDraftRefusal ==
  ASSUME RefusalInv, ClearedInv', NEW s \in Slots, ArchiveDraft(s)
  PROVE RefusalInv'
<1>1. /\ UNCHANGED request /\ draft'.approval = draft.approval /\ (Present' => Present)
      /\ draft'.state = "actionable" => UNCHANGED draft
  BY ZenonT(30) DEF ArchiveDraft, Present, RefusalInv, ClearedInv, Shape
<1>2. \A r \in Slots : op'[r] = op[r] \/ op'[r].pc = "idle"
  BY ZenonT(30) DEF ArchiveDraft, Done, Go, Idle, RefusalInv, ClearedInv, Shape
<1> QED
  BY <1>1, <1>2, ZenonT(40)
  DEF RefusalInv, PendingHasRequest, RefusedBacked, WritesBacked, ResolvesSettled, NoRemoval,
     ReleasesRefused, HoldsLocks, At, Bare, HasRequest, SomeRefused

(* BeginOverride keeps it. *)
LEMMA BeginOverrideRefusal ==
  ASSUME RefusalInv, ClearedInv', NEW s \in Slots, BeginOverride(s)
  PROVE RefusalInv'
  BY ZenonT(40) DEF BeginOverride, Go, Done, Start, Idle, Refusals, RefusalInv, PendingHasRequest,
     RefusedBacked, WritesBacked, ResolvesSettled, NoRemoval, ReleasesRefused, HoldsLocks,
     Shape, ClearedInv, Present, At, Cleared, Refusals, Bare, HasRequest, SomeRefused,
     ClearedSound, ClearingSound, NothingYet, Settled

(* BeginReject keeps it. *)
LEMMA BeginRejectRefusal ==
  ASSUME RefusalInv, ClearedInv', NEW s \in Slots, BeginReject(s)
  PROVE RefusalInv'
  BY ZenonT(40) DEF BeginReject, Go, Done, Start, Idle, Has, RefusalInv, PendingHasRequest,
     RefusedBacked, WritesBacked, ResolvesSettled, NoRemoval, ReleasesRefused, HoldsLocks,
     Shape, ClearedInv, Present, At, Cleared, Refusals, Bare, HasRequest, SomeRefused,
     ClearedSound, ClearingSound, NothingYet, Settled

(* BroadcastGate keeps it. *)
LEMMA BroadcastGateRefusal ==
  ASSUME RefusalInv, ClearedInv', NEW s \in Slots, BroadcastGate(s)
  PROVE RefusalInv'
  BY ZenonT(40)
  DEF BroadcastGate, Go, Done, Start, Idle, RefusalInv, PendingHasRequest, RefusedBacked,
     WritesBacked, ResolvesSettled, NoRemoval, ReleasesRefused, HoldsLocks, Shape, ClearedInv,
     Present, At, Cleared, Refusals, Bare, HasRequest, SomeRefused, ClearedSound,
     ClearingSound, NothingYet, Settled

(* Abandon keeps it. *)
LEMMA AbandonRefusal ==
  ASSUME RefusalInv, ClearedInv', NEW s \in Slots, Abandon(s)
  PROVE RefusalInv'
  BY ZenonT(40) DEF Abandon, Go, Done, Start, Idle, RefusalInv, PendingHasRequest, RefusedBacked,
     WritesBacked, ResolvesSettled, NoRemoval, ReleasesRefused, HoldsLocks, Shape, ClearedInv,
     Present, At, Cleared, Refusals, Bare, HasRequest, SomeRefused, ClearedSound,
     ClearingSound, NothingYet, Settled

(* Votes recorded and requests settled keep it, while the draft is left alone
   and no call reaches a write. *)
LEMMA RefusalFrame ==
  ASSUME RefusalInv, ClearedInv', UNCHANGED draft,
         \A p \in Policies : \/ request'[p].status = request[p].status
                             \/ /\ request[p].status = "pending"
                                /\ request'[p].status \in Refusals \cup {"approved"},
         \A t \in Slots : \/ op'[t] = op[t]
                          \/ op'[t].pc \in {"idle", "reread", "override", "expire"}
  PROVE RefusalInv'
<1>1. HasRequest => HasRequest'
  BY Zenon DEF HasRequest, Refusals
<1>2. SomeRefused => SomeRefused'
  BY Zenon DEF SomeRefused, Refusals
<1>3. Bare => Bare'
  BY Zenon DEF Bare
<1> QED
  BY <1>1, <1>2, <1>3, SMTT(30) DEF RefusalInv, PendingHasRequest, RefusedBacked, WritesBacked,
     ResolvesSettled, NoRemoval, ReleasesRefused, HoldsLocks, Present, At

(* CreateApprovalVote leaves every request's status alone. *)
LEMMA CreateApprovalVoteRefusal ==
  ASSUME RefusalInv, ClearedInv', NEW s \in Slots, CreateApprovalVote(s)
  PROVE RefusalInv'
<1>1. \A p \in Policies : request'[p].status = request[p].status
  BY Zenon DEF CreateApprovalVote, RefusalInv, ClearedInv, Shape
<1>2. UNCHANGED draft
  BY Zenon DEF CreateApprovalVote
<1>3. \A t \in Slots : op'[t] = op[t] \/ op'[t].pc \in {"idle", "reread"}
  BY SMTT(30) DEF CreateApprovalVote, Go, Done, Idle, RefusalInv, ClearedInv, Shape
<1> QED
  BY <1>1, <1>2, <1>3, RefusalFrame, Zenon

(* One turn of the override or expiry loop settles at most one request. *)
LEMMA ResolveNextRefusal ==
  ASSUME RefusalInv, ClearedInv', NEW s \in Slots, NEW pc \in {"override", "expire"},
         NEW status \in {"approved", "expired"}, NEW p \in Policies, ResolveNext(s, pc, status, p)
  PROVE RefusalInv'
<1>1. \A q \in Policies : \/ request'[q].status = request[q].status
                          \/ request[q].status = "pending" /\ request'[q].status = status
  BY Zenon DEF ResolveNext, RefusalInv, ClearedInv, Shape
<1>2. UNCHANGED draft
  BY Zenon DEF ResolveNext
<1>3. \A t \in Slots : op'[t] = op[t] \/ op'[t].pc \in {"override", "expire"}
  BY Zenon DEF ResolveNext, Go, RefusalInv, ClearedInv, Shape
<1> QED
  BY <1>1, <1>2, <1>3, RefusalFrame, Zenon DEF Refusals

(* The read of a derive keeps it. *)
LEMMA DeriveReadRefusal ==
  ASSUME RefusalInv, ClearedInv', NEW s \in Slots, DeriveRead(s)
  PROVE RefusalInv'
  BY DerivedFacts, SMTT(30) DEF DeriveRead, Go, Done, Start, Idle, RefusalInv, PendingHasRequest,
     RefusedBacked, WritesBacked, ResolvesSettled, NoRemoval, ReleasesRefused, HoldsLocks,
     Shape, ClearedInv, Present, At, Cleared, Refusals, Bare, HasRequest, SomeRefused,
     ClearedSound, ClearingSound, NothingYet, Settled

(* Starting a vote keeps it. *)
LEMMA GetPendingRefusal ==
  ASSUME RefusalInv, ClearedInv', NEW s \in Slots, NEW p \in Policies, NEW u \in Users, NEW d
         \in Decisions, GetPendingApprovalRequest(s, p, u, d)
  PROVE RefusalInv'
  BY Zenon DEF GetPendingApprovalRequest, Go, Done, Start, Idle, RefusalInv, PendingHasRequest,
     RefusedBacked, WritesBacked, ResolvesSettled, NoRemoval, ReleasesRefused, HoldsLocks,
     Shape, ClearedInv, Present, At, Cleared, Refusals, Bare, HasRequest, SomeRefused,
     ClearedSound, ClearingSound, NothingYet, Settled

(* Starting a sweep keeps it. *)
LEMMA BeginSweepRefusal ==
  ASSUME RefusalInv, ClearedInv', BeginSweep
  PROVE RefusalInv'
  BY ZenonT(40) DEF BeginSweep, Go, Done, Start, Idle, Slots, RefusalInv, PendingHasRequest,
     RefusedBacked, WritesBacked, ResolvesSettled, NoRemoval, ReleasesRefused, HoldsLocks,
     Shape, ClearedInv, Present, At, Cleared, Refusals, Bare, HasRequest, SomeRefused,
     ClearedSound, ClearingSound, NothingYet, Settled

(* Looking for stranded drafts keeps it. *)
LEMMA FindStrandedRefusal ==
  ASSUME RefusalInv, ClearedInv', FindStranded
  PROVE RefusalInv'
  BY SMTT(30) DEF FindStranded, Go, Done, Start, Idle, Slots, RefusalInv, PendingHasRequest,
     RefusedBacked, WritesBacked, ResolvesSettled, NoRemoval, ReleasesRefused, HoldsLocks,
     Shape, ClearedInv, Present, At, Cleared, Refusals, Bare, HasRequest, SomeRefused,
     ClearedSound, ClearingSound, NothingYet, Settled

(* The clock of a request keeps it. *)
LEMMA ClockRefusal ==
  ASSUME RefusalInv, ClearedInv', NEW p \in Policies, RequestOverdue(p)
  PROVE RefusalInv'
  BY SMTT(30) DEF RequestOverdue, RefusalInv, PendingHasRequest, RefusedBacked, WritesBacked,
     ResolvesSettled, NoRemoval, ReleasesRefused, HoldsLocks, Shape, ClearedInv, Present, At,
     Cleared, Refusals, Bare, HasRequest, SomeRefused, ClearedSound, ClearingSound,
     NothingYet, Settled

(* Without deletions every step keeps the invariant. *)
LEMMA RefusalStep ==
  ASSUME NoDeletion, RefusalInv, [Next]_vars PROVE RefusalInv'
<1>0. ClearedInv'
  BY ClearedStep, Zenon DEF RefusalInv
<1>1. ASSUME NEW T \in SUBSET Policies, NEW t \in BOOLEAN, CreateDraft(T, t) PROVE RefusalInv'
  BY <1>0, <1>1, CreateDraftRefusal, Zenon
<1>2. ASSUME NEW s \in Slots, NEW p \in Policies, NEW u \in Users, NEW d \in Decisions,
             GetPendingApprovalRequest(s, p, u, d)
      PROVE RefusalInv'
  BY <1>0, <1>2, GetPendingRefusal, Zenon
<1>3. ASSUME NEW s \in Slots, Step(s) PROVE RefusalInv'
  <2>1. ASSUME NEW p \in Policies, OverrideNext(s, p) \/ ExpireNext(s, p) PROVE RefusalInv'
    BY <1>0, <2>1, ResolveNextRefusal, Zenon DEF OverrideNext, ExpireNext
  <2>2. ~RemovePolicy(s)
    BY Zenon DEF RemovePolicy, RefusalInv, NoRemoval
  <2> QED
    BY <1>0, <1>3, <2>1, <2>2, EnsureEligibleToVoteRefusal, GetDraftForAllowedVoteRefusal,
       CreateApprovalVoteRefusal, GetApprovalRequestAfterVoteRefusal, CheckQuorumRefusal,
       ResolveRequestRefusal, ReadForOverrideRefusal, LoopDoneRefusal, DeriveReadRefusal,
       ReadDraftRefusal, WriteApprovalStatusRefusal, ReleaseLocksRefusal,
       ArchiveDraftRefusal, Zenon DEF Step
<1>4. ASSUME NEW s \in Slots,
             Abandon(s) \/ BeginOverride(s) \/ BeginReject(s) \/ BroadcastGate(s)
      PROVE RefusalInv'
  BY <1>0, <1>4, AbandonRefusal, BeginOverrideRefusal, BeginRejectRefusal, BroadcastGateRefusal, Zenon
<1>5. ~ \E s \in Slots, p \in Policies : BeginDeletePolicy(s, p) \/ CascadeDelete(p)
  BY Zenon DEF BeginDeletePolicy, CascadeDelete, NoDeletion
<1>6. CASE BeginSweep \/ FindStranded
  BY <1>0, <1>6, BeginSweepRefusal, FindStrandedRefusal, Zenon
<1>7. CASE DeleteDraft \/ DeleteExpiredDraft
  BY <1>0, <1>7, DeleteDraftRefusal, Zenon DEF DeleteExpiredDraft
<1>8. ASSUME NEW p \in Policies, RequestOverdue(p) PROVE RefusalInv'
  BY <1>0, <1>8, ClockRefusal, Zenon
<1>9. ASSUME \/ DraftOverdue
             \/ \E p \in Policies, l \in SUBSET Users, n \in 1..MaxNeeded : EditPolicy(p, l, n)
             \/ \E u \in Users : MembershipChange(u)
             \/ UNCHANGED vars
      PROVE RefusalInv'
  <2>1. /\ UNCHANGED <<request, op, draft.state, draft.approval, draft.taken, draft.locked>>
    BY <1>9, ZenonT(30)
    DEF DraftOverdue, EditPolicy, MembershipChange, vars, RefusalInv, ClearedInv, Shape
  <2> QED
    BY <1>0, <2>1, Zenon
    DEF RefusalInv, PendingHasRequest, RefusedBacked, WritesBacked, ResolvesSettled, NoRemoval,
       ReleasesRefused, HoldsLocks, Present, At, Cleared, Refusals, Bare, HasRequest,
       SomeRefused
<1> QED
  BY <1>1, <1>2, <1>3, <1>4, <1>5, <1>6, <1>7, <1>8, <1>9, Sweep \in Slots, Zenon DEF Next, Slots

(* A step never takes a refused draft out of its refusal. *)
LEMMA RefusalKept ==
  ASSUME RefusalInv, [Next]_vars, Present, draft.approval \in Refusals
  PROVE draft'.approval \in Refusals
<1>1. ASSUME NEW T \in SUBSET Policies, NEW t \in BOOLEAN, CreateDraft(T, t) PROVE FALSE
  BY <1>1, ZenonT(30) DEF CreateDraft, Present
<1>2. ASSUME NEW s \in Slots, WriteApprovalStatus(s) PROVE draft'.approval \in Refusals
  BY <1>2, Zenon DEF WriteApprovalStatus, RefusalInv, RefusedBacked, WritesBacked, ClearedInv,
     ClearingSound, Settled, Bare, SomeRefused, HasRequest, Shape, At, Refusals, Cleared
<1>3. ASSUME NEW s \in Slots, NEW p \in Policies, OverrideNext(s, p) \/ ExpireNext(s, p)
      PROVE draft' = draft
  BY <1>3, Zenon DEF OverrideNext, ExpireNext, ResolveNext
<1>4. ASSUME NEW s \in Slots, Step(s), ~WriteApprovalStatus(s)
      PROVE draft'.approval = draft.approval
  BY <1>3, <1>4, ZenonT(30)
  DEF Step, EnsureEligibleToVote, GetDraftForAllowedVote, CreateApprovalVote,
     GetApprovalRequestAfterVote, CheckQuorum, ResolveRequest, ReadForOverride, LoopDone,
     DeriveRead, ReadDraft, ReleaseLocks, RemovePolicy, ArchiveDraft, RefusalInv, ClearedInv, Shape
<1>5. ASSUME \/ \E s \in Slots, p \in Policies, u \in Users, d \in Decisions :
                  GetPendingApprovalRequest(s, p, u, d)
             \/ \E s \in Slots : \/ Abandon(s) \/ BeginOverride(s) \/ BeginReject(s)
                                 \/ BroadcastGate(s)
                                 \/ \E p \in Policies : BeginDeletePolicy(s, p)
             \/ BeginSweep \/ FindStranded
             \/ \E p \in Policies : \/ CascadeDelete(p) \/ RequestOverdue(p)
                                    \/ \E l \in SUBSET Users, n \in 1..MaxNeeded : EditPolicy(p, l, n)
             \/ \E u \in Users : MembershipChange(u)
             \/ UNCHANGED vars
      PROVE draft' = draft
  BY <1>5, ZenonT(30)
  DEF GetPendingApprovalRequest, Abandon, BeginOverride, BeginReject, BroadcastGate,
     BeginDeletePolicy, BeginSweep, FindStranded, CascadeDelete, RequestOverdue, EditPolicy,
     MembershipChange, vars
<1>6. CASE DeleteDraft \/ DeleteExpiredDraft \/ DraftOverdue
  BY <1>6, ZenonT(30) DEF DeleteDraft, DeleteExpiredDraft, DraftOverdue, GoneDraft, RefusalInv,
     ClearedInv, Shape
<1> QED
  BY <1>1, <1>2, <1>4, <1>5, <1>6, Zenon DEF Next

(* As long as no policy is deleted, a refused draft is never cleared again:
   no vote, override or sweep that read it earlier can revive it. *)
THEOREM RefusalTerminalHolds == ASSUME NoDeletion PROVE Spec => RefusalTerminal
<1>1. RefusalInv /\ [Next]_vars => RefusalInv'
  BY RefusalStep, Zenon
<1>2. RefusalInv /\ [Next]_vars =>
        [Present /\ draft.approval \in Refusals => draft'.approval \in Refusals]_vars
  BY RefusalKept, Zenon
<1> QED
  BY <1>1, <1>2, RefusalInit, PTL DEF Spec, RefusalTerminal

(* As long as no policy is deleted, no refusal releases the locks of a draft
   that is or becomes cleared: one that can still be broadcast has the locks
   it took when it was created, if it took any. *)
THEOREM ClearedKeepsLocksHolds == ASSUME NoDeletion PROVE Spec => []ClearedKeepsLocks
<1>1. RefusalInv /\ [Next]_vars => RefusalInv'
  BY RefusalStep, Zenon
<1>2. RefusalInv => ClearedKeepsLocks
  BY Zenon DEF RefusalInv, HoldsLocks, ClearedKeepsLocks, Cleared, Refusals
<1> QED
  BY <1>1, <1>2, RefusalInit, PTL DEF Spec
-----------------------------------------------------------------------------
(* The quorum of a request, and what the voters of it make of its votes.   *)

\* The rows have the fields the quorum reads.
RowTypes ==
  /\ edits \in Nat /\ crashes \in Nat /\ approvers \subseteq Users
  /\ DOMAIN policy = Policies
  /\ \A p \in Policies : /\ {"live", "listed", "needed"} \subseteq DOMAIN policy[p]
                         /\ policy[p].listed \subseteq Users /\ policy[p].needed \in Nat
                         /\ "required" \in DOMAIN request[p] /\ request[p].required \in Nat
                         /\ DOMAIN request[p].votes = Users

Casting == {"eligible", "draft", "vote"}
Counting == {"reread", "quorum", "resolve"}
Removing == {"remove", "removeAffecting"}

\* A call knows its request, and a voter resolves it one way or another.
VoterTypes(s) ==
  /\ op[s].pc \in Casting \cup Counting \cup Removing => op[s].req \in Policies
  /\ op[s].pc \in Casting => op[s].user \in Users /\ op[s].decision \in Decisions
  /\ op[s].pc = "quorum" => op[s].approve \subseteq Users
  /\ op[s].pc = "resolve" => op[s].status \in Refusals \cup {"approved"}

Approving(p) == Voted(request[p].votes, "approve")
Barred(p) == Voted(request[p].votes, "reject") # {} \/ Voted(request[p].votes, "veto") # {}
SelfBar(p) == IF p \in SelfAllowed THEN {} ELSE {Creator}

\* The recorded votes carry an approval of p.
Carried(p) ==
  /\ Kind[p] = "any_n" => Cardinality(Approving(p) \ SelfBar(p)) >= request[p].required
  /\ edits = 0 => QuorumMet(p, Approving(p))

\* The votes a call counts were cast, and so are those it approves a request on.
CountsReal(s) ==
  /\ op[s].pc = "quorum" /\ Has(op[s].req) => op[s].approve \subseteq Approving(op[s].req)
  /\ op[s].pc = "resolve" /\ op[s].status = "approved" /\ request[op[s].req].status = "pending"
       => Carried(op[s].req)

\* The call will take every vote on p into account.
WillCount(s, p) ==
  /\ op[s].pc \in Counting /\ op[s].req = p
  /\ op[s].pc = "quorum" => op[s].approve = Approving(p) /\ ~Barred(p)

\* Votes that settle an open request have a voter who will see them all.
Heard(p) ==
  crashes = 0 /\ edits = 0 /\ request[p].status = "pending" =>
    \/ ~Barred(p) /\ ~QuorumMet(p, Approving(p))
    \/ \E s \in Slots : WillCount(s, p)

Earned(p) ==
  request[p].status = "approved" => request[p].overridden = TRUE \/ Carried(p)

(* The inductive invariant behind ApprovedByQuorum and QuorumNotMissed. *)
VoteInv ==
  /\ ClearedInv /\ RowTypes
  /\ \A s \in Slots : VoterTypes(s) /\ CountsReal(s)
  /\ \A p \in Policies : Heard(p) /\ Earned(p)

-----------------------------------------------------------------------------
(* More votes never undo a quorum. *)
LEMMA QuorumGrows ==
  ASSUME NEW p \in Policies, NEW row, row.listed \subseteq Users, row.needed \in Nat,
         NEW required \in Nat, NEW eligible \in SUBSET Users,
         NEW A \in SUBSET Users, NEW B \in SUBSET Users, A \subseteq B,
         Quorum(p, row, required, eligible, A)
  PROVE Quorum(p, row, required, eligible, B)
<1>1. \A S, T : S \subseteq T /\ T \subseteq Users =>
        /\ Cardinality(S) \in Nat /\ Cardinality(T) \in Nat
        /\ Cardinality(S) <= Cardinality(T)
  BY FS_Subset, FS_CardinalityType, ApprovalsAssumption, Zenon DEF ApprovalsAssumption
<1>2. CASE Kind[p] = "any_n"
  <2>1. Cardinality(A \cap eligible) <= Cardinality(B \cap eligible)
        /\ Cardinality(A \cap eligible) \in Nat /\ Cardinality(B \cap eligible) \in Nat
    BY <1>1, Zenon
  <2> QED
    BY <1>2, <2>1, SMTT(30) DEF Quorum
<1>3. CASE Kind[p] = "all"
  BY <1>3, Zenon DEF Quorum
<1>4. CASE Kind[p] = "specific"
  <2> DEFINE listed == IF row.live THEN row.listed ELSE {}
             needed == IF row.live /\ row.needed >= 1 THEN row.needed ELSE required
             floor == IF needed < Cardinality(listed) THEN needed ELSE Cardinality(listed)
  <2>1. listed \subseteq Users /\ needed \in Nat
    OBVIOUS
  <2>2. floor \in Nat
    BY <1>1, <2>1, Zenon
  <2>3. /\ Cardinality(A \cap listed \cap eligible) <= Cardinality(B \cap listed \cap eligible)
        /\ Cardinality(A \cap listed \cap eligible) \in Nat
        /\ Cardinality(B \cap listed \cap eligible) \in Nat
    <3>1. A \cap listed \cap eligible \subseteq B \cap listed \cap eligible
      OBVIOUS
    <3>2. B \cap listed \cap eligible \subseteq Users
      OBVIOUS
    <3> HIDE DEF listed
    <3> QED  BY <1>1, <3>1, <3>2, Zenon
  <2>4. listed # {} /\ needed >= 1 /\ Cardinality(A \cap listed \cap eligible) >= floor
    BY <1>4, Zenon DEF Quorum
  <2>5. Cardinality(B \cap listed \cap eligible) >= floor
    <3> HIDE DEF floor, listed
    <3> QED  BY <2>2, <2>3, <2>4, SMTT(30)
  <2> QED
    BY <1>4, <2>4, <2>5, Zenon DEF Quorum
<1> QED
  BY <1>2, <1>3, <1>4, ApprovalsAssumption, Zenon DEF ApprovalsAssumption

(* No votes are no quorum, of any kind. *)
LEMMA NoVotesNoQuorum ==
  ASSUME NEW p \in Policies, NEW row, row.listed \subseteq Users, row.needed \in Nat,
         NEW required \in Nat, NEW eligible \in SUBSET Users
  PROVE ~Quorum(p, row, required, eligible, {})
<1>1. Cardinality({}) = 0 /\ \A S : S \subseteq Users /\ S # {} => Cardinality(S) \in Nat \ {0}
  BY FS_Subset, FS_CardinalityType, FS_EmptySet, ApprovalsAssumption, Zenon DEF ApprovalsAssumption
<1>2. {} \cap eligible = {} /\ \A S : {} \cap S \cap eligible = {}
  OBVIOUS
<1>3. CASE Kind[p] = "any_n"
  BY <1>1, <1>2, <1>3, SMTT(30) DEF Quorum
<1>4. CASE Kind[p] = "all"
  BY <1>4, Zenon DEF Quorum
<1>5. CASE Kind[p] = "specific"
  <2> DEFINE listed == IF row.live THEN row.listed ELSE {}
             needed == IF row.live /\ row.needed >= 1 THEN row.needed ELSE required
  <2>1. listed \subseteq Users /\ needed \in Nat
    OBVIOUS
  <2>2. SUFFICES ASSUME listed # {}, needed >= 1
                 PROVE ~(0 >= IF needed < Cardinality(listed) THEN needed ELSE Cardinality(listed))
    BY <1>1, <1>2, <1>5, Zenon DEF Quorum
  <2>3. Cardinality(listed) \in Nat \ {0}
    BY <1>1, <2>1, <2>2, Zenon
  <2> HIDE DEF listed, needed
  <2> QED  BY <2>1, <2>2, <2>3, SMTT(30)
<1> QED
  BY <1>3, <1>4, <1>5, ApprovalsAssumption, Zenon DEF ApprovalsAssumption

(* A quorum of an any_n policy is that many people who may approve. *)
LEMMA QuorumIsMany ==
  ASSUME NEW p \in Policies, Kind[p] = "any_n", NEW row, NEW required \in Nat,
         NEW live \in SUBSET Users,
         NEW A \in SUBSET Users, NEW B \in SUBSET Users, A \subseteq B,
         Quorum(p, row, required, IF p \in SelfAllowed THEN live ELSE live \ {Creator}, A)
  PROVE Cardinality(B \ SelfBar(p)) >= required
<1> DEFINE eligible == IF p \in SelfAllowed THEN live ELSE live \ {Creator}
<1>1. A \cap eligible \subseteq B \ SelfBar(p)
  BY Zenon DEF SelfBar
<1>2. B \ SelfBar(p) \subseteq Users
  OBVIOUS
<1>3. Cardinality(A \cap eligible) >= required
  BY Zenon DEF Quorum
<1> HIDE DEF eligible
<1>4. /\ IsFiniteSet(B \ SelfBar(p))
      /\ Cardinality(A \cap eligible) <= Cardinality(B \ SelfBar(p))
  BY <1>1, <1>2, FS_Subset, ApprovalsAssumption, Zenon DEF ApprovalsAssumption
<1>5. IsFiniteSet(A \cap eligible)
  BY <1>1, <1>4, FS_Subset, Zenon
<1> QED
  BY <1>3, <1>4, <1>5, FS_CardinalityType, SMTT(30)

\* A request's row is what it was, as far as the quorum goes, ...
Keeps(p) ==
  /\ request'[p].status = request[p].status /\ request'[p].votes = request[p].votes
  /\ request'[p].required = request[p].required
  /\ request'[p].overridden = request[p].overridden
  /\ policy'[p] = policy[p]

\* ... or it is no longer open, and not approved by votes.
Closes(p) ==
  /\ request'[p].status # "pending"
  /\ request'[p].status = "approved" => request'[p].overridden = TRUE
  /\ request'[p].status # "none" => Has(p) /\ request'[p].votes = request[p].votes

(* A step that casts and counts no vote, edits nothing and opens no request
   keeps the invariant, unless it cuts a voter short. *)
LEMMA VoteFrame ==
  ASSUME VoteInv, ClearedInv', RowTypes', approvers' = approvers, edits' = edits,
         crashes' = 0 => crashes = 0,
         \A p \in Policies : Keeps(p) \/ Closes(p),
         \A s \in Slots : \/ op'[s] = op[s]
                          \/ /\ op[s].pc \notin Counting \/ crashes' # 0
                             /\ op'[s].pc \notin Counting /\ VoterTypes(s)'
  PROVE VoteInv'
<1>1. ASSUME NEW s \in Slots PROVE VoterTypes(s)'
  BY Zenon DEF VoteInv, VoterTypes
<1>2. ASSUME NEW p \in Policies, Keeps(p)
      PROVE /\ Approving(p)' = Approving(p) /\ Barred(p)' = Barred(p)
            /\ Carried(p) => Carried(p)'
            /\ ~QuorumMet(p, Approving(p)) => ~QuorumMet(p, Approving(p))'
  BY <1>2, Zenon DEF Keeps, Carried, Barred, Approving, QuorumMet, EligibleApprovers, Voted
<1>3. ASSUME NEW s \in Slots PROVE CountsReal(s)'
  <2>1. CASE op'[s].pc \notin {"quorum", "resolve"}
    BY <2>1, Zenon DEF CountsReal
  <2>2. CASE op'[s].pc \in {"quorum", "resolve"}
    <3>1. op'[s] = op[s] /\ op[s].req \in Policies
      BY <2>2, Zenon DEF VoteInv, VoterTypes, Counting
    <3> DEFINE p == op[s].req
    <3>2. PICK q \in Policies : q = p
      BY <3>1, Zenon
    <3>3. CountsReal(s) /\ op'[s].req = q /\ op[s].req = q
      BY <3>1, <3>2, Zenon DEF VoteInv
    <3>4. CASE Keeps(q)
      BY <1>2, <3>1, <3>3, <3>4, Zenon DEF CountsReal, Keeps, Has
    <3>5. CASE Closes(q)
      BY <3>1, <3>3, <3>5, ZenonT(40) DEF CountsReal, Closes, Has, Approving, Voted
    <3> QED  BY <3>4, <3>5, Zenon
  <2> QED  BY <2>1, <2>2, Zenon
<1>4. ASSUME NEW p \in Policies PROVE Heard(p)'
  <2> SUFFICES ASSUME crashes' = 0, edits' = 0, request'[p].status = "pending"
               PROVE \/ ~Barred(p)' /\ ~QuorumMet(p, Approving(p))'
                     \/ \E s \in Slots : WillCount(s, p)'
    BY Zenon DEF Heard
  <2>1. Keeps(p) /\ crashes = 0 /\ edits = 0 /\ request[p].status = "pending"
    BY Zenon DEF Closes, Keeps
  <2>2. CASE ~Barred(p) /\ ~QuorumMet(p, Approving(p))
    BY <1>2, <2>1, <2>2, Zenon
  <2>3. ASSUME NEW s \in Slots, WillCount(s, p) PROVE WillCount(s, p)'
    BY <1>2, <2>1, <2>3, Zenon DEF WillCount
  <2> QED  BY <2>1, <2>2, <2>3, Zenon DEF VoteInv, Heard
<1>5. ASSUME NEW p \in Policies PROVE Earned(p)'
  <2>1. CASE Keeps(p)
    BY <1>2, <2>1, ZenonT(30) DEF VoteInv, Earned, Keeps
  <2>2. CASE Closes(p)
    BY <2>2, Zenon DEF Earned, Closes
  <2> QED  BY <2>1, <2>2, Zenon
<1> QED
  BY <1>1, <1>3, <1>4, <1>5, Zenon DEF VoteInv

(* A step that changes no row the quorum reads keeps it. *)
LEMMA VoteQuiet ==
  ASSUME VoteInv, ClearedInv', UNCHANGED <<policy, request, approvers, edits, crashes>>,
         \A s \in Slots : \/ op'[s] = op[s]
                          \/ /\ op[s].pc \notin Counting
                             /\ op'[s].pc \notin Counting /\ VoterTypes(s)'
  PROVE VoteInv'
<1>1. RowTypes'
  BY Zenon DEF VoteInv, RowTypes
<1>2. \A p \in Policies : Keeps(p)
  BY Zenon DEF Keeps
<1> QED
  BY <1>1, <1>2, VoteFrame, Zenon

(* The checks before a vote is recorded. *)
LEMMA ChecksVotes ==
  ASSUME VoteInv, ClearedInv', NEW s \in Slots, EnsureEligibleToVote(s) \/ GetDraftForAllowedVote(s)
  PROVE VoteInv'
<1>1. UNCHANGED <<policy, request, approvers, edits, crashes>>
  BY Zenon DEF EnsureEligibleToVote, GetDraftForAllowedVote
<1>2. op[s].pc \in Casting /\ VoterTypes(s)
  BY Zenon DEF EnsureEligibleToVote, GetDraftForAllowedVote, At, Casting, VoteInv
<1>3. \/ op' = [op EXCEPT ![s] = Idle]
      \/ \E c \in {"draft", "vote"} :
           op' = [op EXCEPT ![s] = [pc |-> c, req |-> op[s].req, user |-> op[s].user,
                                    decision |-> op[s].decision]]
  BY Zenon DEF EnsureEligibleToVote, GetDraftForAllowedVote, Go, Done
<1>4. DOMAIN op = Slots
  BY Zenon DEF VoteInv, ClearedInv, Shape
<1>5. op'[s].pc \notin Counting /\ VoterTypes(s)'
  BY <1>2, <1>3, <1>4, SMTT(30) DEF VoterTypes, Casting, Counting, Removing, Idle
<1> QED
  BY <1>1, <1>2, <1>3, <1>4, <1>5, VoteQuiet, Zenon DEF Casting, Counting

\* A call that is no voter goes on, or starts, or ends.
Elsewhere(s) ==
  /\ op[s].pc \notin Counting
  /\ \E o : op' = [op EXCEPT ![s] = o] /\ o.pc \notin Casting \cup Counting
         /\ (o.pc \in Removing => o.req \in Policies)
  /\ UNCHANGED <<policy, request, approvers, edits, crashes>>

(* Such a step keeps it. *)
LEMMA ElsewhereVotes ==
  ASSUME VoteInv, ClearedInv', NEW s \in Slots, Elsewhere(s)
  PROVE VoteInv'
<1>1. DOMAIN op = Slots
  BY Zenon DEF VoteInv, ClearedInv, Shape
<1>2. /\ op'[s].pc \notin Casting \cup Counting
      /\ op'[s].pc \in Removing => op'[s].req \in Policies
      /\ \A t \in Slots \ {s} : op'[t] = op[t]
  BY <1>1, Zenon DEF Elsewhere
<1>3. VoterTypes(s)'
  BY <1>2, Zenon DEF VoterTypes, Casting, Counting
<1> QED
  BY <1>2, <1>3, VoteQuiet, Zenon DEF Elsewhere

(* The override, the expiry, the derive, the gate and the sweep are no voters. *)
LEMMA OthersElsewhere ==
  ASSUME NEW s \in Slots,
         \/ ReadForOverride(s) \/ LoopDone(s) \/ DeriveRead(s) \/ ReadDraft(s)
         \/ WriteApprovalStatus(s) \/ ReleaseLocks(s) \/ ArchiveDraft(s)
         \/ BeginOverride(s) \/ BeginReject(s) \/ BroadcastGate(s)
         \/ \E p \in Policies : BeginDeletePolicy(s, p)
         \/ s = Sweep /\ (BeginSweep \/ FindStranded)
  PROVE Elsewhere(s)
<1> USE DEF Elsewhere, Go, Done, Start, At, Idle, Casting, Counting, Removing
<1>1. CASE ReadForOverride(s)
  BY <1>1, Zenon DEF ReadForOverride
<1>2. CASE LoopDone(s)
  <2> DEFINE o == IF op[s].won THEN [pc |-> "derive"]
                  ELSE IF op[s].pc = "override" THEN Idle ELSE AfterExpiry(s)
  <2>1. o.pc \in {"derive", "idle", "stranded"}
    BY Zenon DEF AfterExpiry
  <2>2. op' = [op EXCEPT ![s] = o] /\ op[s].pc \in {"override", "expire"}
        /\ UNCHANGED <<policy, request, approvers, edits, crashes>>
    BY <1>2, Zenon DEF LoopDone
  <2> HIDE DEF o
  <2> QED  BY <2>1, <2>2, ZenonT(30)
<1>3. CASE DeriveRead(s)
  BY <1>3, Zenon DEF DeriveRead
<1>4. CASE ReadDraft(s)
  BY <1>4, Zenon DEF ReadDraft
<1>5. CASE WriteApprovalStatus(s)
  BY <1>5, Zenon DEF WriteApprovalStatus
<1>6. CASE ReleaseLocks(s) \/ ArchiveDraft(s)
  BY <1>6, Zenon DEF ReleaseLocks, ArchiveDraft
<1>7. CASE BeginOverride(s) \/ BeginReject(s) \/ BroadcastGate(s)
  BY <1>7, SMTT(30) DEF BeginOverride, BeginReject, BroadcastGate
<1>8. ASSUME NEW p \in Policies, BeginDeletePolicy(s, p) PROVE Elsewhere(s)
  <2> DEFINE c == IF Present /\ draft.approval = "pending" /\ Has(p) THEN "removeAffecting"
                  ELSE "remove"
  <2>1. c \in {"remove", "removeAffecting"}
    BY Zenon
  <2>2. op' = [op EXCEPT ![s] = [pc |-> c, req |-> p]] /\ op[s] = Idle
        /\ UNCHANGED <<policy, request, approvers, edits, crashes>>
    BY <1>8, ZenonT(30) DEF BeginDeletePolicy
  <2>3. \E o : /\ op' = [op EXCEPT ![s] = o] /\ o.pc \notin Casting \cup Counting
               /\ o.pc \in Removing => o.req \in Policies
    <3> HIDE DEF c
    <3>1. PICK n : n = [pc |-> c, req |-> p]
      BY Zenon
    <3>2. n.pc = c /\ n.req = p
      BY <3>1, Zenon
    <3>3. n.pc \notin Casting \cup Counting
      BY <2>1, <3>2, Zenon
    <3> QED  BY <2>2, <3>1, <3>2, <3>3, Zenon
  <2>4. op[s].pc \notin Counting /\ UNCHANGED <<policy, request, approvers, edits, crashes>>
    BY <2>2, SMTT(30)
  <2> HIDE DEF Casting, Counting, Removing
  <2> QED  BY <2>3, <2>4, ZenonT(30)
<1>9. CASE s = Sweep /\ BeginSweep
  <2> DEFINE overdue == {p \in Policies : request[p].status = "pending" /\ request[p].overdue}
             o == IF overdue = {} THEN [pc |-> "stranded"]
                  ELSE [pc |-> "expire", todo |-> overdue, won |-> FALSE]
  <2>1. o.pc \in {"stranded", "expire"}
    BY Zenon
  <2>2. op' = [op EXCEPT ![s] = o] /\ op[s] = Idle
        /\ UNCHANGED <<policy, request, approvers, edits, crashes>>
    BY <1>9, Zenon DEF BeginSweep
  <2>3. \E x : /\ op' = [op EXCEPT ![s] = x] /\ x.pc \notin Casting \cup Counting
               /\ x.pc \in Removing => x.req \in Policies
    <3>1. o.pc \notin Casting \cup Counting \cup Removing
      <4> HIDE DEF o
      <4> QED  BY <2>1, Zenon
    <3> HIDE DEF o
    <3> QED  BY <2>2, <3>1, Zenon
  <2>4. op[s].pc \notin Counting /\ UNCHANGED <<policy, request, approvers, edits, crashes>>
    BY <2>2, SMTT(30)
  <2> HIDE DEF Casting, Counting, Removing
  <2> QED  BY <2>3, <2>4, ZenonT(30)
<1>10. CASE s = Sweep /\ FindStranded
  BY <1>10, ZenonT(30) DEF FindStranded
<1> QED
  BY <1>1, <1>2, <1>3, <1>4, <1>5, <1>6, <1>7, <1>8, <1>9, <1>10, Zenon

(* Starting a vote. *)
LEMMA StartVotes ==
  ASSUME VoteInv, ClearedInv', NEW s \in Slots, NEW p \in Policies, NEW u \in Users,
         NEW d \in Decisions, GetPendingApprovalRequest(s, p, u, d)
  PROVE VoteInv'
<1>1. UNCHANGED <<policy, request, approvers, edits, crashes>> /\ op[s].pc = "idle"
  BY SMTT(30) DEF GetPendingApprovalRequest, Start, Idle
<1>2. \/ op' = [op EXCEPT ![s] = [pc |-> "expire", todo |-> {p}, won |-> FALSE]]
      \/ op' = [op EXCEPT ![s] = [pc |-> "eligible", req |-> p, user |-> u, decision |-> d]]
  BY ZenonT(30) DEF GetPendingApprovalRequest, Start
<1>3. DOMAIN op = Slots
  BY Zenon DEF VoteInv, ClearedInv, Shape
<1>4. op'[s].pc \in {"expire", "eligible"} /\ VoterTypes(s)'
  BY <1>2, <1>3, SMTT(30) DEF VoterTypes, Casting, Counting, Removing
<1> QED
  BY <1>1, <1>2, <1>3, <1>4, VoteQuiet, Zenon DEF Counting

(* One turn of the override or expiry loop closes a request without votes. *)
LEMMA LoopVotes ==
  ASSUME VoteInv, ClearedInv', NEW s \in Slots, NEW p \in Policies,
         OverrideNext(s, p) \/ ExpireNext(s, p)
  PROVE VoteInv'
<1>1. PICK pc \in {"override", "expire"}, status \in {"approved", "expired"} :
        ResolveNext(s, pc, status, p) /\ (status = "approved" => pc = "override")
  BY Zenon DEF OverrideNext, ExpireNext
<1>2. Shape
  BY Zenon DEF VoteInv, ClearedInv
<1>3. UNCHANGED <<policy, approvers, edits, crashes>> /\ op[s].pc = pc
  BY <1>1, Zenon DEF ResolveNext, At
<1>4. /\ op'[s].pc = pc
      /\ \A t \in Slots \ {s} : op'[t] = op[t]
  BY <1>1, <1>2, Zenon DEF ResolveNext, Go, Shape
<1>5. VoterTypes(s)'
  BY <1>4, Zenon DEF VoterTypes, Casting, Counting, Removing
<1>6. CASE request[p].status # "pending"
  <2>1. UNCHANGED request
    BY <1>1, <1>6, Zenon DEF ResolveNext
  <2> QED
    BY <1>3, <1>4, <1>5, <2>1, VoteQuiet, Zenon DEF Counting
<1>7. CASE request[p].status = "pending"
  <2>1. request' = [request EXCEPT ![p].status = status, ![p].overridden = (pc = "override")]
    BY <1>1, <1>7, Zenon DEF ResolveNext
  <2>2. \A q \in Policies \ {p} : request'[q] = request[q]
    BY <1>2, <2>1, Zenon DEF Shape
  <2>3. /\ request'[p].status = status /\ request'[p].votes = request[p].votes
        /\ request'[p].required = request[p].required
        /\ DOMAIN request'[p] = DOMAIN request[p]
    BY <1>2, <2>1, Zenon DEF Shape, VoteInv, RowTypes
  <2>4. request'[p].overridden = (pc = "override")
    BY <1>2, <2>1, Zenon DEF Shape
  <2>5. status = "approved" => request'[p].overridden = TRUE
    BY <1>1, <2>4, ZenonT(30)
  <2>6. Closes(p)
    BY <1>7, <2>3, <2>5, Zenon DEF Closes, Has
  <2>7. \A q \in Policies \ {p} : Keeps(q)
    BY <1>3, <2>2, Zenon DEF Keeps
  <2>8. RowTypes'
    BY <1>3, <2>2, <2>3, ZenonT(40) DEF VoteInv, RowTypes
  <2> QED
    BY <1>3, <1>4, <1>5, <2>6, <2>7, <2>8, VoteFrame, Zenon DEF Counting
<1> QED
  BY <1>6, <1>7, Zenon

(* A policy that is deleted takes its request along. *)
LEMMA DeletedVotes ==
  ASSUME VoteInv, ClearedInv', NEW p \in Policies, Deleted(p),
         UNCHANGED <<approvers, edits, crashes>>,
         \A s \in Slots : \/ op'[s] = op[s]
                          \/ /\ op[s].pc \notin Counting
                             /\ op'[s].pc \notin Counting /\ VoterTypes(s)'
  PROVE VoteInv'
<1>1. Shape /\ DOMAIN policy = Policies
  BY Zenon DEF VoteInv, ClearedInv, RowTypes
<1>2. \A q \in Policies \ {p} : request'[q] = request[q] /\ policy'[q] = policy[q]
  BY <1>1, Zenon DEF Deleted, Shape
<1>3. request'[p] = NoRequest
  BY <1>1, Zenon DEF Deleted, Shape
<1>4. /\ policy'[p].listed = policy[p].listed /\ policy'[p].needed = policy[p].needed
      /\ DOMAIN policy'[p] = DOMAIN policy[p] /\ DOMAIN policy' = Policies
  BY <1>1, Zenon DEF Deleted, VoteInv, RowTypes
<1>5. Closes(p)
  BY <1>3, SMTT(30) DEF Closes, NoRequest
<1>6. \A q \in Policies \ {p} : Keeps(q)
  BY <1>2, Zenon DEF Keeps
<1>7. /\ "required" \in DOMAIN request'[p] /\ request'[p].required \in Nat
      /\ DOMAIN request'[p].votes = Users
  BY <1>3, SMTT(30) DEF NoRequest, NoVotes
<1>8. RowTypes'
  BY <1>2, <1>4, <1>7, Zenon DEF VoteInv, RowTypes
<1> QED
  BY <1>5, <1>6, <1>8, VoteFrame, Zenon

(* deletePolicy and the cascade of a group delete. *)
LEMMA RemovalVotes ==
  ASSUME VoteInv, ClearedInv',
         (\E s \in Slots : RemovePolicy(s)) \/ \E p \in Policies : CascadeDelete(p)
  PROVE VoteInv'
<1>1. ASSUME NEW p \in Policies, CascadeDelete(p) PROVE VoteInv'
  <2>1. Deleted(p) /\ UNCHANGED <<approvers, op, edits, crashes>>
    BY <1>1, Zenon DEF CascadeDelete
  <2> QED  BY <2>1, DeletedVotes, Zenon
<1>2. ASSUME NEW s \in Slots, RemovePolicy(s) PROVE VoteInv'
  <2>1. /\ op[s].pc \notin Counting /\ UNCHANGED <<approvers, edits, crashes>>
    BY <1>2, Zenon DEF RemovePolicy, Counting
  <2>2. \/ op' = [op EXCEPT ![s] = [pc |-> "derive"]]
        \/ op' = [op EXCEPT ![s] = Idle]
    BY <1>2, Zenon DEF RemovePolicy, Go, Done
  <2>3. /\ op'[s].pc \notin Casting \cup Counting \cup Removing
        /\ \A t \in Slots \ {s} : op'[t] = op[t]
    BY <2>2, SMTT(30) DEF VoteInv, ClearedInv, Shape, Idle, Casting, Counting, Removing
  <2>4. VoterTypes(s)'
    BY <2>3, Zenon DEF VoterTypes, Casting, Counting
  <2>5. CASE UNCHANGED <<policy, request>>
    BY <2>1, <2>3, <2>4, <2>5, VoteQuiet, Zenon
  <2>6. CASE policy[op[s].req].live
    <3>1. Deleted(op[s].req)
      BY <1>2, <2>6, Zenon DEF RemovePolicy
    <3>2. op[s].req \in Policies
      BY <1>2, Zenon DEF RemovePolicy, VoteInv, VoterTypes, Removing
    <3>3. PICK p \in Policies : p = op[s].req
      BY <3>2, Zenon
    <3>4. Deleted(p)
      BY <3>1, <3>3, Zenon
    <3> QED  BY <2>1, <2>3, <2>4, <3>4, DeletedVotes, Zenon
  <2> QED
    BY <1>2, <2>5, <2>6, Zenon DEF RemovePolicy
<1> QED
  BY <1>1, <1>2, Zenon

(* Deleting the draft ends every request on it. *)
LEMMA DeleteVotes ==
  ASSUME VoteInv, ClearedInv', DeleteDraft
  PROVE VoteInv'
<1>1. UNCHANGED <<policy, approvers, op, edits, crashes>> /\ request' = NoRequests
  BY Zenon DEF DeleteDraft
<1>2. \A p \in Policies : request'[p] = NoRequest
  BY <1>1, Zenon DEF NoRequests
<1>3. \A p \in Policies : Closes(p)
  BY <1>2, SMTT(30) DEF Closes, NoRequest
<1>4. \A p \in Policies : /\ "required" \in DOMAIN request'[p] /\ request'[p].required \in Nat
                          /\ DOMAIN request'[p].votes = Users
  BY <1>2, SMTT(30) DEF NoRequest, NoVotes
<1>5. RowTypes'
  BY <1>1, <1>4, Zenon DEF VoteInv, RowTypes
<1> QED
  BY <1>1, <1>3, <1>5, VoteFrame, Zenon

(* A call cut short: the promise about voters is off. *)
LEMMA AbandonVotes ==
  ASSUME VoteInv, ClearedInv', NEW s \in Slots, Abandon(s)
  PROVE VoteInv'
<1>1. /\ UNCHANGED <<policy, request, approvers, edits>> /\ crashes' = crashes + 1
      /\ op' = [op EXCEPT ![s] = Idle] /\ crashes \in Nat /\ DOMAIN op = Slots
  BY Zenon DEF Abandon, Done, Go, VoteInv, RowTypes, ClearedInv, Shape
<1>2. /\ op'[s].pc \notin Casting \cup Counting \cup Removing
      /\ \A t \in Slots \ {s} : op'[t] = op[t]
  BY <1>1, Zenon DEF Idle, Casting, Counting, Removing
<1>3. VoterTypes(s)'
  BY <1>2, Zenon DEF VoterTypes, Casting, Counting
<1>4. crashes' # 0 /\ RowTypes'
  BY <1>1, SMTT(30) DEF VoteInv, RowTypes
<1>5. \A p \in Policies : Keeps(p)
  BY <1>1, Zenon DEF Keeps
<1> QED
  BY <1>1, <1>2, <1>3, <1>4, <1>5, VoteFrame, Zenon

(* The clocks. *)
LEMMA ClockVotes ==
  ASSUME VoteInv, ClearedInv', DraftOverdue \/ \E p \in Policies : RequestOverdue(p)
  PROVE VoteInv'
<1>1. CASE DraftOverdue
  BY <1>1, VoteQuiet, Zenon DEF DraftOverdue
<1>2. ASSUME NEW p \in Policies, RequestOverdue(p) PROVE VoteInv'
  <2>1. /\ UNCHANGED <<policy, approvers, op, edits, crashes>>
        /\ request' = [request EXCEPT ![p].overdue = TRUE]
    BY <1>2, Zenon DEF RequestOverdue
  <2>2. \A q \in Policies : /\ request'[q].status = request[q].status
                            /\ request'[q].votes = request[q].votes
                            /\ request'[q].required = request[q].required
                            /\ request'[q].overridden = request[q].overridden
                            /\ DOMAIN request'[q] = DOMAIN request[q]
    BY <2>1, Zenon DEF VoteInv, RowTypes, ClearedInv, Shape
  <2>3. RowTypes'
    BY <2>1, <2>2, Zenon DEF VoteInv, RowTypes
  <2>4. \A q \in Policies : Keeps(q)
    BY <2>1, <2>2, Zenon DEF Keeps
  <2> QED
    BY <2>1, <2>3, <2>4, VoteFrame, Zenon
<1> QED
  BY <1>1, <1>2, Zenon

(* Approving votes that only grow still carry what they carried. *)
LEMMA CarriedGrows ==
  ASSUME RowTypes, NEW p \in Policies, Approving(p) \subseteq Approving(p)', policy'[p] = policy[p],
         request'[p].required = request[p].required, approvers' = approvers, edits' = edits,
         Carried(p)
  PROVE Carried(p)'
<1>1. PICK A \in SUBSET Users, B \in SUBSET Users : A = Approving(p) /\ B = Approving(p)'
  BY ZenonT(30) DEF Approving, Voted
<1>2. PICK eligible \in SUBSET Users : eligible = EligibleApprovers(p)
  BY ZenonT(30) DEF RowTypes, EligibleApprovers
<1>3. EligibleApprovers(p)' = eligible
  BY <1>2, Zenon DEF EligibleApprovers
<1>4. /\ policy[p].listed \subseteq Users /\ policy[p].needed \in Nat /\ request[p].required \in Nat
  BY Zenon DEF RowTypes
<1>5. ASSUME Kind[p] = "any_n"
      PROVE Cardinality(B \ SelfBar(p)) >= request'[p].required
  <2>1. A \ SelfBar(p) \subseteq B \ SelfBar(p) /\ B \ SelfBar(p) \subseteq Users
    BY <1>1, Zenon
  <2>2. /\ IsFiniteSet(B \ SelfBar(p))
        /\ Cardinality(A \ SelfBar(p)) <= Cardinality(B \ SelfBar(p))
    BY <2>1, FS_Subset, ApprovalsAssumption, Zenon DEF ApprovalsAssumption
  <2>3. IsFiniteSet(A \ SelfBar(p))
    BY <2>1, <2>2, FS_Subset, Zenon
  <2>4. Cardinality(A \ SelfBar(p)) >= request[p].required
    BY <1>1, <1>5, Zenon DEF Carried
  <2> QED
    BY <1>4, <2>2, <2>3, <2>4, FS_CardinalityType, SMTT(30)
<1>6. ASSUME edits' = 0
      PROVE Quorum(p, policy'[p], request'[p].required, eligible, B)
  <2>1. Quorum(p, policy[p], request[p].required, eligible, A)
    BY <1>1, <1>2, <1>6, Zenon DEF Carried, QuorumMet
  <2> QED
    BY <1>1, <1>4, <2>1, QuorumGrows, Zenon
<1> QED
  BY <1>1, <1>3, <1>5, <1>6, Zenon DEF Carried, QuorumMet, SelfBar

\* Only the call s moves, and nothing is edited or cut short.
Moves(s) ==
  /\ UNCHANGED <<policy, approvers, edits, crashes>>
  /\ \A t \in Slots \ {s} : op'[t] = op[t]

(* A request that stands, and that the call did not speak for, stays heard. *)
LEMMA StaysHeard ==
  ASSUME VoteInv, NEW s \in Slots, Moves(s), NEW p \in Policies, Keeps(p),
         op[s].pc \notin Counting \/ op[s].req # p
  PROVE Heard(p)'
<1>1. /\ Approving(p)' = Approving(p) /\ Barred(p)' = Barred(p)
      /\ ~QuorumMet(p, Approving(p)) => ~QuorumMet(p, Approving(p))'
  BY Zenon DEF Moves, Keeps, Barred, Approving, QuorumMet, EligibleApprovers, Voted
<1>2. ASSUME NEW t \in Slots, WillCount(t, p) PROVE WillCount(t, p)'
  BY <1>1, <1>2, SMTT(30) DEF WillCount, Moves
<1> QED
  BY <1>1, <1>2, ZenonT(30) DEF VoteInv, Heard, Keeps, Moves

\* Votes are only ever added to a request, and it is not reopened.
Grows(p) ==
  /\ Approving(p) \subseteq Approving(p)'
  /\ request'[p].required = request[p].required
  /\ request'[p].status = "pending" => request[p].status = "pending"
  /\ request'[p].status # "none" => Has(p)

(* What another call counted still stands. *)
LEMMA StaysReal ==
  ASSUME VoteInv, NEW s \in Slots, Moves(s), \A p \in Policies : Grows(p), NEW t \in Slots \ {s}
  PROVE VoterTypes(t)' /\ CountsReal(t)'
<1>1. op'[t] = op[t] /\ VoterTypes(t) /\ CountsReal(t) /\ RowTypes
  BY Zenon DEF Moves, VoteInv
<1>2. VoterTypes(t)'
  BY <1>1, Zenon DEF VoterTypes
<1>3. CASE op[t].pc \notin {"quorum", "resolve"}
  BY <1>1, <1>2, <1>3, Zenon DEF CountsReal
<1>4. CASE op[t].pc \in {"quorum", "resolve"}
  <2>1. op[t].req \in Policies
    BY <1>1, <1>4, Zenon DEF VoterTypes, Counting
  <2>2. PICK p \in Policies : p = op[t].req /\ p = op'[t].req
    BY <1>1, <2>1, Zenon
  <2>3. Grows(p) /\ (Carried(p) => Carried(p)')
    BY <1>1, CarriedGrows, Zenon DEF Grows, Moves
  <2>4. CASE op[t].pc = "quorum"
    BY <1>1, <1>2, <2>2, <2>3, <2>4, ZenonT(30) DEF CountsReal, Grows, Has
  <2>5. CASE op[t].pc = "resolve"
    BY <1>1, <1>2, <2>2, <2>3, <2>5, Zenon DEF CountsReal, Grows, Has
  <2> QED  BY <1>4, <2>4, <2>5, Zenon
<1> QED  BY <1>3, <1>4, Zenon

(* createApprovalVote. *)
LEMMA CastVotes ==
  ASSUME VoteInv, ClearedInv', NEW s \in Slots, CreateApprovalVote(s)
  PROVE VoteInv'
<1>1. PICK p \in Policies, u \in Users, d \in Decisions :
        p = op[s].req /\ u = op[s].user /\ d = op[s].decision
  BY Zenon DEF CreateApprovalVote, At, VoteInv, VoterTypes, Casting
<1>2. Shape /\ RowTypes /\ op[s].pc = "vote"
  BY Zenon DEF CreateApprovalVote, At, VoteInv, ClearedInv
<1>3. CASE ~(Has(p) /\ request[p].votes[u] = "none")
  <2>1. UNCHANGED <<policy, request, approvers, edits, crashes>> /\ op' = [op EXCEPT ![s] = Idle]
    BY <1>1, <1>3, Zenon DEF CreateApprovalVote, Done, Go
  <2>2. Elsewhere(s)
    <3>1. Idle.pc \notin Casting \cup Counting \cup Removing
      BY Zenon DEF Idle, Casting, Counting, Removing
    <3>2. op[s].pc \notin Counting
      BY <1>2, Zenon DEF Counting
    <3> QED  BY <2>1, <3>1, <3>2, ZenonT(30) DEF Elsewhere
  <2> QED  BY <2>2, ElsewhereVotes, Zenon
<1>4. CASE Has(p) /\ request[p].votes[u] = "none"
  <2>1. /\ request' = [request EXCEPT ![p].votes[u] = d]
        /\ op' = [op EXCEPT ![s] = [pc |-> "reread", req |-> p]]
        /\ UNCHANGED <<policy, approvers, edits, crashes>>
    BY <1>1, <1>4, Zenon DEF CreateApprovalVote, Go
  <2>2. /\ op'[s] = [pc |-> "reread", req |-> p]
        /\ \A t \in Slots \ {s} : op'[t] = op[t]
    BY <1>2, <2>1, Zenon DEF Shape
  <2>3. Moves(s)
    BY <2>1, <2>2, Zenon DEF Moves
  <2>4. \A q \in Policies \ {p} : request'[q] = request[q]
    BY <1>2, <2>1, Zenon DEF Shape
  <2>5. /\ request'[p].status = request[p].status /\ request'[p].required = request[p].required
        /\ request'[p].overridden = request[p].overridden
        /\ request'[p].votes = [request[p].votes EXCEPT ![u] = d]
        /\ DOMAIN request'[p] = DOMAIN request[p]
    BY <1>2, <2>1, Zenon DEF Shape, RowTypes
  <2>6. \A v \in Users : request[p].votes[v] = "approve" => request'[p].votes[v] = "approve"
    BY <1>2, <1>4, <2>5, Zenon DEF RowTypes
  <2>7. Grows(p)
    BY <1>4, <2>5, <2>6, Zenon DEF Grows, Approving, Voted
  <2>8. \A q \in Policies \ {p} : Keeps(q) /\ Grows(q)
    BY <2>1, <2>4, Zenon DEF Keeps, Grows, Approving, Has
  <2>9. RowTypes'
    BY <1>2, <2>1, <2>4, <2>5, ZenonT(40) DEF RowTypes
  <2>10. \A t \in Slots \ {s} : VoterTypes(t)' /\ CountsReal(t)'
    BY <2>3, <2>7, <2>8, StaysReal, Zenon
  <2>11. VoterTypes(s)' /\ CountsReal(s)'
    BY <2>2, SMTT(30) DEF VoterTypes, CountsReal, Casting, Counting, Removing
  <2>12. ASSUME NEW q \in Policies PROVE Heard(q)'
    <3>1. CASE q = p
      <4>1. WillCount(s, p)'
        BY <2>2, SMTT(30) DEF WillCount, Counting
      <4> QED  BY <3>1, <4>1, Zenon DEF Heard
    <3>2. CASE q # p
      BY <1>2, <2>3, <2>8, <3>2, StaysHeard, Zenon DEF Counting
    <3> QED  BY <3>1, <3>2, Zenon
  <2>13. ASSUME NEW q \in Policies PROVE Earned(q)'
    <3>1. Carried(q) => Carried(q)'
      BY <1>2, <2>1, <2>7, <2>8, CarriedGrows, Zenon DEF Grows
    <3>2. request'[q].status = request[q].status /\ request'[q].overridden = request[q].overridden
      BY <2>4, <2>5, Zenon
    <3> QED  BY <3>1, <3>2, ZenonT(30) DEF VoteInv, Earned
  <2> QED
    BY <2>9, <2>10, <2>11, <2>12, <2>13, Zenon DEF VoteInv
<1> QED  BY <1>3, <1>4, Zenon

(* getApprovalRequestAfterVote: the voter now knows every vote there is. *)
LEMMA RereadVotes ==
  ASSUME VoteInv, ClearedInv', NEW s \in Slots, GetApprovalRequestAfterVote(s)
  PROVE VoteInv'
<1>1. PICK p \in Policies : p = op[s].req
  BY Zenon DEF GetApprovalRequestAfterVote, At, VoteInv, VoterTypes, Counting
<1>2. /\ UNCHANGED <<policy, request, approvers, edits, crashes>> /\ op[s].pc = "reread"
      /\ DOMAIN op = Slots
  BY Zenon DEF GetApprovalRequestAfterVote, At, VoteInv, ClearedInv, Shape
<1>3. PICK o : /\ op' = [op EXCEPT ![s] = o]
               /\ \/ ~Has(p) /\ o = Idle
                  \/ \E x \in {"rejected", "vetoed"} : o = [pc |-> "resolve", req |-> p, status |-> x]
                  \/ ~Barred(p) /\ o = [pc |-> "quorum", req |-> p, approve |-> Approving(p)]
  <2>1. CASE ~Has(p)
    BY <1>1, <2>1, Zenon DEF GetApprovalRequestAfterVote, Done, Go
  <2>2. CASE Has(p) /\ Voted(request[p].votes, "reject") # {}
    BY <1>1, <2>2, ZenonT(30) DEF GetApprovalRequestAfterVote, Go
  <2>3. CASE Has(p) /\ Voted(request[p].votes, "reject") = {} /\ Voted(request[p].votes, "veto") # {}
    BY <1>1, <2>3, ZenonT(30) DEF GetApprovalRequestAfterVote, Go
  <2>4. CASE Has(p) /\ Voted(request[p].votes, "reject") = {} /\ Voted(request[p].votes, "veto") = {}
    BY <1>1, <2>4, ZenonT(30) DEF GetApprovalRequestAfterVote, Go, Barred, Approving
  <2> QED  BY <2>1, <2>2, <2>3, <2>4, Zenon
<1>4. op'[s] = o /\ \A t \in Slots \ {s} : op'[t] = op[t]
  BY <1>2, <1>3, Zenon
<1>5. Moves(s) /\ RowTypes'
  BY <1>2, <1>4, ZenonT(30) DEF Moves, VoteInv, RowTypes
<1>6. \A q \in Policies : Keeps(q) /\ Grows(q) /\ Approving(q)' = Approving(q) /\ Barred(q)' = Barred(q)
  BY <1>2, Zenon DEF Keeps, Grows, Approving, Barred, Has
<1>7. \A t \in Slots \ {s} : VoterTypes(t)' /\ CountsReal(t)'
  BY <1>5, <1>6, StaysReal, Zenon
<1>8. VoterTypes(s)' /\ CountsReal(s)' /\ (Has(p) => WillCount(s, p)')
  <2>1. CASE o = Idle /\ ~Has(p)
    BY <1>4, <2>1, SMTT(30) DEF VoterTypes, CountsReal, Idle, Casting, Counting, Removing
  <2>2. ASSUME NEW x \in {"rejected", "vetoed"}, o = [pc |-> "resolve", req |-> p, status |-> x]
        PROVE VoterTypes(s)' /\ CountsReal(s)' /\ WillCount(s, p)'
    BY <1>4, <2>2, SMTT(30)
    DEF VoterTypes, CountsReal, WillCount, Casting, Counting, Removing, Refusals
  <2>3. CASE ~Barred(p) /\ o = [pc |-> "quorum", req |-> p, approve |-> Approving(p)]
    <3>1. op'[s].pc = "quorum" /\ op'[s].req = p /\ op'[s].approve = Approving(p)'
      BY <1>4, <1>6, <2>3, SMTT(30)
    <3>2. Approving(p)' \subseteq Users
      BY Zenon DEF Approving, Voted
    <3>3. ~Barred(p)'
      BY <1>6, <2>3, Zenon
    <3> QED
      BY <3>1, <3>2, <3>3, Zenon DEF VoterTypes, CountsReal, WillCount, Casting, Counting, Removing
  <2> QED  BY <1>3, <2>1, <2>2, <2>3, Zenon
<1>9. ASSUME NEW q \in Policies PROVE Heard(q)'
  <2>1. CASE q # p
    BY <1>1, <1>5, <1>6, <2>1, StaysHeard, Zenon
  <2>2. CASE q = p
    BY <1>2, <1>8, <2>2, Zenon DEF Heard, Has
  <2> QED  BY <2>1, <2>2, Zenon
<1>10. ASSUME NEW q \in Policies PROVE Earned(q)'
  BY <1>2, <1>6, CarriedGrows, Zenon DEF VoteInv, Earned
<1> QED
  BY <1>5, <1>7, <1>8, <1>9, <1>10, Zenon DEF VoteInv

(* The quorum check: what it finds is so, and a voter that finds no quorum in
   all the votes there are leaves none behind. *)
LEMMA CheckVotes ==
  ASSUME VoteInv, ClearedInv', NEW s \in Slots, CheckQuorum(s)
  PROVE VoteInv'
<1>1. PICK p \in Policies, A \in SUBSET Users : p = op[s].req /\ A = op[s].approve
  BY Zenon DEF CheckQuorum, At, VoteInv, VoterTypes, Counting
<1>2. /\ UNCHANGED <<policy, request, approvers, edits, crashes>> /\ op[s].pc = "quorum"
      /\ DOMAIN op = Slots /\ CountsReal(s) /\ RowTypes
  BY Zenon DEF CheckQuorum, At, VoteInv, ClearedInv, Shape
<1>3. PICK o : /\ op' = [op EXCEPT ![s] = o]
               /\ \/ QuorumMet(p, A) /\ o = [pc |-> "resolve", req |-> p, status |-> "approved"]
                  \/ ~QuorumMet(p, A) /\ o = Idle
  BY <1>1, ZenonT(30) DEF CheckQuorum, Done, Go
<1>4. op'[s] = o /\ \A t \in Slots \ {s} : op'[t] = op[t]
  BY <1>2, <1>3, Zenon
<1>5. Moves(s) /\ RowTypes'
  BY <1>2, <1>4, Zenon DEF Moves, RowTypes
<1>6. \A q \in Policies : /\ Keeps(q) /\ Grows(q)
                          /\ Approving(q)' = Approving(q) /\ Barred(q)' = Barred(q)
  BY <1>2, Zenon DEF Keeps, Grows, Approving, Barred, Has
<1>7. \A t \in Slots \ {s} : VoterTypes(t)' /\ CountsReal(t)'
  BY <1>5, <1>6, StaysReal, Zenon
<1>8. ASSUME QuorumMet(p, A), request[p].status = "pending" PROVE Carried(p)'
  <2>1. PICK B \in SUBSET Users : B = Approving(p)
    BY ZenonT(30) DEF Approving, Voted
  <2>2. A \subseteq B
    BY <1>1, <1>2, <1>8, <2>1, ZenonT(30) DEF CountsReal, Has
  <2>3. /\ policy[p].listed \subseteq Users /\ policy[p].needed \in Nat
        /\ request[p].required \in Nat /\ approvers \subseteq Users
    BY <1>2, Zenon DEF RowTypes
  <2>4. PICK eligible \in SUBSET Users : eligible = EligibleApprovers(p)
    BY <2>3, ZenonT(30) DEF EligibleApprovers
  <2>5. Quorum(p, policy[p], request[p].required, eligible, B)
    BY <1>8, <2>2, <2>3, <2>4, QuorumGrows, Zenon DEF QuorumMet
  <2>6. ASSUME Kind[p] = "any_n" PROVE Cardinality(B \ SelfBar(p)) >= request[p].required
    <3>1. PICK live \in SUBSET Users : live = approvers
      BY <2>3, Zenon
    <3>2. Quorum(p, policy[p], request[p].required,
                 IF p \in SelfAllowed THEN live ELSE live \ {Creator}, A)
      BY <1>8, <3>1, Zenon DEF QuorumMet, EligibleApprovers
    <3> QED  BY <2>2, <2>3, <2>6, <3>2, QuorumIsMany, ZenonT(30)
  <2>7. Carried(p)
    BY <2>1, <2>4, <2>5, <2>6, Zenon DEF Carried, QuorumMet
  <2> QED
    BY <1>2, <1>6, <2>7, CarriedGrows, Zenon
<1>9. VoterTypes(s)' /\ CountsReal(s)'
  <2>1. CASE QuorumMet(p, A) /\ o = [pc |-> "resolve", req |-> p, status |-> "approved"]
    <3>1. op'[s].pc = "resolve" /\ op'[s].req = p /\ op'[s].status = "approved"
      BY <1>4, <2>1, SMTT(30)
    <3> QED
      BY <1>2, <1>8, <2>1, <3>1, ZenonT(30) DEF VoterTypes, CountsReal, Casting, Counting, Removing
  <2>2. CASE o = Idle
    BY <1>4, <2>2, SMTT(30) DEF VoterTypes, CountsReal, Idle, Casting, Counting, Removing
  <2> QED  BY <1>3, <2>1, <2>2, Zenon
<1>10. ASSUME NEW q \in Policies PROVE Heard(q)'
  <2>1. CASE q # p
    BY <1>1, <1>5, <1>6, <2>1, StaysHeard, Zenon
  <2>2. CASE q = p /\ QuorumMet(p, A)
    <3>1. WillCount(s, p)'
      BY <1>3, <1>4, <2>2, SMTT(30) DEF WillCount, Counting
    <3> QED  BY <2>2, <3>1, Zenon DEF Heard
  <2>3. CASE q = p /\ ~QuorumMet(p, A) /\ WillCount(s, p)
    <3>1. ~Barred(p) /\ A = Approving(p)
      BY <1>1, <1>2, <2>3, Zenon DEF WillCount
    <3>2. ~QuorumMet(p, Approving(p))'
      BY <1>2, <2>3, <3>1, ZenonT(30) DEF QuorumMet, EligibleApprovers, Approving
    <3> QED  BY <1>6, <2>3, <3>1, <3>2, Zenon DEF Heard
  <2>4. CASE q = p /\ ~WillCount(s, p)
    <3>1. ASSUME NEW t \in Slots, WillCount(t, p) PROVE WillCount(t, p)'
      BY <1>4, <1>6, <2>4, <3>1, SMTT(30) DEF WillCount
    <3>2. ~QuorumMet(p, Approving(p)) => ~QuorumMet(p, Approving(p))'
      BY <1>2, Zenon DEF QuorumMet, EligibleApprovers, Approving
    <3> QED  BY <1>2, <1>6, <2>4, <3>1, <3>2, ZenonT(30) DEF VoteInv, Heard
  <2> QED  BY <2>1, <2>2, <2>3, <2>4, Zenon
<1>11. ASSUME NEW q \in Policies PROVE Earned(q)'
  BY <1>2, <1>6, CarriedGrows, Zenon DEF VoteInv, Earned
<1> QED
  BY <1>5, <1>7, <1>9, <1>10, <1>11, Zenon DEF VoteInv

(* resolveRequest: only an open request is settled, and by what was counted. *)
LEMMA ResolveVotes ==
  ASSUME VoteInv, ClearedInv', NEW s \in Slots, ResolveRequest(s)
  PROVE VoteInv'
<1>1. PICK p \in Policies : p = op[s].req
  BY Zenon DEF ResolveRequest, At, VoteInv, VoterTypes, Counting
<1>2. /\ UNCHANGED <<policy, approvers, edits, crashes>> /\ op[s].pc = "resolve"
      /\ Shape /\ CountsReal(s) /\ RowTypes /\ op[s].status \in Refusals \cup {"approved"}
  BY Zenon DEF ResolveRequest, At, VoteInv, ClearedInv, VoterTypes
<1>3. op' = [op EXCEPT ![s] = [pc |-> "derive"]] \/ op' = [op EXCEPT ![s] = [pc |-> "idle"]]
  BY Zenon DEF ResolveRequest, Done, Go, Idle
<1>4. op'[s].pc \in {"idle", "derive"} /\ \A t \in Slots \ {s} : op'[t] = op[t]
  BY <1>2, <1>3, SMTT(30) DEF Shape
<1>5. /\ \A q \in Policies \ {p} : request'[q] = request[q]
      /\ request'[p].votes = request[p].votes /\ request'[p].required = request[p].required
      /\ request'[p].overridden = request[p].overridden
      /\ DOMAIN request'[p] = DOMAIN request[p]
  BY <1>1, <1>2, Zenon DEF ResolveRequest, Shape, RowTypes
<1>6. IF request[p].status = "pending" THEN request'[p].status = op[s].status
      ELSE request'[p].status = request[p].status
  BY <1>1, <1>2, Zenon DEF ResolveRequest, Shape
<1>7. request'[p].status # "pending"
  BY <1>2, <1>6, Zenon DEF Refusals
<1>8. Moves(s) /\ RowTypes'
  BY <1>2, <1>4, <1>5, Zenon DEF Moves, RowTypes
<1>9. \A q \in Policies : Grows(q)
  BY <1>5, <1>6, <1>7, Zenon DEF Grows, Approving, Has
<1>10. \A t \in Slots \ {s} : VoterTypes(t)' /\ CountsReal(t)'
  BY <1>8, <1>9, StaysReal, Zenon
<1>11. VoterTypes(s)' /\ CountsReal(s)'
  BY <1>4, Zenon DEF VoterTypes, CountsReal, Casting, Counting, Removing
<1>12. ASSUME NEW q \in Policies PROVE Heard(q)'
  <2>1. CASE q # p
    <3>1. Keeps(q)
      BY <1>2, <1>5, <2>1, Zenon DEF Keeps
    <3> QED  BY <1>1, <1>8, <2>1, <3>1, StaysHeard, Zenon
  <2>2. CASE q = p
    BY <1>7, <2>2, Zenon DEF Heard
  <2> QED  BY <2>1, <2>2, Zenon
<1>13. ASSUME NEW q \in Policies PROVE Earned(q)'
  <2>1. Carried(q) => Carried(q)'
    BY <1>2, <1>9, CarriedGrows, Zenon DEF Grows
  <2>2. CASE q = p /\ request[p].status = "pending"
    BY <1>1, <1>2, <1>6, <2>1, <2>2, ZenonT(30) DEF Earned, CountsReal
  <2>3. CASE q # p \/ request[p].status # "pending"
    <3>1. request'[q].status = request[q].status /\ request'[q].overridden = request[q].overridden
      BY <1>5, <1>6, <2>3, Zenon
    <3> QED  BY <2>1, <3>1, ZenonT(30) DEF VoteInv, Earned
  <2> QED  BY <2>2, <2>3, Zenon
<1> QED
  BY <1>8, <1>10, <1>11, <1>12, <1>13, Zenon DEF VoteInv

(* createDraft: its requests are open and have no votes yet. *)
LEMMA CreateVotes ==
  ASSUME VoteInv, ClearedInv', NEW T \in SUBSET Policies, NEW t \in BOOLEAN, CreateDraft(T, t)
  PROVE VoteInv'
<1> DEFINE live == {p \in T : policy[p].live}
           Required(p) == IF Kind[p] = "all" THEN Cardinality(EligibleApprovers(p))
                          ELSE policy[p].needed
<1>1. UNCHANGED <<policy, approvers, op, edits, crashes>> /\ RowTypes
  BY ZenonT(30) DEF CreateDraft, VoteInv, RowTypes
<1>2. \A s \in Slots : op'[s] = op[s] /\ op[s].pc \notin Casting \cup Counting
  BY <1>1, ZenonT(30) DEF CreateDraft, VoteInv, ClearedInv, NothingYet, Casting, Counting
<1>3. \A p \in Policies : request[p].status = "none"
  BY ZenonT(30) DEF CreateDraft, VoteInv, ClearedInv, NothingYet, Bare
<1>4. \A p \in Policies : Required(p) \in Nat
  <2>1. \A p \in Policies : Cardinality(EligibleApprovers(p)) \in Nat
    <3> TAKE p \in Policies
    <3>1. EligibleApprovers(p) \in SUBSET Users
      BY <1>1, Zenon DEF EligibleApprovers, RowTypes
    <3> QED
      BY <3>1, FS_Subset, FS_CardinalityType, ApprovalsAssumption, Zenon DEF ApprovalsAssumption
  <2> QED  BY <1>1, <2>1, Zenon DEF RowTypes
<1>5. \A p \in Policies : request'[p] = IF p \in live
                            THEN [NoRequest EXCEPT !.status = "pending", !.required = Required(p)]
                            ELSE request[p]
  BY ZenonT(30) DEF CreateDraft
<1> HIDE DEF live, Required
<1>6. \A p \in Policies : IF p \in live
        THEN /\ request'[p].status = "pending" /\ request'[p].votes = NoVotes
             /\ request'[p].required = Required(p) /\ "required" \in DOMAIN request'[p]
        ELSE request'[p] = request[p]
  BY <1>5, ZenonT(30) DEF NoRequest
<1>7. RowTypes'
  BY <1>1, <1>4, <1>6, Zenon DEF RowTypes, NoVotes
<1>8. ASSUME NEW s \in Slots PROVE VoterTypes(s)' /\ CountsReal(s)'
  BY <1>2, Zenon DEF VoteInv, VoterTypes, CountsReal, Casting, Counting
<1>9. ASSUME NEW p \in Policies PROVE Heard(p)' /\ Earned(p)'
  <2>1. CASE p \in live
    <3>1. Approving(p)' = {} /\ ~Barred(p)'
      BY <1>6, <2>1, Zenon DEF Approving, Barred, Voted, NoVotes
    <3>2. PICK eligible \in SUBSET Users : eligible = EligibleApprovers(p)'
      BY <1>7, ZenonT(30) DEF RowTypes, EligibleApprovers
    <3>3. ~Quorum(p, policy'[p], request'[p].required, eligible, {})
      BY <1>7, <3>2, NoVotesNoQuorum, Zenon DEF RowTypes
    <3>4. ~QuorumMet(p, Approving(p))'
      BY <3>1, <3>2, <3>3, Zenon DEF QuorumMet
    <3> QED  BY <1>6, <2>1, <3>1, <3>4, Zenon DEF Heard, Earned
  <2>2. CASE p \notin live
    BY <1>3, <1>6, <2>2, Zenon DEF Heard, Earned
  <2> QED  BY <2>1, <2>2, Zenon
<1> QED
  BY <1>7, <1>8, <1>9, Zenon DEF VoteInv

(* Membership changes and policy edits: what was approved stays carried by the
   votes its snapshot asks for. *)
LEMMA EditVotes ==
  ASSUME VoteInv, ClearedInv',
         \/ \E u \in Users : MembershipChange(u)
         \/ \E p \in Policies, l \in SUBSET Users, n \in 1..MaxNeeded : EditPolicy(p, l, n)
  PROVE VoteInv'
<1>1. UNCHANGED <<request, op, crashes>> /\ edits' = edits + 1 /\ RowTypes
  BY ZenonT(30) DEF MembershipChange, EditPolicy, Edited, VoteInv
<1>2. edits' \in Nat /\ edits' # 0
  BY <1>1, SMTT(30) DEF RowTypes
<1>3. RowTypes'
  <2>1. ASSUME NEW u \in Users, MembershipChange(u) PROVE RowTypes'
    BY <1>1, <1>2, <2>1, Zenon DEF MembershipChange, RowTypes
  <2>2. ASSUME NEW p \in Policies, NEW l \in SUBSET Users, NEW n \in 1..MaxNeeded,
               EditPolicy(p, l, n)
        PROVE RowTypes'
    <3>1. policy' = [policy EXCEPT ![p].listed = l, ![p].needed = n] /\ approvers' = approvers
      BY <2>2, Zenon DEF EditPolicy
    <3>2. \A q \in Policies \ {p} : policy'[q] = policy[q]
      BY <1>1, <3>1, Zenon DEF RowTypes
    <3>3. /\ policy'[p].listed = l /\ policy'[p].needed = n
          /\ DOMAIN policy'[p] = DOMAIN policy[p] /\ DOMAIN policy' = Policies
      BY <1>1, <3>1, Zenon DEF RowTypes
    <3>4. n \in Nat
      BY ApprovalsAssumption, SMTT(30) DEF ApprovalsAssumption
    <3> QED
      BY <1>1, <1>2, <3>1, <3>2, <3>3, <3>4, Zenon DEF RowTypes
  <2> QED  BY <2>1, <2>2, Zenon
<1>4. ASSUME NEW p \in Policies PROVE /\ Heard(p)'
                                      /\ Approving(p)' = Approving(p)
                                      /\ Carried(p) => Carried(p)'
  BY <1>1, <1>2, Zenon DEF Heard, Approving, Carried
<1>5. ASSUME NEW p \in Policies PROVE Earned(p)'
  BY <1>1, <1>4, ZenonT(30) DEF VoteInv, Earned
<1>6. ASSUME NEW s \in Slots PROVE VoterTypes(s)' /\ CountsReal(s)'
  <2>1. op'[s] = op[s] /\ VoterTypes(s) /\ CountsReal(s)
    BY <1>1, Zenon DEF VoteInv
  <2>2. VoterTypes(s)'
    BY <2>1, Zenon DEF VoterTypes
  <2>3. CASE op[s].pc \in {"quorum", "resolve"}
    <3>1. PICK p \in Policies : p = op[s].req /\ p = op'[s].req
      BY <2>1, <2>3, Zenon DEF VoterTypes, Counting
    <3> QED  BY <1>1, <1>4, <2>1, <2>2, <3>1, ZenonT(30) DEF CountsReal, Has
  <2>4. CASE op[s].pc \notin {"quorum", "resolve"}
    BY <2>1, <2>2, <2>4, Zenon DEF CountsReal
  <2> QED  BY <2>3, <2>4, Zenon
<1> QED
  BY <1>3, <1>4, <1>5, <1>6, Zenon DEF VoteInv

(* Init satisfies the invariant. *)
LEMMA VoteInit == Init => VoteInv
<1> SUFFICES ASSUME Init PROVE VoteInv
  OBVIOUS
<1>1. ClearedInv
  BY ClearedInit, Zenon
<1>2. /\ \A s \in Slots : op[s].pc = "idle"
      /\ \A p \in Policies : request[p] = NoRequest
  BY Zenon DEF Init, Idle, NoRequests
<1>3. \A p \in Policies : /\ {"live", "listed", "needed"} \subseteq DOMAIN policy[p]
                          /\ policy[p].listed \subseteq Users /\ policy[p].needed \in Nat
  <2> TAKE p \in Policies
  <2>1. PICK l \in SUBSET Users, n \in 1..MaxNeeded :
          policy[p] = [live |-> TRUE, listed |-> l, needed |-> n]
    BY SMTT(30) DEF Init
  <2> QED  BY <2>1, ApprovalsAssumption, SMTT(30) DEF ApprovalsAssumption
<1>4. \A p \in Policies : /\ "required" \in DOMAIN request[p] /\ request[p].required \in Nat
                          /\ DOMAIN request[p].votes = Users
                          /\ request[p].status = "none"
  BY <1>2, SMTT(30) DEF NoRequest, NoVotes
<1>5. DOMAIN policy = Policies /\ edits \in Nat /\ crashes \in Nat /\ approvers \subseteq Users
  BY SMTT(30) DEF Init
<1>6. RowTypes
  BY <1>3, <1>4, <1>5, Zenon DEF RowTypes
<1>7. \A s \in Slots : VoterTypes(s) /\ CountsReal(s)
  BY <1>2, Zenon DEF VoterTypes, CountsReal, Casting, Counting, Removing
<1> QED
  BY <1>1, <1>4, <1>6, <1>7, Zenon DEF VoteInv, Heard, Earned

(* Every step keeps it. *)
LEMMA VoteStep == VoteInv /\ [Next]_vars => VoteInv'
<1> SUFFICES ASSUME VoteInv, [Next]_vars PROVE VoteInv'
  OBVIOUS
<1>0. ClearedInv'
  BY ClearedStep, Zenon DEF VoteInv
<1>1. ASSUME NEW T \in SUBSET Policies, NEW t \in BOOLEAN, CreateDraft(T, t) PROVE VoteInv'
  BY <1>0, <1>1, CreateVotes, Zenon
<1>2. ASSUME NEW s \in Slots, NEW p \in Policies, NEW u \in Users, NEW d \in Decisions,
             GetPendingApprovalRequest(s, p, u, d)
      PROVE VoteInv'
  BY <1>0, <1>2, StartVotes, Zenon
<1>3. ASSUME NEW s \in Slots, Step(s) PROVE VoteInv'
  <2>1. ASSUME NEW p \in Policies, OverrideNext(s, p) \/ ExpireNext(s, p) PROVE VoteInv'
    BY <1>0, <2>1, LoopVotes, Zenon
  <2>2. CASE EnsureEligibleToVote(s) \/ GetDraftForAllowedVote(s)
    BY <1>0, <2>2, ChecksVotes, Zenon
  <2>3. CASE CreateApprovalVote(s) \/ GetApprovalRequestAfterVote(s)
    BY <1>0, <2>3, CastVotes, RereadVotes, Zenon
  <2>4. CASE CheckQuorum(s) \/ ResolveRequest(s)
    BY <1>0, <2>4, CheckVotes, ResolveVotes, Zenon
  <2>5. CASE \/ ReadForOverride(s) \/ LoopDone(s) \/ DeriveRead(s) \/ ReadDraft(s)
             \/ WriteApprovalStatus(s) \/ ReleaseLocks(s) \/ ArchiveDraft(s)
    BY <1>0, <2>5, OthersElsewhere, ElsewhereVotes, Zenon
  <2>6. CASE RemovePolicy(s)
    BY <1>0, <2>6, RemovalVotes, Zenon
  <2> QED
    BY <1>3, <2>1, <2>2, <2>3, <2>4, <2>5, <2>6, Zenon DEF Step
<1>4. ASSUME NEW s \in Slots,
             \/ BeginOverride(s) \/ BeginReject(s) \/ BroadcastGate(s)
             \/ \E p \in Policies : BeginDeletePolicy(s, p)
      PROVE VoteInv'
  BY <1>0, <1>4, OthersElsewhere, ElsewhereVotes, Zenon
<1>5. ASSUME NEW s \in Slots, Abandon(s) PROVE VoteInv'
  BY <1>0, <1>5, AbandonVotes, Zenon
<1>6. CASE BeginSweep \/ FindStranded
  <2>1. Sweep \in Slots
    BY Zenon DEF Slots
  <2>2. Elsewhere(Sweep)
    BY <1>6, <2>1, OthersElsewhere, Zenon
  <2> QED  BY <1>0, <2>1, <2>2, ElsewhereVotes, Zenon
<1>7. CASE DeleteDraft \/ DeleteExpiredDraft
  BY <1>0, <1>7, DeleteVotes, Zenon DEF DeleteExpiredDraft
<1>8. ASSUME NEW p \in Policies, CascadeDelete(p) PROVE VoteInv'
  BY <1>0, <1>8, RemovalVotes, Zenon
<1>9. ASSUME DraftOverdue \/ \E p \in Policies : RequestOverdue(p) PROVE VoteInv'
  BY <1>0, <1>9, ClockVotes, Zenon
<1>10. ASSUME \/ \E u \in Users : MembershipChange(u)
              \/ \E p \in Policies, l \in SUBSET Users, n \in 1..MaxNeeded : EditPolicy(p, l, n)
       PROVE VoteInv'
  BY <1>0, <1>10, EditVotes, Zenon
<1>11. CASE UNCHANGED vars
  BY <1>0, <1>11, VoteQuiet, Zenon DEF vars
<1> QED
  BY <1>1, <1>2, <1>3, <1>4, <1>5, <1>6, <1>7, <1>8, <1>9, <1>10, <1>11, ZenonT(40) DEF Next

(* Whatever voters, overrides, sweeps, edits, deletions and crashes interleave,
   a request approved by votes carries a quorum of its kind: the votes counted
   were really cast, and a stale count only misses some. *)
THEOREM ApprovedByQuorumHolds == Spec => []ApprovedByQuorum
<1>1. VoteInv => ApprovedByQuorum
  BY Zenon DEF VoteInv, Earned, Carried, Approving, SelfBar, ApprovedByQuorum
<1> QED
  BY <1>1, VoteInit, VoteStep, PTL DEF Spec

-----------------------------------------------------------------------------
(* A draft that waits for nothing has a call that will derive its status.  *)

SomeOpen == \E p \in Policies : request[p].status = "pending"

StatusTypes == \A p \in Policies : request[p].status \in Refusals \cup {"pending", "approved", "none"}

\* The draft waits for an approval that its requests no longer leave open.
Owing == Present /\ draft.approval = "pending" /\ (SomeRefused \/ ~SomeOpen)

Deciding(s) ==
  \/ op[s].pc \in {"derive", "readDraft", "write"}
  \/ op[s].pc \in {"override", "expire"} /\ op[s].won = TRUE

DeriveOwed == crashes = 0 /\ Owing => \E s \in Slots : Deciding(s)

(* The inductive invariant behind PendingMeansOpen. *)
OweInv == RefusalInv /\ VoteInv /\ StatusTypes /\ DeriveOwed

(* A derive that reads what is owed does not conclude pending. *)
LEMMA OwedIsDerived ==
  ASSUME OweInv, Owing
  PROVE RequestStatuses # {} /\ DerivedStatus(RequestStatuses) # "pending"
<1> DEFINE R == RequestStatuses
<1>1. \A p \in Policies : request[p].status # "none" => request[p].status \in R
  BY Zenon DEF RequestStatuses, Has
<1>2. \A x \in R : \E p \in Policies : request[p].status = x /\ x # "none"
  BY Zenon DEF RequestStatuses, Has
<1>3. HasRequest
  BY Zenon DEF OweInv, RefusalInv, PendingHasRequest, Owing
<1>4. R # {}
  BY <1>1, <1>3, Zenon DEF HasRequest
<1>5. R \subseteq Refusals \cup {"pending", "approved"}
  BY <1>2, Zenon DEF OweInv, StatusTypes
<1>6. R \cap Refusals # {} \/ "pending" \notin R
  BY <1>1, <1>2, Zenon DEF Owing, SomeRefused, SomeOpen, Refusals
<1> HIDE DEF R
<1>7. R \cap Refusals # {} \/ R = {"approved"}
  BY <1>4, <1>5, <1>6, Zenon
<1>8. DerivedStatus(R) # "pending"
  <2>1. CASE "rejected" \in R
    BY <2>1, Zenon DEF DerivedStatus
  <2>2. CASE "rejected" \notin R /\ "vetoed" \in R
    BY <2>2, Zenon DEF DerivedStatus
  <2>3. CASE R \cap {"rejected", "vetoed"} = {} /\ "expired" \in R
    BY <2>3, Zenon DEF DerivedStatus
  <2>4. CASE R = {"approved"}
    BY <2>4, Zenon DEF DerivedStatus
  <2> QED
    BY <1>7, <2>1, <2>2, <2>3, <2>4, Zenon DEF Refusals
<1> QED  BY <1>4, <1>8, Zenon DEF R

\* Draft and requests stay as they are.
Still == /\ UNCHANGED <<draft, crashes>>
         /\ \A p \in Policies : request'[p].status = request[p].status

(* A step that changes neither and ends no call that decides. *)
LEMMA StillOwed ==
  ASSUME StatusTypes, DeriveOwed, Still, \A s \in Slots : Deciding(s) => Deciding(s)'
  PROVE StatusTypes' /\ DeriveOwed'
<1>1. StatusTypes' /\ (Owing' => Owing)
  BY Zenon DEF StatusTypes, Still, Owing, Present, SomeRefused, SomeOpen
<1> QED  BY <1>1, Zenon DEF DeriveOwed, Still

(* The steps of a voter, and the start of a call. *)
LEMMA VoterOwed ==
  ASSUME OweInv, NEW s \in Slots,
         \/ EnsureEligibleToVote(s) \/ GetDraftForAllowedVote(s) \/ CreateApprovalVote(s)
         \/ GetApprovalRequestAfterVote(s) \/ CheckQuorum(s)
  PROVE StatusTypes' /\ DeriveOwed'
<1>1. op[s].pc \in {"eligible", "draft", "vote", "reread", "quorum"} /\ Shape
  BY ZenonT(30) DEF EnsureEligibleToVote, GetDraftForAllowedVote, CreateApprovalVote,
     GetApprovalRequestAfterVote, CheckQuorum, At, OweInv, RefusalInv, ClearedInv
<1>2. \A t \in Slots \ {s} : op'[t] = op[t]
  BY <1>1, ZenonT(30) DEF EnsureEligibleToVote, GetDraftForAllowedVote, CreateApprovalVote,
     GetApprovalRequestAfterVote, CheckQuorum, Go, Done, Shape
<1>3. \A t \in Slots : Deciding(t) => Deciding(t)'
  BY <1>1, <1>2, Zenon DEF Deciding
<1>4. UNCHANGED request \/ CreateApprovalVote(s)
  BY ZenonT(30)
  DEF EnsureEligibleToVote, GetDraftForAllowedVote, GetApprovalRequestAfterVote, CheckQuorum
<1>5. \A p \in Policies : request'[p].status = request[p].status
  BY <1>1, <1>4, ZenonT(40) DEF CreateApprovalVote, Shape
<1>6. UNCHANGED <<draft, crashes>>
  BY ZenonT(30) DEF EnsureEligibleToVote, GetDraftForAllowedVote, CreateApprovalVote,
     GetApprovalRequestAfterVote, CheckQuorum
<1> QED
  BY <1>3, <1>5, <1>6, StillOwed, Zenon DEF Still, OweInv

(* A call that starts, or only reads. *)
LEMMA ReadOwed ==
  ASSUME OweInv, NEW s \in Slots, UNCHANGED <<draft, request, crashes>>, ~Deciding(s),
         \A t \in Slots \ {s} : op'[t] = op[t]
  PROVE StatusTypes' /\ DeriveOwed'
<1>1. \A t \in Slots : Deciding(t) => Deciding(t)'
  BY Zenon DEF Deciding
<1> QED
  BY <1>1, StillOwed, Zenon DEF Still, OweInv

(* resolveRequest: who settles a request derives the draft. *)
LEMMA ResolveOwed ==
  ASSUME OweInv, NEW s \in Slots, ResolveRequest(s)
  PROVE StatusTypes' /\ DeriveOwed'
<1>1. PICK p \in Policies : p = op[s].req
  BY Zenon DEF ResolveRequest, At, OweInv, VoteInv, VoterTypes, Counting
<1>2. /\ op[s].pc = "resolve" /\ op[s].status \in Refusals \cup {"approved"} /\ Shape
      /\ UNCHANGED <<draft, crashes>>
  BY Zenon DEF ResolveRequest, At, OweInv, VoteInv, VoterTypes, RefusalInv, ClearedInv
<1>3. CASE request[p].status # "pending"
  <2>1. UNCHANGED request /\ \A t \in Slots \ {s} : op'[t] = op[t]
    BY <1>1, <1>2, <1>3, Zenon DEF ResolveRequest, Done, Go, Shape
  <2> QED  BY <1>2, <2>1, ReadOwed, ZenonT(30) DEF Deciding
<1>4. CASE request[p].status = "pending"
  <2>1. op'[s].pc = "derive"
    BY <1>1, <1>2, <1>4, SMTT(30) DEF ResolveRequest, Go, Shape
  <2>2. \A q \in Policies : request'[q].status = IF q = p THEN op[s].status ELSE request[q].status
    BY <1>1, <1>2, <1>4, Zenon DEF ResolveRequest, Shape
  <2> QED  BY <1>2, <2>1, <2>2, Zenon DEF OweInv, StatusTypes, DeriveOwed, Deciding
<1> QED  BY <1>3, <1>4, Zenon

(* One turn of a loop: who closes a request will derive the draft. *)
LEMMA LoopOwed ==
  ASSUME OweInv, NEW s \in Slots, NEW p \in Policies, OverrideNext(s, p) \/ ExpireNext(s, p)
  PROVE StatusTypes' /\ DeriveOwed'
<1>1. PICK pc \in {"override", "expire"}, status \in {"approved", "expired"} :
        ResolveNext(s, pc, status, p)
  BY Zenon DEF OverrideNext, ExpireNext
<1>2. Shape /\ op[s].pc = pc /\ UNCHANGED <<draft, crashes>>
  BY <1>1, Zenon DEF OweInv, RefusalInv, ClearedInv, ResolveNext, At
<1>3. /\ op'[s] = [pc |-> pc, todo |-> op[s].todo \ {p},
                   won |-> op[s].won \/ request[p].status = "pending"]
      /\ \A t \in Slots \ {s} : op'[t] = op[t]
  BY <1>1, <1>2, Zenon DEF ResolveNext, Go, Shape
<1>4. op'[s].pc = pc /\ op'[s].won = (op[s].won \/ request[p].status = "pending")
  BY <1>3, SMTT(30)
<1>5. CASE request[p].status = "pending"
  <2>1. op'[s].won = TRUE
    BY <1>4, <1>5, ZenonT(30)
  <2>2. Deciding(s)'
    BY <1>4, <2>1, Zenon DEF Deciding
  <2>3. \A q \in Policies : request'[q].status = IF q = p THEN status ELSE request[q].status
    BY <1>1, <1>2, <1>5, Zenon DEF ResolveNext, Shape
  <2> QED  BY <2>2, <2>3, Zenon DEF OweInv, StatusTypes, DeriveOwed, Refusals
<1>6. CASE request[p].status # "pending"
  <2>1. UNCHANGED request
    BY <1>1, <1>6, Zenon DEF ResolveNext
  <2>2. op[s].won = TRUE => op'[s].won = TRUE
    BY <1>4, ZenonT(30)
  <2>3. \A t \in Slots : Deciding(t) => Deciding(t)'
    BY <1>2, <1>3, <1>4, <2>2, Zenon DEF Deciding
  <2> QED  BY <1>2, <2>1, <2>3, StillOwed, Zenon DEF OweInv, Still
<1> QED  BY <1>5, <1>6, Zenon

(* The end of a loop and the reads of a derive pass the duty on. *)
LEMMA DeriveOwedOn ==
  ASSUME OweInv, NEW s \in Slots, LoopDone(s) \/ DeriveRead(s) \/ ReadDraft(s)
  PROVE StatusTypes' /\ DeriveOwed'
<1>1. Shape /\ UNCHANGED <<draft, request, crashes>> /\ Still
  BY Zenon DEF OweInv, RefusalInv, ClearedInv, LoopDone, DeriveRead, ReadDraft, Still
<1>2. \A t \in Slots \ {s} : op'[t] = op[t]
  BY <1>1, Zenon DEF LoopDone, DeriveRead, ReadDraft, Go, Done, Shape
<1>3. Owing /\ Deciding(s) => Deciding(s)'
  <2> SUFFICES ASSUME Owing, Deciding(s) PROVE op'[s].pc \in {"derive", "readDraft", "write"}
    BY ZenonT(30) DEF Deciding
  <2>1. CASE LoopDone(s)
    <3>1. op[s].won = TRUE
      BY <2>1, Zenon DEF LoopDone, Deciding
    <3>2. op' = [op EXCEPT ![s] = [pc |-> "derive"]]
      BY <2>1, <3>1, ZenonT(30) DEF LoopDone, Go
    <3> QED  BY <1>1, <3>2, Zenon DEF Shape
  <2>2. CASE DeriveRead(s)
    <3>1. RequestStatuses # {} /\ DerivedStatus(RequestStatuses) # "pending"
      BY OwedIsDerived, Zenon
    <3>2. op' = [op EXCEPT ![s] = [pc |-> "write", status |-> DerivedStatus(RequestStatuses)]]
      BY <2>2, <3>1, Zenon DEF DeriveRead, Go
    <3> QED  BY <1>1, <3>2, Zenon DEF Shape
  <2>3. CASE ReadDraft(s)
    BY <1>1, <2>3, SMTT(30) DEF ReadDraft, Go, Shape, Owing
  <2> QED  BY <2>1, <2>2, <2>3, Zenon
<1>4. StatusTypes' /\ (Owing' => Owing)
  BY <1>1, Zenon DEF OweInv, StatusTypes, Owing, Present, SomeRefused, SomeOpen
<1>5. \A t \in Slots : Owing /\ Deciding(t) => Deciding(t)'
  BY <1>2, <1>3, Zenon DEF Deciding
<1> QED
  BY <1>1, <1>4, <1>5, Zenon DEF OweInv, DeriveOwed

(* Once the status is written, or the draft is gone, nothing is owed. *)
LEMMA WrittenOwed ==
  ASSUME OweInv, \/ \E s \in Slots : WriteApprovalStatus(s) \/ ReleaseLocks(s) \/ ArchiveDraft(s)
                 \/ DeleteDraft \/ DraftOverdue
  PROVE StatusTypes' /\ DeriveOwed'
<1>1. Shape
  BY Zenon DEF OweInv, RefusalInv, ClearedInv
<1>2. ASSUME NEW s \in Slots, WriteApprovalStatus(s) PROVE StatusTypes' /\ DeriveOwed'
  <2>1. op[s].pc = "write" /\ op[s].status \in Refusals \cup {"approved"}
    BY <1>2, Zenon DEF WriteApprovalStatus, At, OweInv, RefusalInv, WritesBacked
  <2>2. ~Present' \/ draft'.approval # "pending"
    BY <1>1, <1>2, <2>1, Zenon DEF WriteApprovalStatus, Shape, Present, Refusals
  <2> QED  BY <1>2, <2>2, Zenon DEF WriteApprovalStatus, OweInv, StatusTypes, DeriveOwed, Owing
<1>3. ASSUME NEW s \in Slots, ReleaseLocks(s) \/ ArchiveDraft(s) PROVE StatusTypes' /\ DeriveOwed'
  <2>1. /\ UNCHANGED <<request, crashes>> /\ ~Deciding(s) /\ draft'.approval = draft.approval
        /\ Present' => Present
        /\ \A t \in Slots \ {s} : op'[t] = op[t]
    BY <1>1, <1>3, ZenonT(30) DEF ReleaseLocks, ArchiveDraft, At, Done, Go, Shape, Deciding, Present
  <2>2. \A t \in Slots : Deciding(t) => Deciding(t)'
    BY <2>1, Zenon DEF Deciding
  <2> QED
    BY <2>1, <2>2, ZenonT(30) DEF OweInv, StatusTypes, DeriveOwed, Owing, SomeRefused, SomeOpen
<1>4. CASE DeleteDraft
  <2>1. ~Present'
    BY <1>1, <1>4, Zenon DEF DeleteDraft, GoneDraft, Shape, Present
  <2>2. \A p \in Policies : request'[p].status = "none"
    BY <1>4, Zenon DEF DeleteDraft, NoRequests, NoRequest
  <2> QED  BY <2>1, <2>2, Zenon DEF StatusTypes, DeriveOwed, Owing
<1>5. CASE DraftOverdue
  <2>1. /\ UNCHANGED <<request, crashes, op>> /\ draft'.approval = draft.approval
        /\ draft'.state = draft.state
    BY <1>1, <1>5, Zenon DEF DraftOverdue, Shape
  <2> QED
    BY <2>1, Zenon
    DEF OweInv, StatusTypes, DeriveOwed, Owing, SomeRefused, SomeOpen, Present, Deciding
<1> QED  BY <1>2, <1>3, <1>4, <1>5, Zenon

(* createDraft: a pending draft has the open requests just created. *)
LEMMA CreateOwed ==
  ASSUME OweInv, RefusalInv', NEW T \in SUBSET Policies, NEW t \in BOOLEAN, CreateDraft(T, t)
  PROVE StatusTypes' /\ DeriveOwed'
<1>1. \A p \in Policies : request[p].status = "none"
  BY ZenonT(30) DEF CreateDraft, OweInv, RefusalInv, ClearedInv, NothingYet, Bare
<1>2. \A p \in Policies : request'[p].status \in {"pending", "none"}
  BY <1>1, ZenonT(30) DEF CreateDraft, NoRequest
<1>3. Present' /\ draft'.approval = "pending" => SomeOpen'
  BY <1>2, Zenon DEF RefusalInv, PendingHasRequest, HasRequest, SomeOpen
<1> QED
  BY <1>2, <1>3, Zenon DEF StatusTypes, DeriveOwed, Owing, SomeRefused, Refusals

(* Without deletions every step keeps it. *)
LEMMA OweStep == ASSUME NoDeletion, OweInv, [Next]_vars PROVE OweInv'
<1>0. RefusalInv' /\ VoteInv' /\ Shape
  BY RefusalStep, VoteStep, Zenon DEF OweInv, RefusalInv, ClearedInv
<1> SUFFICES StatusTypes' /\ DeriveOwed'
  BY <1>0, Zenon DEF OweInv
<1>1. ASSUME NEW T \in SUBSET Policies, NEW t \in BOOLEAN, CreateDraft(T, t) PROVE StatusTypes' /\ DeriveOwed'
  BY <1>0, <1>1, CreateOwed, Zenon
<1>2. ASSUME NEW s \in Slots, NEW p \in Policies, NEW u \in Users, NEW d \in Decisions,
             GetPendingApprovalRequest(s, p, u, d)
      PROVE StatusTypes' /\ DeriveOwed'
  <2>1. /\ UNCHANGED <<draft, request, crashes>> /\ ~Deciding(s)
        /\ \A t \in Slots \ {s} : op'[t] = op[t]
    BY <1>0, <1>2, SMTT(30) DEF GetPendingApprovalRequest, Start, Idle, Deciding, Shape
  <2> QED  BY <2>1, ReadOwed, Zenon
<1>3. ASSUME NEW s \in Slots, Step(s) PROVE StatusTypes' /\ DeriveOwed'
  <2>1. ASSUME NEW p \in Policies, OverrideNext(s, p) \/ ExpireNext(s, p)
        PROVE StatusTypes' /\ DeriveOwed'
    BY <2>1, LoopOwed, Zenon
  <2>2. CASE \/ EnsureEligibleToVote(s) \/ GetDraftForAllowedVote(s) \/ CreateApprovalVote(s)
             \/ GetApprovalRequestAfterVote(s) \/ CheckQuorum(s)
    BY <2>2, VoterOwed, Zenon
  <2>3. CASE ReadForOverride(s)
    <3>1. /\ UNCHANGED <<draft, request, crashes>> /\ ~Deciding(s)
          /\ \A t \in Slots \ {s} : op'[t] = op[t]
      BY <1>0, <2>3, Zenon DEF ReadForOverride, At, Done, Go, Deciding, Shape
    <3> QED  BY <3>1, ReadOwed, Zenon
  <2>4. CASE LoopDone(s) \/ DeriveRead(s) \/ ReadDraft(s)
    BY <2>4, DeriveOwedOn, Zenon
  <2>5. CASE WriteApprovalStatus(s) \/ ReleaseLocks(s) \/ ArchiveDraft(s)
    BY <2>5, WrittenOwed, Zenon
  <2>6. ~RemovePolicy(s)
    BY Zenon DEF RemovePolicy, OweInv, RefusalInv, NoRemoval
  <2> QED
    BY <1>3, <2>1, <2>2, <2>3, <2>4, <2>5, <2>6, ResolveOwed, Zenon DEF Step
<1>4. ASSUME NEW s \in Slots, BeginOverride(s) \/ BeginReject(s) \/ BroadcastGate(s)
      PROVE StatusTypes' /\ DeriveOwed'
  <2>1. /\ UNCHANGED <<draft, request, crashes>> /\ ~Deciding(s)
        /\ \A t \in Slots \ {s} : op'[t] = op[t]
    <3>1. op[s] = Idle /\ \E o : op' = [op EXCEPT ![s] = o]
      BY <1>4, Zenon DEF BeginOverride, BeginReject, BroadcastGate, Start
    <3>2. UNCHANGED <<draft, request, crashes>>
      BY <1>4, Zenon DEF BeginOverride, BeginReject, BroadcastGate
    <3>3. \A t \in Slots \ {s} : op'[t] = op[t]
      BY <1>0, <3>1, Zenon DEF Shape
    <3>4. ~Deciding(s)
      BY <3>1, SMT DEF Idle, Deciding
    <3> QED  BY <3>2, <3>3, <3>4, Zenon
  <2> QED  BY <2>1, ReadOwed, Zenon
<1>5. ASSUME NEW s \in Slots, Abandon(s) PROVE StatusTypes' /\ DeriveOwed'
  <2>1. UNCHANGED request /\ crashes' = crashes + 1 /\ crashes \in Nat
    BY <1>5, Zenon DEF Abandon, OweInv, VoteInv, RowTypes
  <2>2. crashes' # 0
    BY <2>1, SMT
  <2> QED  BY <2>1, <2>2, Zenon DEF OweInv, StatusTypes, DeriveOwed
<1>6. CASE BeginSweep \/ FindStranded
  <2>1. Sweep \in Slots
    BY Zenon DEF Slots
  <2>2. /\ UNCHANGED <<draft, request, crashes>> /\ ~Deciding(Sweep)
        /\ \A t \in Slots \ {Sweep} : op'[t] = op[t]
    <3>1. /\ op[Sweep] = Idle \/ op[Sweep].pc = "stranded"
          /\ \E o : op' = [op EXCEPT ![Sweep] = o]
      BY <1>6, Zenon DEF BeginSweep, FindStranded, Start, Go, At
    <3>2. UNCHANGED <<draft, request, crashes>>
      BY <1>6, Zenon DEF BeginSweep, FindStranded
    <3>3. \A t \in Slots \ {Sweep} : op'[t] = op[t]
      BY <1>0, <3>1, Zenon DEF Shape
    <3>4. ~Deciding(Sweep)
      BY <3>1, SMT DEF Idle, Deciding
    <3> QED  BY <3>2, <3>3, <3>4, Zenon
  <2> QED  BY <2>1, <2>2, ReadOwed, Zenon
<1>7. CASE DeleteDraft \/ DeleteExpiredDraft \/ DraftOverdue
  BY <1>7, WrittenOwed, Zenon DEF DeleteExpiredDraft
<1>8. ~ \E s \in Slots, p \in Policies : BeginDeletePolicy(s, p) \/ CascadeDelete(p)
  BY Zenon DEF BeginDeletePolicy, CascadeDelete, NoDeletion
<1>9. ASSUME \/ \E p \in Policies : RequestOverdue(p)
             \/ \E p \in Policies, l \in SUBSET Users, n \in 1..MaxNeeded : EditPolicy(p, l, n)
             \/ \E u \in Users : MembershipChange(u)
             \/ UNCHANGED vars
      PROVE StatusTypes' /\ DeriveOwed'
  <2>1. UNCHANGED op /\ Still
    <3>1. UNCHANGED <<op, draft, crashes>>
      BY <1>9, ZenonT(30) DEF RequestOverdue, EditPolicy, MembershipChange, vars
    <3>2. UNCHANGED request \/ \E p \in Policies : RequestOverdue(p)
      BY <1>9, ZenonT(30) DEF EditPolicy, MembershipChange, vars
    <3>3. \A p \in Policies : request'[p].status = request[p].status
      BY <1>0, <3>2, SMTT(30) DEF RequestOverdue, Shape
    <3> QED  BY <3>1, <3>3, Zenon DEF Still
  <2> QED  BY <2>1, StillOwed, ZenonT(30) DEF OweInv, Deciding
<1> QED
  BY <1>1, <1>2, <1>3, <1>4, <1>5, <1>6, <1>7, <1>8, <1>9, Sweep \in Slots, ZenonT(40)
  DEF Next, Slots

(* However voters, overrides and sweeps overlap, the last of them sees what the
   others left: an open request has no settling votes that nobody will count,
   and, as long as no policy is deleted, a draft waits only for requests that
   are really open. *)
THEOREM NothingMissedHolds == ASSUME NoDeletion PROVE Spec => []NothingMissed
<1>1. Init => OweInv
  <2>1. Init => StatusTypes /\ DeriveOwed
    <3> SUFFICES ASSUME Init PROVE StatusTypes /\ DeriveOwed
      OBVIOUS
    <3>1. \A p \in Policies : request[p].status = "none"
      BY Zenon DEF Init, NoRequests, NoRequest
    <3>2. draft.state = "none"
      BY Zenon DEF Init
    <3> QED  BY <3>1, <3>2, Zenon DEF StatusTypes, DeriveOwed, Owing, Present
  <2> QED  BY <2>1, RefusalInit, VoteInit, Zenon DEF OweInv
<1>2. OweInv /\ [Next]_vars => OweInv'
  BY OweStep, Zenon
<1>3. OweInv => QuorumNotMissed
  <2>1. ASSUME NEW s \in Slots, NEW p \in Policies, WillCount(s, p) PROVE Voting(p)
    BY <2>1, Zenon DEF WillCount, Voting, Counting
  <2> QED
    BY <2>1, ZenonT(30) DEF OweInv, VoteInv, Heard, QuorumNotMissed, Barred, Approving
<1>4. OweInv => PendingMeansOpen
  <2> SUFFICES ASSUME OweInv, crashes = 0, ~Deriving, Present, draft.approval = "pending"
               PROVE "pending" \in RequestStatuses /\ RequestStatuses \cap Refusals = {}
    BY Zenon DEF PendingMeansOpen
  <2>1. \A s \in Slots : ~Deciding(s)
    BY Zenon DEF Deriving, Deciding, DerivePc
  <2>2. SomeOpen /\ ~SomeRefused
    BY <2>1, Zenon DEF OweInv, DeriveOwed, Owing
  <2> QED  BY <2>2, Zenon DEF SomeOpen, SomeRefused, RequestStatuses, Has
<1>5. OweInv => NothingMissed
  BY <1>3, <1>4, Zenon DEF NothingMissed
<1> QED
  BY <1>1, <1>2, <1>5, PTL DEF Spec
==============================================================================
