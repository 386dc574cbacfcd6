---------------------------- MODULE MCApprovals ----------------------------
(***************************************************************************)
(* Instances of Approvals for TLC.  MCSpec plays one of two scenes: in     *)
(* "overlap" two policies of different kinds put requests on the draft and *)
(* nothing is edited, in "edits" the policy of the third kind does, and it *)
(* or the membership is edited under the calls.  A draft may be deleted at *)
(* any time there; its own expiry, which does the same, is left to         *)
(* ReleaseSpec.  No call reads whether locks were taken, so drafts that    *)
(* take none are left to "edits" and ReleaseSpec.                          *)
(***************************************************************************)
EXTENDS Approvals, TLC

CONSTANTS p1, p2, p3, u1, u2, c1, c2

VARIABLE scene

mcvars == <<scene, vars>>

EveryKind == p1 :> "any_n" @@ p2 :> "all" @@ p3 :> "specific"
AnyN == p1 :> "any_n"
AnyCall == Permutations({c1, c2})

\* The policies of a scene
Cast == IF scene = "overlap" THEN {p1, p2} ELSE {p3}

\* What the quorum does not read is not varied.
MCInit ==
  /\ scene \in {"overlap", "edits"} /\ Init
  /\ \A p \in Policies : p \notin Cast \/ Kind[p] = "all" =>
       policy[p].needed = 1 /\ policy[p].listed \in {{}, {u1}}

MCNext ==
  /\ Next /\ UNCHANGED scene
  /\ triggers' \subseteq Cast /\ \A p \in Policies \ Cast : policy'[p] = policy[p]
  /\ scene = "overlap" => edits' = edits
  /\ draft'.overdue = draft.overdue
  /\ scene = "overlap" => draft'.taken = (draft'.state # "none")

MCSpec == MCInit /\ [][MCNext]_mcvars

ReleaseSpec == scene = "release" /\ Init /\ [][Next /\ UNCHANGED scene]_mcvars

\* Wherever a call dies, the hourly sweep alone (expireOverdueApprovals)
\* releases a draft whose request is overdue, expired or gone.
SweepReleases == SweepFairness => OverdueReleased /\ ExpiredReleased /\ BareReleased

\* What the sweep cannot see (a call that dies after it settled the last request
\* or after it refused the draft) ends with the draft's own expiry, which
\* deletes the draft and its UTXO locks.
CleanupReleases == CleanupFairness => SettledReleased /\ RefusedReleasesLocks
============================================================================
