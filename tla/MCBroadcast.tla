----------------------------- MODULE MCBroadcast -----------------------------
(***************************************************************************)
(* Instances of Broadcast for TLC.  The model is finite as it stands (the  *)
(* usage windows are bounded by their limits), so requests retry, crash    *)
(* and fail without a bound.                                               *)
(*                                                                         *)
(* A behaviour plays one of the Scenes.  In "pair" a payjoin original and  *)
(* its proposal are broadcast by one request at a time and by the          *)
(* reconciliation job, and leases may run out under a live attempt.  In    *)
(* "race" requests compete with unrelated intents for a window that has    *)
(* room for one, and an attempt ends before its lease.  In "alone" nothing *)
(* is restricted.                                                          *)
(***************************************************************************)
EXTENDS BroadcastInTime, TLC

CONSTANTS
  Scenes,
  Original, Proposal,   \* the payjoin pair
  Other                 \* an intent of the same wallet outside the pair

VARIABLE scene

mcvars == <<ivars, scene>>

MCInit == IInit /\ scene \in Scenes

\* At most one request is being served.
OneByOne == \A a, b \in Requests : a = b \/ At(a, "idle") \/ At(b, "idle")

MCNext ==
  /\ INext
  /\ scene = "pair" => OneByOne' /\ UNCHANGED row[Other]
  /\ scene = "race" => ~late' /\ UNCHANGED row[Proposal]
  /\ UNCHANGED scene

MCSpec == MCInit /\ [][MCNext]_mcvars

MCFairSpec == MCSpec /\ Fairness

-----------------------------------------------------------------------------
Symmetry == Permutations(Requests) \cup Permutations(Variants)

OnePair == {<<Original, Proposal>>}

NoPairs == {}

\* Every external intent takes two units of every window.
TwoUnits ==
  [i \in Intents |-> [w \in Windows |-> IF i \in External THEN 2 ELSE 0]]

\* One broadcast fits, and not two: the remaining unit is not enough.
LimitThree == [w \in Windows |-> 3]

\* Two broadcasts fit.
LimitFour == [w \in Windows |-> 4]
=============================================================================
