----------------------- MODULE MCHeaderReconciliation -----------------------
(***************************************************************************)
(* An instance of HeaderReconciliation for TLC, in two scenes.  "alone":   *)
(* one worker that loses and regains the lock, fetches and refreshes that  *)
(* fail, and servers that agree in the end.  "rivals": two workers, each   *)
(* sure of the lock, that fetch from servers that disagree.                *)
(***************************************************************************)
EXTENDS HeaderReconciliation, TLC

CONSTANTS p1, p2, none

VARIABLE scene

mcvars == <<scene, vars>>

\* Two headers that extend genesis, and one more
MCBlocks == 0..3
MCChain == (0 :> {0}) @@ (1 :> {0, 1}) @@ (2 :> {0, 2}) @@ (3 :> {0, 1, 3})
MCHeight == (0 :> 0) @@ (1 :> 1) @@ (2 :> 1) @@ (3 :> 2)

\* In the second scene nothing fails, and nobody gives up.
Undisturbed ==
  /\ views' = views
  /\ \A p \in Procs : op'[p].pc # "defer" /\ (state[p] = "inactive" \/ state'[p] # "inactive")

MCInit == scene \in {"alone", "rivals"} /\ Init

MCNext ==
  /\ Next /\ UNCHANGED scene
  /\ IF scene = "alone" THEN UNCHANGED <<state[p2], op[p2]>> ELSE Undisturbed

MCFairSpec == MCInit /\ [][MCNext]_mcvars /\ WF_vars(ComesDue) /\ FairWorker(p1)
=============================================================================
