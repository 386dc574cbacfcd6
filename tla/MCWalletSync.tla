---------------------------- MODULE MCWalletSync ----------------------------
(***************************************************************************)
(* Instances of WalletSync for TLC.  A run bounds how many things go wrong *)
(* in one behaviour; between two faults every interleaving is explored.    *)
(* A behaviour plays one of the Scenes: in "workers" all workers run and   *)
(* one full resync is requested, in "resyncs" one worker at a time runs    *)
(* and full resyncs follow each other, and in "sweep" the API process      *)
(* sweeps stuck rows under workers that run incremental work.              *)
(***************************************************************************)
EXTENDS WalletSyncRefinement, TLC

CONSTANTS
  MaxFaults,    \* bound: crashes, losses, failures, refusals and resets
  Scenes

VARIABLES
  scene,
  faults,
  crashed       \* whether a worker has died or could not release its claim

mcvars == <<vars, scene, faults, crashed>>

MCInit == Init /\ scene \in Scenes /\ faults = 0 /\ crashed = FALSE

\* At most one worker is busy.
OneByOne ==
  \A v, w \in Workers : worker[v].phase # "idle" /\ worker[w].phase # "idle" => v = w

MCNext ==
  /\ \/ Steps /\ UNCHANGED <<faults, crashed>>
     \/ Mishaps /\ faults' = faults + 1 /\ UNCHANGED crashed
     \/ Crashes /\ faults' = faults + 1 /\ crashed' = TRUE
     \/ scene = "sweep" /\ Sweep /\ UNCHANGED <<faults, crashed>>
  /\ faults' <= MaxFaults
  /\ scene = "workers" => row'.reqFull <= 1
  /\ scene = "resyncs" => OneByOne'
  /\ scene = "sweep" => row'.reqFull = 0
  /\ UNCHANGED scene

\* Work is requested that no attempt has completed.
Pending(r) == r.requested > r.processed \/ FullPending(r)

MCSpec == MCInit /\ [][MCNext]_mcvars

MCFairSpec == MCSpec /\ Fairness

\* Requested work, a full resync included, is eventually done or visibly waits
\* for the operator: whatever is lost in the queue or dies in a worker,
\* the recovery coordinator finds it.  Excepted is a full resync once a worker
\* has died.
WorkSettles ==
  Pending(row) ~>
    \/ ~Pending(row) \/ row.actionRequired
    \/ crashed /\ FullPending(row)

-----------------------------------------------------------------------------
Symmetry == Permutations(Tokens) \cup Permutations(Workers)
=============================================================================
