---------------------------- MODULE MCResilience ----------------------------
(***************************************************************************)
(* Instances of the lock and of a breaker, for TLC.  They share nothing: a *)
(* behaviour is one of the lock or one of a breaker.                       *)
(***************************************************************************)
EXTENDS Resilience, TLC

CONSTANTS p1, p2, c1, c2, c3

VARIABLE part       \* whose behaviour this is

bvars == <<state, failures, successes, due, running, healthy, doomed, outcomes>>
mcvars == <<part, vars, bvars>>

MCInit == part \in {"lock", "breaker"} /\ Init /\ Breaker!Init

MCNext ==
  /\ \/ part = "lock" /\ Next /\ UNCHANGED bvars
     \/ part = "breaker" /\ Breaker!Next /\ UNCHANGED vars
  /\ UNCHANGED part

MCFairSpec ==
  MCInit /\ [][MCNext]_mcvars /\ (part = "breaker" => Breaker!Fairness)

\* c1 and c2 are jobs of one process, c3 runs in another one.
MCHome == (c1 :> p1) @@ (c2 :> p1) @@ (c3 :> p2)

-----------------------------------------------------------------------------
\* A closed circuit opens only on FailureThreshold failures in a row since it
\* was closed (TripsEarned); and once the service has recovered, late failures
\* of old calls notwithstanding, it closes and stays closed ("Automatically
\* recovers after a timeout period", circuitBreaker.ts).
TripsAndRecovers == TripsEarned /\ (part = "breaker" => Breaker!Recovers)
=============================================================================
