----------------------------- MODULE Resilience -----------------------------
(***************************************************************************)
(* The two primitives other components are built on: the distributed lock  *)
(* and a circuit breaker.  They share nothing.                             *)
(***************************************************************************)
EXTENDS LockAuthority

CONSTANTS
  Callers,              \* concurrent callers of a breaker
  FailureThreshold, SuccessThreshold

\* Every breaker is created with thresholds of at least one.
ASSUME BreakerAssumption ==
  FailureThreshold \in Nat \ {0} /\ SuccessThreshold \in Nat \ {0}

VARIABLES state, failures, successes, due, running, healthy, doomed, outcomes

Breaker == INSTANCE CircuitBreaker WITH Calls <- Callers

-----------------------------------------------------------------------------
\* The counters of a breaker stay within its thresholds, and a closed circuit
\* opens only on FailureThreshold failures in a row since it was closed,
\* whatever calls of before it opened report (onFailure).
TripsEarned == []Breaker!TypeOK /\ Breaker!TripEarned
=============================================================================
