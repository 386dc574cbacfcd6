--------------------------- MODULE CircuitBreaker ---------------------------
(***************************************************************************)
(* The circuit breaker (services/circuitBreaker.ts) around calls that      *)
(* overlap: each awaits its operation and then reports its outcome to      *)
(* whatever state the breaker is in by that time.                          *)
(*                                                                         *)
(* The counters are compared with a threshold and reset to zero only, so   *)
(* that each is kept up to its threshold.                                  *)
(***************************************************************************)
EXTENDS Integers, Sequences

CONSTANTS
  Calls,              \* concurrent callers of execute
  FailureThreshold,
  SuccessThreshold

VARIABLES
  state, failures, successes,
  due,        \* recoveryTimeout has elapsed since openedAt
  running,    \* the calls that await their operation
  healthy,    \* external: operations that begin now succeed
  doomed,     \* external: running operations that may still fail
  outcomes    \* history: the last outcomes, while the circuit is closed

vars == <<state, failures, successes, due, running, healthy, doomed, outcomes>>

Capped(n, limit) == IF n > limit THEN limit ELSE n

\* The one type invariant.
TypeOK ==
  /\ state \in {"closed", "open", "half-open"}
  /\ failures \in 0..FailureThreshold /\ successes \in 0..SuccessThreshold
  /\ due \in BOOLEAN /\ healthy \in BOOLEAN
  /\ running \subseteq Calls /\ doomed \subseteq running
  /\ outcomes \in UNION {[1..n -> {"ok", "failed"}] : n \in 0..FailureThreshold}

Init ==
  /\ state = "closed" /\ failures = 0 /\ successes = 0 /\ due = FALSE
  /\ running = {} /\ healthy = FALSE /\ doomed = {}
  /\ outcomes = << >>

Recent(s, x) ==
  LET longer == Append(s, x)
  IN  IF Len(longer) > FailureThreshold THEN Tail(longer) ELSE longer

-----------------------------------------------------------------------------
\* Mutant: every probe starts the count of successes again.
Bug_Admit ==
  IF state = "closed" THEN UNCHANGED <<state, successes>>
  ELSE (state = "half-open" \/ due) /\ state' = "half-open" /\ successes' = 0

\* An open circuit refuses calls until the timeout has elapsed; the next one
\* begins the recovery (transitionTo half-open).
Admit ==
  \/ state # "open" /\ UNCHANGED <<state, successes>>
  \/ state = "open" /\ due /\ state' = "half-open" /\ successes' = 0

\* execute, up to the await
Begin(c) ==
  /\ c \notin running /\ Admit
  /\ running' = running \cup {c}
  /\ doomed' = IF healthy THEN doomed ELSE doomed \cup {c}
  /\ UNCHANGED <<failures, due, healthy, outcomes>>

\* A call settles.
Over(c) ==
  /\ c \in running /\ running' = running \ {c}
  /\ doomed' = doomed \ {c} /\ UNCHANGED healthy

Close == state' = "closed" /\ failures' = 0 /\ successes' = 0 /\ outcomes' = << >>

\* onSuccess
Succeed(c) ==
  /\ Over(c)
  /\ IF state = "half-open" /\ successes + 1 >= SuccessThreshold
       THEN Close
       ELSE /\ successes' = Capped(successes + 1, SuccessThreshold)
            /\ failures' = IF state = "closed" THEN 0 ELSE failures
            /\ outcomes' = IF state = "closed" THEN Recent(outcomes, "ok") ELSE outcomes
            /\ UNCHANGED state
  /\ UNCHANGED due

\* onFailure
Fail(c) ==
  /\ c \in doomed /\ Over(c)
  /\ failures' = Capped(failures + 1, FailureThreshold)
  /\ outcomes' = IF state = "closed" THEN Recent(outcomes, "failed") ELSE outcomes
  /\ IF state = "half-open" \/ (state = "closed" /\ failures + 1 >= FailureThreshold)
       THEN /\ state' = "open" /\ due' = FALSE
            /\ successes' = IF state = "half-open" THEN 0 ELSE successes
       ELSE UNCHANGED <<state, due, successes>>

\* reset, also of every breaker of the registry
Reset == Close /\ UNCHANGED <<due, running, healthy, doomed>>

\* recoveryTimeout elapses.
Elapse ==
  /\ state = "open" /\ ~due /\ due' = TRUE
  /\ UNCHANGED <<state, failures, successes, running, healthy, doomed, outcomes>>

\* The service behind the circuit recovers for good.
Heal ==
  /\ ~healthy /\ healthy' = TRUE
  /\ UNCHANGED <<state, failures, successes, due, running, doomed, outcomes>>

Next ==
  \/ \E c \in Calls : Begin(c) \/ Succeed(c) \/ Fail(c)
  \/ Reset \/ Elapse \/ Heal

Spec == Init /\ [][Next]_vars

\* Time passes, operations end, and somebody goes on calling.
Fairness ==
  /\ WF_vars(Elapse)
  /\ WF_vars(\E c \in Calls : Begin(c))
  /\ \A c \in Calls : WF_vars(Succeed(c) \/ Fail(c))

FairSpec == Spec /\ Fairness

-----------------------------------------------------------------------------
\* A closed circuit opens only on FailureThreshold failures in a row since it
\* was closed, with no success among them: failures reported while it was open
\* or recovering do not count (onFailure, the resets of onSuccess and reset).
TripEarned ==
  [][state = "closed" /\ state' = "open" =>
       Len(outcomes') = FailureThreshold /\ \A i \in 1..FailureThreshold : outcomes'[i] = "failed"]_vars

\* Once the service has recovered, late failures of old calls notwithstanding,
\* the circuit closes and stays closed ("Automatically recovers after a timeout
\* period").
Recovers == <>healthy => <>[](state = "closed")
=============================================================================
