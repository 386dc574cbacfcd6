CONSTANTS
  p1 = p1
  p2 = p2
  c1 = c1
  c2 = c2
  c3 = c3
  Procs = {p1, p2}
  Calls = {c1, c2, c3}
  Home <- MCHome
  MaxTokens = 2
  MaxRenewals = 1
  Callers = {c1, c2, c3}
  FailureThreshold = 3
  SuccessThreshold = 2

SPECIFICATION MCFairSpec


CHECK_DEADLOCK FALSE

INVARIANTS
  HolderOwnsKey

PROPERTIES
  Retained
  TripsAndRecovers
