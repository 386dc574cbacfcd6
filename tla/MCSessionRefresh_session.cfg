CONSTANTS
  Tabs = {t1, t2}
  Scenes <- MCScenes
  MaxPairs = 2
  Quiet = t2

SPECIFICATION MCFairSpec


CHECK_DEADLOCK FALSE

INVARIANTS
  ClearedIsOver
  CredentialKept
  Coordinated

PROPERTIES
  RequestSettles
  EndReachesTabs
