CONSTANTS
  Deliveries = {d1}
  Processes = {p1, p2}
  Urls = {u1, u2}
  Nobody = Nobody
  MaxAttempts = 2
  MaxSecrets = 1
  MaxReplays = 1
  Home = u1
  Spare = p2

SPECIFICATION MCFairSpec


CHECK_DEADLOCK FALSE

INVARIANTS
  OutcomeIsCurrent
  SentWhereQueued

PROPERTIES
  FinalStays
  OutboxDrains
