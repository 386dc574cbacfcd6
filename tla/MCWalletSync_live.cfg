CONSTANTS
  Tokens = {t1, t2}
  NoToken = NoToken
  MaxGen = 2
  MaxFull = 1
  Workers = {w1, w2}
  Nobody = Nobody
  Orphan = Orphan
  Cleaner = Cleaner
  MaxAttempts = 2
  MaxInFlight = 1
  MaxFaults = 1
  Scenes = {"workers"}

SPECIFICATION MCFairSpec
CHECK_DEADLOCK FALSE

PROPERTY
  WorkSettles
