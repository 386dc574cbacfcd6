SPECIFICATION ReleaseSpec
CONSTANTS
  p1 = p1  p2 = p2  p3 = p3  u1 = u1  u2 = u2  c1 = c1  c2 = c2
  Policies = {p1}
  Kind <- AnyN
  SelfAllowed = {}
  Expiring = {p1}
  Deletable = {p1}
  GroupOwned = {p1}
  Users = {u1, u2}
  Creator = u1
  Calls = {c1}
  Sweep = Sweep
  MaxNeeded = 1
  MaxEdits = 0
  MaxCrashes = 1
CHECK_DEADLOCK FALSE

PROPERTIES
  SweepReleases
  CleanupReleases
