SPECIFICATION MCSpec
CONSTANTS
  p1 = p1  p2 = p2  p3 = p3  u1 = u1  u2 = u2  c1 = c1  c2 = c2
  Policies = {p1, p2, p3}
  Kind <- EveryKind
  SelfAllowed = {p1, p3}
  Expiring = {p2}
  Deletable = {}
  GroupOwned = {}
  Users = {u1, u2}
  Creator = u1
  Calls = {c1, c2}
  Sweep = Sweep
  MaxNeeded = 2
  MaxEdits = 1
  MaxCrashes = 0
SYMMETRY AnyCall
CHECK_DEADLOCK FALSE

INVARIANTS
  ClearedSound
  ApprovedByQuorum
  NothingMissed
  ClearedKeepsLocks

PROPERTIES
  RefusalTerminal
