CONSTANTS
  Users = {u1, u2}
  Transfers = {t1, t2}
  Calls = {c1, c2}
  First = u1

SPECIFICATION MCFairSpec


CHECK_DEADLOCK FALSE

INVARIANTS
  OneOwner
  OneOffer

PROPERTIES
  OwnerByTransfer
  EndsForGood
