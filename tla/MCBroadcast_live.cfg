CONSTANTS
  Requests = {r1}
  Reconcilers = {m1}
  Actors = {r1, m1}
  Nobody = Nobody
  Variants = {v1}
  NoRaw = NoRaw
  Segwit = TRUE
  Windows = {w1}
  MaxReconcile = 2
  Intents = {o}
  Originals = {o}
  Pairs <- NoPairs
  External = {o}
  Cpfp = {o}
  Cost <- TwoUnits
  Limit <- LimitFour
  LeaseOutlivesAttempt = FALSE
  Scenes = {"alone"}
  Original = o
  Proposal = o
  Other = o

SPECIFICATION MCFairSpec

PROPERTIES
  OutSettles
