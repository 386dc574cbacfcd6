CONSTANTS
  Requests = {r1, r2}
  Reconcilers = {m1}
  Actors = {r1, r2, m1}
  Nobody = Nobody
  Variants = {v1, v2}
  NoRaw = NoRaw
  Segwit = TRUE
  Windows = {w1}
  MaxReconcile = 2
  Intents = {o, p, i}
  Originals = {o, i}
  Pairs <- OnePair
  External = {o, p, i}
  Cpfp = {o}
  Cost <- TwoUnits
  Limit <- LimitThree
  LeaseOutlivesAttempt = FALSE
  Scenes = {"pair", "race"}
  Original = o
  Proposal = p
  Other = i

SPECIFICATION MCSpec
SYMMETRY Symmetry

INVARIANTS
  OneArtifact
  SettledIsReal
  NeverBoth
  LimitsInTime

PROPERTIES
  KeepsSpendPromise
