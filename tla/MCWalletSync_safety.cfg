CONSTANTS
  Tokens = {t1, t2, t3}
  NoToken = NoToken
  MaxGen = 2
  MaxFull = 2
  Workers = {w1, w2}
  Nobody = Nobody
  Orphan = Orphan
  Cleaner = Cleaner
  MaxAttempts = 2
  MaxInFlight = 1
  MaxFaults = 2
  Scenes = {"workers", "resyncs", "sweep"}

SPECIFICATION MCSpec
SYMMETRY Symmetry
CHECK_DEADLOCK FALSE

INVARIANTS
  NoLostActivity
  SingleWriter
  HistoryCurrent
  NotesPreserved

PROPERTIES
  SweepSparesNewerClaims
  KeepsPromise
