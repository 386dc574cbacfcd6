CONSTANTS
  p1 = p1
  p2 = p2
  none = none
  Procs = {p1, p2}
  Blocks <- MCBlocks
  Chain <- MCChain
  Height <- MCHeight
  Genesis = 0
  NoBlock = none
  Wallets = 2
  PageSize = 1
  Window = 2
  MaxGen = 9
  Reserve = 7
  Stabilises = TRUE

SPECIFICATION MCFairSpec


CHECK_DEADLOCK FALSE

INVARIANTS
  RowSound
  ProofIsChain

PROPERTIES
  NothingSkipped
  Settles
