SPECIFICATION Spec

CONSTANTS
  Nodes = {1, 2}
  Candidates = {5}
  Bootstrap = {1, 2}
  Txs = {5}
  RewardEnabled = TRUE
  EpochLength = 2
  MaxMissedBlocks = 3
  FaultKinds = {"timeout", "loss", "prune", "crash", "restart", "slash"}
  MaxFaults = 1
  MaxTime = 2
  Endless = FALSE
  MaxHeight = 2

INVARIANTS
  
  SameHeadSameState

CHECK_DEADLOCK FALSE
