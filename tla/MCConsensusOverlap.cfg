SPECIFICATION Spec

CONSTANTS
  Nodes = {1, 2, 3, 4}
  Candidates = {}
  Bootstrap = {1, 2, 3, 4}
  Txs = {t}
  RewardEnabled = FALSE
  EpochLength = 0
  MaxMissedBlocks = 3
  FaultKinds = {}
  MaxFaults = 0
  MaxTime = 2
  Endless = FALSE
  MaxHeight = 2

INVARIANT SameHead

CHECK_DEADLOCK FALSE
