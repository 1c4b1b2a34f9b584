SPECIFICATION FairSpec

CONSTANTS
  Nodes = {1, 2, 3, 4}
  Candidates = {}
  Bootstrap = {1, 2, 3, 4}
  Txs = {}
  RewardEnabled = TRUE
  EpochLength = 0
  MaxMissedBlocks = 3
  FaultKinds = {"loss"}
  MaxFaults = 1
  MaxTime = 0
  Endless = TRUE
  MaxHeight = 4
  Schedules <- FourNodes

PROPERTY KeepsCommitting

CHECK_DEADLOCK FALSE
