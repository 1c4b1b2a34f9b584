SPECIFICATION FairSpec

CONSTANTS
  Nodes = {1, 2, 3, 4}
  Candidates = {}
  Bootstrap = {1, 2, 3, 4}
  Txs = {7}
  RewardEnabled = FALSE
  EpochLength = 0
  MaxMissedBlocks = 3
  FaultKinds = {"timeout", "loss", "crash"}
  MaxFaults = 2
  MaxTime = 0
  Endless = TRUE
  MaxHeight = 2
  Schedules <- FourNodes

PROPERTIES KeepsCommitting SharedChain OwnBlocksHaveQuorum

CHECK_DEADLOCK FALSE
