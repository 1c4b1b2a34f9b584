\* Epochs: a cap of two active validators, one slot beside the seed node.
CONSTANTS
  Users <- AllUsers
  Contracts <- OneContract
  ValidatorIds <- ThreeIds
  Seed = "seed"
  SeedId = 1
  InitialBalance <- Funds
  SeedStake = 2
  Txs <- EpochTxs
  MinValidatorStake = 2
  UnstakeCooldownBlocks = 2
  BaseFee = 1
  MaxActiveValidators = 2
  EpochLength = 2
  RewardEnabled = FALSE
  BlockReward = 0
  FeeSharePercent = 80
  ProposerBonusPercent = 40
  RewardMode = "hybrid"
  MaxMissedBlocks = 2
  EjectionBlocks = 4
  BurnPercent = 50
  SlashPercent = 10
  NoValidator = NoValidator
  MaxHeight = 5
  MaxBlockTxs = 2

SPECIFICATION Spec

INVARIANTS
  PendingSound
  ActiveCap

PROPERTIES
  ActivationNeedsStake
  ActivationFair

CHECK_DEADLOCK FALSE
