\* Payments, stakes, contracts and rewards, and four validators of one owner that miss rounds.
CONSTANTS
  Users <- TwoUsers
  Contracts <- OneContract
  ValidatorIds <- FourIds
  Seed = "seed"
  SeedId = 1
  InitialBalance <- TightFunds
  SeedStake = 4
  Txs <- AllTxs
  MinValidatorStake = 2
  UnstakeCooldownBlocks = 2
  BaseFee = 1
  MaxActiveValidators = 0
  EpochLength = 0
  RewardEnabled = TRUE
  BlockReward = 1
  FeeSharePercent = 80
  ProposerBonusPercent = 40
  RewardMode = "hybrid"
  MaxMissedBlocks = 2
  EjectionBlocks = 3
  BurnPercent = 50
  SlashPercent = 50
  NoValidator = NoValidator
  MaxHeight = 5
  MaxBlockTxs = 2

SPECIFICATION Spec

INVARIANTS
  DowntimeBounded
  Conservation
  TypeOK
  HistoryInOrder
PROPERTIES
  UnstakeOnTime
  OnlyRegistrationOverdraws

CHECK_DEADLOCK FALSE
