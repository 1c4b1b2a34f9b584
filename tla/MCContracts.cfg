SPECIFICATION Spec
CHECK_DEADLOCK FALSE
CONSTANTS
  Users = {u1, u2}
  Nobody = Nobody
  Stranger = Stranger
  k = k
  counter = counter
  RawValues <- MCRawValues
  NotDeployed = NotDeployed
  Missing = Missing
  Text = Text
  MaxMethods = 3
  MaxInstructions = 3
  Codes <- MCCodes
  Methods <- MCMethods
  ArgLists <- MCArgLists
  PlainKeys <- MCKeys
  Amounts <- MCAmounts
  InitialSupplies <- MCSupplies
  Batches <- MCBatches
  BatchLimit = 2
  BaseCallGas = 50000
  MaxNonce = 2
  MaxReincluded = 1
SYMMETRY Interchangeable
INVARIANTS AllowanceRespected ReceiptTruth GasCoversWork DeployedRuns
PROPERTIES SupplyAccounted OwnerKept
