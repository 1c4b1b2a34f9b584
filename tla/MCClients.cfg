\* Three faucet requests, two views of an extension, a command line, and a node
\* that registers itself.
SPECIFICATION FairSpec

CONSTANTS
  Funder = funder
  User = user
  Owner = owner
  Node = node
  Addresses = {funder, user, owner, node}
  f1 = f1
  f2 = f2
  f3 = f3
  e1 = e1
  e2 = e2
  s = s
  v = v
  k = k
  w = w
  r = r
  Clients = {f1, f2, f3, e1, e2, s, v, k, w, r}
  Task <- Tasks
  Genesis <- Balances
  MinValidatorStake = 2
  StakeAmount = 2
  BaseFee = 1
  MaxTxPerBlock = 4
  LogLimit = 2
  Parties <- Together
  MaxTries <- Tries
  MaxPool = 4
  MaxFaults = 1

CHECK_DEADLOCK FALSE

INVARIANTS
  FundedOnce
  PromiseKept

PROPERTIES
  SendsInTurn
  ActivityKept
  Registers
