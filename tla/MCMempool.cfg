\* Two nodes, two senders: gossip, blocks and catching up in any order.
SPECIFICATION FairSpec

CONSTANTS
  Nodes = {1, 2}
  Senders = {1, 9}
  Txs <- Mixed
  Own <- OwnTxs
  MaxTxPerBlock = 2
  MaxLag = 1
  MaxFaults = 1

INVARIANTS
  NoStaleOrRival

PROPERTIES
  ArrivalsSurvive
  Served
