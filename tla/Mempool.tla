------------------------------ MODULE Mempool ------------------------------
(***************************************************************************)
(* The mempools of several nodes (apps/node/src/tx-policy.ts and main.ts): *)
(* admission by nonce, the order by fee, gossip, and what a block does to  *)
(* them, at its proposer (around the await of the votes) and at the other  *)
(* nodes.  How nodes agree on a block is module Consensus: here one round  *)
(* is under way at a time, and all nodes get the same blocks.              *)
(***************************************************************************)
EXTENDS TxPolicy

CONSTANTS
  Nodes,          \* the nodes, in the order of their turns; also accounts
  Senders,        \* accounts
  Txs,            \* the transactions that clients and nodes may submit
  MaxTxPerBlock,
  Own,            \* the transactions in Txs that nodes make for themselves
  MaxLag,         \* bound: how many blocks a node may be behind
  MaxFaults       \* bound: lost gossip messages and rounds without a quorum

TxRecord == [from : Senders, nonce : Nat \ {0}, fee : Nat, ok : BOOLEAN]

ASSUME MempoolAssumption ==
  /\ IsFiniteSet(Nodes) /\ Nodes # {}
  /\ Nodes = 1 .. Cardinality(Nodes)
  /\ Txs \subseteq TxRecord
  /\ Own \subseteq Txs
  /\ \A tx \in Own : tx.from \in Nodes
  /\ MaxTxPerBlock \in Nat \ {0}
  /\ MaxLag \in Nat \ {0}
  /\ MaxFaults \in Nat

VARIABLES
  nonces,    \* each node's state: the nonces of its accounts
  behind,    \* the blocks (transactions of them) that a node does not have yet
  mempool,
  seen,      \* seenTxHashes
  wire,      \* gossip messages on their way
  turn,      \* whose turn it is to propose
  batch,     \* the batch of the round under way, or NoRound
  faults     \* faults so far

vars == <<nonces, behind, mempool, seen, wire, turn, batch, faults>>

NoRound == [txs |-> <<>>, open |-> FALSE]

-----------------------------------------------------------------------------
(* Admission. *)

Admits(n, tx) == Acceptable(nonces[n], mempool[n], tx)

Enqueue(n, tx) == mempool' = [mempool EXCEPT ![n] = Sort(Append(@, tx))]

-----------------------------------------------------------------------------
(* Blocks. *)

\* The nonces m after a block: applyBlock refuses a transaction whose turn it is
\* not, and one that it cannot execute.
After(m, txs) ==
  LET apply(before, tx) == IF tx.ok /\ tx.nonce = before[tx.from] + 1
                           THEN [before EXCEPT ![tx.from] = tx.nonce] ELSE before
      after[i \in 0 .. Len(txs)] == IF i = 0 THEN m ELSE apply(after[i - 1], txs[i])
  IN  after[Len(txs)]

Init ==
  /\ nonces = [n \in Nodes |-> [s \in Senders |-> 0]]
  /\ behind = [n \in Nodes |-> <<>>]
  /\ mempool = [n \in Nodes |-> <<>>]
  /\ seen = [n \in Nodes |-> {}]
  /\ wire = {}
  /\ turn = 1
  /\ batch = NoRound
  /\ faults = 0

Gossip(n, tx) == {[to |-> m, tx |-> tx] : m \in Nodes \ {n}}

\* qtx_submitTransaction.  (Bound: no client offers a node what it has seen.)
Submit(n, tx) ==
  /\ tx \notin seen[n]
  /\ Admits(n, tx)
  /\ Enqueue(n, tx)
  /\ seen' = [seen EXCEPT ![n] = @ \cup {tx}]
  /\ wire' = wire \cup Gossip(n, tx)
  /\ UNCHANGED <<nonces, behind, turn, batch, faults>>

\* qtx_seedTransfer: the node's own transfer, which takes the next nonce.
SeedTransfer(n, tx) ==
  /\ tx \in Own
  /\ tx.from = n
  /\ Admits(n, tx)
  /\ Enqueue(n, tx)
  /\ UNCHANGED <<nonces, behind, seen, wire, turn, batch, faults>>

\* qtx_receivePeerTransaction.  What the mempool refuses stays seen.
ReceivePeer(message) ==
  LET n == message.to
      tx == message.tx
      news == tx \notin seen[n]
  IN  /\ seen' = [seen EXCEPT ![n] = @ \cup {tx}]
      /\ IF news /\ Admits(n, tx)
         THEN Enqueue(n, tx) /\ wire' = (wire \ {message}) \cup Gossip(n, tx)
         ELSE wire' = wire \ {message} /\ UNCHANGED mempool
      /\ UNCHANGED <<nonces, behind, turn, batch, faults>>

\* "Offline peer -- ignore".
LoseMessage(message) ==
  /\ faults < MaxFaults
  /\ faults' = faults + 1
  /\ wire' = wire \ {message}
  /\ UNCHANGED <<nonces, behind, mempool, seen, turn, batch>>

NextTurn == (turn % Cardinality(Nodes)) + 1

\* What a proposer puts into a block; it stays in the mempool meanwhile.
Batch(n) == SubSeq(mempool[n], 1, IF Len(mempool[n]) < MaxTxPerBlock
                                  THEN Len(mempool[n]) ELSE MaxTxPerBlock)

\* produceDistributedBlock up to its await, at a node that has the whole chain.
StartBlock ==
  /\ ~batch.open
  /\ behind[turn] = <<>>
  /\ \A n \in Nodes : Len(behind[n]) < MaxLag
  /\ batch' = [txs |-> Batch(turn), open |-> TRUE]
  /\ UNCHANGED <<nonces, behind, mempool, seen, wire, turn, faults>>

\* The block is committed.
FinishBlock ==
  LET after == After(nonces[turn], batch.txs)
  IN  /\ batch.open
      /\ nonces' = [nonces EXCEPT ![turn] = after]
      /\ mempool' = [mempool EXCEPT ![turn] = Pruned(Without(@, batch.txs), after)]
      /\ behind' = [n \in Nodes |-> IF n = turn THEN <<>> ELSE Append(behind[n], batch.txs)]
      /\ batch' = NoRound
      /\ turn' = NextTurn
      /\ UNCHANGED <<seen, wire, faults>>

\* There is no quorum, and the stall hands the turn on.
RoundFails ==
  /\ batch.open
  /\ faults < MaxFaults
  /\ faults' = faults + 1
  /\ batch' = NoRound
  /\ turn' = NextTurn
  /\ UNCHANGED <<nonces, behind, mempool, seen, wire>>

\* qtx_consensusCommit of the next block; a sync is several of these at once.
CatchUp(n) ==
  LET after == After(nonces[n], Head(behind[n]))
  IN  /\ behind[n] # <<>>
      /\ nonces' = [nonces EXCEPT ![n] = after]
      /\ mempool' = [mempool EXCEPT ![n] = Pruned(@, after)]
      /\ behind' = [behind EXCEPT ![n] = Tail(@)]
      /\ UNCHANGED <<seen, wire, turn, batch, faults>>

Arrivals ==
  \/ \E n \in Nodes, tx \in Txs : Submit(n, tx) \/ SeedTransfer(n, tx)
  \/ \E message \in wire : ReceivePeer(message) \/ LoseMessage(message)

Next ==
  \/ Arrivals
  \/ StartBlock
  \/ FinishBlock
  \/ RoundFails
  \/ \E n \in Nodes : CatchUp(n)

Spec == Init /\ [][Next]_vars

\* The block timers keep firing, a round ends, and every node gets the blocks.
FairSpec ==
  /\ Spec
  /\ WF_vars(StartBlock)
  /\ WF_vars(FinishBlock)
  /\ \A n \in Nodes : WF_vars(CatchUp(n))

-----------------------------------------------------------------------------
(* Properties *)

\* Every variable has its type.
TypeOK ==
  /\ nonces \in [Nodes -> [Senders -> Nat]]
  /\ \A n \in Nodes :
       /\ ToSet(mempool[n]) \subseteq Txs
       /\ seen[n] \subseteq Txs
       /\ Len(behind[n]) <= MaxLag
       /\ \A i \in DOMAIN behind[n] : ToSet(behind[n][i]) \subseteq Txs
  /\ wire \subseteq [to : Nodes, tx : Txs]
  /\ turn \in Nodes
  /\ ToSet(batch.txs) \subseteq Txs
  /\ Len(batch.txs) <= MaxTxPerBlock
  /\ batch.open \in BOOLEAN
  /\ faults \in 0 .. MaxFaults

\* No entry of a mempool is stale, and no two entries compete for a nonce,
\* also while blocks arrive between admission and proposal.
NoStaleOrRival ==
  \A n \in Nodes : \A i, j \in DOMAIN mempool[n] :
    LET a == mempool[n][i]  b == mempool[n][j]
    IN  /\ a.nonce > nonces[n][a.from]
        /\ a.from = b.from /\ a.nonce = b.nonce => i = j

\* main.ts: "New txs submitted during peer-vote await ... are safely
\* preserved": an entry only leaves a mempool in the block it is in, or stale.
ArrivalsSurvive ==
  [][\A n \in Nodes : \A tx \in ToSet(mempool[n]) :
       \/ Contains(mempool'[n], tx)
       \/ n = turn /\ batch.open /\ Contains(batch.txs, tx)
       \/ tx.nonce <= nonces'[n][tx.from]]_vars

\* A sender whose transactions can all be executed and never offer more for a
\* later nonce is served: what a node has accepted, its nonce is used up.
Dependable(s) ==
  \A a, b \in {tx \in Txs : tx.from = s} : a.ok /\ (a.nonce < b.nonce => a.fee >= b.fee)

Served ==
  \A n \in Nodes, tx \in Txs :
    Dependable(tx.from) =>
      (Contains(mempool[n], tx) ~> nonces[n][tx.from] >= tx.nonce)

=============================================================================
