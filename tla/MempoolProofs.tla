--------------------------- MODULE MempoolProofs ---------------------------
(***************************************************************************)
(* Theorems about Mempool, for every number of nodes, senders and          *)
(* transactions: no mempool ever has a stale entry or two entries for one  *)
(* nonce, and an entry leaves it only in a block of its node or stale.     *)
(***************************************************************************)
EXTENDS Mempool, FiniteTheorems

\* The types, and how far a node may be behind while votes are awaited.
Typed ==
  /\ nonces \in [Nodes -> [Senders -> Nat]]
  /\ mempool \in [Nodes -> Seq(Txs)]
  /\ behind \in [Nodes -> Seq(Seq(Txs))]
  /\ seen \in [Nodes -> SUBSET Txs]
  /\ wire \subseteq [to : Nodes, tx : Txs]
  /\ turn \in Nodes
  /\ batch \in [txs : Seq(Txs), open : BOOLEAN]
  /\ Len(batch.txs) <= MaxTxPerBlock
  /\ faults \in 0 .. MaxFaults
  /\ \A n \in Nodes : Len(behind[n]) <= MaxLag /\ (batch.open => Len(behind[n]) < MaxLag)

\* A mempool that may be offered to a proposer.
Sound(pool, m) == Distinct(pool) /\ \A tx \in ToSet(pool) : tx.nonce > m[tx.from]

\* The inductive invariant.
IInv == Typed /\ \A n \in Nodes : Sound(mempool[n], nonces[n])

-----------------------------------------------------------------------------
(* What a block does to the nonces. *)

\* One transaction of a block uses up its nonce or fails.
Used(m, tx) == IF tx.ok /\ tx.nonce = m[tx.from] + 1 THEN [m EXCEPT ![tx.from] = tx.nonce] ELSE m

\* The course of applyBlock.
Uses(g, m, txs) == g = [i \in 0 .. Len(txs) |-> IF i = 0 THEN m ELSE Used(g[i - 1], txs[i])]

\* The course of a block, named.
UseUp(m, txs) == CHOOSE g : Uses(g, m, txs)

\* After ends it.
LEMMA AfterIsLast ==
  ASSUME NEW m, NEW txs
  PROVE  After(m, txs) = UseUp(m, txs)[Len(txs)]
BY Zenon DEF After, UseUp, Uses, Used

\* Nonces stay natural numbers.
LEMMA AfterType ==
  ASSUME NEW m \in [Senders -> Nat], NEW txs \in Seq(Txs), NEW after, after = After(m, txs)
  PROVE  after \in [Senders -> Nat]
<1>. DEFINE n == Len(txs)
            Q == [Senders -> Nat]
            step == [x \in (1 .. n) \X Q |-> Used(x[2], txs[x[1]])]
            g == UseUp(m, txs)
<1>1. n \in Nat /\ \A i \in 1 .. n : txs[i] \in TxRecord
  BY MempoolAssumption
<1>2. \A x \in (1 .. n) \X Q : Used(x[2], txs[x[1]]) \in Q
  BY <1>1 DEF Used, TxRecord
<1>3. \A k \in 1 .. n : \A q \in Q : step[<<k, q>>] = Used(q, txs[k])
  OBVIOUS
<1>4. step \in Steps(n, Q)
  BY <1>2 DEF Steps
<1>. HIDE DEF n, Q, step, g
<1>5. PICK h \in Courses(n, Q) : Course(h, n, m, step)
  <2>1. m \in Q
    BY DEF Q
  <2>. QED
    BY <1>1, <1>4, <2>1, CourseExists
<1>6. h \in [0 .. n -> Q] /\ h[0] = m /\ \A i \in 1 .. n : h[i] = step[<<i, h[i - 1]>>]
  BY <1>5 DEF Courses, Course
<1>7. Uses(h, m, txs)
  <2>1. ASSUME NEW i \in 0 .. n
        PROVE  h[i] = IF i = 0 THEN m ELSE Used(h[i - 1], txs[i])
    <3>1. CASE i = 0
      BY <1>6, <3>1
    <3>2. CASE i # 0
      <4>1. i \in 1 .. n /\ i - 1 \in 0 .. n
        BY <1>1, <3>2
      <4>2. h[i - 1] \in Q
        BY <1>6, <4>1
      <4>. QED
        BY <1>3, <1>6, <3>2, <4>1, <4>2
    <3>. QED
      BY <3>1, <3>2
  <2>2. h = [i \in 0 .. n |-> h[i]]
    BY <1>6
  <2>. QED
    BY <2>1, <2>2 DEF Uses, n
<1>8. Uses(g, m, txs)
  BY <1>7 DEF UseUp, g
<1>9. \A i \in 0 .. n : g[i] = IF i = 0 THEN m ELSE Used(g[i - 1], txs[i])
  BY <1>8 DEF Uses, n
<1>. DEFINE P == {k \in 0 .. n : g[k] \in Q}
<1>10. 0 \in P
  BY <1>1, <1>9 DEF Q
<1>11. ASSUME NEW k \in 0 .. n, k < n, k \in P
       PROVE  k + 1 \in P
  <2>1. k + 1 \in 0 .. n /\ k + 1 \in 1 .. n /\ (k + 1) - 1 = k /\ k + 1 # 0
    BY <1>1, <1>11
  <2>2. g[k + 1] = Used(g[k], txs[k + 1]) /\ g[k] \in Q
    BY <1>9, <1>11, <2>1
  <2>3. txs[k + 1] \in TxRecord
    BY <1>1, <2>1
  <2>4. Used(g[k], txs[k + 1]) \in Q
    BY <2>2, <2>3 DEF Used, TxRecord, Q
  <2>. QED
    BY <2>1, <2>2, <2>4
<1>12. P = 0 .. n
  <2>1. P \in SUBSET (0 .. n)
    OBVIOUS
  <2>. HIDE DEF P
  <2>. QED
    BY <1>1, <1>10, <1>11, <2>1, UpTo
<1>13. g[n] \in Q
  BY <1>1, <1>12
<1>. QED
  BY <1>13, AfterIsLast DEF Q, g, n

-----------------------------------------------------------------------------
(* The two things that happen to a mempool. *)

\* A transaction is admitted and placed at node n.
LEMMA Enqueued ==
  ASSUME IInv, NEW n \in Nodes, NEW tx \in Txs, Admits(n, tx), Enqueue(n, tx), nonces' = nonces
  PROVE  /\ mempool' \in [Nodes -> Seq(Txs)]
         /\ \A m \in Nodes : /\ Sound(mempool'[m], nonces'[m])
                             /\ ToSet(mempool[m]) \subseteq ToSet(mempool'[m])
<1>. DEFINE pool == mempool[n]
            after == Sort(Append(pool, tx))
<1>1. mempool \in [Nodes -> Seq(Txs)] /\ pool \in Seq(Txs) /\ Sound(pool, nonces[n])
  BY DEF IInv, Typed
<1>2. mempool' = [mempool EXCEPT ![n] = after]
  BY DEF Enqueue
<1>3. tx.nonce > nonces[n][tx.from] /\ \A i \in DOMAIN pool : pool[i].from = tx.from => pool[i].nonce # tx.nonce
  BY DEF Admits, Acceptable
<1>4. after = Sort(Append(pool, tx))
  OBVIOUS
<1>. HIDE DEF after, pool
<1>5. /\ after \in Seq(Txs)
      /\ ToSet(after) = ToSet(pool) \cup {tx}
      /\ Distinct(after)
  BY <1>1, <1>3, <1>4, EnqueuedPool DEF Sound
<1>6. Sound(after, nonces[n])
  BY <1>1, <1>3, <1>5 DEF Sound
<1>7. mempool' \in [Nodes -> Seq(Txs)] /\ mempool'[n] = after /\ \A m \in Nodes \ {n} : mempool'[m] = mempool[m]
  BY <1>1, <1>2, <1>5
<1>8. ASSUME NEW m \in Nodes
      PROVE  Sound(mempool'[m], nonces'[m]) /\ ToSet(mempool[m]) \subseteq ToSet(mempool'[m])
  <2>1. CASE m = n
    BY <1>5, <1>6, <1>7, <2>1 DEF pool
  <2>2. CASE m # n
    BY <1>7, <2>2 DEF IInv
  <2>. QED
    BY <2>1, <2>2
<1>. QED
  BY <1>7, <1>8

\* Pruning a mempool of sound entries.
LEMMA PrunedTxs ==
  ASSUME NEW left \in Seq(Txs), Distinct(left), NEW after, NEW rest, rest = Pruned(left, after)
  PROVE  /\ rest \in Seq(Txs) /\ Distinct(rest)
         /\ \A tx : tx \in ToSet(rest) <=> tx \in ToSet(left) /\ tx.nonce > after[tx.from]
BY PrunedPool

\* A block at node n; left is what of the mempool was not in it.
LEMMA Blocked ==
  ASSUME IInv, NEW n \in Nodes, NEW txs \in Seq(Txs), NEW after, after = After(nonces[n], txs),
         NEW left \in Seq(Txs), Distinct(left), NEW taken, ToSet(mempool[n]) \ taken \subseteq ToSet(left),
         nonces' = [nonces EXCEPT ![n] = after], mempool' = [mempool EXCEPT ![n] = Pruned(left, after)]
  PROVE  /\ nonces' \in [Nodes -> [Senders -> Nat]]
         /\ mempool' \in [Nodes -> Seq(Txs)]
         /\ \A m \in Nodes : /\ Sound(mempool'[m], nonces'[m])
                             /\ \A tx \in ToSet(mempool[m]) :
                                  \/ tx \in ToSet(mempool'[m])
                                  \/ m = n /\ tx \in taken
                                  \/ tx.nonce <= nonces'[m][tx.from]
<1>. DEFINE rest == Pruned(left, after)
<1>1. /\ nonces \in [Nodes -> [Senders -> Nat]] /\ mempool \in [Nodes -> Seq(Txs)]
      /\ \A m \in Nodes : Sound(mempool[m], nonces[m])
  BY DEF IInv, Typed
<1>2. after \in [Senders -> Nat]
  BY <1>1, AfterType
<1>3. rest = Pruned(left, after)
  OBVIOUS
<1>. HIDE DEF rest
<1>4. /\ rest \in Seq(Txs) /\ Distinct(rest)
      /\ \A tx : tx \in ToSet(rest) <=> tx \in ToSet(left) /\ tx.nonce > after[tx.from]
  BY ZenonT(30), <1>3, PrunedTxs
<1>5. /\ nonces' \in [Nodes -> [Senders -> Nat]] /\ nonces'[n] = after
      /\ \A m \in Nodes \ {n} : nonces'[m] = nonces[m]
  BY <1>1, <1>2
<1>6. /\ mempool' \in [Nodes -> Seq(Txs)] /\ mempool'[n] = rest
      /\ \A m \in Nodes \ {n} : mempool'[m] = mempool[m]
  BY <1>1, <1>3, <1>4
<1>7. ASSUME NEW m \in Nodes
      PROVE  /\ Sound(mempool'[m], nonces'[m])
             /\ \A tx \in ToSet(mempool[m]) : \/ tx \in ToSet(mempool'[m])
                                              \/ m = n /\ tx \in taken
                                              \/ tx.nonce <= nonces'[m][tx.from]
  <2>1. CASE m = n
    <3>1. Sound(mempool'[n], nonces'[n])
      BY <1>4, <1>5, <1>6 DEF Sound
    <3>2. ASSUME NEW tx \in ToSet(mempool[n]), tx \notin ToSet(rest), tx \notin taken
          PROVE  tx.nonce <= after[tx.from]
      <4>1. tx \in ToSet(left) /\ ~(tx.nonce > after[tx.from])
        BY <1>4, <3>2
      <4>2. tx.nonce \in Nat /\ tx.from \in Senders
        <5>1. tx \in Txs
          BY <1>1 DEF ToSet
        <5>. QED
          BY <5>1, MempoolAssumption DEF TxRecord
      <4>. QED
        BY <1>2, <4>1, <4>2
    <3>. QED
      BY <1>5, <1>6, <2>1, <3>1, <3>2
  <2>2. CASE m # n
    BY <1>1, <1>5, <1>6, <2>2
  <2>. QED
    BY <2>1, <2>2
<1>. QED
  BY <1>5, <1>6, <1>7

-----------------------------------------------------------------------------
(* The steps. *)

\* What a step may not do to the entries of a mempool.
Survive ==
  \A n \in Nodes : \A tx \in ToSet(mempool[n]) :
    \/ tx \in ToSet(mempool'[n])
    \/ n = turn /\ batch.open /\ tx \in ToSet(batch.txs)
    \/ tx.nonce <= nonces'[n][tx.from]

\* The nodes take turns.
LEMMA TurnsAreNodes ==
  ASSUME turn \in Nodes
  PROVE  NextTurn \in Nodes
<1>. DEFINE k == Cardinality(Nodes)
<1>1. k \in Nat /\ Nodes = 1 .. k /\ Nodes # {}
  BY MempoolAssumption, FS_CardinalityType
<1>. HIDE DEF k
<1>2. turn \in 1 .. k /\ k \in Nat \ {0}
  BY <1>1
<1>3. turn % k \in 0 .. k - 1
  BY <1>2
<1>4. NextTurn = (turn % k) + 1
  BY DEF NextTurn, k
<1>. QED
  BY <1>1, <1>2, <1>3, <1>4

\* What arrives.
LEMMA ArrivalSteps ==
  ASSUME IInv, Arrivals
  PROVE  IInv' /\ Survive
<1>1. Typed /\ \A n \in Nodes : Sound(mempool[n], nonces[n])
  BY DEF IInv
<1>2. ASSUME UNCHANGED <<nonces, behind, turn, batch>>, faults' \in 0 .. MaxFaults,
             seen' \in [Nodes -> SUBSET Txs], wire' \subseteq [to : Nodes, tx : Txs],
             \/ UNCHANGED mempool
             \/ \E n \in Nodes, tx \in Txs : Admits(n, tx) /\ Enqueue(n, tx)
      PROVE  IInv' /\ Survive
  <2>1. /\ mempool' \in [Nodes -> Seq(Txs)]
        /\ \A m \in Nodes : /\ Sound(mempool'[m], nonces'[m])
                            /\ ToSet(mempool[m]) \subseteq ToSet(mempool'[m])
    <3>1. CASE UNCHANGED mempool
      BY <1>1, <1>2, <3>1 DEF Typed
    <3>2. CASE \E n \in Nodes, tx \in Txs : Admits(n, tx) /\ Enqueue(n, tx)
      BY <1>2, <3>2, Enqueued
    <3>. QED
      BY <1>2, <3>1, <3>2
  <2>2. Typed'
    BY <1>1, <1>2, <2>1 DEF Typed
  <2>. QED
    BY <2>1, <2>2 DEF IInv, Survive
<1>3. ASSUME NEW n \in Nodes, NEW tx \in Txs
      PROVE  /\ Gossip(n, tx) \subseteq [to : Nodes, tx : Txs]
             /\ [seen EXCEPT ![n] = @ \cup {tx}] \in [Nodes -> SUBSET Txs]
  BY <1>1 DEF Gossip, Typed
<1>4. faults \in 0 .. MaxFaults /\ wire \subseteq [to : Nodes, tx : Txs] /\ seen \in [Nodes -> SUBSET Txs]
  BY <1>1 DEF Typed
<1>5. ASSUME NEW n \in Nodes, NEW tx \in Txs, Submit(n, tx)
      PROVE  IInv' /\ Survive
  BY <1>2, <1>3, <1>4, <1>5 DEF Submit
<1>6. ASSUME NEW n \in Nodes, NEW tx \in Txs, SeedTransfer(n, tx)
      PROVE  IInv' /\ Survive
  BY <1>2, <1>4, <1>6 DEF SeedTransfer
<1>7. ASSUME NEW message \in wire, ReceivePeer(message)
      PROVE  IInv' /\ Survive
  <2>. DEFINE n == message.to
              tx == message.tx
  <2>1. n \in Nodes /\ tx \in Txs
    BY <1>4
  <2>2. /\ UNCHANGED <<nonces, behind, turn, batch, faults>> /\ seen' = [seen EXCEPT ![n] = @ \cup {tx}]
        /\ \/ Admits(n, tx) /\ Enqueue(n, tx) /\ wire' = (wire \ {message}) \cup Gossip(n, tx)
           \/ wire' = wire \ {message} /\ UNCHANGED mempool
    BY <1>7 DEF ReceivePeer
  <2>. HIDE DEF n, tx
  <2>3. Gossip(n, tx) \subseteq [to : Nodes, tx : Txs] /\ [seen EXCEPT ![n] = @ \cup {tx}] \in [Nodes -> SUBSET Txs]
    BY <1>3, <2>1
  <2>4. wire' \subseteq [to : Nodes, tx : Txs] /\ seen' \in [Nodes -> SUBSET Txs] /\ faults' \in 0 .. MaxFaults
    BY <1>4, <2>2, <2>3
  <2>. QED
    BY <1>2, <2>1, <2>2, <2>4
<1>8. ASSUME NEW message \in wire, LoseMessage(message)
      PROVE  IInv' /\ Survive
  <2>1. faults < MaxFaults /\ faults' = faults + 1 /\ wire' = wire \ {message}
        /\ UNCHANGED <<nonces, behind, mempool, seen, turn, batch>>
    BY <1>8 DEF LoseMessage
  <2>2. faults' \in 0 .. MaxFaults
    BY <1>4, <2>1, MempoolAssumption
  <2>. QED
    BY <1>2, <1>4, <2>1, <2>2
<1>. QED
  BY <1>5, <1>6, <1>7, <1>8 DEF Arrivals

\* Blocks.
LEMMA BlockSteps ==
  ASSUME IInv, StartBlock \/ FinishBlock \/ RoundFails \/ \E n \in Nodes : CatchUp(n)
  PROVE  IInv' /\ Survive
<1>1. Typed /\ \A n \in Nodes : Sound(mempool[n], nonces[n])
  BY DEF IInv
<1>2. <<>> \in Seq(Txs) /\ Len(<<>>) = 0 /\ MaxTxPerBlock \in Nat
  BY MempoolAssumption
<1>3. ASSUME UNCHANGED <<nonces, mempool>>, Typed'
      PROVE  IInv' /\ Survive
  BY <1>1, <1>3 DEF IInv, Survive
<1>4. CASE StartBlock
  <2>. DEFINE pool == mempool[turn]
              k == IF Len(pool) < MaxTxPerBlock THEN Len(pool) ELSE MaxTxPerBlock
              txs == SubSeq(pool, 1, k)
  <2>1. pool \in Seq(Txs) /\ k \in 0 .. Len(pool) /\ k <= MaxTxPerBlock
    BY <1>1, MempoolAssumption DEF Typed
  <2>2. /\ batch' = [txs |-> txs, open |-> TRUE] /\ UNCHANGED <<nonces, behind, mempool, seen, wire, turn, faults>>
        /\ \A n \in Nodes : Len(behind[n]) < MaxLag
    BY <1>4 DEF StartBlock, Batch
  <2>. HIDE DEF pool, k
  <2>3. txs \in Seq(Txs) /\ Len(txs) = k
    BY <2>1
  <2>. HIDE DEF txs
  <2>4. batch' \in [txs : Seq(Txs), open : BOOLEAN] /\ batch'.txs = txs
    BY <2>2, <2>3
  <2>5. Typed'
    BY <1>1, <2>1, <2>2, <2>3, <2>4 DEF Typed
  <2>. QED
    BY <1>3, <2>2, <2>5
<1>5. CASE RoundFails
  <2>1. /\ faults < MaxFaults /\ faults' = faults + 1 /\ batch' = NoRound /\ turn' = NextTurn
        /\ UNCHANGED <<nonces, behind, mempool, seen, wire>>
    BY <1>5 DEF RoundFails
  <2>2. batch' \in [txs : Seq(Txs), open : BOOLEAN] /\ batch'.txs = <<>> /\ ~batch'.open
    BY <1>2, <2>1 DEF NoRound
  <2>3. turn' \in Nodes
    BY <1>1, <2>1, TurnsAreNodes DEF Typed
  <2>4. faults' \in 0 .. MaxFaults
    BY <1>1, <2>1, MempoolAssumption DEF Typed
  <2>5. Typed'
    BY <1>1, <1>2, <2>1, <2>2, <2>3, <2>4 DEF Typed
  <2>. QED
    BY <1>3, <2>1, <2>5
<1>6. CASE FinishBlock
  <2>. DEFINE pool == mempool[turn]
              txs == batch.txs
              after == After(nonces[turn], txs)
              left == Without(pool, txs)
  <2>1. /\ batch.open /\ nonces' = [nonces EXCEPT ![turn] = after]
        /\ mempool' = [mempool EXCEPT ![turn] = Pruned(left, after)]
        /\ behind' = [n \in Nodes |-> IF n = turn THEN <<>> ELSE Append(behind[n], txs)]
        /\ batch' = NoRound /\ turn' = NextTurn
        /\ UNCHANGED <<seen, wire, faults>>
    BY <1>6 DEF FinishBlock
  <2>2. pool \in Seq(Txs) /\ Distinct(pool) /\ txs \in Seq(Txs) /\ turn \in Nodes
    BY <1>1 DEF Typed, Sound
  <2>3. left = Without(pool, txs) /\ after = After(nonces[turn], txs)
    OBVIOUS
  <2>. HIDE DEF left, after, txs
  <2>4. left \in Seq(Txs) /\ ToSet(left) = ToSet(pool) \ ToSet(txs) /\ Distinct(left)
    BY <2>2, <2>3, WithoutPool
  <2>5. /\ nonces' \in [Nodes -> [Senders -> Nat]]
        /\ mempool' \in [Nodes -> Seq(Txs)]
        /\ \A m \in Nodes : /\ Sound(mempool'[m], nonces'[m])
                            /\ \A tx \in ToSet(mempool[m]) :
                                 \/ tx \in ToSet(mempool'[m])
                                 \/ m = turn /\ tx \in ToSet(txs)
                                 \/ tx.nonce <= nonces'[m][tx.from]
    BY <2>1, <2>2, <2>3, <2>4, Blocked
  <2>6. /\ behind' \in [Nodes -> Seq(Seq(Txs))]
        /\ \A n \in Nodes : Len(behind'[n]) <= MaxLag
    <3>1. ASSUME NEW n \in Nodes
          PROVE  behind'[n] \in Seq(Seq(Txs)) /\ Len(behind'[n]) <= MaxLag
      <4>1. CASE n = turn
        <5>1. <<>> \in Seq(Seq(Txs)) /\ Len(<<>>) = 0 /\ behind'[n] = <<>>
          BY <2>1, <4>1
        <5>. QED
          BY <5>1, MempoolAssumption
      <4>2. CASE n # turn
        <5>. DEFINE b == behind[n]
        <5>1. b \in Seq(Seq(Txs)) /\ Len(b) < MaxLag /\ behind'[n] = Append(b, txs)
          BY <1>1, <2>1, <4>2 DEF Typed
        <5>. HIDE DEF b
        <5>2. Append(b, txs) \in Seq(Seq(Txs)) /\ Len(Append(b, txs)) = Len(b) + 1 /\ Len(b) \in Nat
          <6>. DEFINE S == Seq(Txs)
          <6>1. b \in Seq(S) /\ txs \in S
            BY <2>2, <5>1
          <6>. HIDE DEF S
          <6>2. Append(b, txs) \in Seq(S) /\ Len(Append(b, txs)) = Len(b) + 1 /\ Len(b) \in Nat
            BY <6>1
          <6>. QED
            BY <6>2 DEF S
        <5>. QED
          BY <5>1, <5>2, MempoolAssumption
      <4>. QED
        BY <4>1, <4>2
    <3>2. behind' = [n \in Nodes |-> behind'[n]]
      BY <2>1
    <3>. QED
      BY <3>1, <3>2
  <2>7. batch' \in [txs : Seq(Txs), open : BOOLEAN] /\ batch'.txs = <<>> /\ ~batch'.open
    BY <1>2, <2>1 DEF NoRound
  <2>8. turn' \in Nodes
    BY <2>1, <2>2, TurnsAreNodes
  <2>9. Typed'
    BY <1>1, <1>2, <2>1, <2>5, <2>6, <2>7, <2>8 DEF Typed
  <2>. QED
    BY <2>1, <2>5, <2>9 DEF IInv, Survive, txs
<1>7. ASSUME NEW n \in Nodes, CatchUp(n)
      PROVE  IInv' /\ Survive
  <2>. DEFINE pool == mempool[n]
              b == behind[n]
              txs == Head(b)
              after == After(nonces[n], txs)
              none == {}
  <2>1. /\ b # <<>> /\ nonces' = [nonces EXCEPT ![n] = after]
        /\ mempool' = [mempool EXCEPT ![n] = Pruned(pool, after)]
        /\ behind' = [behind EXCEPT ![n] = Tail(b)]
        /\ UNCHANGED <<seen, wire, turn, batch, faults>>
    BY <1>7 DEF CatchUp
  <2>2. pool \in Seq(Txs) /\ Distinct(pool) /\ b \in Seq(Seq(Txs))
    BY <1>1 DEF Typed, Sound
  <2>3. txs \in Seq(Txs) /\ Tail(b) \in Seq(Seq(Txs)) /\ Len(Tail(b)) = Len(b) - 1 /\ Len(b) \in Nat
    <3>. DEFINE S == Seq(Txs)
    <3>1. b \in Seq(S) /\ b # <<>>
      BY <2>1, <2>2
    <3>. HIDE DEF b, S
    <3>2. Head(b) \in S /\ Tail(b) \in Seq(S) /\ Len(Tail(b)) = Len(b) - 1 /\ Len(b) \in Nat
      BY <3>1
    <3>. QED
      BY <3>2 DEF S
  <2>4. after = After(nonces[n], txs) /\ ToSet(pool) \ none \subseteq ToSet(pool)
    OBVIOUS
  <2>. HIDE DEF txs, after, b
  <2>5. /\ nonces' \in [Nodes -> [Senders -> Nat]]
        /\ mempool' \in [Nodes -> Seq(Txs)]
        /\ \A m \in Nodes : /\ Sound(mempool'[m], nonces'[m])
                            /\ \A tx \in ToSet(mempool[m]) :
                                 \/ tx \in ToSet(mempool'[m])
                                 \/ m = n /\ tx \in none
                                 \/ tx.nonce <= nonces'[m][tx.from]
    <3>. HIDE DEF none
    <3>. QED
      BY <2>1, <2>2, <2>3, <2>4, Blocked
  <2>6. /\ behind' \in [Nodes -> Seq(Seq(Txs))] /\ behind'[n] = Tail(b)
        /\ \A m \in Nodes \ {n} : behind'[m] = behind[m]
    BY <1>1, <2>1, <2>3 DEF Typed
  <2>7. ASSUME NEW m \in Nodes
        PROVE  Len(behind'[m]) <= MaxLag /\ (batch'.open => Len(behind'[m]) < MaxLag)
    <3>1. CASE m = n
      <4>1. Len(b) <= MaxLag
        BY <1>1 DEF Typed, b
      <4>2. Len(b) - 1 < MaxLag /\ Len(b) - 1 <= MaxLag
        BY <2>3, <4>1, MempoolAssumption
      <4>. QED
        BY <2>3, <2>6, <3>1, <4>2
    <3>2. CASE m # n
      BY <1>1, <2>1, <2>6, <3>2 DEF Typed
    <3>. QED
      BY <3>1, <3>2
  <2>8. Typed'
    BY <1>1, <2>1, <2>5, <2>6, <2>7 DEF Typed
  <2>. QED
    BY <2>5, <2>8 DEF IInv, Survive
<1>. QED
  BY <1>4, <1>5, <1>6, <1>7

\* At first the mempools are empty.
LEMMA InitHolds == Init => IInv
<1>. SUFFICES ASSUME Init PROVE IInv
  OBVIOUS
<1>1. <<>> \in Seq(Txs) /\ <<>> \in Seq(Seq(Txs)) /\ Len(<<>>) = 0 /\ DOMAIN <<>> = {}
  OBVIOUS
<1>2. 1 \in Nodes
  <2>1. Cardinality(Nodes) \in Nat
    BY MempoolAssumption, FS_CardinalityType
  <2>. QED
    BY <2>1, MempoolAssumption
<1>3. batch \in [txs : Seq(Txs), open : BOOLEAN] /\ batch.txs = <<>> /\ ~batch.open
  BY <1>1 DEF Init, NoRound
<1>4. Typed
  BY <1>1, <1>2, <1>3, MempoolAssumption DEF Init, Typed
<1>5. \A n \in Nodes : Sound(mempool[n], nonces[n])
  <2>1. \A n \in Nodes : mempool[n] = <<>>
    BY DEF Init
  <2>2. Distinct(<<>>) /\ ToSet(<<>>) = {}
    BY <1>1 DEF Distinct, ToSet
  <2>. QED
    BY <2>1, <2>2 DEF Sound
<1>. QED
  BY <1>4, <1>5 DEF IInv

\* The step lemmas together.
LEMMA NextKeeps == IInv /\ [Next]_vars => IInv' /\ [Survive]_vars
<1>. SUFFICES ASSUME IInv, [Next]_vars PROVE IInv' /\ [Survive]_vars
  OBVIOUS
<1>1. CASE Next
  BY <1>1, ArrivalSteps, BlockSteps DEF Next
<1>2. CASE UNCHANGED vars
  BY <1>2 DEF vars, IInv, Typed
<1>. QED
  BY <1>1, <1>2

-----------------------------------------------------------------------------
(* Theorems. *)

\* Every variable has its type (TypeOK).
THEOREM MempoolTypeCorrect == Spec => []TypeOK
<1>1. IInv => TypeOK
  <2>. SUFFICES ASSUME Typed PROVE TypeOK
    BY DEF IInv
  <2>1. \A s \in Seq(Txs) : ToSet(s) \subseteq Txs
    BY DEF ToSet
  <2>2. ASSUME NEW n \in Nodes, NEW i \in DOMAIN behind[n]
        PROVE  ToSet(behind[n][i]) \subseteq Txs
    <3>. DEFINE S == Seq(Txs)
                b == behind[n]
    <3>1. b \in Seq(S)
      BY DEF Typed
    <3>2. i \in DOMAIN b
      OBVIOUS
    <3>. HIDE DEF S, b
    <3>3. b[i] \in S
      BY <3>1, <3>2
    <3>. QED
      BY <2>1, <3>3 DEF S, b
  <2>. QED
    BY <2>1, <2>2 DEF Typed, TypeOK
<1>. QED
  BY <1>1, InitHolds, NextKeeps, PTL DEF Spec

\* No entry of a mempool is stale or has a rival, whatever blocks come between
\* admission and proposal (NoStaleOrRival; enqueueValidatedTx, pruneStaleMempool).
THEOREM NeitherStaleNorRivals == Spec => []NoStaleOrRival
<1>1. IInv => NoStaleOrRival
  BY DEF IInv, Sound, Distinct, ToSet, NoStaleOrRival
<1>. QED
  BY <1>1, InitHolds, NextKeeps, PTL DEF Spec

\* What arrives while the votes are awaited is kept: an entry leaves a mempool
\* only in the block that it is in, or stale (ArrivalsSurvive, main.ts).
THEOREM EntriesSurvive == Spec => ArrivalsSurvive
<1>. DEFINE Kept == \A n \in Nodes : \A tx \in ToSet(mempool[n]) :
                      \/ Contains(mempool'[n], tx)
                      \/ n = turn /\ batch.open /\ Contains(batch.txs, tx)
                      \/ tx.nonce <= nonces'[n][tx.from]
<1>1. IInv /\ IInv' /\ Survive => Kept
  <2>. SUFFICES ASSUME IInv, IInv', Survive, NEW n \in Nodes, NEW tx \in ToSet(mempool[n])
                PROVE  \/ Contains(mempool'[n], tx)
                       \/ n = turn /\ batch.open /\ Contains(batch.txs, tx)
                       \/ tx.nonce <= nonces'[n][tx.from]
    OBVIOUS
  <2>1. \A s \in Seq(Txs) : tx \in ToSet(s) => Contains(s, tx)
    <3>1. \A s \in Seq(Txs) : DOMAIN s = 1 .. Len(s)
      OBVIOUS
    <3>. QED
      BY <3>1 DEF ToSet, Contains
  <2>2. mempool'[n] \in Seq(Txs) /\ batch.txs \in Seq(Txs)
    BY DEF IInv, Typed
  <2>. QED
    BY <2>1, <2>2 DEF Survive
<1>2. IInv /\ [Next]_vars => IInv' /\ [Kept]_vars
  <2>. HIDE DEF Kept
  <2>. QED
    BY <1>1, NextKeeps
<1>3. [][Kept]_vars => ArrivalsSurvive
  BY PTL DEF ArrivalsSurvive
<1>. QED
  BY <1>2, <1>3, InitHolds, PTL DEF Spec

=============================================================================
