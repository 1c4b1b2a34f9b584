------------------------------ MODULE TxPolicy ------------------------------
(***************************************************************************)
(* The rules of one node's mempool (apps/node/src/tx-policy.ts, and what   *)
(* main.ts takes out of it): admission by nonce, the order by fee, pruning *)
(* and the removal of a batch.  A pool is a sequence of transactions with  *)
(* a sender, a nonce and a fee; nonces are those of the node's accounts.   *)
(* Pure operators, shared by Mempool and Clients.                          *)
(***************************************************************************)
EXTENDS Integers, SequencesExt

\* Array.prototype.filter: the entries at the given places, in their order.
\* (A function, and not SelectSeq, which tlapm knows nothing about.)
Selected(pool, places) ==
  LET kept[i \in 0 .. Len(pool)] ==
        IF i = 0 THEN <<>>
        ELSE IF i \in places THEN Append(kept[i - 1], pool[i]) ELSE kept[i - 1]
  IN  kept[Len(pool)]

\* Where the sender's transactions are.
Pending(pool, sender) == {i \in DOMAIN pool : pool[i].from = sender}

\* getNextExpectedNonce.
NextExpectedNonce(nonces, pool, sender) == nonces[sender] + Cardinality(Pending(pool, sender)) + 1

\* enqueueValidatedTx: not stale, no rival for the nonce, and the next in turn.
Acceptable(nonces, pool, tx) ==
  /\ tx.nonce > nonces[tx.from]
  /\ \A i \in DOMAIN pool : pool[i].from = tx.from => pool[i].nonce # tx.nonce
  /\ tx.nonce = NextExpectedNonce(nonces, pool, tx.from)

\* Mutant: one sender's later transactions come first.
CompareNewestFirst(a, b) == IF a.from = b.from THEN b.nonce - a.nonce ELSE b.fee - a.fee

\* enqueueValidatedTx's comparator: one sender's by nonce, others by fee.
Compare(a, b) == IF a.from = b.from THEN a.nonce - b.nonce ELSE b.fee - a.fee

\* Array.prototype.sort on less than 64 elements: the first run is taken as it
\* is (or reversed), the others are placed one by one by binary search.
Placed(sorted, tx) ==
  LET places == 0 .. Len(sorted)
      place[range \in places \X places] ==
        LET first == range[1]  last == range[2]  mid == (first + last) \div 2
        IN  IF first >= last THEN first
            ELSE IF Compare(tx, sorted[mid + 1]) < 0 THEN place[<<first, mid>>]
            ELSE place[<<mid + 1, last>>]
  IN  InsertAt(sorted, place[<<0, Len(sorted)>>] + 1, tx)

Sort(s) ==
  LET falls(i) == Compare(s[i], s[i - 1]) < 0
      length == CHOOSE k \in 2 .. Len(s) :
                  /\ \A i \in 2 .. k : falls(i) = falls(2)
                  /\ k < Len(s) => falls(k + 1) # falls(2)
      run == SubSeq(s, 1, length)
      placed[k \in length .. Len(s)] ==
        IF k = length THEN (IF falls(2) THEN Reverse(run) ELSE run) ELSE Placed(placed[k - 1], s[k])
  IN  IF Len(s) < 2 THEN s ELSE placed[Len(s)]

\* Mutant: the transaction that was just committed is not stale.
PrunedTooLate(pool, m) == Selected(pool, {i \in DOMAIN pool : pool[i].nonce >= m[pool[i].from]})

\* pruneStaleMempool.
Pruned(pool, m) == Selected(pool, {i \in DOMAIN pool : pool[i].nonce > m[pool[i].from]})

\* Mutant: as many entries leave the front as the batch has.
WithoutFirst(pool, txs) == SubSeq(pool, Len(txs) + 1, Len(pool))

\* The batch leaves the mempool, by identity, also what the block refused.
Without(pool, txs) == Selected(pool, {i \in DOMAIN pool : ~Contains(txs, pool[i])})

=============================================================================
