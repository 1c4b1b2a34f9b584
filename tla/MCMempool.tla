----------------------------- MODULE MCMempool -----------------------------
(* Instances of Mempool for TLC. *)
EXTENDS Mempool

Tx(from, nonce, fee, ok) == [from |-> from, nonce |-> nonce, fee |-> fee, ok |-> ok]

\* A transfer from node 1's account, that cannot be executed, and a dependable
\* client with two transactions.
OwnTxs == {Tx(1, 1, 1, FALSE)}
Mixed == OwnTxs \cup {Tx(9, 1, 2, TRUE), Tx(9, 2, 1, TRUE)}

=============================================================================
