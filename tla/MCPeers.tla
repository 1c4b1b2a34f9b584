------------------------------ MODULE MCPeers ------------------------------
(* The devnet: genesis names the seed node only. *)
EXTENDS Peers

OnlySeed == [n \in Nodes |-> {Seed}]
=============================================================================
