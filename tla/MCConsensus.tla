---------------------------- MODULE MCConsensus ----------------------------
(* Instances of Consensus for TLC: the constants are in the .cfg files. *)
EXTENDS Consensus

=============================================================================
