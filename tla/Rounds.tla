------------------------------- MODULE Rounds -------------------------------
(***************************************************************************)
(* The arithmetic of a consensus round that a node's ledger and the nodes' *)
(* protocol share: how many approvals a block needs and whose turn it is.  *)
(* Validators are numbered in the order of localeCompare on their ids.     *)
(***************************************************************************)
EXTENDS Integers, FiniteSets

\* floor(2n/3) + 1 of n active validators.
Quorum(n) == (n * 2) \div 3 + 1

\* The active validator at position slot, slot + 1, ... of the rotation.
ProposerAt(active, slot) ==
  CHOOSE v \in active :
    Cardinality({u \in active : u < v}) = slot % Cardinality(active)

=============================================================================
