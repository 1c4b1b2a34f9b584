------------------------------- MODULE Chain -------------------------------
(***************************************************************************)
(* What block production promises (apps/node/src/main.ts): one chain that  *)
(* nodes have copies of.                                                   *)
(***************************************************************************)
EXTENDS Integers, Sequences

CONSTANTS Nodes, Blocks

VARIABLES
  log,   \* the blocks committed so far
  copy   \* each node's chain

vars == <<log, copy>>

Init ==
  /\ log = <<>>
  /\ copy = [n \in Nodes |-> <<>>]

IsPrefix(s, t) == Len(s) <= Len(t) /\ s = SubSeq(t, 1, Len(s))

\* A node that has every block adds one.
Extend(n) ==
  /\ copy[n] = log
  /\ log' \in Seq(Blocks)
  /\ Len(log') = Len(log) + 1
  /\ IsPrefix(log, log')
  /\ copy' = [copy EXCEPT ![n] = log']

\* A node that lacks blocks gets some, by a commit or from a peer.
CatchUp(n) ==
  \E k \in Len(copy[n]) + 1 .. Len(log) :
    /\ copy' = [copy EXCEPT ![n] = SubSeq(log, 1, k)]
    /\ UNCHANGED log

Next == \E n \in Nodes : Extend(n) \/ CatchUp(n)

Spec == Init /\ [][Next]_vars

-----------------------------------------------------------------------------
(* Properties *)

\* Two nodes at the same height have the same chain.
Agreement == \A n, m \in Nodes : Len(copy[n]) = Len(copy[m]) => copy[n] = copy[m]

\* No node's chain loses a block or has one replaced.
OnlyLonger == [][\A n \in Nodes : IsPrefix(copy[n], copy[n]')]_vars

=============================================================================
