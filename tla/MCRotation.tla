---------------------------- MODULE MCRotation -----------------------------
(* Schedules of the timers for TLC. *)
EXTENDS Rotation

Blocks(order) == [i \in DOMAIN order |-> [timer |-> "block", node |-> order[i]]]
Syncs(order) == [i \in DOMAIN order |-> [timer |-> "sync", node |-> order[i]]]

\* Two block timers and a sync timer per node and period: the sync timers all
\* together, between the two rounds of block timers, or against their order.
ThreeNodes ==
  LET there == <<1, 2, 3>>  back == <<3, 2, 1>>
  IN  {Blocks(there) \o Syncs(there) \o Blocks(there), Blocks(there) \o Blocks(there) \o Syncs(back)}

FourNodes ==
  LET there == <<1, 2, 3, 4>>  back == <<4, 3, 2, 1>>
  IN  {Blocks(there) \o Blocks(there) \o Syncs(there),
       Blocks(back) \o Syncs(there) \o Blocks(back),
       Blocks(<<1, 2>>) \o Syncs(back) \o Blocks(<<3, 4, 1, 2, 3, 4>>)}

=============================================================================
