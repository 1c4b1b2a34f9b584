------------------------------ MODULE Rotation ------------------------------
(***************************************************************************)
(* The nodes of module Consensus under the timing their configuration      *)
(* intends: the timers of all nodes fire periodically (a block timer every *)
(* blockIntervalMs, a sync timer every syncIntervalMs, which is two block  *)
(* intervals), and what a timer starts is over before the next one fires.  *)
(***************************************************************************)
EXTENDS Consensus

CONSTANT Schedules  \* the orders in which the timers may fire in one period

ASSUME SchedulesAssumption ==
  Schedules \subseteq Seq([timer : {"block", "sync"}, node : Nodes]) \ {<<>>}

VARIABLES
  schedule,  \* the order the timers fire in: it never changes
  turn       \* the timer in schedule that fires next

timing == <<schedule, turn>>
timedVars == <<vars, timing>>

TimedInit == Init /\ schedule \in Schedules /\ turn = 1

Quiet == rounds = {} /\ late = {} /\ commits = {} /\ \A n \in Nodes : syncing[n] = Nobody

Fires(timer, node) ==
  \/ node \notin up /\ UNCHANGED vars
  \/ timer = "block" /\ Tick(node)
  \/ timer = "sync" /\ \E failed \in SUBSET Nodes : SyncHeads(node, failed)

TimerFires ==
  /\ Quiet
  /\ Fires(schedule[turn].timer, schedule[turn].node)
  /\ turn' = (turn % Len(schedule)) + 1
  /\ UNCHANGED schedule

\* What a timer has started goes on.
Progress ==
  /\ \/ Messages
     \/ \E n \in Nodes : SyncImport(n) \/ SyncFails(n)
  /\ UNCHANGED timing

SurroundingsChange == Surroundings /\ UNCHANGED timing

TimedNext == TimerFires \/ Progress \/ SurroundingsChange

TimedSpec == TimedInit /\ [][TimedNext]_timedVars

\* Timers keep firing and calls return (setInterval; every call has a time
\* limit).  Nothing makes a process crash or come back.
FairSpec == TimedSpec /\ WF_timedVars(TimerFires) /\ WF_timedVars(Progress)

-----------------------------------------------------------------------------
(* Properties *)

\* As long as all of them run, the nodes implement one shared chain (module
\* Chain): the longest chain only gets longer, by nodes that have all of it, and
\* every other chain catches up with it.  A proposer that crashes before it has
\* sent its commits has a block that the others replace.
Longest == HeadOf(CHOOSE n \in Nodes : \A m \in Nodes : Height(m) <= Height(n))

Shared == INSTANCE Chain WITH Blocks <- Digest,
  log <- Longest, copy <- [n \in Nodes |-> HeadOf(n)]

SharedChain == Shared!Init /\ [][up' = Nodes => Shared!Next]_(Shared!vars)

\* tests/devnet-4node.test.ts: while a quorum is up, the running validators
\* "keep committing blocks": all of them reach the height where the model ends.
KeepsCommitting ==
  [](Cardinality(up) >= Quorum(Cardinality(Nodes)))
    => <>(\A n \in up : Height(n) = MaxHeight)

=============================================================================
