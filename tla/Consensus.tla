----------------------------- MODULE Consensus -----------------------------
(***************************************************************************)
(* Block production by several nodes (apps/node/src/main.ts): the proposer *)
(* collects prepare votes, applies its block and broadcasts the commit;    *)
(* followers vote and apply committed proposals; a node that is behind     *)
(* replaces its state by a peer's snapshot; nodes crash and restart from   *)
(* their store.  Every handler runs alone up to its next await.            *)
(*                                                                         *)
(* Of the protocol state a node keeps what decides agreement: the chain of *)
(* block hashes, the validator set, the queue of registrations, and the    *)
(* missed-block counters that only proposers update.  Module Ledger has    *)
(* the rest.  Removal of validators (a threshold of 10000 blocks) is left  *)
(* to that module.                                                         *)
(***************************************************************************)
EXTENDS Rounds, Sequences

CONSTANTS
  Nodes,            \* the nodes; a node's number is its validator id
  Candidates,       \* ids of validators that are not running as a node here
  Bootstrap,        \* the nodes that genesis lists as bootstrap peers
  Txs,              \* transactions; those in Candidates register that validator
  RewardEnabled, EpochLength, MaxMissedBlocks,
  FaultKinds,       \* what may go wrong (see Fault)
  MaxFaults,        \* bound: how often
  MaxTime,          \* bound: the latest timestamp of a proposal;
  Endless,          \* proposals go on with that timestamp, or they end
  MaxHeight         \* bound: no block is proposed on a chain of this length

Ids == Nodes \cup Candidates

ASSUME ConsensusAssumption ==
  /\ Nodes \subseteq Nat \ {0}
  /\ Candidates \subseteq Nat \ {0}
  /\ Nodes \cap Candidates = {}
  /\ IsFiniteSet(Ids)
  /\ Bootstrap \subseteq Nodes
  /\ Candidates \subseteq Txs
  /\ RewardEnabled \in BOOLEAN
  /\ EpochLength \in Nat
  /\ MaxMissedBlocks \in Nat \ {0}
  /\ FaultKinds \subseteq {"timeout", "loss", "prune", "crash", "restart", "slash"}
  /\ MaxFaults \in Nat
  /\ MaxTime \in Nat
  /\ Endless \in BOOLEAN
  /\ MaxHeight \in Nat

Nobody == 0

VARIABLES
  up,                \* the nodes that run
  ledger,            \* each node's protocol state
  disk,              \* its protocol state before the last change
  stale,             \* the validator keys of its store that its state has no longer
  known,             \* peerEndpointById: the validators it has an endpoint of,
  seeds,             \* and the bootstrap peers it knows by node id only
  stalls, lastSeen,  \* consecutiveStalls, lastSeenHeightAtBlockTick
  pendingProposals,  \* the proposals a node has voted for
  syncing,           \* the peer whose snapshot a node has asked for
  rounds,            \* proposals whose proposer still awaits votes
  late,              \* prepare requests nobody waits for any more
  commits,           \* commit messages on their way
  time,              \* the timestamp of the next proposal
  faults             \* faults so far

pacing == <<stalls, lastSeen>>
network == <<rounds, late, commits>>
peers == <<known, seeds>>
vars == <<up, ledger, disk, stale, peers, pacing, pendingProposals, syncing, network, time, faults>>

\* What hashState covers, as far as the blocks of this model can differ in it:
\* the hash of a block is its digest and the hash before it.  `by' is the
\* proposer in the block's entry of the reward history.
Digest == [txs : SUBSET Txs, by : Ids \cup {Nobody}, active : SUBSET Ids,
           slashed : SUBSET Ids, pending : SUBSET Candidates]

\* The height is the length of head.  active, slashed: the registered
\* validators; missed: their missedBlocks.  forgot and returned are history: the
\* registrations that a sync took out of the queue, and those that a restart
\* brought back from a chain that a sync had replaced, here or before the state
\* came here.
LedgerRecord == [head : Seq(Digest), active : SUBSET Ids, slashed : SUBSET Ids,
                 pending : SUBSET Candidates, missed : [Ids -> Nat],
                 forgot : SUBSET Candidates, returned : SUBSET Ids]

\* Validators as their keys in the store have them.
Keys == [active : SUBSET Ids, slashed : SUBSET Ids, missed : [Ids -> Nat]]

Proposal == [proposer : Nodes, parent : Seq(Digest), batch : SUBSET Txs, time : Nat]
Message == [to : Nodes, proposal : Proposal, votes : SUBSET Nodes]
Round == [proposal : Proposal, waiting : SUBSET Nodes, voters : SUBSET Nodes,
          unavailable : SUBSET Nodes]

HeadOf(n) == ledger[n].head
Height(n) == Len(HeadOf(n))
Active(n) == ledger[n].active

-----------------------------------------------------------------------------
(* The protocol state: applyBlock and runConsensusRound on one ledger.     *)

Done(l) == UNION {l.head[i].txs : i \in DOMAIN l.head}

Registered(l) == l.active \cup l.slashed

\* Mutant: the epoch's last block forgets the registrations that arrive in it.
ApplyBlockLosesArrivals(l, batch, proposer) ==
  LET last == EpochLength > 0 /\ (Len(l.head) + 1) % EpochLength = 0
      accepted == batch \ Done(l)
      queue == IF last THEN {} ELSE l.pending \cup (accepted \cap Candidates)
      active == IF last THEN l.active \cup l.pending ELSE l.active
  IN  [l EXCEPT !.active = active, !.pending = queue, !.head = Append(@,
         [txs |-> accepted, by |-> IF RewardEnabled THEN proposer ELSE Nobody, active |-> active,
          slashed |-> l.slashed, pending |-> queue])]

\* applyBlock: transactions that were applied before are refused by their
\* nonce, and registrations of registered validators; the others take effect at
\* once, or in the epoch's last block, which writes over a key that is there.
ApplyBlock(l, batch, proposer) ==
  LET accepted == batch \ (Done(l) \cup (Candidates \cap Registered(l)))
      arriving == accepted \cap Candidates
      immediate == IF EpochLength = 0 THEN arriving ELSE {}
      queue == l.pending \cup (arriving \ immediate)
      joining == IF EpochLength > 0 /\ (Len(l.head) + 1) % EpochLength = 0
                 THEN queue ELSE {}
      active == l.active \cup immediate \cup joining
      digest == [txs |-> accepted,
                 by |-> IF RewardEnabled /\ proposer \in l.active THEN proposer ELSE Nobody,
                 active |-> active, slashed |-> l.slashed \ joining, pending |-> queue \ joining]
  IN  [l EXCEPT !.head = Append(@, digest), !.active = active, !.slashed = @ \ joining,
                !.pending = queue \ joining,
                !.missed = [v \in Ids |-> IF v \in joining THEN 0 ELSE @[v]]]

Approvals(l, unavailable) == l.active \ unavailable

\* Mutant: the quorum is floor(2n/3).
CommittedByLess(l, unavailable) ==
  l.active # {}
    /\ Cardinality(Approvals(l, unavailable)) >= (Cardinality(l.active) * 2) \div 3

Committed(l, unavailable) ==
  l.active # {} /\ Cardinality(Approvals(l, unavailable)) >= Quorum(Cardinality(l.active))

\* The bookkeeping of runConsensusRound, which only the proposer does, and the
\* block, credited to the validator whose turn the height makes it.
RunConsensusRound(l, batch, unavailable) ==
  LET present == Approvals(l, unavailable)
      absent == l.active \ present
      missed == [v \in Ids |-> IF v \in present THEN 0
                               ELSE IF v \in absent THEN l.missed[v] + 1 ELSE l.missed[v]]
      condemned == {v \in absent : missed[v] >= MaxMissedBlocks}
      judged == [l EXCEPT !.missed = missed, !.active = @ \ condemned,
                          !.slashed = @ \cup condemned]
  IN  ApplyBlock(judged, batch, ProposerAt(l.active, Len(l.head)))

-----------------------------------------------------------------------------

\* All nodes are active validators that know each other.
Start == [head |-> <<>>, active |-> Nodes, slashed |-> {}, pending |-> {},
          missed |-> [v \in Ids |-> 0], forgot |-> {}, returned |-> {}]

Init ==
  /\ up = Nodes
  /\ ledger = [n \in Nodes |-> Start]
  /\ disk = [n \in Nodes |-> Start]
  /\ stale = [n \in Nodes |-> [active |-> {}, slashed |-> {}, missed |-> [v \in Ids |-> 0]]]
  /\ known = [n \in Nodes |-> Nodes \ {n}]
  /\ seeds = [n \in Nodes |-> {}]
  /\ stalls = [n \in Nodes |-> 0]
  /\ lastSeen = [n \in Nodes |-> -1]
  /\ pendingProposals = [n \in Nodes |-> {}]
  /\ syncing = [n \in Nodes |-> Nobody]
  /\ rounds = {}
  /\ late = {}
  /\ commits = {}
  /\ time = 0
  /\ faults = 0

\* One of the things that may go wrong: "timeout", a prepare request or its
\* answer takes longer than peerRpcMs; "loss", a commit message; "prune", a
\* sync request to a running peer; "crash"; "slash", a call of
\* qtx_slashEquivocation.  MaxFaults bounds them all together.  With "restart"
\* in FaultKinds a crashed node may come back, which is not counted.
Fault(kind) == kind \in FaultKinds /\ faults < MaxFaults /\ faults' = faults + 1

\* Every change of the ledger is followed by persistNodeData, which only queues
\* the write: a crash may come before the last one has reached the store.
Save(n, l) ==
  /\ ledger' = [ledger EXCEPT ![n] = l]
  /\ disk' = [disk EXCEPT ![n] = ledger[n]]

-----------------------------------------------------------------------------
(* The proposer: the block timer and produceDistributedBlock.              *)

IsCurrentProposer(n, skip) ==
  Active(n) # {} /\ ProposerAt(Active(n), Height(n) + skip) = n

\* produceDistributedBlock up to its first await.
Propose(n) ==
  \E batch \in SUBSET (Txs \ Done(ledger[n])) :
    /\ time < MaxTime \/ Endless
    /\ time' = IF time < MaxTime THEN time + 1 ELSE time
    /\ rounds' = rounds \cup
         {[proposal |-> [proposer |-> n, parent |-> HeadOf(n), batch |-> batch, time |-> time],
           waiting |-> (Active(n) \ {n}) \cap known[n], voters |-> {n}, unavailable |-> {}]}

\* Mutant: the slot is never rotated forward.
StallsNever(n) == 0

\* consecutiveStalls after this tick's stall detection.
StallsNow(n) ==
  LET most == IF Active(n) = {} THEN 0 ELSE Cardinality(Active(n)) - 1
  IN  IF Height(n) # lastSeen[n] THEN 0
      ELSE IF stalls[n] + 1 <= most THEN stalls[n] + 1 ELSE most

\* The block timer.
Tick(n) ==
  /\ n \in up
  /\ stalls' = [stalls EXCEPT ![n] = StallsNow(n)]
  /\ lastSeen' = [lastSeen EXCEPT ![n] = Height(n)]
  /\ IF IsCurrentProposer(n, StallsNow(n)) /\ Height(n) < MaxHeight
     THEN Propose(n) ELSE UNCHANGED <<rounds, time>>
  /\ UNCHANGED <<up, ledger, disk, stale, peers, pendingProposals, syncing, late, commits, faults>>

\* qtx_produceBlock.
ProduceBlock(n) ==
  /\ n \in up
  /\ IsCurrentProposer(n, stalls[n])
  /\ Height(n) < MaxHeight
  /\ Propose(n)
  /\ UNCHANGED <<up, ledger, disk, stale, peers, pacing, pendingProposals, syncing, late, commits, faults>>

\* Mutant: a follower votes whatever the proposal extends.
VotesForAnyParent(n, proposal) == proposal.proposer \in Active(n)

\* A follower's checks before it votes: the proposal extends its own head and
\* comes from an active validator.
Votes(n, proposal) ==
  proposal.parent = HeadOf(n) /\ proposal.proposer \in Active(n)

\* qtx_consensusPrepare while the proposer waits, and the vote's way back.
HandlePrepare(n, round) ==
  LET counted == Votes(n, round.proposal) /\ n \in Active(round.proposal.proposer)
      answered == [round EXCEPT !.waiting = @ \ {n}]
  IN  /\ n \in up
      /\ n \in round.waiting
      /\ pendingProposals' =
           IF Votes(n, round.proposal)
           THEN [pendingProposals EXCEPT ![n] = @ \cup {round.proposal}] ELSE pendingProposals
      /\ rounds' = (rounds \ {round}) \cup
           {IF counted THEN [answered EXCEPT !.voters = @ \cup {n}]
            ELSE [answered EXCEPT !.unavailable = @ \cup {n}]}
      /\ UNCHANGED <<up, ledger, disk, stale, peers, pacing, syncing, late, commits, time, faults>>

\* The call fails: the peer is down, or it takes too long and the request may
\* still be handled.
PrepareFails(n, round) ==
  /\ n \in round.waiting
  /\ rounds' = (rounds \ {round}) \cup
       {[round EXCEPT !.waiting = @ \ {n}, !.unavailable = @ \cup {n}]}
  /\ \/ n \notin up /\ UNCHANGED <<late, faults>>
     \/ n \in up /\ Fault("timeout") /\ UNCHANGED late
     \/ /\ n \in up
        /\ Fault("timeout")
        /\ late' = late \cup {[to |-> n, proposal |-> round.proposal, votes |-> {}]}
  /\ UNCHANGED <<up, ledger, disk, stale, peers, pacing, pendingProposals, syncing, commits, time>>

\* qtx_consensusPrepare after the proposer has given up on the answer.
HandleLatePrepare(n, request) ==
  /\ n \in up
  /\ request.to = n
  /\ late' = late \ {request}
  /\ pendingProposals' =
       IF Votes(n, request.proposal)
       THEN [pendingProposals EXCEPT ![n] = @ \cup {request.proposal}] ELSE pendingProposals
  /\ UNCHANGED <<up, ledger, disk, stale, peers, pacing, syncing, rounds, commits, time, faults>>

\* All answers are in: the rest of produceDistributedBlock.  The block is
\* applied to the head the proposer has now.
EndRound(round) ==
  LET n == round.proposal.proposer
      asked == (round.voters \cup round.unavailable) \ {n}
  IN  /\ round.waiting = {}
      /\ rounds' = rounds \ {round}
      /\ IF Committed(ledger[n], round.unavailable)
         THEN /\ Save(n, RunConsensusRound(ledger[n], round.proposal.batch, round.unavailable))
              /\ commits' = commits \cup
                   {[to |-> p, proposal |-> round.proposal, votes |-> round.voters] : p \in asked}
         ELSE UNCHANGED <<ledger, disk, commits>>
      /\ UNCHANGED <<up, stale, peers, pacing, pendingProposals, syncing, late, time, faults>>

-----------------------------------------------------------------------------
(* The follower. *)

\* qtx_consensusCommit.
Accepts(n, message) ==
  /\ message.proposal \in pendingProposals[n]
  /\ Cardinality(message.votes \cap Active(n)) >= Quorum(Cardinality(Active(n)))

HandleCommit(n, message) ==
  /\ n \in up
  /\ message.to = n
  /\ commits' = commits \ {message}
  /\ IF Accepts(n, message)
     THEN /\ Save(n, ApplyBlock(ledger[n], message.proposal.batch, message.proposal.proposer))
          /\ pendingProposals' = [pendingProposals EXCEPT ![n] = @ \ {message.proposal}]
     ELSE UNCHANGED <<ledger, disk, pendingProposals>>
  /\ UNCHANGED <<up, stale, peers, pacing, syncing, rounds, late, time, faults>>

\* The peer is down or the message is lost: "peer will recover via head sync".
LoseCommit(message) ==
  /\ commits' = commits \ {message}
  /\ IF message.to \in up THEN Fault("loss") ELSE UNCHANGED faults
  /\ UNCHANGED <<up, ledger, disk, stale, peers, pacing, pendingProposals, syncing, rounds, late, time>>

-----------------------------------------------------------------------------
(* State sync: syncFromPeers has two awaits. *)

\* The heads are in: peers that did not answer are forgotten, and the highest
\* head above this node's own is chosen.  (The heads are read at one moment.)
SyncHeads(n, failed) ==
  LET asked == known[n] \cup seeds[n]
      highest == {p \in asked \ failed : \A q \in asked \ failed : Height(q) <= Height(p)}
      ahead == {p \in highest : Height(p) > Height(n)}
  IN  /\ n \in up
      /\ syncing[n] = Nobody
      /\ asked \ up \subseteq failed
      /\ failed \subseteq asked
      /\ IF failed \cap up = {} THEN UNCHANGED faults ELSE Fault("prune")
      /\ known' = [known EXCEPT ![n] = @ \ failed]
      /\ seeds' = [seeds EXCEPT ![n] = @ \ failed]
      /\ \/ ahead = {} /\ UNCHANGED syncing
         \/ \E p \in ahead : syncing' = [syncing EXCEPT ![n] = p]
      /\ UNCHANGED <<up, ledger, disk, stale, pacing, pendingProposals, network, time>>

\* Mutant: the importing node keeps its own validator set.
ImportedButOwnValidators(n) ==
  [ledger[syncing[n]] EXCEPT !.pending = {}, !.forgot = @ \cup ledger[syncing[n]].pending,
                             !.active = ledger[n].active]

\* importStateSnapshot.  The snapshot has no queue of registrations.
Imported(n) ==
  LET peer == ledger[syncing[n]]
  IN  [peer EXCEPT !.pending = {}, !.forgot = @ \cup peer.pending]

\* The store's keys that it leaves behind: no batch deletes one.
LeftBehind(n) ==
  LET gone == Registered(ledger[n]) \ Registered(Imported(n))
  IN  [active |-> (stale[n].active \ gone) \cup (ledger[n].active \cap gone),
       slashed |-> (stale[n].slashed \ gone) \cup (ledger[n].slashed \cap gone),
       missed |-> [v \in Ids |-> IF v \in gone THEN ledger[n].missed[v] ELSE stale[n].missed[v]]]

\* The snapshot of the chosen peer, whatever its height and this node's are by now.
SyncImport(n) ==
  /\ n \in up
  /\ syncing[n] \in up
  /\ Save(n, Imported(n))
  /\ stale' = [stale EXCEPT ![n] = LeftBehind(n)]
  /\ syncing' = [syncing EXCEPT ![n] = Nobody]
  /\ UNCHANGED <<up, peers, pacing, pendingProposals, network, time, faults>>

\* qtx_getState fails: the peer is down or too slow.
SyncFails(n) ==
  /\ syncing[n] # Nobody
  /\ syncing' = [syncing EXCEPT ![n] = Nobody]
  /\ IF syncing[n] \in up THEN Fault("timeout") ELSE UNCHANGED faults
  /\ UNCHANGED <<up, ledger, disk, stale, peers, pacing, pendingProposals, network, time>>

-----------------------------------------------------------------------------
(* Peers, storage, crashes, and the slashing call. *)

\* A node announces itself to (or is discovered by) a peer: qtx_announcePeer.
Announce(p, n) ==
  /\ p \in up
  /\ n \in up \ {p}
  /\ p \notin known[n]
  /\ known' = [known EXCEPT ![n] = @ \cup {p}]
  /\ seeds' = [seeds EXCEPT ![n] = @ \ {p}]
  /\ UNCHANGED <<up, ledger, disk, stale, pacing, pendingProposals, syncing, network, time, faults>>

\* The process ends; the prepare requests or commits it has sent may still be
\* handled, or may be lost with it.
Crash(n) ==
  LET own == {r \in rounds : r.proposal.proposer = n}
      sent == UNION {{[to |-> p, proposal |-> r.proposal, votes |-> {}]
                           : p \in r.waiting \cap up} : r \in own}
  IN  /\ n \in up
      /\ Fault("crash")
      /\ up' = up \ {n}
      /\ rounds' = rounds \ own
      /\ \E handled \in {{}, sent} :
           late' = {m \in late \cup handled : m.to # n}
      /\ \E lost \in {{}, {m \in commits : m.proposal.proposer = n}} :
           commits' = commits \ lost
      /\ pendingProposals' = [pendingProposals EXCEPT ![n] = {}]
      /\ syncing' = [syncing EXCEPT ![n] = Nobody]
      /\ UNCHANGED <<ledger, disk, stale, peers, pacing, time>>

\* The state l and the validators whose keys are in the store beside it.
Loaded(l, keys, back) ==
  [l EXCEPT !.active = @ \cup (back \cap keys.active),
            !.slashed = @ \cup (back \cap keys.slashed),
            !.missed = [v \in Ids |-> IF v \in back THEN keys.missed[v] ELSE @[v]],
            !.returned = @ \cup back]

\* The node comes back with its store, and with those of the keys left behind
\* that had been written.  It knows the bootstrap peers, but not under the
\* addresses that produceDistributedBlock looks up.
Restart(n) ==
  /\ n \in Nodes \ up
  /\ "restart" \in FaultKinds
  /\ up' = up \cup {n}
  /\ \E l \in {ledger[n], disk[n]}, back \in SUBSET Registered(stale[n]) :
       /\ back \cap Registered(l) = {}
       /\ ledger' = [ledger EXCEPT ![n] = Loaded(l, stale[n], back)]
       /\ disk' = [disk EXCEPT ![n] = Loaded(l, stale[n], back)]
  /\ known' = [known EXCEPT ![n] = {}]
  /\ seeds' = [seeds EXCEPT ![n] = Bootstrap \ {n}]
  /\ stalls' = [stalls EXCEPT ![n] = 0]
  /\ lastSeen' = [lastSeen EXCEPT ![n] = -1]
  /\ UNCHANGED <<stale, pendingProposals, syncing, network, time, faults>>

\* qtx_slashEquivocation on one node, which tells nobody.
SlashEquivocation(n, v) ==
  /\ n \in up
  /\ v \in Active(n)
  /\ Fault("slash")
  /\ Save(n, [ledger[n] EXCEPT !.active = @ \ {v}, !.slashed = @ \cup {v}])
  /\ UNCHANGED <<up, stale, peers, pacing, pendingProposals, syncing, network, time>>

Messages ==
  \/ \E round \in rounds :
       \/ \E n \in round.waiting : HandlePrepare(n, round) \/ PrepareFails(n, round)
       \/ EndRound(round)
  \/ \E request \in late : HandleLatePrepare(request.to, request)
  \/ \E message \in commits : HandleCommit(message.to, message) \/ LoseCommit(message)

Sync ==
  \E n \in Nodes :
    \/ \E failed \in SUBSET Nodes : SyncHeads(n, failed)
    \/ SyncImport(n)
    \/ SyncFails(n)

Surroundings ==
  \E n \in Nodes :
    \/ \E p \in Nodes : Announce(p, n)
    \/ Crash(n)
    \/ Restart(n)
    \/ \E v \in Ids : SlashEquivocation(n, v)

Next ==
  \/ \E n \in Nodes : Tick(n) \/ ProduceBlock(n)
  \/ Messages
  \/ Sync
  \/ Surroundings

Spec == Init /\ [][Next]_vars

-----------------------------------------------------------------------------
(* Properties *)

\* Every variable has its type.
TypeOK ==
  /\ up \subseteq Nodes
  /\ ledger \in [Nodes -> LedgerRecord]
  /\ disk \in [Nodes -> LedgerRecord]
  /\ stale \in [Nodes -> Keys]
  /\ known \in [Nodes -> SUBSET Nodes]
  /\ seeds \in [Nodes -> SUBSET Nodes]
  /\ stalls \in [Nodes -> Nat]
  /\ lastSeen \in [Nodes -> Nat \cup {-1}]
  /\ pendingProposals \in [Nodes -> SUBSET Proposal]
  /\ syncing \in [Nodes -> Nodes \cup {Nobody}]
  /\ rounds \subseteq Round
  /\ late \subseteq Message
  /\ commits \subseteq Message
  /\ time \in Nat
  /\ faults \in Nat

\* tests/devnet-4node.test.ts: the nodes agree on the head hash: two nodes at
\* the same height have the same chain.
SameHead == \A n, m \in Nodes : Height(n) = Height(m) => HeadOf(n) = HeadOf(m)

\* "Peer will recover via head sync path": whatever way a node came to its
\* chain, it knows the validators that the transactions in it registered, or has
\* them in its queue, but those that a sync took out of a queue; and it knows no
\* other, but those that a restart brought back from a chain it had before.
RegistrationsKept ==
  \A n \in Nodes :
    LET named == Nodes \cup (Done(ledger[n]) \cap Candidates)
        held == Registered(ledger[n]) \cup ledger[n].pending
    IN  /\ named \subseteq held \cup ledger[n].forgot
        /\ held \subseteq named \cup ledger[n].returned

\* hashState: nodes with the same head have the same validators and the same
\* queue, whatever was lost, crashed, slashed or imported before it: they differ
\* only in whom a call slashed since that head, in what a sync forgot and in what
\* a restart brought back.
SameHeadSameState ==
  \A n, m \in Nodes :
    LET l == ledger[n]  k == ledger[m]
    IN  l.head = k.head =>
          /\ l.active \ k.active \subseteq (k.slashed \ l.slashed) \cup l.returned
          /\ l.slashed \ k.slashed \subseteq k.active \cup l.returned
          /\ l.pending \ k.pending \subseteq k.forgot

\* tests/devnet-convergence.test.ts: "Alice and carol cannot commit new blocks
\* while bob is offline": a proposer adds its block only if a quorum of its
\* validators voted for it, as long as it knows an endpoint of every one of them
\* (of a validator that sync has pruned, it takes the vote for granted).
OwnBlocksHaveQuorum ==
  [][\A r \in rounds \ rounds' :
       LET n == r.proposal.proposer
       IN  HeadOf(n)' # HeadOf(n) /\ Active(n) \subseteq known[n] \cup {n}
             => Cardinality(r.voters) >= Quorum(Cardinality(Active(n)))]_vars

=============================================================================
