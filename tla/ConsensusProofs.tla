-------------------------- MODULE ConsensusProofs --------------------------
(***************************************************************************)
(* Theorems about Consensus and Rotation, for every value of their         *)
(* constants: what a ledger keeps whatever the other nodes, the network    *)
(* and the operator of the node do, and, where timers fire in turn, that   *)
(* the nodes have one chain as long as all of them run and too few commits *)
(* are lost to leave a quorum without a block, and that a proposer's       *)
(* blocks have a quorum of votes.  What the shared chain of module Chain   *)
(* promises then holds of the nodes.                                       *)
(***************************************************************************)
EXTENDS Rotation, FiniteSetTheorems, TLAPS

\* Every registration of the chain is known, is waiting, or was forgotten by a
\* sync; an id that is not in the chain is neither, unless a restart brought it
\* back.
KeptIn(l) ==
  /\ Nodes \cup (Done(l) \cap Candidates) \subseteq Registered(l) \cup l.pending \cup l.forgot
  /\ Registered(l) \cup l.pending \subseteq Nodes \cup (Done(l) \cap Candidates) \cup l.returned
  /\ l.active \cap l.slashed = {}

\* The validators and the queue that the head's hash covers, or genesis.
HashedState(l) ==
  IF l.head = <<>> THEN [active |-> Nodes, slashed |-> {}, pending |-> {}]
  ELSE [active |-> l.head[Len(l.head)].active, slashed |-> l.head[Len(l.head)].slashed,
        pending |-> l.head[Len(l.head)].pending]

\* Since then calls have only slashed validators, syncs only emptied the queue and
\* restarts only brought validators back.
FollowsHead(l) ==
  LET h == HashedState(l)
  IN  /\ l.active \subseteq h.active \cup l.returned
      /\ h.active \subseteq l.active \cup l.slashed
      /\ h.slashed \subseteq l.slashed
      /\ l.slashed \subseteq h.slashed \cup h.active \cup l.returned
      /\ l.pending \subseteq h.pending
      /\ h.pending \subseteq l.pending \cup l.forgot

\* A key in the store is an active or a slashed validator's.
Apart(keys) == keys.active \cap keys.slashed = {}

\* What every ledger keeps.
Sound(l) == l \in LedgerRecord /\ KeptIn(l) /\ FollowsHead(l)

(***************************************************************************)
(* The inductive invariant.  Ledgers travel between nodes (a snapshot) and *)
(* through the store (a restart), so it speaks of every ledger there is.   *)
(***************************************************************************)
Ledgers ==
  \A n \in Nodes : Sound(ledger[n]) /\ Sound(disk[n]) /\ Apart(stale[n])

\* The inductive invariant.
Inv == TypeOK /\ Ledgers

-----------------------------------------------------------------------------
(* What happens to one ledger. *)

\* Appending a block adds its transactions to those that are done.
LEMMA DoneAppend ==
  ASSUME NEW l \in LedgerRecord, NEW d \in Digest, NEW k,
         k.head = Append(l.head, d)
  PROVE  Done(k) = Done(l) \cup d.txs
<1>1. l.head \in Seq(Digest)
  BY DEF LedgerRecord
<1>2. DOMAIN k.head = DOMAIN l.head \cup {Len(l.head) + 1}
  BY <1>1
<1>3. \A i \in DOMAIN l.head : k.head[i] = l.head[i]
  BY <1>1
<1>4. k.head[Len(l.head) + 1] = d
  BY <1>1
<1>. QED
  BY <1>2, <1>3, <1>4 DEF Done

\* The hash of a new block covers the state that it leaves.
LEMMA HashedAppend ==
  ASSUME NEW l \in LedgerRecord, NEW d \in Digest, NEW k, k.head = Append(l.head, d),
         k.active = d.active, k.slashed = d.slashed, k.pending = d.pending
  PROVE  FollowsHead(k)
<1>1. l.head \in Seq(Digest)
  BY DEF LedgerRecord
<1>2. k.head # <<>> /\ k.head[Len(k.head)] = d
  BY <1>1
<1>. QED
  BY <1>2 DEF FollowsHead, HashedState

\* applyBlock keeps a ledger sound, whatever batch and proposer it is given.
LEMMA ApplyBlockSound ==
  ASSUME NEW l, Sound(l), NEW batch \in SUBSET Txs, NEW proposer
  PROVE  Sound(ApplyBlock(l, batch, proposer))
<1>. DEFINE accepted == batch \ (Done(l) \cup (Candidates \cap Registered(l)))
            arriving == accepted \cap Candidates
            immediate == IF EpochLength = 0 THEN arriving ELSE {}
            queue == l.pending \cup (arriving \ immediate)
            joining == IF EpochLength > 0 /\ (Len(l.head) + 1) % EpochLength = 0
                       THEN queue ELSE {}
            active == l.active \cup immediate \cup joining
            by == IF RewardEnabled /\ proposer \in l.active THEN proposer ELSE Nobody
            d == [txs |-> accepted, by |-> by, active |-> active,
                  slashed |-> l.slashed \ joining, pending |-> queue \ joining]
            missed == [v \in Ids |-> IF v \in joining THEN 0 ELSE l.missed[v]]
            k == ApplyBlock(l, batch, proposer)
<1>1. l \in LedgerRecord /\ KeptIn(l)
  BY DEF Sound
<1>2. /\ l.head \in Seq(Digest) /\ l.active \subseteq Ids /\ l.slashed \subseteq Ids
      /\ l.pending \subseteq Candidates /\ l.missed \in [Ids -> Nat]
  BY <1>1 DEF LedgerRecord
<1>3. accepted \subseteq Txs /\ arriving \subseteq Candidates /\ immediate \subseteq arriving
  OBVIOUS
<1>4. queue \subseteq Candidates /\ joining \subseteq queue /\ active \subseteq Ids
  BY <1>2, <1>3 DEF Ids
<1>5. by \in Ids \cup {Nobody}
  BY <1>2
<1>6. d \in Digest
  BY <1>2, <1>3, <1>4, <1>5 DEF Digest
<1>7. k = [l EXCEPT !.head = Append(@, d), !.active = active, !.slashed = @ \ joining,
                    !.pending = queue \ joining, !.missed = missed]
  BY <1>1 DEF ApplyBlock, LedgerRecord
<1>8. /\ k.head = Append(l.head, d) /\ k.active = active /\ k.pending = queue \ joining
      /\ k.slashed = l.slashed \ joining /\ k.forgot = l.forgot /\ k.returned = l.returned
      /\ d.txs = accepted
  BY <1>1, <1>7 DEF LedgerRecord
<1>9. k \in LedgerRecord
  <2>1. Append(l.head, d) \in Seq(Digest)
    BY <1>2, <1>6
  <2>2. missed \in [Ids -> Nat]
    BY <1>2
  <2>. HIDE DEF d, active, queue, joining, missed, k
  <2>. QED
    BY <1>1, <1>2, <1>4, <1>7, <2>1, <2>2 DEF LedgerRecord
<1>10. Done(k) = Done(l) \cup accepted
  <2>. HIDE DEF d, k, accepted
  <2>. QED
    BY <1>1, <1>6, <1>8, DoneAppend
<1>11. KeptIn(k)
  <2>1. /\ Nodes \cup (Done(l) \cap Candidates) \subseteq Registered(l) \cup l.pending \cup l.forgot
        /\ Registered(l) \cup l.pending
             \subseteq Nodes \cup (Done(l) \cap Candidates) \cup l.returned
        /\ l.active \cap l.slashed = {}
    BY <1>1 DEF KeptIn
  <2>2. immediate \cap l.slashed = {}
    BY DEF Registered
  <2>3. k.active = l.active \cup immediate \cup joining
    BY <1>8
  <2>4. /\ k.pending = queue \ joining /\ k.slashed = l.slashed \ joining
        /\ k.forgot = l.forgot /\ k.returned = l.returned
    BY <1>8
  <2>5. queue = l.pending \cup (arriving \ immediate)
    OBVIOUS
  <2>6. Done(k) \cap Candidates = (Done(l) \cap Candidates) \cup arriving
    BY <1>10
  <2>. HIDE DEF k, d, accepted, arriving, immediate, queue, joining, active
  <2>7. Registered(k) \cup k.pending = Registered(l) \cup l.pending \cup arriving
    BY <1>3, <1>4, <2>3, <2>4, <2>5 DEF Registered
  <2>8. k.active \cap k.slashed = {}
    BY <2>1, <2>2, <2>3, <2>4
  <2>9. Nodes \cup (Done(k) \cap Candidates) \subseteq Registered(k) \cup k.pending \cup k.forgot
    BY <2>1, <2>4, <2>6, <2>7
  <2>10. Registered(k) \cup k.pending
           \subseteq Nodes \cup (Done(k) \cap Candidates) \cup k.returned
    BY <2>1, <2>4, <2>6, <2>7
  <2>. QED
    BY <2>8, <2>9, <2>10 DEF KeptIn
<1>12. FollowsHead(k)
  <2>1. d.active = active /\ d.slashed = l.slashed \ joining /\ d.pending = queue \ joining
    OBVIOUS
  <2>. HIDE DEF d, k, active, queue, joining
  <2>. QED
    BY <1>1, <1>6, <1>8, <2>1, HashedAppend
<1>. QED
  BY <1>9, <1>11, <1>12 DEF Sound

\* Slashing active validators keeps a ledger sound: the head says who they were.
LEMMA SlashedSound ==
  ASSUME NEW l, Sound(l), NEW gone \in SUBSET l.active, NEW k \in LedgerRecord,
         k.head = l.head, k.active = l.active \ gone, k.slashed = l.slashed \cup gone,
         k.pending = l.pending, k.forgot = l.forgot, k.returned = l.returned
  PROVE  Sound(k)
<1>1. KeptIn(l) /\ FollowsHead(l)
  BY DEF Sound
<1>2. Done(k) = Done(l) /\ HashedState(k) = HashedState(l)
  BY DEF Done, HashedState
<1>3. KeptIn(k)
  BY <1>1, <1>2 DEF KeptIn, Registered
<1>4. FollowsHead(k)
  <2>. DEFINE h == HashedState(l)
  <2>1. /\ l.active \subseteq h.active \cup l.returned
        /\ h.active \subseteq l.active \cup l.slashed /\ h.slashed \subseteq l.slashed
        /\ l.slashed \subseteq h.slashed \cup h.active \cup l.returned
        /\ l.pending \subseteq h.pending /\ h.pending \subseteq l.pending \cup l.forgot
    BY <1>1 DEF FollowsHead
  <2>. HIDE DEF h
  <2>2. /\ k.active \subseteq h.active \cup k.returned
        /\ h.active \subseteq k.active \cup k.slashed /\ h.slashed \subseteq k.slashed
        /\ k.slashed \subseteq h.slashed \cup h.active \cup k.returned
        /\ k.pending \subseteq h.pending /\ h.pending \subseteq k.pending \cup k.forgot
    BY <2>1
  <2>. QED
    BY <1>2, <2>2 DEF FollowsHead, h
<1>. QED
  BY <1>3, <1>4 DEF Sound

\* A round of consensus at the proposer keeps its ledger sound.
LEMMA RoundSound ==
  ASSUME NEW l, Sound(l), NEW batch \in SUBSET Txs, NEW unavailable
  PROVE  Sound(RunConsensusRound(l, batch, unavailable))
<1>. DEFINE present == Approvals(l, unavailable)
            absent == l.active \ present
            missed == [v \in Ids |-> IF v \in present THEN 0
                                     ELSE IF v \in absent THEN l.missed[v] + 1 ELSE l.missed[v]]
            condemned == {v \in absent : missed[v] >= MaxMissedBlocks}
            judged == [l EXCEPT !.missed = missed, !.active = @ \ condemned,
                                !.slashed = @ \cup condemned]
<1>1. l \in LedgerRecord
  BY DEF Sound
<1>2. l.active \subseteq Ids /\ l.slashed \subseteq Ids /\ l.missed \in [Ids -> Nat]
  BY <1>1 DEF LedgerRecord
<1>3. missed \in [Ids -> Nat]
  BY <1>2
<1>4. condemned \subseteq l.active
  OBVIOUS
<1>5. /\ judged.head = l.head /\ judged.pending = l.pending /\ judged.forgot = l.forgot
      /\ judged.returned = l.returned
      /\ judged.active = l.active \ condemned /\ judged.slashed = l.slashed \cup condemned
  BY <1>1 DEF LedgerRecord
<1>6. judged \in LedgerRecord
  <2>. HIDE DEF missed, condemned
  <2>. QED
    BY <1>1, <1>2, <1>3, <1>4 DEF LedgerRecord
<1>7. Sound(judged)
  <2>. HIDE DEF judged, condemned
  <2>. QED
    BY <1>4, <1>5, <1>6, SlashedSound
<1>8. Sound(ApplyBlock(judged, batch, ProposerAt(l.active, Len(l.head))))
  <2>. HIDE DEF judged
  <2>. QED
    BY <1>7, ApplyBlockSound
<1>. QED
  BY <1>8 DEF RunConsensusRound

\* So does a call that slashes.
LEMMA SlashSound ==
  ASSUME NEW l, Sound(l), NEW v \in l.active
  PROVE  Sound([l EXCEPT !.active = @ \ {v}, !.slashed = @ \cup {v}])
<1>. DEFINE k == [l EXCEPT !.active = @ \ {v}, !.slashed = @ \cup {v}]
<1>1. l \in LedgerRecord
  BY DEF Sound
<1>2. /\ k \in LedgerRecord /\ k.head = l.head /\ k.pending = l.pending /\ k.forgot = l.forgot
      /\ k.returned = l.returned /\ k.active = l.active \ {v} /\ k.slashed = l.slashed \cup {v}
  BY <1>1 DEF LedgerRecord
<1>3. Sound(k)
  <2>. HIDE DEF k
  <2>. QED
    BY <1>2, SlashedSound
<1>. QED
  BY <1>3

\* And a snapshot's import, which forgets the queue.
LEMMA ImportSound ==
  ASSUME NEW l, Sound(l)
  PROVE  Sound([l EXCEPT !.pending = {}, !.forgot = @ \cup l.pending])
<1>. DEFINE k == [l EXCEPT !.pending = {}, !.forgot = @ \cup l.pending]
<1>1. l \in LedgerRecord /\ KeptIn(l) /\ FollowsHead(l)
  BY DEF Sound
<1>2. /\ k \in LedgerRecord /\ k.head = l.head /\ k.pending = {}
      /\ k.active = l.active /\ k.slashed = l.slashed /\ k.forgot = l.forgot \cup l.pending
      /\ k.returned = l.returned
  BY <1>1 DEF LedgerRecord
<1>3. Sound(k)
  <2>. HIDE DEF k
  <2>1. Done(k) = Done(l) /\ HashedState(k) = HashedState(l)
    BY <1>2 DEF Done, HashedState
  <2>2. KeptIn(k)
    BY <1>1, <1>2, <2>1 DEF KeptIn, Registered
  <2>3. FollowsHead(k)
    <3>. DEFINE h == HashedState(l)
    <3>1. /\ l.active \subseteq h.active \cup l.returned
          /\ h.active \subseteq l.active \cup l.slashed /\ h.slashed \subseteq l.slashed
          /\ l.slashed \subseteq h.slashed \cup h.active \cup l.returned
          /\ h.pending \subseteq l.pending \cup l.forgot
      BY <1>1 DEF FollowsHead
    <3>. HIDE DEF h
    <3>2. k.pending \subseteq h.pending /\ h.pending \subseteq k.pending \cup k.forgot
      BY <1>2, <3>1
    <3>. QED
      BY <1>2, <2>1, <3>1, <3>2 DEF FollowsHead, h
  <2>. QED
    BY <1>2, <2>2, <2>3 DEF Sound
<1>. QED
  BY <1>3

\* What the import leaves in the store has one key for a validator.
LEMMA LeftBehindType ==
  ASSUME NEW n \in Nodes, KeptIn(ledger[n]), ledger[n] \in LedgerRecord,
         stale[n] \in Keys, Apart(stale[n])
  PROVE  LeftBehind(n) \in Keys /\ Apart(LeftBehind(n))
<1>. DEFINE l == ledger[n]
            gone == Registered(l) \ Registered(Imported(n))
            missed == [v \in Ids |-> IF v \in gone THEN l.missed[v] ELSE stale[n].missed[v]]
<1>1. /\ l.active \subseteq Ids /\ l.slashed \subseteq Ids /\ l.missed \in [Ids -> Nat]
      /\ l.active \cap l.slashed = {}
  BY DEF LedgerRecord, KeptIn
<1>2. /\ stale[n].active \subseteq Ids /\ stale[n].slashed \subseteq Ids
      /\ stale[n].missed \in [Ids -> Nat] /\ stale[n].active \cap stale[n].slashed = {}
  BY DEF Keys, Apart
<1>3. missed \in [Ids -> Nat]
  BY <1>1, <1>2
<1>4. LeftBehind(n) = [active |-> (stale[n].active \ gone) \cup (l.active \cap gone),
                       slashed |-> (stale[n].slashed \ gone) \cup (l.slashed \cap gone),
                       missed |-> missed]
  BY DEF LeftBehind
<1>. HIDE DEF gone, missed, l
<1>. QED
  BY <1>1, <1>2, <1>3, <1>4 DEF Keys, Apart

\* A restart that brings validators back says who they are.
LEMMA LoadedSound ==
  ASSUME NEW l, Sound(l), NEW keys \in Keys, Apart(keys), NEW back \in SUBSET Registered(keys),
         back \cap Registered(l) = {}
  PROVE  Sound(Loaded(l, keys, back))
<1>. DEFINE missed == [v \in Ids |-> IF v \in back THEN keys.missed[v] ELSE l.missed[v]]
            k == Loaded(l, keys, back)
<1>1. l \in LedgerRecord /\ KeptIn(l) /\ FollowsHead(l)
  BY DEF Sound
<1>2. /\ l.active \subseteq Ids /\ l.slashed \subseteq Ids /\ l.returned \subseteq Ids
      /\ l.missed \in [Ids -> Nat] /\ keys.missed \in [Ids -> Nat]
      /\ keys.active \subseteq Ids /\ keys.slashed \subseteq Ids
  BY <1>1 DEF LedgerRecord, Keys
<1>3. missed \in [Ids -> Nat]
  BY <1>2
<1>4. k = [l EXCEPT !.active = @ \cup (back \cap keys.active),
                    !.slashed = @ \cup (back \cap keys.slashed),
                    !.missed = missed, !.returned = @ \cup back]
  BY <1>1 DEF Loaded, LedgerRecord
<1>5. back \subseteq Ids
  BY <1>2 DEF Registered
<1>6. /\ k.head = l.head /\ k.pending = l.pending /\ k.forgot = l.forgot
      /\ k.active = l.active \cup (back \cap keys.active)
      /\ k.slashed = l.slashed \cup (back \cap keys.slashed)
      /\ k.returned = l.returned \cup back
  BY <1>1, <1>4 DEF LedgerRecord
<1>7. k \in LedgerRecord
  <2>. HIDE DEF missed, k
  <2>. QED
    BY <1>1, <1>2, <1>3, <1>4, <1>5 DEF LedgerRecord
<1>. HIDE DEF missed, k
<1>8. Done(k) = Done(l) /\ HashedState(k) = HashedState(l)
  BY <1>6 DEF Done, HashedState
<1>9. KeptIn(k)
  BY <1>1, <1>6, <1>8 DEF KeptIn, Registered, Apart
<1>10. FollowsHead(k)
  <2>. DEFINE h == HashedState(l)
  <2>1. /\ l.active \subseteq h.active \cup l.returned
        /\ h.active \subseteq l.active \cup l.slashed /\ h.slashed \subseteq l.slashed
        /\ l.slashed \subseteq h.slashed \cup h.active \cup l.returned
        /\ l.pending \subseteq h.pending /\ h.pending \subseteq l.pending \cup l.forgot
    BY <1>1 DEF FollowsHead
  <2>. HIDE DEF h
  <2>2. /\ k.active \subseteq h.active \cup k.returned
        /\ h.active \subseteq k.active \cup k.slashed /\ h.slashed \subseteq k.slashed
        /\ k.slashed \subseteq h.slashed \cup h.active \cup k.returned
        /\ k.pending \subseteq h.pending /\ h.pending \subseteq k.pending \cup k.forgot
    BY <1>6, <2>1
  <2>. QED
    BY <1>8, <2>2 DEF FollowsHead, h
<1>11. Sound(k)
  BY <1>7, <1>9, <1>10 DEF Sound
<1>. QED
  BY <1>11 DEF k

-----------------------------------------------------------------------------
(* Steps. *)

LEMMA StartSound == Sound(Start)
<1>1. /\ Start.head = <<>> /\ Start.active = Nodes /\ Start.slashed = {} /\ Start.pending = {}
      /\ Start.forgot = {} /\ Start.returned = {}
  BY DEF Start
<1>2. Start \in LedgerRecord
  <2>1. <<>> \in Seq(Digest)
    OBVIOUS
  <2>2. [v \in Ids |-> 0] \in [Ids -> Nat]
    OBVIOUS
  <2>. QED
    BY <2>1, <2>2 DEF Start, LedgerRecord, Ids
<1>3. DOMAIN Start.head = {}
  BY <1>1
<1>4. Done(Start) = {}
  BY <1>3 DEF Done
<1>5. KeptIn(Start)
  BY <1>1, <1>4 DEF KeptIn, Registered
<1>6. FollowsHead(Start)
  BY <1>1 DEF FollowsHead, HashedState
<1>. QED
  BY <1>2, <1>5, <1>6 DEF Sound

\* The initial state.
LEMMA InitInv == Init => Inv
<1>. SUFFICES ASSUME Init PROVE Inv
  OBVIOUS
<1>. DEFINE none == [active |-> {}, slashed |-> {}, missed |-> [v \in Ids |-> 0]]
<1>0. stale = [n \in Nodes |-> none] /\ none \in Keys /\ Apart(none)
  BY DEF Init, Keys, Apart
<1>. HIDE DEF none
<1>1. Ledgers
  BY <1>0, StartSound DEF Init, Ledgers
<1>2. Start \in LedgerRecord
  BY StartSound DEF Sound
<1>3. stale \in [Nodes -> Keys]
  BY <1>0
<1>4. TypeOK
  BY <1>2, <1>3 DEF Init, TypeOK, Nobody
<1>. QED
  BY <1>1, <1>4 DEF Inv

\* Heights and stall counters are natural numbers.
LEMMA HeightType ==
  ASSUME TypeOK, NEW n \in Nodes
  PROVE  Height(n) \in Nat /\ HeadOf(n) \in Seq(Digest) /\ Active(n) \subseteq Ids
BY DEF TypeOK, LedgerRecord, Height, HeadOf, Active

LEMMA StallsType ==
  ASSUME TypeOK, NEW n \in Nodes
  PROVE  StallsNow(n) \in Nat
<1>. DEFINE most == IF Active(n) = {} THEN 0 ELSE Cardinality(Active(n)) - 1
<1>1. IsFiniteSet(Active(n))
  BY HeightType, ConsensusAssumption, FS_Subset
<1>2. Cardinality(Active(n)) \in Nat /\ (Cardinality(Active(n)) = 0 <=> Active(n) = {})
  BY <1>1, FS_CardinalityType, FS_EmptySet
<1>3. most \in Nat
  BY <1>2
<1>4. stalls[n] \in Nat
  BY DEF TypeOK
<1>5. StallsNow(n) = IF Height(n) # lastSeen[n] THEN 0
                     ELSE IF stalls[n] + 1 <= most THEN stalls[n] + 1 ELSE most
  BY DEF StallsNow
<1>. HIDE DEF most
<1>. QED
  BY <1>3, <1>4, <1>5

\* A proposal is well typed.
LEMMA ProposeType ==
  ASSUME TypeOK, NEW n \in Nodes, Propose(n)
  PROVE  rounds' \subseteq Round /\ time' \in Nat
<1>1. PICK batch \in SUBSET (Txs \ Done(ledger[n])) :
        /\ time' = IF time < MaxTime THEN time + 1 ELSE time
        /\ rounds' = rounds \cup
             {[proposal |-> [proposer |-> n, parent |-> HeadOf(n), batch |-> batch, time |-> time],
               waiting |-> (Active(n) \ {n}) \cap known[n], voters |-> {n}, unavailable |-> {}]}
  BY DEF Propose
<1>2. time \in Nat /\ known[n] \subseteq Nodes /\ rounds \subseteq Round
  BY DEF TypeOK
<1>3. [proposer |-> n, parent |-> HeadOf(n), batch |-> batch, time |-> time] \in Proposal
  BY <1>2, HeightType DEF Proposal
<1>. QED
  BY <1>1, <1>2, <1>3 DEF Round

\* A change of one node's ledger that keeps it sound.
LEMMA SaveInv ==
  ASSUME Inv, NEW n \in Nodes, NEW l, Sound(l), Save(n, l),
         stale' = stale \/ \A m \in Nodes : Apart(stale'[m])
  PROVE  /\ Ledgers'
         /\ ledger' \in [Nodes -> LedgerRecord]
         /\ disk' \in [Nodes -> LedgerRecord]
<1>1. /\ ledger' = [ledger EXCEPT ![n] = l]
      /\ disk' = [disk EXCEPT ![n] = ledger[n]]
  BY DEF Save
<1>2. ledger \in [Nodes -> LedgerRecord] /\ disk \in [Nodes -> LedgerRecord]
  BY DEF Inv, TypeOK
<1>3. Sound(ledger[n]) /\ l \in LedgerRecord
  BY DEF Inv, Ledgers, Sound
<1>4. ledger' \in [Nodes -> LedgerRecord] /\ disk' \in [Nodes -> LedgerRecord]
  BY <1>1, <1>2, <1>3
<1>5. \A m \in Nodes : Sound(ledger'[m]) /\ Sound(disk'[m])
  BY <1>1, <1>2, <1>3 DEF Inv, Ledgers
<1>6. \A m \in Nodes : Apart(stale'[m])
  BY DEF Inv, Ledgers
<1>. QED
  BY <1>4, <1>5, <1>6 DEF Ledgers

\* A step that leaves all ledgers alone keeps them sound.
LEMMA LedgersUnchanged ==
  ASSUME Inv, UNCHANGED <<ledger, disk, stale>>
  PROVE  /\ Ledgers'
         /\ ledger' \in [Nodes -> LedgerRecord]
         /\ disk' \in [Nodes -> LedgerRecord]
BY DEF Inv, TypeOK, Ledgers

\* The proposer.
LEMMA TickInv ==
  ASSUME Inv, NEW n \in Nodes, Tick(n)
  PROVE  Inv'
<1>1. TypeOK /\ Ledgers' /\ ledger' \in [Nodes -> LedgerRecord] /\ disk' \in [Nodes -> LedgerRecord]
  BY LedgersUnchanged DEF Tick, Inv
<1>2. StallsNow(n) \in Nat /\ Height(n) \in Nat
  BY <1>1, StallsType, HeightType
<1>3. stalls' \in [Nodes -> Nat] /\ lastSeen' \in [Nodes -> Nat \cup {-1}]
  BY <1>1, <1>2 DEF Tick, TypeOK
<1>4. rounds' \subseteq Round /\ time' \in Nat
  <2>1. CASE Propose(n)
    BY <1>1, <2>1, ProposeType
  <2>2. CASE UNCHANGED <<rounds, time>>
    BY <1>1, <2>2 DEF TypeOK
  <2>. QED
    BY <2>1, <2>2 DEF Tick
<1>. QED
  BY <1>1, <1>3, <1>4 DEF Tick, TypeOK, Inv, peers

LEMMA ProduceBlockInv ==
  ASSUME Inv, NEW n \in Nodes, ProduceBlock(n)
  PROVE  Inv'
<1>1. TypeOK /\ Ledgers' /\ ledger' \in [Nodes -> LedgerRecord] /\ disk' \in [Nodes -> LedgerRecord]
  BY LedgersUnchanged DEF ProduceBlock, Inv
<1>2. rounds' \subseteq Round /\ time' \in Nat
  BY <1>1, ProposeType DEF ProduceBlock
<1>. QED
  BY <1>1, <1>2 DEF ProduceBlock, TypeOK, Inv, peers, pacing

\* Votes.
LEMMA HandlePrepareInv ==
  ASSUME Inv, NEW round \in rounds, NEW n \in round.waiting, HandlePrepare(n, round)
  PROVE  Inv'
<1>1. TypeOK /\ Ledgers' /\ ledger' \in [Nodes -> LedgerRecord] /\ disk' \in [Nodes -> LedgerRecord]
  BY LedgersUnchanged DEF HandlePrepare, Inv
<1>2. round \in Round /\ n \in Nodes
  BY <1>1 DEF TypeOK, Round
<1>3. round.proposal \in Proposal
  BY <1>2 DEF Round
<1>4. pendingProposals' \in [Nodes -> SUBSET Proposal]
  <2>. DEFINE more == [pendingProposals EXCEPT ![n] = @ \cup {round.proposal}]
  <2>1. pendingProposals' = more \/ pendingProposals' = pendingProposals
    BY DEF HandlePrepare
  <2>2. more \in [Nodes -> SUBSET Proposal]
    BY <1>1, <1>2, <1>3 DEF TypeOK
  <2>. QED
    BY <1>1, <2>1, <2>2 DEF TypeOK
<1>. DEFINE answered == [round EXCEPT !.waiting = @ \ {n}]
<1>5. answered \in Round /\ answered.voters = round.voters /\ answered.unavailable = round.unavailable
  BY <1>2 DEF Round
<1>6. rounds' \subseteq Round
  <2>1. [answered EXCEPT !.voters = @ \cup {n}] \in Round
    BY <1>2, <1>5 DEF Round
  <2>2. [answered EXCEPT !.unavailable = @ \cup {n}] \in Round
    BY <1>2, <1>5 DEF Round
  <2>3. \/ rounds' = (rounds \ {round}) \cup {[answered EXCEPT !.voters = @ \cup {n}]}
        \/ rounds' = (rounds \ {round}) \cup {[answered EXCEPT !.unavailable = @ \cup {n}]}
    BY DEF HandlePrepare
  <2>. QED
    BY <1>1, <2>1, <2>2, <2>3 DEF TypeOK
<1>. QED
  BY <1>1, <1>4, <1>6 DEF HandlePrepare, TypeOK, Inv, peers, pacing

LEMMA PrepareFailsInv ==
  ASSUME Inv, NEW round \in rounds, NEW n \in round.waiting, PrepareFails(n, round)
  PROVE  Inv'
<1>1. TypeOK /\ Ledgers' /\ ledger' \in [Nodes -> LedgerRecord] /\ disk' \in [Nodes -> LedgerRecord]
  BY LedgersUnchanged DEF PrepareFails, Inv
<1>2. round \in Round /\ n \in Nodes
  BY <1>1 DEF TypeOK, Round
<1>. DEFINE answered == [round EXCEPT !.waiting = @ \ {n}, !.unavailable = @ \cup {n}]
            request == [to |-> n, proposal |-> round.proposal, votes |-> {}]
<1>3. answered \in Round /\ request \in Message
  BY <1>2 DEF Round, Message
<1>4. rounds' \subseteq Round
  BY <1>1, <1>3 DEF PrepareFails, TypeOK
<1>5. late \subseteq Message /\ faults \in Nat
  BY <1>1 DEF TypeOK
<1>6. late' = late \/ late' = late \cup {request}
  BY DEF PrepareFails
<1>7. faults' = faults \/ faults' = faults + 1
  BY DEF PrepareFails, Fault
<1>8. late' \subseteq Message /\ faults' \in Nat
  BY <1>3, <1>5, <1>6, <1>7
<1>. QED
  BY <1>1, <1>4, <1>8 DEF PrepareFails, TypeOK, Inv, peers, pacing

LEMMA HandleLatePrepareInv ==
  ASSUME Inv, NEW request \in late, HandleLatePrepare(request.to, request)
  PROVE  Inv'
<1>. DEFINE n == request.to
<1>1. TypeOK /\ Ledgers' /\ ledger' \in [Nodes -> LedgerRecord] /\ disk' \in [Nodes -> LedgerRecord]
  BY LedgersUnchanged DEF HandleLatePrepare, Inv
<1>2. n \in Nodes /\ request.proposal \in Proposal
  BY <1>1 DEF TypeOK, Message
<1>3. pendingProposals' \in [Nodes -> SUBSET Proposal]
  <2>. DEFINE more == [pendingProposals EXCEPT ![n] = @ \cup {request.proposal}]
  <2>1. pendingProposals' = more \/ pendingProposals' = pendingProposals
    BY DEF HandleLatePrepare
  <2>2. more \in [Nodes -> SUBSET Proposal]
    BY <1>1, <1>2 DEF TypeOK
  <2>. QED
    BY <1>1, <2>1, <2>2 DEF TypeOK
<1>4. late' \subseteq Message
  BY <1>1 DEF HandleLatePrepare, TypeOK
<1>. QED
  BY <1>1, <1>3, <1>4 DEF HandleLatePrepare, TypeOK, Inv, peers, pacing

\* Blocks.
LEMMA EndRoundInv ==
  ASSUME Inv, NEW round \in rounds, EndRound(round)
  PROVE  Inv'
<1>. DEFINE n == round.proposal.proposer
            asked == (round.voters \cup round.unavailable) \ {n}
            sent == {[to |-> p, proposal |-> round.proposal, votes |-> round.voters] : p \in asked}
            l == RunConsensusRound(ledger[n], round.proposal.batch, round.unavailable)
<1>1. TypeOK /\ round \in Round
  BY DEF Inv, TypeOK
<1>2. /\ round.proposal \in Proposal /\ n \in Nodes /\ round.proposal.batch \subseteq Txs
      /\ round.voters \subseteq Nodes /\ asked \subseteq Nodes
  BY <1>1 DEF Round, Proposal
<1>3. /\ Ledgers'
      /\ ledger' \in [Nodes -> LedgerRecord] /\ disk' \in [Nodes -> LedgerRecord]
      /\ commits' \subseteq Message
  <2>1. CASE Committed(ledger[n], round.unavailable)
    <3>1. Save(n, l) /\ stale' = stale /\ commits' = commits \cup sent
      BY <2>1 DEF EndRound
    <3>2. Sound(ledger[n])
      BY <1>2 DEF Inv, Ledgers
    <3>3. Sound(l)
      BY <1>2, <3>2, RoundSound
    <3>4. sent \subseteq Message
      BY <1>2 DEF Message
    <3>. HIDE DEF l, sent, n
    <3>. QED
      BY <1>1, <1>2, <3>1, <3>3, <3>4, SaveInv DEF TypeOK
  <2>2. CASE ~Committed(ledger[n], round.unavailable)
    BY <1>1, <2>2, LedgersUnchanged DEF EndRound, TypeOK
  <2>. QED
    BY <2>1, <2>2
<1>4. rounds' \subseteq Round
  BY <1>1 DEF EndRound, TypeOK
<1>. QED
  BY <1>1, <1>3, <1>4 DEF EndRound, TypeOK, Inv, peers, pacing

LEMMA HandleCommitInv ==
  ASSUME Inv, NEW message \in commits, HandleCommit(message.to, message)
  PROVE  Inv'
<1>. DEFINE n == message.to
            l == ApplyBlock(ledger[n], message.proposal.batch, message.proposal.proposer)
<1>1. TypeOK /\ message \in Message
  BY DEF Inv, TypeOK
<1>2. n \in Nodes /\ message.proposal \in Proposal /\ message.proposal.batch \subseteq Txs
  BY <1>1 DEF Message, Proposal
<1>3. /\ Ledgers'
      /\ ledger' \in [Nodes -> LedgerRecord] /\ disk' \in [Nodes -> LedgerRecord]
      /\ pendingProposals' \in [Nodes -> SUBSET Proposal]
  <2>1. CASE Accepts(n, message)
    <3>1. /\ Save(n, l) /\ stale' = stale
          /\ pendingProposals' = [pendingProposals EXCEPT ![n] = @ \ {message.proposal}]
      BY <2>1 DEF HandleCommit
    <3>2. Sound(ledger[n])
      BY <1>2 DEF Inv, Ledgers
    <3>3. Sound(l)
      BY <1>2, <3>2, ApplyBlockSound
    <3>4. pendingProposals' \in [Nodes -> SUBSET Proposal]
      BY <1>1, <1>2, <3>1 DEF TypeOK
    <3>. HIDE DEF l, n
    <3>. QED
      BY <1>2, <3>1, <3>3, <3>4, SaveInv
  <2>2. CASE ~Accepts(n, message)
    BY <1>1, <2>2, LedgersUnchanged DEF HandleCommit, TypeOK
  <2>. QED
    BY <2>1, <2>2
<1>4. commits' \subseteq Message
  BY <1>1 DEF HandleCommit, TypeOK
<1>. QED
  BY <1>1, <1>3, <1>4 DEF HandleCommit, TypeOK, Inv, peers, pacing

LEMMA LoseCommitInv ==
  ASSUME Inv, NEW message \in commits, LoseCommit(message)
  PROVE  Inv'
<1>1. TypeOK /\ Ledgers' /\ ledger' \in [Nodes -> LedgerRecord] /\ disk' \in [Nodes -> LedgerRecord]
  BY LedgersUnchanged DEF LoseCommit, Inv
<1>2. commits' \subseteq Message /\ faults' \in Nat
  BY <1>1 DEF LoseCommit, TypeOK, Fault
<1>. QED
  BY <1>1, <1>2 DEF LoseCommit, TypeOK, Inv, peers, pacing

\* State sync.
LEMMA SyncHeadsInv ==
  ASSUME Inv, NEW n \in Nodes, NEW failed \in SUBSET Nodes, SyncHeads(n, failed)
  PROVE  Inv'
<1>1. TypeOK /\ Ledgers' /\ ledger' \in [Nodes -> LedgerRecord] /\ disk' \in [Nodes -> LedgerRecord]
  BY LedgersUnchanged DEF SyncHeads, Inv
<1>2. known' \in [Nodes -> SUBSET Nodes] /\ seeds' \in [Nodes -> SUBSET Nodes]
  BY <1>1 DEF SyncHeads, TypeOK
<1>. DEFINE asked == known[n] \cup seeds[n]
            highest == {p \in asked \ failed : \A q \in asked \ failed : Height(q) <= Height(p)}
            ahead == {p \in highest : Height(p) > Height(n)}
<1>3. ahead \subseteq Nodes
  BY <1>1 DEF TypeOK
<1>4. syncing' = syncing \/ \E p \in ahead : syncing' = [syncing EXCEPT ![n] = p]
  BY DEF SyncHeads
<1>. HIDE DEF ahead
<1>5. syncing' \in [Nodes -> Nodes \cup {Nobody}]
  BY <1>1, <1>3, <1>4 DEF TypeOK
<1>6. faults' \in Nat
  BY <1>1 DEF SyncHeads, TypeOK, Fault
<1>. QED
  BY <1>1, <1>2, <1>5, <1>6 DEF SyncHeads, TypeOK, Inv, network, pacing

LEMMA SyncImportInv ==
  ASSUME Inv, NEW n \in Nodes, SyncImport(n)
  PROVE  Inv'
<1>1. TypeOK
  BY DEF Inv
<1>2. syncing[n] \in Nodes
  BY <1>1 DEF SyncImport, TypeOK
<1>3. Sound(ledger[syncing[n]])
  BY <1>2 DEF Inv, Ledgers
<1>4. Sound(Imported(n))
  BY <1>3, ImportSound DEF Imported
<1>5. LeftBehind(n) \in Keys /\ Apart(LeftBehind(n))
  BY <1>1, LeftBehindType DEF Inv, Ledgers, Sound, TypeOK
<1>6. stale' \in [Nodes -> Keys] /\ \A m \in Nodes : Apart(stale'[m])
  BY <1>1, <1>5 DEF SyncImport, TypeOK, Inv, Ledgers
<1>7. Ledgers' /\ ledger' \in [Nodes -> LedgerRecord] /\ disk' \in [Nodes -> LedgerRecord]
  BY <1>4, <1>6, SaveInv DEF SyncImport
<1>8. syncing' \in [Nodes -> Nodes \cup {Nobody}]
  BY <1>1 DEF SyncImport, TypeOK
<1>. QED
  BY <1>1, <1>6, <1>7, <1>8 DEF SyncImport, TypeOK, Inv, peers, network, pacing

LEMMA SyncFailsInv ==
  ASSUME Inv, NEW n \in Nodes, SyncFails(n)
  PROVE  Inv'
<1>1. TypeOK /\ Ledgers' /\ ledger' \in [Nodes -> LedgerRecord] /\ disk' \in [Nodes -> LedgerRecord]
  BY LedgersUnchanged DEF SyncFails, Inv
<1>2. syncing' \in [Nodes -> Nodes \cup {Nobody}]
  BY <1>1 DEF SyncFails, TypeOK
<1>3. faults' \in Nat
  BY <1>1 DEF SyncFails, TypeOK, Fault
<1>. QED
  BY <1>1, <1>2, <1>3 DEF SyncFails, TypeOK, Inv, peers, network, pacing

\* Peers, crashes, restarts, slashes.
LEMMA AnnounceInv ==
  ASSUME Inv, NEW p \in Nodes, NEW n \in Nodes, Announce(p, n)
  PROVE  Inv'
<1>1. TypeOK /\ Ledgers' /\ ledger' \in [Nodes -> LedgerRecord] /\ disk' \in [Nodes -> LedgerRecord]
  BY LedgersUnchanged DEF Announce, Inv
<1>2. known' \in [Nodes -> SUBSET Nodes] /\ seeds' \in [Nodes -> SUBSET Nodes]
  BY <1>1 DEF Announce, TypeOK
<1>. QED
  BY <1>1, <1>2 DEF Announce, TypeOK, Inv, network, pacing

LEMMA CrashInv ==
  ASSUME Inv, NEW n \in Nodes, Crash(n)
  PROVE  Inv'
<1>1. TypeOK /\ Ledgers' /\ ledger' \in [Nodes -> LedgerRecord] /\ disk' \in [Nodes -> LedgerRecord]
  BY LedgersUnchanged DEF Crash, Inv
<1>. DEFINE own == {r \in rounds : r.proposal.proposer = n}
            requests(r) == {[to |-> p, proposal |-> r.proposal, votes |-> {}] : p \in r.waiting \cap up}
            sent == UNION {requests(r) : r \in own}
<1>2. sent \subseteq Message
  <2>. SUFFICES ASSUME NEW r \in own, NEW p \in r.waiting \cap up
                PROVE  [to |-> p, proposal |-> r.proposal, votes |-> {}] \in Message
    OBVIOUS
  <2>. QED
    BY <1>1 DEF TypeOK, Round, Message
<1>3. late' \subseteq Message
  <2>1. late' \subseteq late \cup sent
    BY DEF Crash
  <2>. QED
    BY <1>1, <1>2, <2>1 DEF TypeOK
<1>4. commits' \subseteq Message /\ rounds' \subseteq Round
  BY <1>1 DEF Crash, TypeOK
<1>5. up' \subseteq Nodes /\ faults' \in Nat
  BY <1>1 DEF Crash, TypeOK, Fault
<1>6. pendingProposals' \in [Nodes -> SUBSET Proposal]
  BY <1>1 DEF Crash, TypeOK
<1>7. syncing' \in [Nodes -> Nodes \cup {Nobody}]
  BY <1>1 DEF Crash, TypeOK
<1>. QED
  BY <1>1, <1>3, <1>4, <1>5, <1>6, <1>7 DEF Crash, TypeOK, Inv, peers, pacing

LEMMA RestartInv ==
  ASSUME Inv, NEW n \in Nodes, Restart(n)
  PROVE  Inv'
<1>1. TypeOK
  BY DEF Inv
<1>2. PICK l \in {ledger[n], disk[n]}, back \in SUBSET Registered(stale[n]) :
        /\ back \cap Registered(l) = {}
        /\ ledger' = [ledger EXCEPT ![n] = Loaded(l, stale[n], back)]
        /\ disk' = [disk EXCEPT ![n] = Loaded(l, stale[n], back)]
  BY DEF Restart
<1>. DEFINE k == Loaded(l, stale[n], back)
<1>3. Sound(k) /\ k \in LedgerRecord
  <2>1. Sound(l) /\ stale[n] \in Keys /\ Apart(stale[n])
    BY <1>1 DEF Inv, Ledgers, TypeOK
  <2>2. Sound(k)
    BY <1>2, <2>1, LoadedSound
  <2>. QED
    BY <2>2 DEF Sound
<1>. HIDE DEF k
<1>4. ledger' \in [Nodes -> LedgerRecord] /\ disk' \in [Nodes -> LedgerRecord]
  BY <1>1, <1>2, <1>3 DEF TypeOK, k
<1>5. \A m \in Nodes : Sound(ledger'[m]) /\ Sound(disk'[m]) /\ Apart(stale'[m])
  BY <1>1, <1>2, <1>3 DEF Inv, Ledgers, TypeOK, Restart, k
<1>6. /\ up' \subseteq Nodes
      /\ known' \in [Nodes -> SUBSET Nodes] /\ seeds' \in [Nodes -> SUBSET Nodes]
      /\ stalls' \in [Nodes -> Nat] /\ lastSeen' \in [Nodes -> Nat \cup {-1}]
  BY <1>1, ConsensusAssumption DEF Restart, TypeOK
<1>. QED
  BY <1>1, <1>4, <1>5, <1>6 DEF Restart, TypeOK, Inv, Ledgers, network

LEMMA SlashEquivocationInv ==
  ASSUME Inv, NEW n \in Nodes, NEW v \in Ids, SlashEquivocation(n, v)
  PROVE  Inv'
<1>1. TypeOK
  BY DEF Inv
<1>2. Sound(ledger[n]) /\ v \in ledger[n].active
  BY DEF Inv, Ledgers, SlashEquivocation, Active
<1>3. Sound([ledger[n] EXCEPT !.active = @ \ {v}, !.slashed = @ \cup {v}])
  BY <1>2, SlashSound
<1>4. Ledgers' /\ ledger' \in [Nodes -> LedgerRecord] /\ disk' \in [Nodes -> LedgerRecord]
  BY <1>3, SaveInv DEF SlashEquivocation
<1>5. faults' \in Nat
  BY <1>1 DEF SlashEquivocation, TypeOK, Fault
<1>. QED
  BY <1>1, <1>4, <1>5 DEF SlashEquivocation, TypeOK, Inv, peers, network, pacing

\* The invariant is preserved by every step.
LEMMA StepInv == Inv /\ [Next]_vars => Inv'
<1>. SUFFICES ASSUME Inv, [Next]_vars PROVE Inv'
  OBVIOUS
<1>1. ASSUME NEW n \in Nodes, Tick(n) \/ ProduceBlock(n)
      PROVE  Inv'
  BY <1>1, TickInv, ProduceBlockInv
<1>2. CASE Messages
  <2>1. ASSUME NEW round \in rounds, NEW n \in round.waiting,
               HandlePrepare(n, round) \/ PrepareFails(n, round)
        PROVE  Inv'
    BY <2>1, HandlePrepareInv, PrepareFailsInv
  <2>2. ASSUME NEW round \in rounds, EndRound(round)
        PROVE  Inv'
    BY <2>2, EndRoundInv
  <2>3. ASSUME NEW request \in late, HandleLatePrepare(request.to, request)
        PROVE  Inv'
    BY <2>3, HandleLatePrepareInv
  <2>4. ASSUME NEW message \in commits,
               HandleCommit(message.to, message) \/ LoseCommit(message)
        PROVE  Inv'
    BY <2>4, HandleCommitInv, LoseCommitInv
  <2>. QED
    BY <1>2, <2>1, <2>2, <2>3, <2>4 DEF Messages
<1>3. CASE Sync
  <2>1. ASSUME NEW n \in Nodes, NEW failed \in SUBSET Nodes, SyncHeads(n, failed)
        PROVE  Inv'
    BY <2>1, SyncHeadsInv
  <2>2. ASSUME NEW n \in Nodes, SyncImport(n) \/ SyncFails(n)
        PROVE  Inv'
    BY <2>2, SyncImportInv, SyncFailsInv
  <2>. QED
    BY <1>3, <2>1, <2>2 DEF Sync
<1>4. CASE Surroundings
  <2>1. ASSUME NEW n \in Nodes, NEW p \in Nodes, Announce(p, n)
        PROVE  Inv'
    BY <2>1, AnnounceInv
  <2>2. ASSUME NEW n \in Nodes, Crash(n) \/ Restart(n)
        PROVE  Inv'
    BY <2>2, CrashInv, RestartInv
  <2>3. ASSUME NEW n \in Nodes, NEW v \in Ids, SlashEquivocation(n, v)
        PROVE  Inv'
    BY <2>3, SlashEquivocationInv
  <2>. QED
    BY <1>4, <2>1, <2>2, <2>3 DEF Surroundings
<1>5. CASE UNCHANGED vars
  <2>1. Ledgers' /\ ledger' \in [Nodes -> LedgerRecord] /\ disk' \in [Nodes -> LedgerRecord]
    BY <1>5, LedgersUnchanged DEF vars
  <2>. QED
    BY <1>5, <2>1 DEF vars, TypeOK, Inv, peers, pacing, network
<1>. QED
  BY <1>1, <1>2, <1>3, <1>4, <1>5 DEF Next

-----------------------------------------------------------------------------

\* The invariant gives the three properties.
LEMMA InvImplies ==
  ASSUME Inv
  PROVE  TypeOK /\ RegistrationsKept /\ SameHeadSameState
<1>1. \A n \in Nodes : KeptIn(ledger[n]) /\ FollowsHead(ledger[n])
  BY DEF Inv, Ledgers, Sound
<1>2. RegistrationsKept
  BY <1>1 DEF KeptIn, RegistrationsKept
<1>3. SameHeadSameState
  <2>. SUFFICES ASSUME NEW n \in Nodes, NEW m \in Nodes, ledger[n].head = ledger[m].head
                PROVE  /\ ledger[n].active \ ledger[m].active
                            \subseteq (ledger[m].slashed \ ledger[n].slashed)
                                        \cup ledger[n].returned
                       /\ ledger[n].slashed \ ledger[m].slashed
                            \subseteq ledger[m].active \cup ledger[n].returned
                       /\ ledger[n].pending \ ledger[m].pending \subseteq ledger[m].forgot
    BY DEF SameHeadSameState
  <2>. DEFINE h == HashedState(ledger[n])
  <2>1. HashedState(ledger[m]) = h
    BY DEF HashedState
  <2>2. /\ ledger[n].active \subseteq h.active \cup ledger[n].returned
        /\ ledger[n].slashed \subseteq h.slashed \cup h.active \cup ledger[n].returned
        /\ ledger[n].pending \subseteq h.pending
    BY <1>1 DEF FollowsHead
  <2>3. /\ h.active \subseteq ledger[m].active \cup ledger[m].slashed
        /\ h.slashed \subseteq ledger[m].slashed
        /\ h.pending \subseteq ledger[m].pending \cup ledger[m].forgot
    BY <1>1, <2>1 DEF FollowsHead
  <2>4. ledger[n].active \cap ledger[n].slashed = {}
    BY <1>1 DEF KeptIn
  <2>. HIDE DEF h
  <2>. QED
    BY <2>2, <2>3, <2>4
<1>. QED
  BY <1>2, <1>3 DEF Inv

\* Every node's ledger, its store and all messages stay well typed.
THEOREM ConsensusTypeCorrect == Spec => []TypeOK
BY InitInv, StepInv, InvImplies, PTL DEF Spec

\* No node loses a validator that its chain registered, but those that were in
\* the queue when a sync took the state (main.ts, importStateSnapshot), and it
\* knows no other, but those that a restart found in the store: whatever chain
\* and epoch, and however the node came to its state.
THEOREM RegistrationsAreKept == Spec => []RegistrationsKept
BY InitInv, StepInv, InvImplies, PTL DEF Spec

\* The hash of the head tells the validators and the queue, up to what a call
\* slashed, a sync forgot and a restart found in the store since: blocks, commits
\* applied to another head, slashes at the proposer and imports of chains with a
\* longer past leave nothing in a state that its head does not cover.
THEOREM SameHeadMeansSameState == Spec => []SameHeadSameState
BY InitInv, StepInv, InvImplies, PTL DEF Spec

\* The timers take turns in the order of a schedule.
TurnInv == schedule \in Schedules /\ turn \in 1 .. Len(schedule)

LEMMA ScheduleType ==
  ASSUME TurnInv
  PROVE  /\ Len(schedule) \in Nat \ {0}
         /\ schedule[turn].timer \in {"block", "sync"}
         /\ schedule[turn].node \in Nodes
<1>. DEFINE Timers == [timer : {"block", "sync"}, node : Nodes]
<1>1. schedule \in Seq(Timers) /\ schedule # <<>>
  BY SchedulesAssumption DEF TurnInv
<1>2. Len(schedule) \in Nat \ {0} /\ turn \in 1 .. Len(schedule)
  BY <1>1 DEF TurnInv
<1>3. schedule[turn] \in Timers
  <2>. HIDE DEF Timers
  <2>. QED
    BY <1>1, <1>2
<1>. QED
  BY <1>2, <1>3

LEMMA TurnInvariant == TimedSpec => []TurnInv
<1>1. TimedInit => TurnInv
  <2>. SUFFICES ASSUME TimedInit PROVE TurnInv
    OBVIOUS
  <2>1. schedule \in Seq([timer : {"block", "sync"}, node : Nodes]) \ {<<>>}
    BY SchedulesAssumption DEF TimedInit
  <2>2. Len(schedule) \in Nat \ {0}
    BY <2>1
  <2>. QED
    BY <2>2 DEF TimedInit, TurnInv
<1>2. TurnInv /\ [TimedNext]_timedVars => TurnInv'
  <2>. SUFFICES ASSUME TurnInv, [TimedNext]_timedVars PROVE TurnInv'
    OBVIOUS
  <2>1. CASE TimerFires
    <3>. DEFINE k == Len(schedule)
    <3>1. k \in Nat \ {0} /\ turn \in Nat
      BY ScheduleType DEF TurnInv
    <3>2. schedule' = schedule /\ turn' = (turn % k) + 1
      BY <2>1 DEF TimerFires
    <3>. HIDE DEF k
    <3>3. (turn % k) + 1 \in 1 .. k
      BY <3>1
    <3>. QED
      BY <3>2, <3>3 DEF TurnInv, k
  <2>2. CASE UNCHANGED timing
    BY <2>2 DEF timing, TurnInv
  <2>. QED
    BY <2>1, <2>2 DEF TimedNext, Progress, SurroundingsChange, timedVars
<1>. QED
  BY <1>1, <1>2, PTL DEF TimedSpec

\* The nodes under their intended timing are nodes: what holds of Consensus
\* holds of Rotation.
THEOREM TimedIsConsensus == TimedSpec => Spec
<1>1. TimedInit => Init
  BY DEF TimedInit
<1>2. TurnInv /\ [TimedNext]_timedVars => [Next]_vars
  <2>. SUFFICES ASSUME TurnInv, [TimedNext]_timedVars PROVE [Next]_vars
    OBVIOUS
  <2>1. CASE TimerFires
    <3>1. PICK n \in Nodes : Fires(schedule[turn].timer, n)
      BY <2>1, ScheduleType DEF TimerFires
    <3>. QED
      BY <3>1 DEF Fires, Next, Sync
  <2>2. CASE Progress
    BY <2>2 DEF Progress, Next, Sync
  <2>3. CASE SurroundingsChange
    BY <2>3 DEF SurroundingsChange, Next
  <2>4. CASE UNCHANGED timedVars
    BY <2>4 DEF timedVars
  <2>. QED
    BY <2>1, <2>2, <2>3, <2>4 DEF TimedNext
<1>. QED
  BY <1>1, <1>2, TurnInvariant, PTL DEF TimedSpec, Spec

-----------------------------------------------------------------------------
(* Agreement under the intended timing, when calls time out, commits are   *)
(* lost and processes end, as long as all nodes run and the validators     *)
(* stay the same.                                                          *)

\* No candidates and no rewards: a block is its transactions.
Plain == Candidates = {} /\ RewardEnabled = FALSE

\* No peer is forgotten by mistake, no process comes back, and no call slashes.
Benign == Plain /\ FaultKinds \subseteq {"timeout", "loss", "crash"}

\* Every node's validators are the nodes the network started with.
SameValidators == \A n \in Nodes : Active(n) = Nodes

\* s is a part of t, from its start.
Prefix(s, t) == Len(s) <= Len(t) /\ s = SubSeq(t, 1, Len(s))

\* Every node runs, knows all others, and has slashed none.
AllThere ==
  /\ up = Nodes
  /\ known = [n \in Nodes |-> Nodes \ {n}]
  /\ seeds = [n \in Nodes |-> {}]
  /\ \A n \in Nodes : Active(n) = Nodes /\ ledger[n].slashed = {}

\* One thing at a time: a round, its commits, or syncs.
OneAtATime ==
  /\ \A r, q \in rounds : r = q
  /\ rounds # {} => commits = {} /\ \A n \in Nodes : syncing[n] = Nobody
  /\ commits # {} => \A n \in Nodes : syncing[n] = Nobody

\* One node has the longest chain, and all have a part of it.
OneChain ==
  /\ \E n \in Nodes : HeadOf(n) = Longest
  /\ \A n \in Nodes : Prefix(HeadOf(n), Longest)

\* The votes of a round are for its proposer's head.
VotesHold ==
  \A r \in rounds :
    LET p == r.proposal
    IN  /\ p.parent = HeadOf(p.proposer)
        /\ p.proposer \in r.voters
        /\ Nodes \ (r.unavailable \cup r.waiting) \subseteq r.voters
        /\ \A m \in r.voters : HeadOf(m) = p.parent
        /\ \A m \in r.voters \ {p.proposer} : p \in pendingProposals[m]

\* A vote was for a chain that its voter still has.
VotesKept ==
  \A n \in Nodes : \A p \in pendingProposals[n] : Prefix(p.parent, HeadOf(n))

\* A sync is from a node that is ahead.
SyncsUp ==
  \A n \in Nodes : syncing[n] # Nobody => Height(syncing[n]) > Height(n)

\* What a proposal adds.
Added(p) == [txs |-> p.batch \ UNION {p.parent[i].txs : i \in DOMAIN p.parent},
             by |-> Nobody, active |-> Nodes, slashed |-> {}, pending |-> {}]

\* The commits under way are those of the last block, to nodes without it.
CommitsAgree ==
  /\ \A c, e \in commits : c.proposal = e.proposal /\ c.votes = e.votes
  /\ \A c \in commits :
       /\ Longest = Append(c.proposal.parent, Added(c.proposal))
       /\ Prefix(HeadOf(c.to), c.proposal.parent)

\* The commit that brings node n to the longest chain is on its way.
OnItsWay(n) ==
  \E c \in commits : c.to = n /\ c.proposal.parent = HeadOf(n) /\ Accepts(n, c)

\* The nodes that neither have the longest chain nor are about to, and those
\* that are not, too few to form a quorum of their own.
Behind == {n \in Nodes : HeadOf(n) # Longest /\ ~OnItsWay(n)}
MostHaveIt == Cardinality(Behind) < Quorum(Cardinality(Nodes))

\* What is inductive as long as most nodes have the longest chain.
Agr ==
  /\ AllThere /\ OneAtATime /\ OneChain /\ VotesHold /\ VotesKept
  /\ SyncsUp /\ CommitsAgree

-----------------------------------------------------------------------------

\* Facts about chains that are part of others.
LEMMA PrefixItself ==
  ASSUME NEW S, NEW s \in Seq(S)
  PROVE  Prefix(s, s)
BY DEF Prefix

LEMMA PrefixTransitive ==
  ASSUME NEW S, NEW s \in Seq(S), NEW t \in Seq(S), NEW u \in Seq(S),
         Prefix(s, t), Prefix(t, u)
  PROVE  Prefix(s, u)
BY DEF Prefix

LEMMA PrefixAppend ==
  ASSUME NEW S, NEW s \in Seq(S), NEW e \in S
  PROVE  /\ Append(s, e) \in Seq(S)
         /\ Len(Append(s, e)) = Len(s) + 1
         /\ Prefix(s, Append(s, e))
BY DEF Prefix

LEMMA PrefixesEqual ==
  ASSUME NEW S, NEW s \in Seq(S), NEW t \in Seq(S), NEW u \in Seq(S),
         Prefix(s, u), Prefix(t, u)
  PROVE  /\ Len(s) = Len(t) => s = t
         /\ Len(s) <= Len(t) => Prefix(s, t)
<1>1. Len(s) = Len(t) => s = t
  BY DEF Prefix
<1>2. ASSUME Len(s) <= Len(t)
      PROVE  Prefix(s, t)
  BY <1>2 DEF Prefix
<1>. QED
  BY <1>1, <1>2

\* There is a longest chain, and it is what all chains are a part of.
Tallest(n) == \A m \in Nodes : Height(m) <= Height(n)

\* A node whose chain is as long as any has the longest one.
LEMMA LongestIsTallest ==
  ASSUME NEW n \in Nodes
  PROVE  /\ Tallest(n) => \E k \in Nodes : Longest = HeadOf(k) /\ Tallest(k)
         /\ Tallest(n)' => \E k \in Nodes : Longest' = HeadOf(k)' /\ Tallest(k)'
<1>1. Tallest(n) => \E k \in Nodes : Longest = HeadOf(k) /\ Tallest(k)
  BY DEF Longest, Tallest
<1>2. Tallest(n)' => \E k \in Nodes : Longest' = HeadOf(k)' /\ Tallest(k)'
  BY DEF Longest, Tallest
<1>. QED
  BY <1>1, <1>2

\* A block on top of the longest chain makes the longest chain.
LEMMA NewLongest ==
  ASSUME TypeOK', NEW n \in Nodes, \A m \in Nodes : Prefix(HeadOf(m)', HeadOf(n)')
  PROVE  Longest' = HeadOf(n)'
<1>1. \A m \in Nodes : HeadOf(m)' \in Seq(Digest)
  BY DEF TypeOK, LedgerRecord, HeadOf
<1>2. Tallest(n)'
  BY DEF Prefix, Tallest, Height
<1>3. PICK k \in Nodes : Longest' = HeadOf(k)' /\ Tallest(k)'
  BY <1>2, LongestIsTallest
<1>4. Len(HeadOf(k)') = Len(HeadOf(n)')
  <2>1. Len(HeadOf(k)') <= Len(HeadOf(n)') /\ Len(HeadOf(n)') <= Len(HeadOf(k)')
    BY <1>2, <1>3 DEF Tallest, Height
  <2>2. Len(HeadOf(k)') \in Nat /\ Len(HeadOf(n)') \in Nat
    BY <1>1
  <2>. QED
    BY <2>1, <2>2
<1>5. HeadOf(k)' = HeadOf(n)'
  BY <1>1, <1>4, PrefixesEqual, PrefixItself
<1>. QED
  BY <1>3, <1>5

-----------------------------------------------------------------------------
(* What a block adds to a ledger. *)

\* The block of a batch on a ledger, if nothing but its transactions changes.
Block(l, batch) ==
  [txs |-> batch \ Done(l), by |-> Nobody, active |-> l.active, slashed |-> l.slashed,
   pending |-> {}]

\* Without candidates and rewards, a block is its transactions.
LEMMA AppliedBlock ==
  ASSUME Plain, NEW l \in LedgerRecord, NEW batch, NEW proposer,
         NEW k, k = ApplyBlock(l, batch, proposer)
  PROVE  /\ k.active = l.active /\ k.slashed = l.slashed /\ k.missed = l.missed
         /\ k.head = Append(l.head, Block(l, batch))
<1>. DEFINE accepted == batch \ (Done(l) \cup (Candidates \cap Registered(l)))
            arriving == accepted \cap Candidates
            immediate == IF EpochLength = 0 THEN arriving ELSE {}
            queue == l.pending \cup (arriving \ immediate)
            joining == IF EpochLength > 0 /\ (Len(l.head) + 1) % EpochLength = 0
                       THEN queue ELSE {}
            active == l.active \cup immediate \cup joining
            by == IF RewardEnabled /\ proposer \in l.active THEN proposer ELSE Nobody
            missed == [v \in Ids |-> IF v \in joining THEN 0 ELSE l.missed[v]]
            d == [txs |-> accepted, by |-> by, active |-> active,
                  slashed |-> l.slashed \ joining, pending |-> queue \ joining]
<1>1. l.pending = {} /\ arriving = {} /\ accepted = batch \ Done(l)
  BY DEF LedgerRecord, Plain
<1>2. immediate = {} /\ queue = {} /\ joining = {} /\ active = l.active
  BY <1>1
<1>3. by = Nobody
  BY DEF Plain
<1>4. k = [l EXCEPT !.head = Append(@, d), !.active = active, !.slashed = @ \ joining,
                    !.pending = queue \ joining, !.missed = missed]
  BY DEF ApplyBlock, LedgerRecord
<1>5. missed = l.missed
  BY <1>2 DEF LedgerRecord
<1>6. /\ k.head = Append(l.head, d) /\ k.active = active /\ k.slashed = l.slashed
      /\ k.missed = l.missed
  BY <1>2, <1>4, <1>5 DEF LedgerRecord
<1>7. d = Block(l, batch)
  BY <1>1, <1>2, <1>3 DEF Block
<1>. QED
  BY <1>2, <1>6, <1>7

\* A round that slashes nobody adds the block that commits add.
LEMMA RoundBlock ==
  ASSUME Plain, NEW l \in LedgerRecord, NEW batch, NEW unavailable,
         NEW k, k = RunConsensusRound(l, batch, unavailable), k.active = l.active
  PROVE  k.slashed = l.slashed /\ k.head = Append(l.head, Block(l, batch))
<1>. DEFINE present == Approvals(l, unavailable)
            absent == l.active \ present
            missed == [v \in Ids |-> IF v \in present THEN 0
                                     ELSE IF v \in absent THEN l.missed[v] + 1 ELSE l.missed[v]]
            condemned == {v \in absent : missed[v] >= MaxMissedBlocks}
            judged == [l EXCEPT !.missed = missed, !.active = @ \ condemned,
                                !.slashed = @ \cup condemned]
<1>1. l.active \subseteq Ids /\ l.slashed \subseteq Ids /\ l.missed \in [Ids -> Nat]
  BY DEF LedgerRecord
<1>2. missed \in [Ids -> Nat]
  BY <1>1
<1>3. condemned \subseteq l.active
  OBVIOUS
<1>4. /\ judged.head = l.head /\ judged.active = l.active \ condemned
      /\ judged.slashed = l.slashed \cup condemned
  BY DEF LedgerRecord
<1>5. judged \in LedgerRecord
  <2>. HIDE DEF missed, condemned
  <2>. QED
    BY <1>1, <1>2, <1>3 DEF LedgerRecord
<1>6. k = ApplyBlock(judged, batch, ProposerAt(l.active, Len(l.head)))
  BY DEF RunConsensusRound
<1>. HIDE DEF judged, condemned
<1>7. /\ k.active = judged.active /\ k.slashed = judged.slashed
      /\ k.head = Append(judged.head, Block(judged, batch))
  BY <1>5, <1>6, AppliedBlock
<1>8. condemned = {}
  BY <1>3, <1>4, <1>7
<1>9. judged.active = l.active /\ judged.slashed = l.slashed /\ Done(judged) = Done(l)
  BY <1>4, <1>8 DEF Done
<1>. QED
  BY <1>4, <1>7, <1>9 DEF Block

-----------------------------------------------------------------------------
(* Steps. *)

\* A step that changes no ledger.
LEMMA ChainUnchanged ==
  ASSUME ledger' = ledger
  PROVE  /\ Longest' = Longest /\ UNCHANGED Shared!vars
         /\ \A n \in Nodes : HeadOf(n)' = HeadOf(n) /\ Height(n)' = Height(n)
                             /\ Active(n)' = Active(n)
<1>1. Longest' = Longest
  BY DEF Longest, HeadOf, Height
<1>2. [n \in Nodes |-> HeadOf(n)]' = [n \in Nodes |-> HeadOf(n)]
  BY DEF HeadOf
<1>. QED
  BY <1>1, <1>2 DEF Shared!vars, HeadOf, Height, Active

\* What a step that leaves ledgers or rounds alone preserves.
LEMMA AllThereUnchanged ==
  ASSUME AllThere, UNCHANGED <<up, known, seeds, ledger>>
  PROVE  AllThere'
BY DEF AllThere, Active

LEMMA OneChainUnchanged ==
  ASSUME OneChain, ledger' = ledger
  PROVE  OneChain'
<1>. QED
  BY ChainUnchanged DEF OneChain, Prefix

\* A node that has the longest chain, or is about to, stays so when no ledger
\* changes, no commit goes and no vote is forgotten.
LEMMA BehindUnchanged ==
  ASSUME ledger' = ledger, commits \subseteq commits',
         \A m \in Nodes : pendingProposals[m] \subseteq pendingProposals'[m]
  PROVE  Behind' \subseteq Behind
<1>1. \A m \in Nodes : HeadOf(m)' = HeadOf(m) /\ Active(m)' = Active(m)
  BY ChainUnchanged
<1>2. ASSUME NEW m \in Nodes, OnItsWay(m)
      PROVE  OnItsWay(m)'
  <2>1. PICK c \in commits : c.to = m /\ c.proposal.parent = HeadOf(m) /\ Accepts(m, c)
    BY <1>2 DEF OnItsWay
  <2>2. c \in commits' /\ Accepts(m, c)'
    BY <1>1, <2>1 DEF Accepts
  <2>. QED
    BY <1>1, <2>1, <2>2 DEF OnItsWay
<1>. QED
  BY <1>1, <1>2, ChainUnchanged DEF Behind

\* The block timer.
LEMMA TickAgr ==
  ASSUME TypeOK, Agr, Quiet, NEW n \in Nodes, Tick(n)
  PROVE  Agr' /\ UNCHANGED Shared!vars /\ Behind' \subseteq Behind
<1>1. /\ UNCHANGED <<up, ledger, known, seeds, pendingProposals, syncing, commits>>
      /\ rounds' = rounds \/ Propose(n)
  BY DEF Tick, peers
<1>2. rounds = {} /\ commits = {} /\ \A m \in Nodes : syncing[m] = Nobody
  BY DEF Quiet
<1>3. /\ AllThere' /\ OneChain' /\ Behind' \subseteq Behind /\ UNCHANGED Shared!vars
      /\ \A m \in Nodes : HeadOf(m)' = HeadOf(m)
  BY <1>1, <1>2, AllThereUnchanged, OneChainUnchanged, BehindUnchanged, ChainUnchanged DEF Agr
<1>4. /\ OneAtATime'
      /\ VotesHold'
  <2>1. CASE rounds' = rounds
    BY <1>1, <1>2, <2>1 DEF OneAtATime, VotesHold
  <2>2. CASE Propose(n)
    <3>1. PICK batch \in SUBSET (Txs \ Done(ledger[n])) :
            rounds' = rounds \cup
              {[proposal |-> [proposer |-> n, parent |-> HeadOf(n), batch |-> batch, time |-> time],
                waiting |-> (Active(n) \ {n}) \cap known[n], voters |-> {n}, unavailable |-> {}]}
      BY <2>2 DEF Propose
    <3>2. (Active(n) \ {n}) \cap known[n] = Nodes \ {n}
      BY DEF Agr, AllThere
    <3>. DEFINE p == [proposer |-> n, parent |-> HeadOf(n), batch |-> batch, time |-> time]
                r == [proposal |-> p, waiting |-> Nodes \ {n}, voters |-> {n}, unavailable |-> {}]
    <3>3. rounds' = {r}
      BY <1>2, <3>1, <3>2
    <3>4. /\ p.parent = HeadOf(n) /\ p.proposer = n
          /\ r.proposal = p /\ r.waiting = Nodes \ {n} /\ r.voters = {n} /\ r.unavailable = {}
      OBVIOUS
    <3>. HIDE DEF r, p
    <3>5. OneAtATime'
      BY <1>1, <1>2, <3>3 DEF OneAtATime
    <3>6. VotesHold'
      BY <1>3, <3>3, <3>4 DEF VotesHold
    <3>. QED
      BY <3>5, <3>6
  <2>. QED
    BY <1>1, <2>1, <2>2
<1>5. VotesKept' /\ SyncsUp' /\ CommitsAgree'
  BY <1>1, <1>2, <1>3 DEF Agr, VotesKept, SyncsUp, CommitsAgree, Prefix
<1>. QED
  BY <1>3, <1>4, <1>5 DEF Agr

\* An answer or a failure moves a follower out of those that are waited for.
LEMMA Answered ==
  ASSUME NEW n, NEW r \in Round
  PROVE  /\ [[r EXCEPT !.waiting = @ \ {n}] EXCEPT !.voters = @ \cup {n}]
              = [proposal |-> r.proposal, waiting |-> r.waiting \ {n},
                 voters |-> r.voters \cup {n}, unavailable |-> r.unavailable]
         /\ [[r EXCEPT !.waiting = @ \ {n}] EXCEPT !.unavailable = @ \cup {n}]
              = [proposal |-> r.proposal, waiting |-> r.waiting \ {n},
                 voters |-> r.voters, unavailable |-> r.unavailable \cup {n}]
         /\ [r EXCEPT !.waiting = @ \ {n}, !.unavailable = @ \cup {n}]
              = [proposal |-> r.proposal, waiting |-> r.waiting \ {n},
                 voters |-> r.voters, unavailable |-> r.unavailable \cup {n}]
<1>. DEFINE p == r.proposal  w == r.waiting  vs == r.voters  us == r.unavailable
            answered == [r EXCEPT !.waiting = w \ {n}]
<1>1. r = [proposal |-> p, waiting |-> w, voters |-> vs, unavailable |-> us]
  BY DEF Round
<1>. HIDE DEF p, w, vs, us
<1>2. answered = [proposal |-> p, waiting |-> w \ {n}, voters |-> vs, unavailable |-> us]
  BY <1>1
<1>3. [r EXCEPT !.waiting = w \ {n}, !.unavailable = us \cup {n}]
        = [answered EXCEPT !.unavailable = us \cup {n}]
  OBVIOUS
<1>. HIDE DEF answered
<1>4. answered.voters = vs /\ answered.unavailable = us
  BY <1>2
<1>5. [answered EXCEPT !.voters = vs \cup {n}]
        = [proposal |-> p, waiting |-> w \ {n}, voters |-> vs \cup {n}, unavailable |-> us]
  BY <1>2
<1>6. [answered EXCEPT !.unavailable = us \cup {n}]
        = [proposal |-> p, waiting |-> w \ {n}, voters |-> vs, unavailable |-> us \cup {n}]
  BY <1>2
<1>. QED
  BY <1>3, <1>4, <1>5, <1>6 DEF answered, p, w, vs, us

\* Prepare requests.
LEMMA PrepareAgr ==
  ASSUME TypeOK, Agr, NEW r \in rounds, NEW n \in r.waiting,
         HandlePrepare(n, r) \/ PrepareFails(n, r)
  PROVE  Agr' /\ UNCHANGED Shared!vars /\ Behind' \subseteq Behind
<1>. DEFINE p == r.proposal
<1>1. UNCHANGED <<up, ledger, known, seeds, syncing, commits>>
  BY DEF HandlePrepare, PrepareFails, peers
<1>2. /\ rounds = {r} /\ commits = {} /\ (\A m \in Nodes : syncing[m] = Nobody)
      /\ n \in Nodes /\ r \in Round /\ p \in Proposal
  <2>1. rounds = {r} /\ commits = {} /\ (\A m \in Nodes : syncing[m] = Nobody)
    BY DEF Agr, OneAtATime
  <2>2. r \in Round
    BY DEF TypeOK
  <2>. QED
    BY <2>1, <2>2 DEF Round
<1>3. /\ AllThere' /\ OneChain' /\ UNCHANGED Shared!vars
      /\ \A m \in Nodes : HeadOf(m)' = HeadOf(m)
  BY <1>1, <1>2, AllThereUnchanged, OneChainUnchanged, ChainUnchanged DEF Agr
<1>4. PICK s : /\ rounds' = {s} /\ s.proposal = p
               /\ s.voters = r.voters \/ (s.voters = r.voters \cup {n} /\ HeadOf(n) = p.parent
                                          /\ p \in pendingProposals'[n])
               /\ Nodes \ (s.unavailable \cup s.waiting) \subseteq s.voters
               /\ s.voters \subseteq Nodes
  <2>. DEFINE w == r.waiting  vs == r.voters  us == r.unavailable
  <2>1. /\ r = [proposal |-> p, waiting |-> w, voters |-> vs, unavailable |-> us]
        /\ Nodes \ (us \cup w) \subseteq vs /\ vs \subseteq Nodes
    BY <1>2 DEF Round, Agr, VotesHold
  <2>. DEFINE counted == [proposal |-> p, waiting |-> w \ {n}, voters |-> vs \cup {n}, unavailable |-> us]
              refused == [proposal |-> p, waiting |-> w \ {n}, voters |-> vs, unavailable |-> us \cup {n}]
  <2>2. /\ [[r EXCEPT !.waiting = @ \ {n}] EXCEPT !.voters = @ \cup {n}] = counted
        /\ [[r EXCEPT !.waiting = @ \ {n}] EXCEPT !.unavailable = @ \cup {n}] = refused
        /\ [r EXCEPT !.waiting = @ \ {n}, !.unavailable = @ \cup {n}] = refused
    BY <1>2, Answered
  <2>3. /\ refused.proposal = p /\ refused.voters = r.voters
        /\ Nodes \ (refused.unavailable \cup refused.waiting) \subseteq refused.voters
        /\ refused.voters \subseteq Nodes
    BY <1>2, <2>1
  <2>5. CASE HandlePrepare(n, r) /\ Votes(n, p) /\ n \in Active(p.proposer)
    <3>1. rounds' = (rounds \ {r}) \cup {[[r EXCEPT !.waiting = @ \ {n}] EXCEPT !.voters = @ \cup {n}]}
      BY <2>5 DEF HandlePrepare
    <3>2. pendingProposals' = [pendingProposals EXCEPT ![n] = @ \cup {p}]
      BY <2>5 DEF HandlePrepare
    <3>3. DOMAIN pendingProposals = Nodes
      BY DEF TypeOK
    <3>4. p \in pendingProposals'[n]
      BY <1>2, <3>2, <3>3
    <3>5. HeadOf(n) = p.parent
      BY <2>5 DEF Votes
    <3>6. rounds' = {counted}
      BY <1>2, <2>2, <3>1
    <3>7. /\ counted.proposal = p /\ counted.voters = r.voters \cup {n}
          /\ Nodes \ (counted.unavailable \cup counted.waiting) \subseteq counted.voters
          /\ counted.voters \subseteq Nodes
      BY <1>2, <2>1
    <3>. QED
      BY <3>4, <3>5, <3>6, <3>7
  <2>6. CASE HandlePrepare(n, r) /\ ~(Votes(n, p) /\ n \in Active(p.proposer))
    <3>1. rounds' = (rounds \ {r}) \cup {[[r EXCEPT !.waiting = @ \ {n}] EXCEPT !.unavailable = @ \cup {n}]}
      BY <2>6 DEF HandlePrepare
    <3>2. rounds' = {refused}
      BY <1>2, <2>2, <3>1
    <3>. HIDE DEF refused
    <3>. QED
      BY <2>3, <3>2
  <2>7. CASE PrepareFails(n, r)
    <3>1. rounds' = (rounds \ {r}) \cup {[r EXCEPT !.waiting = @ \ {n}, !.unavailable = @ \cup {n}]}
      BY <2>7 DEF PrepareFails
    <3>2. rounds' = {refused}
      BY <1>2, <2>2, <3>1
    <3>. HIDE DEF refused
    <3>. QED
      BY <2>3, <3>2
  <2>. QED
    BY <2>5, <2>6, <2>7
<1>5. \A m \in Nodes : \A q \in pendingProposals'[m] :
        q \in pendingProposals[m] \/ (q.parent = HeadOf(m))
  <2>1. pendingProposals' = pendingProposals
          \/ (Votes(n, p) /\ pendingProposals' = [pendingProposals EXCEPT ![n] = @ \cup {p}])
    BY DEF HandlePrepare, PrepareFails
  <2>2. pendingProposals \in [Nodes -> SUBSET Proposal]
    BY DEF TypeOK
  <2>. QED
    BY <2>1, <2>2 DEF Votes
<1>6. \A m \in Nodes : pendingProposals[m] \subseteq pendingProposals'[m]
  <2>1. pendingProposals' = pendingProposals
          \/ pendingProposals' = [pendingProposals EXCEPT ![n] = @ \cup {p}]
    BY DEF HandlePrepare, PrepareFails
  <2>2. pendingProposals \in [Nodes -> SUBSET Proposal]
    BY DEF TypeOK
  <2>. QED
    BY <2>1, <2>2
<1>7. OneAtATime'
  BY <1>1, <1>2, <1>4 DEF OneAtATime
<1>8. VotesHold'
  <2>1. /\ p.parent = HeadOf(p.proposer) /\ p.proposer \in r.voters
        /\ \A m \in r.voters : HeadOf(m) = p.parent
        /\ \A m \in r.voters \ {p.proposer} : p \in pendingProposals[m]
    BY DEF Agr, VotesHold
  <2>2. p.proposer \in Nodes
    BY <1>2 DEF Proposal
  <2>3. \A m \in s.voters : HeadOf(m) = p.parent
    BY <1>4, <2>1
  <2>4. \A m \in s.voters \ {p.proposer} : p \in pendingProposals'[m]
    BY <1>4, <1>6, <2>1
  <2>. HIDE DEF p
  <2>. QED
    BY <1>3, <1>4, <2>1, <2>2, <2>3, <2>4 DEF VotesHold
<1>9. VotesKept'
  <2>. SUFFICES ASSUME NEW m \in Nodes, NEW q \in pendingProposals'[m]
                PROVE  Prefix(q.parent, HeadOf(m)')
    BY DEF VotesKept, Prefix
  <2>1. CASE q \in pendingProposals[m]
    BY <1>3, <2>1 DEF Agr, VotesKept
  <2>2. CASE q.parent = HeadOf(m)
    BY <1>3, <2>2, HeightType, PrefixItself
  <2>. QED
    BY <1>5, <2>1, <2>2
<1>10. SyncsUp' /\ CommitsAgree'
  BY <1>1, <1>2 DEF SyncsUp, CommitsAgree
<1>11. Behind' \subseteq Behind
  BY <1>1, <1>6, BehindUnchanged
<1>. QED
  BY <1>3, <1>7, <1>8, <1>9, <1>10, <1>11 DEF Agr

\* A prepare request that nobody waits for any more.
LEMMA LatePrepareAgr ==
  ASSUME TypeOK, Agr, NEW request \in late, HandleLatePrepare(request.to, request)
  PROVE  Agr' /\ UNCHANGED Shared!vars /\ Behind' \subseteq Behind
<1>. DEFINE n == request.to
            p == request.proposal
<1>1. /\ UNCHANGED <<up, ledger, known, seeds, syncing, rounds, commits>>
      /\ pendingProposals' = pendingProposals
           \/ (Votes(n, p) /\ pendingProposals' = [pendingProposals EXCEPT ![n] = @ \cup {p}])
  BY DEF HandleLatePrepare, peers
<1>2. pendingProposals \in [Nodes -> SUBSET Proposal] /\ n \in Nodes
  BY DEF TypeOK, Message
<1>3. AllThere' /\ OneChain' /\ UNCHANGED Shared!vars /\ Longest' = Longest
  BY <1>1, AllThereUnchanged, OneChainUnchanged, ChainUnchanged DEF Agr
<1>4. \A m \in Nodes : HeadOf(m)' = HeadOf(m) /\ Active(m)' = Active(m) /\ Height(m)' = Height(m)
  BY <1>1, ChainUnchanged
<1>5. \A m \in Nodes : pendingProposals[m] \subseteq pendingProposals'[m]
  BY <1>1, <1>2
<1>6. \A m \in Nodes : \A q \in pendingProposals'[m] :
        q \in pendingProposals[m] \/ q.parent = HeadOf(m)
  BY <1>1, <1>2 DEF Votes
<1>7. OneAtATime' /\ CommitsAgree' /\ SyncsUp'
  <2>1. \A c \in commits : c.to \in Nodes
    BY DEF TypeOK, Message
  <2>2. \A m \in Nodes : syncing[m] # Nobody => syncing[m] \in Nodes
    BY DEF TypeOK
  <2>. QED
    BY <1>1, <1>3, <1>4, <2>1, <2>2 DEF Agr, OneAtATime, CommitsAgree, SyncsUp, Prefix
<1>8. VotesHold'
  <2>1. \A r \in rounds : r.proposal.proposer \in Nodes /\ r.voters \subseteq Nodes
    BY DEF TypeOK, Round, Proposal
  <2>2. \A r \in rounds : \A m \in r.voters : HeadOf(m)' = HeadOf(m)
                     /\ pendingProposals[m] \subseteq pendingProposals'[m]
    BY <1>4, <1>5, <2>1
  <2>. QED
    BY <1>1, <1>4, <2>1, <2>2 DEF Agr, VotesHold
<1>9. VotesKept'
  <2>. SUFFICES ASSUME NEW m \in Nodes, NEW q \in pendingProposals'[m]
                PROVE  Prefix(q.parent, HeadOf(m)')
    BY DEF VotesKept, Prefix
  <2>1. CASE q \in pendingProposals[m]
    BY <1>4, <2>1 DEF Agr, VotesKept
  <2>2. CASE q.parent = HeadOf(m)
    BY <1>4, <2>2, HeightType, PrefixItself
  <2>. QED
    BY <1>6, <2>1, <2>2
<1>10. Behind' \subseteq Behind
  BY <1>1, <1>5, BehindUnchanged
<1>. QED
  BY <1>3, <1>7, <1>8, <1>9, <1>10 DEF Agr

\* A step that changes the ledger of one node.
LEMMA OneHeadChanges ==
  ASSUME TypeOK, NEW n \in Nodes, NEW l, Save(n, l)
  PROVE  /\ HeadOf(n)' = l.head /\ Active(n)' = l.active /\ ledger'[n] = l
         /\ \A m \in Nodes \ {n} : HeadOf(m)' = HeadOf(m) /\ Active(m)' = Active(m)
                                  /\ ledger'[m] = ledger[m]
         /\ [m \in Nodes |-> HeadOf(m)]' = [[m \in Nodes |-> HeadOf(m)] EXCEPT ![n] = l.head]
<1>1. ledger' = [ledger EXCEPT ![n] = l] /\ DOMAIN ledger = Nodes
  BY DEF Save, TypeOK
<1>2. ledger'[n] = l /\ \A m \in Nodes \ {n} : ledger'[m] = ledger[m]
  BY <1>1
<1>. QED
  BY <1>2 DEF HeadOf, Active

\* A vote stays for a chain that its voter has if chains only get longer.
LEMMA VotesKeptLonger ==
  ASSUME TypeOK, TypeOK', VotesKept,
         \A m \in Nodes : pendingProposals'[m] \subseteq pendingProposals[m],
         \A m \in Nodes : Prefix(HeadOf(m), HeadOf(m)')
  PROVE  VotesKept'
<1>. SUFFICES ASSUME NEW m \in Nodes, NEW p \in pendingProposals'[m]
              PROVE  Prefix(p.parent, HeadOf(m)')
  BY DEF VotesKept, Prefix
<1>1. p \in pendingProposals[m] /\ Prefix(p.parent, HeadOf(m))
  BY DEF VotesKept
<1>2. p.parent \in Seq(Digest)
  BY <1>1 DEF TypeOK, Proposal
<1>3. HeadOf(m) \in Seq(Digest) /\ HeadOf(m)' \in Seq(Digest)
  BY DEF TypeOK, LedgerRecord, HeadOf
<1>. QED
  BY <1>1, <1>2, <1>3, PrefixTransitive

\* The end of a round.
LEMMA EndRoundAgr ==
  ASSUME TypeOK, TypeOK', Agr, Plain, MostHaveIt, SameValidators', NEW r \in rounds, EndRound(r)
  PROVE  /\ Agr' /\ [Shared!Next]_(Shared!vars)
         /\ \/ Behind' \subseteq Behind
            \/ /\ r.proposal.parent = Longest
               /\ Cardinality(r.voters) >= Quorum(Cardinality(Nodes))
               /\ r.voters \subseteq Nodes /\ Nodes \ r.unavailable \subseteq r.voters
               /\ Behind' \cap r.voters = {}
<1>. DEFINE p == r.proposal
            n == p.proposer
            asked == (r.voters \cup r.unavailable) \ {n}
            l == RunConsensusRound(ledger[n], p.batch, r.unavailable)
            sent == {[to |-> q, proposal |-> p, votes |-> r.voters] : q \in asked}
<1>1. /\ UNCHANGED <<up, known, seeds, pendingProposals, syncing>>
      /\ r.waiting = {} /\ rounds' = {}
      /\ commits = {} /\ \A m \in Nodes : syncing[m] = Nobody
  BY DEF EndRound, peers, Agr, OneAtATime
<1>2. /\ n \in Nodes /\ p \in Proposal /\ r.voters \subseteq Nodes /\ asked \subseteq Nodes
      /\ p.parent \in Seq(Digest) /\ p.batch \subseteq Txs
  BY DEF TypeOK, Round, Proposal
<1>3. /\ p.parent = HeadOf(n) /\ n \in r.voters
      /\ Nodes \ r.unavailable \subseteq r.voters
      /\ \A m \in r.voters : HeadOf(m) = p.parent
      /\ \A m \in r.voters \ {n} : p \in pendingProposals[m]
  BY <1>1 DEF Agr, VotesHold
<1>4. CASE UNCHANGED <<ledger, disk, commits>>
  <2>1. /\ AllThere' /\ OneChain' /\ Behind' \subseteq Behind /\ UNCHANGED Shared!vars
        /\ \A m \in Nodes : HeadOf(m)' = HeadOf(m)
    BY <1>1, <1>4, AllThereUnchanged, OneChainUnchanged, BehindUnchanged, ChainUnchanged DEF Agr
  <2>2. OneAtATime' /\ VotesHold' /\ SyncsUp' /\ CommitsAgree'
    BY <1>1, <1>4 DEF OneAtATime, VotesHold, SyncsUp, CommitsAgree
  <2>3. VotesKept'
    BY <1>1, <2>1 DEF Agr, VotesKept, Prefix
  <2>. QED
    BY <2>1, <2>2, <2>3 DEF Agr
<1>5. CASE Committed(ledger[n], r.unavailable) /\ Save(n, l) /\ commits' = sent
  <2>1. /\ IsFiniteSet(r.voters) /\ Cardinality(r.voters) >= Quorum(Cardinality(Nodes))
        /\ Cardinality(Nodes) \in Nat
    <3>1. IsFiniteSet(Nodes)
      <4>1. IsFiniteSet(Ids) /\ Nodes \subseteq Ids
        BY ConsensusAssumption DEF Ids
      <4>. QED
        BY <4>1, FS_Subset
    <3>2. Cardinality(Nodes \ r.unavailable) >= Quorum(Cardinality(Nodes))
      BY <1>2, <1>5 DEF Committed, Approvals, Agr, AllThere, Active
    <3>3. IsFiniteSet(r.voters) /\ Cardinality(Nodes \ r.unavailable) <= Cardinality(r.voters)
      BY <1>2, <1>3, <3>1, FS_Subset
    <3>4. IsFiniteSet(Nodes \ r.unavailable)
      BY <3>1, FS_Subset
    <3>5. /\ Cardinality(Nodes) \in Nat /\ Cardinality(r.voters) \in Nat
          /\ Cardinality(Nodes \ r.unavailable) \in Nat
      BY <3>1, <3>3, <3>4, FS_CardinalityType
    <3>. QED
      BY <3>2, <3>3, <3>5 DEF Quorum
  <2>2. p.parent = Longest
    <3>1. ASSUME p.parent # Longest
          PROVE  FALSE
      <4>1. r.voters \subseteq Behind
        BY <1>1, <1>2, <1>3, <3>1 DEF Behind, OnItsWay
      <4>2. IsFiniteSet(Ids) /\ Nodes \subseteq Ids /\ Behind \subseteq Nodes
        BY ConsensusAssumption DEF Ids, Behind
      <4>3. IsFiniteSet(Behind)
        <5>1. Behind \subseteq Ids
          BY <4>2
        <5>. QED
          BY <4>2, <5>1, FS_Subset
      <4>4. Cardinality(r.voters) <= Cardinality(Behind)
        BY <4>1, <4>3, FS_Subset
      <4>5. Cardinality(r.voters) \in Nat /\ Cardinality(Behind) \in Nat
        BY <2>1, <4>3, FS_CardinalityType
      <4>. QED
        BY <2>1, <4>4, <4>5 DEF MostHaveIt, Quorum
    <3>. QED
      BY <3>1
  <2>. DEFINE X == Append(p.parent, Added(p))
  <2>3. l.head = X /\ l.active = Nodes /\ l.slashed = {}
    <3>1. /\ ledger[n] \in LedgerRecord /\ ledger[n].active = Nodes /\ ledger[n].slashed = {}
          /\ ledger[n].head = p.parent
      BY <1>2, <1>3 DEF TypeOK, Agr, AllThere, Active, HeadOf
    <3>2. l.active = Nodes
      <4>. HIDE DEF l, sent, X
      <4>1. Active(n)' = l.active
        BY ZenonT(40), <1>2, <1>5, OneHeadChanges
      <4>. QED
        BY <1>2, <4>1 DEF SameValidators
    <3>3. l.slashed = ledger[n].slashed /\ l.head = Append(ledger[n].head, Block(ledger[n], p.batch))
      <4>. HIDE DEF l
      <4>1. l.active = ledger[n].active
        BY <3>1, <3>2
      <4>. QED
        BY SMTT(40), <3>1, <4>1, RoundBlock DEF l
    <3>4. Block(ledger[n], p.batch) = Added(p)
      BY <3>1 DEF Block, Added, Done
    <3>. QED
      BY <3>1, <3>2, <3>3, <3>4
  <2>. HIDE DEF l
  <2>4. /\ HeadOf(n)' = X
        /\ \A m \in Nodes \ {n} : HeadOf(m)' = HeadOf(m)
        /\ [m \in Nodes |-> HeadOf(m)]' = [[m \in Nodes |-> HeadOf(m)] EXCEPT ![n] = X]
        /\ \A m \in Nodes : ledger'[m].slashed = {}
    <3>1. /\ HeadOf(n)' = l.head /\ ledger'[n] = l
          /\ \A m \in Nodes \ {n} : HeadOf(m)' = HeadOf(m) /\ ledger'[m] = ledger[m]
          /\ [m \in Nodes |-> HeadOf(m)]' = [[m \in Nodes |-> HeadOf(m)] EXCEPT ![n] = l.head]
      BY <1>2, <1>5, OneHeadChanges
    <3>2. \A m \in Nodes : ledger[m].slashed = {}
      BY DEF Agr, AllThere
    <3>3. \A m \in Nodes : ledger'[m].slashed = {}
      BY <2>3, <3>1, <3>2
    <3>. HIDE DEF n
    <3>. QED
      BY <2>3, <3>1, <3>3
  <2>5. X \in Seq(Digest) /\ Len(X) = Len(p.parent) + 1 /\ Prefix(p.parent, X) /\ X # p.parent
    <3>1. Added(p) \in Digest
      BY <1>2 DEF Added, Digest, Ids
    <3>. HIDE DEF p
    <3>2. /\ X \in Seq(Digest) /\ Len(X) = Len(p.parent) + 1 /\ Prefix(p.parent, X)
      BY <1>2, <3>1, PrefixAppend
    <3>3. Len(p.parent) \in Nat
      BY <1>2
    <3>. QED
      BY <3>2, <3>3
  <2>6. \A m \in Nodes : HeadOf(m) \in Seq(Digest) /\ Prefix(HeadOf(m), p.parent)
    BY <2>2, HeightType DEF Agr, OneChain
  <2>. HIDE DEF X
  <2>7. \A m \in Nodes : Prefix(HeadOf(m)', X) /\ Prefix(HeadOf(m), HeadOf(m)')
    <3>1. \A m \in Nodes : Prefix(HeadOf(m), X) /\ Prefix(HeadOf(m), HeadOf(m))
      <4>. HIDE DEF p
      <4>. QED
        BY <1>2, <2>5, <2>6, PrefixTransitive, PrefixItself
    <3>2. Prefix(X, X)
      BY <2>5, PrefixItself
    <3>. QED
      BY <2>4, <3>1, <3>2
  <2>8. Longest' = X
    BY <1>2, <2>4, <2>7, NewLongest
  <2>9. OneChain'
    BY <1>2, <2>4, <2>7, <2>8 DEF OneChain, Prefix
  <2>10. AllThere'
    BY <1>1, <2>4 DEF AllThere, Agr, SameValidators
  <2>11. OneAtATime' /\ VotesHold' /\ SyncsUp'
    BY <1>1 DEF OneAtATime, VotesHold, SyncsUp
  <2>12. VotesKept'
    BY <1>1, <2>7, VotesKeptLonger DEF Agr
  <2>13. CommitsAgree'
    <3>1. \A c \in commits' : c.proposal = p /\ c.votes = r.voters /\ c.to \in asked
      BY <1>5
    <3>2. \A m \in asked : HeadOf(m)' = HeadOf(m)
      BY <1>2, <2>4
    <3>. HIDE DEF p, asked, sent
    <3>3. \A m \in asked : Prefix(HeadOf(m)', p.parent)
      BY <1>2, <2>6, <3>2
    <3>. QED
      BY <2>8, <3>1, <3>3 DEF CommitsAgree, X, Prefix
  <2>14. Behind' \cap r.voters = {}
    <3>. SUFFICES ASSUME NEW m \in r.voters, m # n
                  PROVE  OnItsWay(m)'
      BY <1>2, <2>4, <2>8 DEF Behind
    <3>. DEFINE c == [to |-> m, proposal |-> p, votes |-> r.voters]
    <3>1. c \in commits'
      BY <1>5
    <3>2. c.to = m /\ c.proposal = p /\ c.votes = r.voters
      OBVIOUS
    <3>. HIDE DEF c, sent
    <3>3. m \in Nodes /\ HeadOf(m)' = p.parent /\ Active(m)' = Nodes /\ p \in pendingProposals'[m]
      BY <1>1, <1>2, <1>3, <2>4, <2>10 DEF AllThere
    <3>4. r.voters \cap Nodes = r.voters
      BY <1>2
    <3>5. Accepts(m, c)'
      BY <2>1, <3>2, <3>3, <3>4 DEF Accepts
    <3>. QED
      BY <3>1, <3>2, <3>3, <3>5 DEF OnItsWay
  <2>15. Shared!Extend(n)
    <3>1. [m \in Nodes |-> HeadOf(m)][n] = Longest
      BY <1>2, <1>3, <2>2
    <3>2. Shared!IsPrefix(Longest, X)
      BY <2>2, <2>5 DEF Prefix, Shared!IsPrefix
    <3>. HIDE DEF p
    <3>. QED
      BY <2>2, <2>4, <2>5, <2>8, <3>1, <3>2 DEF Shared!Extend
  <2>16. Shared!Next
    BY <1>2, <2>15 DEF Shared!Next
  <2>. QED
    BY <1>2, <1>3, <2>1, <2>2, <2>9, <2>10, <2>11, <2>12, <2>13, <2>14, <2>16 DEF Agr
<1>. QED
  BY <1>1, <1>4, <1>5 DEF EndRound

\* A commit reaches a follower.
LEMMA CommitAgr ==
  ASSUME TypeOK, TypeOK', Agr, Plain, NEW c \in commits, HandleCommit(c.to, c)
  PROVE  /\ Agr' /\ [Shared!Next]_(Shared!vars)
         /\ Behind' \subseteq Behind
<1>. DEFINE n == c.to
            p == c.proposal
            l == ApplyBlock(ledger[n], p.batch, p.proposer)
<1>1. /\ UNCHANGED <<up, known, seeds, syncing, rounds>>
      /\ rounds = {} /\ (\A m \in Nodes : syncing[m] = Nobody) /\ commits' = commits \ {c}
  BY DEF HandleCommit, peers, Agr, OneAtATime
<1>2. /\ n \in Nodes /\ p \in Proposal /\ p.parent \in Seq(Digest) /\ p.batch \subseteq Txs
      /\ c.votes \subseteq Nodes
  BY DEF TypeOK, Message, Proposal
<1>3. /\ Longest = Append(p.parent, Added(p)) /\ Prefix(HeadOf(n), p.parent)
      /\ \A e \in commits : e.proposal = p /\ e.votes = c.votes /\ Prefix(HeadOf(e.to), p.parent)
  BY DEF Agr, CommitsAgree
<1>4. ASSUME NEW e \in commits, e.to = n
      PROVE  e = c
  <2>1. /\ e = [to |-> e.to, proposal |-> e.proposal, votes |-> e.votes]
        /\ c = [to |-> c.to, proposal |-> c.proposal, votes |-> c.votes]
    BY DEF TypeOK, Message
  <2>. QED
    BY <1>3, <1>4, <2>1
<1>5. \A m \in Nodes : HeadOf(m) \in Seq(Digest)
  BY HeightType
<1>7. OneAtATime' /\ VotesHold' /\ SyncsUp'
  BY <1>1 DEF Agr, OneAtATime, VotesHold, SyncsUp
<1>8. CASE ~Accepts(n, c)
  <2>1. UNCHANGED <<ledger, disk, pendingProposals>>
    BY <1>8 DEF HandleCommit
  <2>2. /\ AllThere' /\ OneChain' /\ UNCHANGED Shared!vars /\ Longest' = Longest
        /\ \A m \in Nodes : HeadOf(m)' = HeadOf(m) /\ Active(m)' = Active(m)
    BY <1>1, <2>1, AllThereUnchanged, OneChainUnchanged, ChainUnchanged DEF Agr
  <2>3. VotesKept'
    BY <2>1, <2>2 DEF Agr, VotesKept, Prefix
  <2>4. CommitsAgree'
    <3>1. \A e \in commits : e.to \in Nodes
      BY DEF TypeOK, Message
    <3>. QED
      BY <1>1, <2>2, <3>1 DEF Agr, CommitsAgree, Prefix
  <2>5. Behind' \subseteq Behind
    <3>1. ASSUME NEW m \in Nodes, OnItsWay(m)
          PROVE  OnItsWay(m)'
      <4>1. PICK e \in commits : e.to = m /\ e.proposal.parent = HeadOf(m) /\ Accepts(m, e)
        BY <3>1 DEF OnItsWay
      <4>2. e # c
        BY <1>8, <4>1
      <4>3. e \in commits' /\ Accepts(m, e)' /\ HeadOf(m)' = HeadOf(m)
        BY <1>1, <2>1, <2>2, <4>1, <4>2 DEF Accepts
      <4>. QED
        BY <4>1, <4>3 DEF OnItsWay
    <3>. QED
      BY <2>2, <3>1 DEF Behind
  <2>. QED
    BY <1>7, <1>8, <2>2, <2>3, <2>4, <2>5 DEF Agr
<1>9. CASE Accepts(n, c)
  <2>1. /\ Save(n, l) /\ p \in pendingProposals[n]
        /\ pendingProposals' = [pendingProposals EXCEPT ![n] = @ \ {p}]
    BY <1>9 DEF HandleCommit, Accepts
  <2>2. HeadOf(n) = p.parent
    <3>1. Prefix(p.parent, HeadOf(n))
      BY <1>2, <2>1 DEF Agr, VotesKept
    <3>2. Len(HeadOf(n)) = Len(p.parent)
      BY <1>2, <1>3, <1>5, <3>1 DEF Prefix
    <3>3. Prefix(p.parent, p.parent)
      BY <1>2, PrefixItself
    <3>. HIDE DEF n, p
    <3>. QED
      BY <1>2, <1>3, <1>5, <3>2, <3>3, PrefixesEqual
  <2>3. l.head = Longest /\ l.active = Nodes /\ l.slashed = {}
    <3>1. /\ ledger[n] \in LedgerRecord /\ ledger[n].active = Nodes /\ ledger[n].slashed = {}
          /\ ledger[n].head = p.parent
      BY <1>2, <2>2 DEF TypeOK, Agr, AllThere, Active, HeadOf
    <3>2. /\ l.active = ledger[n].active /\ l.slashed = ledger[n].slashed
          /\ l.head = Append(ledger[n].head, Block(ledger[n], p.batch))
      BY SMTT(40), <3>1, AppliedBlock
    <3>3. Block(ledger[n], p.batch) = Added(p)
      BY <3>1 DEF Block, Added, Done
    <3>. HIDE DEF l, p
    <3>. QED
      BY <1>3, <3>1, <3>2, <3>3
  <2>. HIDE DEF l
  <2>4. /\ HeadOf(n)' = Longest /\ Active(n)' = Nodes /\ ledger'[n].slashed = {}
        /\ \A m \in Nodes \ {n} : HeadOf(m)' = HeadOf(m) /\ Active(m)' = Active(m)
                                 /\ ledger'[m] = ledger[m]
        /\ [m \in Nodes |-> HeadOf(m)]' = [[m \in Nodes |-> HeadOf(m)] EXCEPT ![n] = Longest]
    <3>. HIDE DEF n
    <3>. QED
      BY <1>2, <2>1, <2>3, OneHeadChanges
  <2>5. Longest \in Seq(Digest) /\ Len(Longest) = Len(p.parent) + 1 /\ Prefix(p.parent, Longest)
    <3>1. Added(p) \in Digest
      BY <1>2 DEF Added, Digest, Ids
    <3>. HIDE DEF p
    <3>. QED
      BY <1>2, <1>3, <3>1, PrefixAppend
  <2>6. \A m \in Nodes : Prefix(HeadOf(m), Longest) /\ Prefix(HeadOf(m), HeadOf(m))
    BY <1>5, PrefixItself DEF Agr, OneChain
  <2>7. \A m \in Nodes : Prefix(HeadOf(m)', Longest) /\ Prefix(HeadOf(m), HeadOf(m)')
    <3>1. Prefix(Longest, Longest)
      BY <2>5, PrefixItself
    <3>. HIDE DEF n
    <3>. QED
      BY <2>4, <2>6, <3>1
  <2>8. Longest' = Longest
    <3>1. \A m \in Nodes : Prefix(HeadOf(m)', HeadOf(n)')
      BY <2>4, <2>7
    <3>. HIDE DEF n
    <3>. QED
      BY <1>2, <2>4, <3>1, NewLongest
  <2>9. OneChain'
    BY <1>2, <2>4, <2>7, <2>8 DEF OneChain, Prefix
  <2>10. AllThere'
    <3>. HIDE DEF n
    <3>. QED
      BY <1>1, <2>4 DEF AllThere, Agr
  <2>11. VotesKept'
    <3>1. \A m \in Nodes : pendingProposals'[m] \subseteq pendingProposals[m]
      BY <2>1 DEF TypeOK
    <3>. QED
      BY <2>7, <3>1, VotesKeptLonger DEF Agr
  <2>12. CommitsAgree'
    <3>1. \A e \in commits' : e \in commits /\ e.to # n /\ e.to \in Nodes
      BY <1>1, <1>4 DEF TypeOK, Message
    <3>2. \A e \in commits' : HeadOf(e.to)' = HeadOf(e.to)
      BY <2>4, <3>1
    <3>. QED
      BY <2>8, <3>1, <3>2 DEF Agr, CommitsAgree, Prefix
  <2>13. Behind' \subseteq Behind
    <3>1. ASSUME NEW m \in Nodes, m # n, OnItsWay(m)
          PROVE  OnItsWay(m)'
      <4>1. PICK e \in commits : e.to = m /\ e.proposal.parent = HeadOf(m) /\ Accepts(m, e)
        BY <3>1 DEF OnItsWay
      <4>2. e \in commits' /\ HeadOf(m)' = HeadOf(m) /\ Active(m)' = Active(m)
        BY <1>1, <2>4, <3>1, <4>1
      <4>3. pendingProposals'[m] = pendingProposals[m]
        BY <2>1, <3>1 DEF TypeOK
      <4>. QED
        BY <4>1, <4>2, <4>3 DEF OnItsWay, Accepts
    <3>2. ASSUME NEW m \in Nodes, HeadOf(m) = Longest \/ OnItsWay(m)
          PROVE  HeadOf(m)' = Longest' \/ OnItsWay(m)'
      <4>1. CASE m = n
        BY <2>4, <2>8, <4>1
      <4>2. CASE m # n
        BY <2>4, <2>8, <3>1, <3>2, <4>2
      <4>. QED
        BY <4>1, <4>2
    <3>. QED
      BY <3>2 DEF Behind
  <2>14. Shared!CatchUp(n)
    <3>. DEFINE k == Len(Longest)
                copy == [m \in Nodes |-> HeadOf(m)]
    <3>1. copy[n] = p.parent
      BY <1>2, <2>2
    <3>2. k \in Len(p.parent) + 1 .. Len(Longest) /\ SubSeq(Longest, 1, k) = Longest
      <4>1. Len(p.parent) \in Nat
        BY <1>2
      <4>. HIDE DEF p
      <4>. QED
        BY <2>5, <4>1
    <3>3. copy' = [copy EXCEPT ![n] = Longest]
      BY <2>4
    <3>. HIDE DEF copy, k
    <3>4. k \in Len(copy[n]) + 1 .. Len(Longest) /\ copy' = [copy EXCEPT ![n] = SubSeq(Longest, 1, k)]
      BY <3>1, <3>2, <3>3
    <3>. QED
      BY <2>8, <3>4 DEF Shared!CatchUp, copy
  <2>15. Shared!Next
    BY <1>2, <2>14 DEF Shared!Next
  <2>. QED
    BY <1>7, <2>4, <2>9, <2>10, <2>11, <2>12, <2>13, <2>15 DEF Agr
<1>. QED
  BY <1>8, <1>9

\* The sync timer: the heads of all other nodes are in.
LEMMA SyncHeadsAgr ==
  ASSUME TypeOK, Agr, Benign, Quiet, NEW n \in Nodes, NEW failed \in SUBSET Nodes,
         SyncHeads(n, failed)
  PROVE  Agr' /\ UNCHANGED Shared!vars /\ Behind' \subseteq Behind
<1>. DEFINE asked == known[n] \cup seeds[n]
            highest == {p \in asked \ failed : \A q \in asked \ failed : Height(q) <= Height(p)}
            ahead == {p \in highest : Height(p) > Height(n)}
<1>1. /\ UNCHANGED <<up, ledger, pendingProposals, rounds, commits>>
      /\ known' = [known EXCEPT ![n] = @ \ failed] /\ seeds' = [seeds EXCEPT ![n] = @ \ failed]
      /\ syncing' = syncing \/ \E p \in ahead : syncing' = [syncing EXCEPT ![n] = p]
      /\ failed \subseteq asked
      /\ failed \cap up = {} \/ Fault("prune")
  BY DEF SyncHeads, network
<1>2. rounds = {} /\ commits = {} /\ \A m \in Nodes : syncing[m] = Nobody
  BY DEF Quiet
<1>3. /\ up = Nodes /\ known = [m \in Nodes |-> Nodes \ {m}] /\ seeds = [m \in Nodes |-> {}]
  BY DEF Agr, AllThere
<1>4. failed = {}
  BY <1>1, <1>3 DEF Fault, Benign
<1>5. known' = known /\ seeds' = seeds
  BY ZenonT(40), <1>1, <1>3, <1>4
<1>6. /\ AllThere' /\ OneChain' /\ Behind' \subseteq Behind /\ UNCHANGED Shared!vars
      /\ \A m \in Nodes : HeadOf(m)' = HeadOf(m) /\ Height(m)' = Height(m)
  <2>1. AllThere'
    BY <1>1, <1>5, AllThereUnchanged DEF Agr
  <2>2. OneChain'
    BY <1>1, OneChainUnchanged DEF Agr
  <2>3. Behind' \subseteq Behind
    BY <1>1, BehindUnchanged
  <2>4. /\ UNCHANGED Shared!vars
        /\ \A m \in Nodes : HeadOf(m)' = HeadOf(m) /\ Height(m)' = Height(m)
    BY <1>1, ChainUnchanged
  <2>. QED
    BY <2>1, <2>2, <2>3, <2>4
<1>7. OneAtATime' /\ VotesHold' /\ CommitsAgree'
  BY <1>1, <1>2 DEF OneAtATime, VotesHold, CommitsAgree
<1>8. VotesKept'
  BY <1>1, <1>6 DEF Agr, VotesKept, Prefix
<1>9. SyncsUp'
  <2>1. CASE syncing' = syncing
    BY <1>2, <2>1 DEF SyncsUp
  <2>2. ASSUME NEW p \in ahead, syncing' = [syncing EXCEPT ![n] = p]
        PROVE  SyncsUp'
    <3>1. p \in Nodes /\ Height(p) > Height(n)
      BY <1>3
    <3>2. syncing'[n] = p /\ \A m \in Nodes \ {n} : syncing'[m] = Nobody
      BY <1>2, <2>2 DEF TypeOK
    <3>. QED
      BY <1>6, <3>1, <3>2 DEF SyncsUp
  <2>. QED
    BY <1>1, <2>1, <2>2
<1>. QED
  BY <1>6, <1>7, <1>8, <1>9 DEF Agr

\* A snapshot arrives.
LEMMA SyncImportAgr ==
  ASSUME TypeOK, TypeOK', Agr, NEW n \in Nodes, SyncImport(n)
  PROVE  Agr' /\ [Shared!Next]_(Shared!vars) /\ Behind' \subseteq Behind
<1>. DEFINE p == syncing[n]
            l == Imported(n)
<1>1. /\ UNCHANGED <<up, known, seeds, pendingProposals, rounds, commits>>
      /\ Save(n, l) /\ p \in up /\ syncing' = [syncing EXCEPT ![n] = Nobody]
  BY DEF SyncImport, peers, network
<1>2. p \in Nodes /\ p # Nobody /\ Nobody \notin Nodes
  BY <1>1, ConsensusAssumption DEF TypeOK, Nobody
<1>3. rounds = {} /\ commits = {} /\ Height(p) > Height(n)
  BY <1>2 DEF Agr, OneAtATime, SyncsUp
<1>4. \A m \in Nodes : HeadOf(m) \in Seq(Digest) /\ Prefix(HeadOf(m), Longest)
  BY HeightType DEF Agr, OneChain
<1>5. Longest \in Seq(Digest)
  BY <1>4 DEF Agr, OneChain
<1>6. l.head = HeadOf(p) /\ l.active = Nodes /\ l.slashed = {}
  BY <1>2 DEF Imported, TypeOK, LedgerRecord, HeadOf, Agr, AllThere, Active
<1>. HIDE DEF l, p
<1>7. /\ HeadOf(n)' = HeadOf(p) /\ Active(n)' = Nodes /\ ledger'[n].slashed = {}
      /\ \A m \in Nodes \ {n} : HeadOf(m)' = HeadOf(m) /\ Active(m)' = Active(m)
                               /\ ledger'[m] = ledger[m]
      /\ [m \in Nodes |-> HeadOf(m)]' = [[m \in Nodes |-> HeadOf(m)] EXCEPT ![n] = HeadOf(p)]
  BY <1>1, <1>6, OneHeadChanges
<1>8. Prefix(HeadOf(n), HeadOf(p)) /\ \A m \in Nodes : Prefix(HeadOf(m), HeadOf(m))
  <2>1. Len(HeadOf(n)) <= Len(HeadOf(p))
    BY <1>2, <1>3, <1>4 DEF Height
  <2>. QED
    BY <1>2, <1>4, <1>5, <2>1, PrefixesEqual, PrefixItself
<1>9. \A m \in Nodes : Prefix(HeadOf(m)', Longest) /\ Prefix(HeadOf(m), HeadOf(m)')
  BY <1>2, <1>4, <1>7, <1>8
<1>10. PICK top \in Nodes : HeadOf(top) = Longest /\ top # n
  <2>1. PICK top \in Nodes : HeadOf(top) = Longest
    BY DEF Agr, OneChain
  <2>2. Height(p) <= Height(top) /\ Height(top) \in Nat /\ Height(n) \in Nat /\ Height(p) \in Nat
    BY <1>2, <1>4, <2>1 DEF Prefix, Height
  <2>3. top # n
    BY <1>3, <2>2
  <2>. QED
    BY <2>1, <2>3
<1>11. Longest' = Longest
  <2>1. HeadOf(top)' = Longest
    BY <1>7, <1>10
  <2>2. \A m \in Nodes : Prefix(HeadOf(m)', HeadOf(top)')
    BY <1>9, <2>1
  <2>. QED
    BY <2>1, <2>2, NewLongest
<1>12. OneChain'
  BY <1>7, <1>9, <1>10, <1>11 DEF OneChain, Prefix
<1>13. AllThere'
  BY <1>1, <1>7 DEF AllThere, Agr
<1>14. OneAtATime' /\ VotesHold' /\ CommitsAgree'
  BY <1>1, <1>3 DEF OneAtATime, VotesHold, CommitsAgree
<1>15. VotesKept'
  BY <1>1, <1>9, VotesKeptLonger DEF Agr
<1>16. SyncsUp'
  <2>. SUFFICES ASSUME NEW m \in Nodes, syncing'[m] # Nobody
                PROVE  (Height(syncing[m]) > Height(m))'
    BY DEF SyncsUp
  <2>1. m # n /\ syncing'[m] = syncing[m]
    BY <1>1 DEF TypeOK
  <2>. DEFINE q == syncing[m]
  <2>2. q \in Nodes /\ Height(q) > Height(m)
    BY <2>1 DEF Agr, SyncsUp, TypeOK
  <2>3. Len(HeadOf(q)) <= Len(HeadOf(q)') /\ HeadOf(m)' = HeadOf(m)
    BY <1>7, <1>9, <2>1, <2>2 DEF Prefix
  <2>4. Len(HeadOf(q)) \in Nat /\ Len(HeadOf(m)) \in Nat /\ Len(HeadOf(q)') \in Nat
    <3>1. HeadOf(q)' \in Seq(Digest)
      BY <2>2 DEF TypeOK, LedgerRecord, HeadOf
    <3>. QED
      BY <1>4, <2>2, <3>1
  <2>. HIDE DEF q
  <2>5. Len(HeadOf(q)') > Len(HeadOf(m)')
    BY <2>2, <2>3, <2>4 DEF Height
  <2>. QED
    BY <2>1, <2>5 DEF Height, HeadOf, q
<1>17. Behind' \subseteq Behind
  <2>1. HeadOf(n) # Longest
    <3>1. Height(p) <= Len(Longest) /\ Height(p) \in Nat /\ Height(n) \in Nat
      BY <1>2, <1>4 DEF Prefix, Height
    <3>. QED
      BY <1>3, <1>5, <3>1 DEF Height
  <2>2. \A m \in Nodes : HeadOf(m) = Longest => HeadOf(m)' = Longest'
    BY <1>7, <1>11, <2>1
  <2>. QED
    BY <1>3, <2>2 DEF Behind, OnItsWay
<1>18. Shared!CatchUp(n)
  <2>. DEFINE k == Len(HeadOf(p))
              copy == [m \in Nodes |-> HeadOf(m)]
  <2>1. copy[n] = HeadOf(n)
    OBVIOUS
  <2>2. k \in Len(HeadOf(n)) + 1 .. Len(Longest) /\ SubSeq(Longest, 1, k) = HeadOf(p)
    <3>1. Len(HeadOf(n)) \in Nat /\ k \in Nat /\ Len(Longest) \in Nat
      BY <1>2, <1>4, <1>5
    <3>2. k <= Len(Longest) /\ k > Len(HeadOf(n))
      BY <1>2, <1>3, <1>4 DEF Prefix, Height
    <3>3. HeadOf(p) = SubSeq(Longest, 1, k)
      BY <1>2, <1>4 DEF Prefix
    <3>. HIDE DEF k
    <3>. QED
      BY <3>1, <3>2, <3>3
  <2>3. copy' = [copy EXCEPT ![n] = HeadOf(p)]
    BY <1>7
  <2>. HIDE DEF copy, k
  <2>4. k \in Len(copy[n]) + 1 .. Len(Longest) /\ copy' = [copy EXCEPT ![n] = SubSeq(Longest, 1, k)]
    BY <2>1, <2>2, <2>3
  <2>. QED
    BY <1>11, <2>4 DEF Shared!CatchUp, copy
<1>19. Shared!Next
  BY <1>18 DEF Shared!Next
<1>. QED
  BY <1>12, <1>13, <1>14, <1>15, <1>16, <1>17, <1>19 DEF Agr

\* A snapshot does not arrive.
LEMMA SyncFailsAgr ==
  ASSUME TypeOK, Agr, NEW n \in Nodes, SyncFails(n)
  PROVE  Agr' /\ UNCHANGED Shared!vars /\ Behind' \subseteq Behind
<1>1. /\ UNCHANGED <<up, ledger, known, seeds, pendingProposals, rounds, commits>>
      /\ syncing' = [syncing EXCEPT ![n] = Nobody] /\ syncing[n] # Nobody
  BY DEF SyncFails, peers, network
<1>2. rounds = {} /\ commits = {}
  BY <1>1 DEF Agr, OneAtATime
<1>3. /\ AllThere' /\ OneChain' /\ Behind' \subseteq Behind /\ UNCHANGED Shared!vars
      /\ \A m \in Nodes : HeadOf(m)' = HeadOf(m) /\ Height(m)' = Height(m)
  BY <1>1, <1>2, AllThereUnchanged, OneChainUnchanged, BehindUnchanged, ChainUnchanged DEF Agr
<1>4. OneAtATime' /\ VotesHold' /\ CommitsAgree'
  BY <1>1, <1>2 DEF OneAtATime, VotesHold, CommitsAgree
<1>5. VotesKept'
  BY <1>1, <1>3 DEF Agr, VotesKept, Prefix
<1>6. SyncsUp'
  <2>. SUFFICES ASSUME NEW m \in Nodes, syncing'[m] # Nobody
                PROVE  (Height(syncing[m]) > Height(m))'
    BY DEF SyncsUp
  <2>1. syncing'[m] = syncing[m] /\ syncing[m] # Nobody /\ syncing[m] \in Nodes
    BY <1>1 DEF TypeOK
  <2>2. Height(syncing[m]) > Height(m)
    BY <2>1 DEF Agr, SyncsUp
  <2>. QED
    BY <1>1, <2>1, <2>2 DEF Height, HeadOf
<1>. QED
  BY <1>3, <1>4, <1>5, <1>6 DEF Agr

\* A commit is lost.
LEMMA LoseAgr ==
  ASSUME TypeOK, Agr, NEW c \in commits, LoseCommit(c)
  PROVE  /\ Agr' /\ UNCHANGED Shared!vars
         /\ Fault("loss") /\ Behind' \subseteq Behind \cup {c.to}
<1>1. /\ UNCHANGED <<up, ledger, known, seeds, pendingProposals, syncing, rounds>>
      /\ commits' = commits \ {c} /\ c.to \in Nodes
  BY DEF LoseCommit, peers, TypeOK, Message
<1>2. rounds = {} /\ \A m \in Nodes : syncing[m] = Nobody
  BY DEF Agr, OneAtATime
<1>3. /\ AllThere' /\ OneChain' /\ UNCHANGED Shared!vars /\ Longest' = Longest
      /\ \A m \in Nodes : HeadOf(m)' = HeadOf(m) /\ Active(m)' = Active(m)
  BY <1>1, AllThereUnchanged, OneChainUnchanged, ChainUnchanged DEF Agr
<1>4. OneAtATime' /\ VotesHold' /\ SyncsUp'
  BY <1>1, <1>2 DEF OneAtATime, VotesHold, SyncsUp
<1>5. VotesKept'
  BY <1>1, <1>3 DEF Agr, VotesKept, Prefix
<1>6. CommitsAgree'
  <2>1. \A e \in commits : e.to \in Nodes
    BY DEF TypeOK, Message
  <2>. QED
    BY <1>1, <1>3, <2>1 DEF Agr, CommitsAgree, Prefix
<1>7. Behind' \subseteq Behind \cup {c.to}
  <2>1. ASSUME NEW m \in Nodes, m # c.to, OnItsWay(m)
        PROVE  OnItsWay(m)'
    <3>1. PICK e \in commits : e.to = m /\ e.proposal.parent = HeadOf(m) /\ Accepts(m, e)
      BY <2>1 DEF OnItsWay
    <3>2. e \in commits' /\ Accepts(m, e)' /\ HeadOf(m)' = HeadOf(m)
      BY <1>1, <1>3, <2>1, <3>1 DEF Accepts
    <3>. QED
      BY <3>1, <3>2 DEF OnItsWay
  <2>. QED
    BY <1>3, <2>1 DEF Behind
<1>8. Fault("loss")
  BY <1>1 DEF LoseCommit, Agr, AllThere
<1>. QED
  BY <1>3, <1>4, <1>5, <1>6, <1>7, <1>8 DEF Agr

\* Nothing else happens while all nodes run: they know each other.
LEMMA SurroundingsNever ==
  ASSUME Agr, Benign, up' = Nodes
  PROVE  ~Surroundings
<1>1. \A n \in Nodes, p \in Nodes : ~Announce(p, n)
  BY DEF Announce, Agr, AllThere
<1>2. \A n \in Nodes : ~Crash(n) /\ ~Restart(n)
  BY DEF Crash, Restart, Benign
<1>3. \A n \in Nodes, v \in Ids : ~SlashEquivocation(n, v)
  BY DEF SlashEquivocation, Fault, Benign
<1>. QED
  BY <1>1, <1>2, <1>3 DEF Surroundings

\* How the nodes without the longest chain become more: by a round, of whose
\* voters none is among them, or because a commit is lost.
Spread ==
  \/ Behind' \subseteq Behind
  \/ \E r \in rounds :
       /\ r.proposal.parent = Longest /\ rounds' = {} /\ r.voters \subseteq Nodes
       /\ Cardinality(r.voters) >= Quorum(Cardinality(Nodes))
       /\ Nodes \ r.unavailable \subseteq r.voters /\ Behind' \cap r.voters = {}
  \/ Fault("loss") /\ rounds' = {} /\ \E n \in Nodes : Behind' \subseteq Behind \cup {n}

\* Every step.
LEMMA StepAgr ==
  ASSUME TypeOK, TypeOK', TurnInv, Agr, Benign, MostHaveIt, SameValidators', up' = Nodes,
         [TimedNext]_timedVars
  PROVE  Agr' /\ [Shared!Next]_(Shared!vars) /\ Spread
<1>1. CASE TimerFires
  <2>1. Quiet
    BY <1>1 DEF TimerFires
  <2>2. PICK n \in Nodes : Fires(schedule[turn].timer, n)
    BY <1>1, ScheduleType DEF TimerFires
  <2>3. n \in up
    BY DEF Agr, AllThere
  <2>. QED
    BY <2>1, <2>2, <2>3, TickAgr, SyncHeadsAgr DEF Fires, Spread
<1>2. CASE Progress
  <2>1. ASSUME NEW r \in rounds, NEW n \in r.waiting, HandlePrepare(n, r) \/ PrepareFails(n, r)
        PROVE  Agr' /\ [Shared!Next]_(Shared!vars) /\ Spread
    BY <2>1, PrepareAgr DEF Spread
  <2>2. ASSUME NEW r \in rounds, EndRound(r)
        PROVE  Agr' /\ [Shared!Next]_(Shared!vars) /\ Spread
    <3>1. rounds' = {}
      BY <2>2 DEF EndRound, Agr, OneAtATime
    <3>. QED
      BY <2>2, <3>1, EndRoundAgr DEF Spread, Benign
  <2>3. ASSUME NEW request \in late, HandleLatePrepare(request.to, request)
        PROVE  Agr' /\ [Shared!Next]_(Shared!vars) /\ Spread
    BY <2>3, LatePrepareAgr DEF Spread
  <2>4. ASSUME NEW c \in commits, HandleCommit(c.to, c)
        PROVE  Agr' /\ [Shared!Next]_(Shared!vars) /\ Spread
    BY <2>4, CommitAgr DEF Spread, Benign
  <2>5. ASSUME NEW c \in commits, LoseCommit(c)
        PROVE  Agr' /\ [Shared!Next]_(Shared!vars) /\ Spread
    <3>1. rounds' = {} /\ c.to \in Nodes
      BY <2>5 DEF LoseCommit, Agr, OneAtATime, TypeOK, Message
    <3>. QED
      BY <2>5, <3>1, LoseAgr DEF Spread
  <2>6. ASSUME NEW n \in Nodes, SyncImport(n) \/ SyncFails(n)
        PROVE  Agr' /\ [Shared!Next]_(Shared!vars) /\ Spread
    BY <2>6, SyncImportAgr, SyncFailsAgr DEF Spread
  <2>. QED
    BY <1>2, <2>1, <2>2, <2>3, <2>4, <2>5, <2>6 DEF Progress, Messages
<1>3. CASE SurroundingsChange
  BY <1>3, SurroundingsNever DEF SurroundingsChange
<1>4. CASE UNCHANGED timedVars
  <2>1. UNCHANGED <<up, ledger, known, seeds, pendingProposals, syncing, rounds, commits>>
    BY <1>4 DEF timedVars, vars, peers, network
  <2>2. UNCHANGED Shared!vars /\ Longest' = Longest
    BY <2>1, ChainUnchanged
  <2>3. Agr' = Agr
    BY <2>1, <2>2 DEF Agr, AllThere, OneAtATime, OneChain, VotesHold, VotesKept, SyncsUp,
       CommitsAgree, Accepts, HeadOf, Height, Active, Prefix
  <2>4. Behind' \subseteq Behind
    BY <2>1, BehindUnchanged
  <2>. QED
    BY <2>2, <2>3, <2>4 DEF Spread
<1>. QED
  BY <1>1, <1>2, <1>3, <1>4 DEF TimedNext

\* The initial state.
LEMMA InitAgr ==
  ASSUME TimedInit
  PROVE  Agr /\ Shared!Init /\ Behind = {} /\ Nodes # {}
<1>1. Init
  BY DEF TimedInit
<1>2. TypeOK
  BY <1>1, InitInv DEF Inv
<1>3. PICK n \in Nodes : TRUE
  <2>1. TurnInv
    <3>1. schedule \in Seq([timer : {"block", "sync"}, node : Nodes]) \ {<<>>}
      BY SchedulesAssumption DEF TimedInit
    <3>2. Len(schedule) \in Nat \ {0}
      BY <3>1
    <3>. QED
      BY <3>2 DEF TimedInit, TurnInv
  <2>. QED
    BY <2>1, ScheduleType
<1>4. \A m \in Nodes : HeadOf(m) = <<>> /\ Active(m) = Nodes /\ ledger[m].slashed = {}
  BY <1>1 DEF Init, Start, HeadOf, Active
<1>5. Longest = <<>>
  <2>1. Tallest(n)
    BY <1>4 DEF Tallest, Height
  <2>. QED
    BY <1>4, <2>1, LongestIsTallest
<1>6. Prefix(<<>>, <<>>)
  BY DEF Prefix
<1>7. AllThere /\ OneAtATime /\ OneChain /\ VotesHold /\ VotesKept /\ SyncsUp /\ CommitsAgree
  BY <1>1, <1>3, <1>4, <1>5, <1>6
     DEF Init, AllThere, OneAtATime, OneChain, VotesHold, VotesKept, SyncsUp, CommitsAgree
<1>8. Behind = {}
  BY <1>4, <1>5 DEF Behind
<1>9. Shared!Init
  BY <1>4, <1>5 DEF Shared!Init
<1>. QED
  BY <1>3, <1>7, <1>8, <1>9 DEF Agr

\* Under the invariant, nodes of one height have one chain.
LEMMA AgrImplies ==
  ASSUME TypeOK, Agr
  PROVE  SameHead
<1>. SUFFICES ASSUME NEW n \in Nodes, NEW m \in Nodes, Height(n) = Height(m)
              PROVE  HeadOf(n) = HeadOf(m)
  BY DEF SameHead
<1>1. \A k \in Nodes : HeadOf(k) \in Seq(Digest) /\ Prefix(HeadOf(k), Longest)
  BY HeightType DEF Agr, OneChain
<1>2. Longest \in Seq(Digest)
  BY <1>1 DEF Agr, OneChain
<1>. QED
  BY <1>1, <1>2, PrefixesEqual DEF Height

\* All nodes run.
Whole == up = Nodes

\* Without restarts, nodes only stop.
LEMMA NobodyComes ==
  ASSUME TypeOK, TurnInv, "restart" \notin FaultKinds, [TimedNext]_timedVars
  PROVE  up' \subseteq up /\ ("crash" \notin FaultKinds => up' = up)
<1>1. \A n \in Nodes : Tick(n) => up' = up
  BY DEF Tick
<1>2. \A n, failed : SyncHeads(n, failed) => up' = up
  BY DEF SyncHeads
<1>3. \A r \in rounds : /\ EndRound(r) => up' = up
                        /\ \A n : HandlePrepare(n, r) \/ PrepareFails(n, r) => up' = up
  BY DEF EndRound, HandlePrepare, PrepareFails
<1>4. \A m : HandleLatePrepare(m.to, m) \/ HandleCommit(m.to, m) \/ LoseCommit(m) => up' = up
  BY DEF HandleLatePrepare, HandleCommit, LoseCommit
<1>5. \A n : SyncImport(n) \/ SyncFails(n) => up' = up
  BY DEF SyncImport, SyncFails
<1>6. \A n, p : Announce(p, n) \/ SlashEquivocation(n, p) => up' = up
  BY DEF Announce, SlashEquivocation
<1>7. \A n : ~Restart(n) /\ (Crash(n) => up' \subseteq up /\ "crash" \in FaultKinds)
  BY DEF Restart, Crash, Fault
<1>8. CASE TimerFires
  <2>1. PICK n \in Nodes : Fires(schedule[turn].timer, n)
    BY <1>8, ScheduleType DEF TimerFires
  <2>. QED
    BY <1>1, <1>2, <2>1 DEF Fires, vars
<1>9. CASE Progress
  BY <1>3, <1>4, <1>5, <1>9 DEF Progress, Messages
<1>10. CASE SurroundingsChange
  BY <1>6, <1>7, <1>10 DEF SurroundingsChange, Surroundings
<1>11. CASE UNCHANGED timedVars
  BY <1>11 DEF timedVars, vars
<1>. QED
  BY <1>8, <1>9, <1>10, <1>11 DEF TimedNext

\* What holds as long as all nodes run, of a step too.
LEMMA StepWhole ==
  ASSUME TypeOK, TypeOK', TurnInv, Whole => Agr, Whole => MostHaveIt, Benign,
         Whole' => SameValidators', [TimedNext]_timedVars
  PROVE  Whole' => Whole /\ Agr' /\ [Shared!Next]_(Shared!vars) /\ Spread
<1>. SUFFICES ASSUME Whole'
              PROVE  Whole /\ Agr' /\ [Shared!Next]_(Shared!vars) /\ Spread
  OBVIOUS
<1>1. up' = Nodes
  BY DEF Whole
<1>2. up = Nodes
  BY <1>1, NobodyComes DEF TypeOK, Benign
<1>3. Whole
  BY <1>2 DEF Whole
<1>. QED
  BY <1>1, <1>3, StepAgr

\* Whatever calls time out and whatever commits are lost: as long as all nodes
\* run and no quorum of them is without the last block at any moment, with no
\* commit under way that brings it, the nodes implement one shared chain.  What
\* breaks agreement is nothing but that.
THEOREM OneChainWhileMostHaveIt ==
  ASSUME Benign
  PROVE  TimedSpec /\ [](up = Nodes => SameValidators /\ MostHaveIt) => SharedChain
<1>1. TimedInit => Agr /\ Shared!Init
  BY InitAgr
<1>2. /\ TypeOK /\ TypeOK' /\ TurnInv /\ (Whole => Agr) /\ (Whole => MostHaveIt)
      /\ (Whole' => SameValidators') /\ [TimedNext]_timedVars
      => (Whole' => Agr') /\ [up' = Nodes => Shared!Next]_(Shared!vars)
  BY StepWhole DEF Whole
<1>3. TimedSpec => []TypeOK /\ []TurnInv
  BY TimedIsConsensus, ConsensusTypeCorrect, TurnInvariant, PTL
<1>4. (up = Nodes => SameValidators /\ MostHaveIt)
      => (Whole => SameValidators) /\ (Whole => MostHaveIt)
  BY DEF Whole
<1>. QED
  BY <1>1, <1>2, <1>3, <1>4, PTL DEF TimedSpec, SharedChain

-----------------------------------------------------------------------------
(* When most nodes have the longest chain. *)

\* The assumption: no commit is lost, or less goes wrong than it takes to leave
\* a quorum without the last block.
Sparing == Benign /\ ("loss" \notin FaultKinds \/ MaxFaults < Quorum(Cardinality(Nodes)))

\* Those without the longest chain, and those a round about to extend it has
\* given up on: there is a fault for each.
Lost == Behind \cup UNION {r.unavailable : r \in {q \in rounds : q.proposal.parent = Longest}}

\* A quorum has the longest chain, or is about to.
QuorumHasIt ==
  \E V \in SUBSET Nodes :
    Cardinality(V) >= Quorum(Cardinality(Nodes)) /\ V \cap Behind = {}

Enough ==
  /\ faults <= MaxFaults
  /\ Cardinality(Lost) <= faults
  /\ "loss" \notin FaultKinds => QuorumHasIt

LEMMA FiniteNodes == IsFiniteSet(Nodes) /\ Cardinality(Nodes) \in Nat
<1>1. IsFiniteSet(Ids) /\ Nodes \subseteq Ids
  BY ConsensusAssumption DEF Ids
<1>2. IsFiniteSet(Nodes)
  BY <1>1, FS_Subset
<1>. QED
  BY <1>2, FS_CardinalityType

\* Two quorums have a common member.
LEMMA QuorumsMeet ==
  ASSUME NEW V \in SUBSET Nodes, NEW W \in SUBSET Nodes,
         Cardinality(V) >= Quorum(Cardinality(Nodes)),
         Cardinality(W) >= Quorum(Cardinality(Nodes))
  PROVE  V \cap W # {}
<1>1. IsFiniteSet(Nodes) /\ IsFiniteSet(V) /\ IsFiniteSet(W)
  BY FiniteNodes, FS_Subset
<1>2. Cardinality(Nodes) \in Nat /\ Cardinality(V) \in Nat /\ Cardinality(W) \in Nat
  BY <1>1, FS_CardinalityType
<1>3. Cardinality(V) + Cardinality(W) > Cardinality(Nodes)
  BY <1>2 DEF Quorum
<1>. QED
  BY <1>1, <1>3, FS_MajoritiesIntersect

\* The lost are nodes.
LEMMA LostType ==
  ASSUME TypeOK
  PROVE  /\ Behind \subseteq Lost /\ Lost \subseteq Nodes
         /\ IsFiniteSet(Behind) /\ IsFiniteSet(Lost)
         /\ Cardinality(Behind) \in Nat /\ Cardinality(Lost) \in Nat
         /\ Cardinality(Behind) <= Cardinality(Lost)
<1>1. Behind \subseteq Lost /\ Lost \subseteq Nodes
  BY DEF TypeOK, Round, Behind, Lost
<1>2. IsFiniteSet(Behind) /\ IsFiniteSet(Lost) /\ Cardinality(Behind) <= Cardinality(Lost)
  BY <1>1, FiniteNodes, FS_Subset
<1>. QED
  BY <1>1, <1>2, FS_CardinalityType

LEMMA EnoughImplies ==
  ASSUME TypeOK, Sparing, Enough
  PROVE  MostHaveIt
<1>1. Quorum(Cardinality(Nodes)) \in Int
  BY FiniteNodes DEF Quorum
<1>2. CASE "loss" \notin FaultKinds
  <2>1. PICK V \in SUBSET Nodes :
          Cardinality(V) >= Quorum(Cardinality(Nodes)) /\ V \cap Behind = {}
    BY <1>2 DEF Enough, QuorumHasIt
  <2>2. Behind \in SUBSET Nodes /\ ~(Cardinality(Behind) >= Quorum(Cardinality(Nodes)))
    BY <2>1, QuorumsMeet DEF Behind
  <2>. QED
    BY <1>1, <2>2, LostType DEF MostHaveIt
<1>3. CASE MaxFaults < Quorum(Cardinality(Nodes))
  BY <1>1, <1>3, LostType, ConsensusAssumption DEF Enough, MostHaveIt, TypeOK
<1>. QED
  BY <1>2, <1>3 DEF Sparing

\* Faults are counted up to their bound.
LEMMA FaultsCounted ==
  ASSUME TypeOK, TurnInv, [TimedNext]_timedVars
  PROVE  faults' = faults \/ (faults < MaxFaults /\ faults' = faults + 1)
<1>1. \A n \in Nodes : Tick(n) => faults' = faults
  BY DEF Tick
<1>2. \A n, failed : SyncHeads(n, failed) => faults' = faults \/ Fault("prune")
  BY DEF SyncHeads
<1>3. \A r \in rounds :
        /\ EndRound(r) => faults' = faults
        /\ \A n : HandlePrepare(n, r) => faults' = faults
        /\ \A n : PrepareFails(n, r) => faults' = faults \/ Fault("timeout")
  BY DEF EndRound, HandlePrepare, PrepareFails
<1>4. \A m : /\ HandleLatePrepare(m.to, m) \/ HandleCommit(m.to, m) => faults' = faults
             /\ LoseCommit(m) => faults' = faults \/ Fault("loss")
  BY DEF HandleLatePrepare, HandleCommit, LoseCommit
<1>5. \A n : /\ SyncImport(n) => faults' = faults
             /\ SyncFails(n) => faults' = faults \/ Fault("timeout")
  BY DEF SyncImport, SyncFails
<1>6. \A n, p : /\ Announce(p, n) => faults' = faults
                /\ SlashEquivocation(n, p) => Fault("slash")
  BY DEF Announce, SlashEquivocation
<1>7. \A n : /\ Restart(n) => faults' = faults
             /\ Crash(n) => Fault("crash")
  BY DEF Restart, Crash
<1>8. CASE TimerFires
  <2>1. PICK n \in Nodes : Fires(schedule[turn].timer, n)
    BY <1>8, ScheduleType DEF TimerFires
  <2>. QED
    BY <1>1, <1>2, <2>1 DEF Fires, Fault, vars
<1>9. CASE Progress
  BY <1>3, <1>4, <1>5, <1>9 DEF Progress, Messages, Fault
<1>10. CASE SurroundingsChange
  BY <1>6, <1>7, <1>10 DEF SurroundingsChange, Surroundings, Fault
<1>11. CASE UNCHANGED timedVars
  BY <1>11 DEF timedVars, vars
<1>. QED
  BY <1>8, <1>9, <1>10, <1>11 DEF TimedNext

\* An open round gives up on a follower that does not vote for the longest
\* chain, or at the cost of a fault.
LEMMA RoundSpread ==
  ASSUME TypeOK, TypeOK', Agr, NEW r \in rounds, NEW n \in r.waiting,
         HandlePrepare(n, r) \/ PrepareFails(n, r)
  PROVE  \/ Lost' \subseteq Lost
         \/ n \in Nodes /\ Lost' \subseteq Lost \cup {n} /\ faults' = faults + 1
<1>. DEFINE p == r.proposal  w == r.waiting  vs == r.voters  us == r.unavailable
            counted == [proposal |-> p, waiting |-> w \ {n}, voters |-> vs \cup {n}, unavailable |-> us]
            refused == [proposal |-> p, waiting |-> w \ {n}, voters |-> vs, unavailable |-> us \cup {n}]
<1>1. rounds = {r} /\ commits = {} /\ n \in Nodes /\ r \in Round /\ p.proposer \in Nodes
  BY DEF Agr, OneAtATime, TypeOK, Round, Proposal
<1>2. Behind' \subseteq Behind /\ Longest' = Longest
  <2>1. ledger' = ledger
    BY DEF HandlePrepare, PrepareFails
  <2>. QED
    BY <2>1, PrepareAgr, ChainUnchanged
<1>3. /\ [[r EXCEPT !.waiting = @ \ {n}] EXCEPT !.voters = @ \cup {n}] = counted
      /\ [[r EXCEPT !.waiting = @ \ {n}] EXCEPT !.unavailable = @ \cup {n}] = refused
      /\ [r EXCEPT !.waiting = @ \ {n}, !.unavailable = @ \cup {n}] = refused
  BY <1>1, Answered
<1>4. \/ rounds' = {counted}
      \/ rounds' = {refused} /\ p.parent # HeadOf(n)
      \/ rounds' = {refused} /\ faults' = faults + 1
  <2>1. CASE HandlePrepare(n, r)
    <3>1. n \in Active(p.proposer) /\ p.proposer \in Active(n)
      BY <1>1 DEF Agr, AllThere
    <3>. QED
      BY <1>1, <1>3, <2>1, <3>1 DEF HandlePrepare, Votes
  <2>2. CASE PrepareFails(n, r)
    BY <1>1, <1>3, <2>2 DEF PrepareFails, Fault, Agr, AllThere
  <2>. QED
    BY <2>1, <2>2
<1>5. /\ counted.proposal = p /\ counted.unavailable = us
      /\ refused.proposal = p /\ refused.unavailable = us \cup {n}
  OBVIOUS
<1>. HIDE DEF counted, refused
<1>6. CASE rounds' = {counted}
  BY <1>1, <1>2, <1>5, <1>6 DEF Lost
<1>7. CASE rounds' = {refused} /\ p.parent # HeadOf(n)
  <2>1. p.parent = Longest => n \in Behind
    BY <1>1, <1>7 DEF Behind, OnItsWay
  <2>. QED
    BY <1>1, <1>2, <1>5, <1>7, <2>1 DEF Lost
<1>8. CASE rounds' = {refused} /\ faults' = faults + 1
  BY <1>1, <1>2, <1>5, <1>8 DEF Lost
<1>. QED
  BY <1>4, <1>6, <1>7, <1>8

\* So is everyone's chance to be lost: a step loses nobody, or one node at the
\* cost of a fault.
LEMMA StepLost ==
  ASSUME TypeOK, TypeOK', TurnInv, Agr, Benign, MostHaveIt, SameValidators', up' = Nodes,
         [TimedNext]_timedVars
  PROVE  \/ Lost' \subseteq Lost
         \/ \E n \in Nodes : Lost' \subseteq Lost \cup {n} /\ faults' = faults + 1
<1>. DEFINE Goal == \/ Lost' \subseteq Lost
                    \/ \E n \in Nodes : Lost' \subseteq Lost \cup {n} /\ faults' = faults + 1
<1>1. Spread
  BY StepAgr
<1>2. ASSUME \A r \in rounds' : r.unavailable = {}, rounds = {} \/ rounds' = {}
      PROVE  Goal
  <2>1. Lost' = Behind' /\ Behind \subseteq Lost
    BY <1>2 DEF Lost
  <2>2. CASE Behind' \subseteq Behind
    BY <2>1, <2>2
  <2>3. ASSUME NEW r \in rounds, r.proposal.parent = Longest, Nodes \ r.unavailable \subseteq r.voters,
               Behind' \cap r.voters = {}
        PROVE  Lost' \subseteq Lost
    <3>1. Behind' \subseteq Nodes
      BY DEF Behind
    <3>2. r.unavailable \subseteq Lost
      BY <2>3 DEF Lost
    <3>. QED
      BY <2>1, <2>3, <3>1, <3>2
  <2>4. ASSUME NEW n \in Nodes, Fault("loss"), Behind' \subseteq Behind \cup {n}
        PROVE  Lost' \subseteq Lost \cup {n} /\ faults' = faults + 1
    BY <2>1, <2>4 DEF Fault
  <2>. QED
    BY <1>1, <2>2, <2>3, <2>4 DEF Spread
<1>3. ASSUME rounds' = rounds, ledger' = ledger
      PROVE  Goal
  <2>1. CASE rounds = {}
    BY <1>2, <1>3, <2>1
  <2>2. CASE rounds # {}
    <3>1. Longest' = Longest /\ Behind' \subseteq Behind
      BY <1>1, <1>3, <2>2, ChainUnchanged DEF Spread
    <3>. QED
      BY <1>3, <3>1 DEF Lost
  <2>. QED
    BY <2>1, <2>2
<1>4. CASE TimerFires
  <2>1. rounds = {}
    BY <1>4 DEF TimerFires, Quiet
  <2>2. PICK n \in Nodes : Fires(schedule[turn].timer, n)
    BY <1>4, ScheduleType DEF TimerFires
  <2>3. \A r \in rounds' : r.unavailable = {}
    BY <2>1, <2>2 DEF Fires, Tick, Propose, SyncHeads, network, vars
  <2>. QED
    BY <1>2, <2>1, <2>3
<1>5. ASSUME Progress
      PROVE  Goal
  <2>1. ASSUME NEW r \in rounds, NEW n \in r.waiting, HandlePrepare(n, r) \/ PrepareFails(n, r)
        PROVE  Goal
    BY <2>1, RoundSpread
  <2>2. ASSUME NEW r \in rounds, EndRound(r)
        PROVE  Goal
    <3>1. rounds' = {}
      BY <2>2 DEF EndRound, Agr, OneAtATime
    <3>. QED
      BY <1>2, <3>1
  <2>3. ASSUME NEW request \in late, HandleLatePrepare(request.to, request)
        PROVE  Goal
    BY <1>3, <2>3 DEF HandleLatePrepare
  <2>4. ASSUME NEW c \in commits, HandleCommit(c.to, c) \/ LoseCommit(c)
        PROVE  Goal
    <3>1. rounds' = {} /\ rounds = {}
      BY <2>4 DEF HandleCommit, LoseCommit, Agr, OneAtATime
    <3>. QED
      BY <1>2, <3>1
  <2>5. ASSUME NEW n \in Nodes, SyncImport(n) \/ SyncFails(n)
        PROVE  Goal
    <3>1. syncing[n] # Nobody
      BY <2>5, ConsensusAssumption DEF SyncImport, SyncFails, Agr, AllThere, Nobody
    <3>2. rounds = {} /\ rounds' = rounds
      BY <2>5, <3>1 DEF SyncImport, SyncFails, Agr, OneAtATime, network
    <3>. QED
      BY <1>2, <3>2
  <2>. HIDE DEF Goal
  <2>. QED
    BY <1>5, <2>1, <2>2, <2>3, <2>4, <2>5 DEF Progress, Messages
<1>6. CASE SurroundingsChange
  BY <1>6, SurroundingsNever DEF SurroundingsChange
<1>7. CASE UNCHANGED timedVars
  BY <1>3, <1>7 DEF timedVars, vars, network
<1>. QED
  BY <1>4, <1>5, <1>6, <1>7 DEF TimedNext

\* Every step, then, leaves enough nodes with the longest chain.
LEMMA StepEnough ==
  ASSUME TypeOK, TypeOK', TurnInv, Agr, Enough, Sparing, SameValidators', up' = Nodes,
         [TimedNext]_timedVars
  PROVE  Agr' /\ Enough' /\ [Shared!Next]_(Shared!vars)
<1>1. Benign /\ MostHaveIt
  BY EnoughImplies DEF Sparing
<1>2. Agr' /\ [Shared!Next]_(Shared!vars) /\ Spread
  BY <1>1, StepAgr
<1>3. faults' = faults \/ (faults < MaxFaults /\ faults' = faults + 1)
  BY FaultsCounted
<1>4. faults \in Nat /\ MaxFaults \in Nat /\ faults <= MaxFaults /\ Cardinality(Lost) <= faults
  BY ConsensusAssumption DEF TypeOK, Enough
<1>5. Cardinality(Lost') <= faults'
  <2>1. CASE Lost' \subseteq Lost
    <3>1. Cardinality(Lost') <= Cardinality(Lost) /\ Cardinality(Lost') \in Nat
      BY <2>1, LostType, FS_Subset, FS_CardinalityType
    <3>. QED
      BY <1>3, <1>4, <3>1, LostType
  <2>2. ASSUME NEW n \in Nodes, Lost' \subseteq Lost \cup {n}, faults' = faults + 1
        PROVE  Cardinality(Lost') <= faults'
    <3>1. IsFiniteSet(Lost \cup {n}) /\ Cardinality(Lost \cup {n}) <= Cardinality(Lost) + 1
          /\ Cardinality(Lost \cup {n}) \in Nat
      <4>1. IsFiniteSet(Lost)
        BY LostType
      <4>2. Cardinality(Lost) \in Nat
        BY <4>1, FS_CardinalityType
      <4>3. /\ IsFiniteSet(Lost \cup {n})
            /\ \/ Cardinality(Lost \cup {n}) = Cardinality(Lost)
               \/ Cardinality(Lost \cup {n}) = Cardinality(Lost) + 1
        BY <4>1, FS_AddElement
      <4>. QED
        BY <4>2, <4>3
    <3>2. Cardinality(Lost') <= Cardinality(Lost \cup {n}) /\ Cardinality(Lost') \in Nat
      BY <2>2, <3>1, FS_Subset, FS_CardinalityType
    <3>. QED
      BY <1>4, <2>2, <3>1, <3>2, LostType
  <2>. QED
    BY <1>1, <2>1, <2>2, StepLost
<1>6. ASSUME "loss" \notin FaultKinds
      PROVE  QuorumHasIt'
  <2>1. PICK V \in SUBSET Nodes :
          Cardinality(V) >= Quorum(Cardinality(Nodes)) /\ V \cap Behind = {}
    BY <1>6 DEF Enough, QuorumHasIt
  <2>2. QuorumHasIt' <=> \E W \in SUBSET Nodes :
          Cardinality(W) >= Quorum(Cardinality(Nodes)) /\ W \cap Behind' = {}
    BY DEF QuorumHasIt
  <2>3. CASE Behind' \subseteq Behind
    BY <2>1, <2>2, <2>3
  <2>4. ASSUME NEW r \in rounds, r.voters \subseteq Nodes,
               Cardinality(r.voters) >= Quorum(Cardinality(Nodes)), Behind' \cap r.voters = {}
        PROVE  QuorumHasIt'
    BY <2>2, <2>4
  <2>. QED
    BY <1>2, <1>6, <2>3, <2>4 DEF Spread, Fault
<1>7. faults' <= MaxFaults
  BY <1>3, <1>4
<1>. QED
  BY <1>2, <1>5, <1>6, <1>7 DEF Enough

LEMMA InitEnough ==
  ASSUME TimedInit
  PROVE  Agr /\ Enough /\ Shared!Init
<1>1. Agr /\ Shared!Init /\ Behind = {} /\ Nodes # {}
  BY InitAgr
<1>2. rounds = {} /\ faults = 0
  BY DEF TimedInit, Init
<1>3. Lost = {} /\ Cardinality(Lost) = 0
  BY <1>1, <1>2, FS_EmptySet DEF Lost
<1>4. Cardinality(Nodes) >= Quorum(Cardinality(Nodes))
  <2>1. Cardinality(Nodes) \in Nat \ {0}
    BY <1>1, FiniteNodes, FS_EmptySet
  <2>. QED
    BY <2>1 DEF Quorum
<1>5. QuorumHasIt
  BY <1>1, <1>4 DEF QuorumHasIt
<1>. QED
  BY <1>1, <1>2, <1>3, <1>5, ConsensusAssumption DEF Enough

\* Whatever calls time out, and whatever commits are lost as long as they are
\* too few to leave a quorum without a block: no quorum is ever without the
\* last one.
THEOREM NoQuorumIsBehind ==
  ASSUME Sparing
  PROVE  TimedSpec /\ [](up = Nodes => SameValidators) => [](up = Nodes => MostHaveIt)
<1>1. TimedInit => Agr /\ Enough
  BY InitEnough
<1>2. /\ TypeOK /\ TypeOK' /\ TurnInv /\ (Whole => Agr /\ Enough)
      /\ (Whole' => SameValidators') /\ [TimedNext]_timedVars
      => (Whole' => Agr' /\ Enough')
  <2>. SUFFICES ASSUME TypeOK, TypeOK', TurnInv, Whole => Agr /\ Enough,
                       Whole' => SameValidators', [TimedNext]_timedVars, Whole'
                PROVE  Agr' /\ Enough'
    OBVIOUS
  <2>1. up' = Nodes
    BY DEF Whole
  <2>2. up = Nodes
    BY <2>1, NobodyComes DEF TypeOK, Sparing, Benign
  <2>3. Whole
    BY <2>2 DEF Whole
  <2>. QED
    BY <2>1, <2>3, StepEnough
<1>3. TimedSpec => []TypeOK /\ []TurnInv
  BY TimedIsConsensus, ConsensusTypeCorrect, TurnInvariant, PTL
<1>4. (up = Nodes => SameValidators) => (Whole => SameValidators)
  BY DEF Whole
<1>5. TypeOK /\ (Whole => Agr /\ Enough) => (up = Nodes => MostHaveIt)
  BY EnoughImplies DEF Whole
<1>. QED
  BY <1>1, <1>2, <1>3, <1>4, <1>5, PTL DEF TimedSpec

\* So as long as all nodes run they implement one shared chain, as the runs
\* state it.
THEOREM SharedChainKept ==
  ASSUME Sparing
  PROVE  TimedSpec /\ [](up = Nodes => SameValidators) => SharedChain
<1>1. Benign
  BY DEF Sparing
<1>2. (up = Nodes => SameValidators) /\ (up = Nodes => MostHaveIt)
      => (up = Nodes => SameValidators /\ MostHaveIt)
  OBVIOUS
<1>. QED
  BY <1>1, <1>2, NoQuorumIsBehind, OneChainWhileMostHaveIt, PTL

\* And two of them never have different blocks at one height.
THEOREM HeadsAgree ==
  ASSUME Sparing
  PROVE  TimedSpec /\ [](up = Nodes => SameValidators) => [](up = Nodes => SameHead)
<1>1. TimedInit => Agr
  BY InitAgr
<1>2. /\ TypeOK /\ TypeOK' /\ TurnInv /\ (Whole => Agr) /\ (Whole => MostHaveIt)
      /\ (Whole' => SameValidators') /\ [TimedNext]_timedVars
      => (Whole' => Agr')
  BY StepWhole DEF Sparing
<1>3. TimedSpec => []TypeOK /\ []TurnInv
  BY TimedIsConsensus, ConsensusTypeCorrect, TurnInvariant, PTL
<1>4. TypeOK /\ (Whole => Agr) => (up = Nodes => SameHead)
  BY AgrImplies DEF Whole
<1>5. /\ (up = Nodes => SameValidators) => (Whole => SameValidators)
      /\ (up = Nodes => MostHaveIt) => (Whole => MostHaveIt)
  BY DEF Whole
<1>. QED
  BY <1>1, <1>2, <1>3, <1>4, <1>5, NoQuorumIsBehind, PTL DEF TimedSpec

\* Without crashes Rotation refines Chain.
THEOREM RotationIsChain ==
  ASSUME Sparing, "crash" \notin FaultKinds
  PROVE  TimedSpec /\ []SameValidators => Shared!Spec
<1>1. TimedInit => Whole
  BY InitAgr DEF Agr, AllThere, Whole
<1>2. Whole /\ TypeOK /\ TurnInv /\ [TimedNext]_timedVars => Whole'
  BY NobodyComes DEF Sparing, Benign, Whole
<1>3. TimedSpec => []TypeOK /\ []TurnInv
  BY TimedIsConsensus, ConsensusTypeCorrect, TurnInvariant, PTL
<1>4. Whole' /\ [up' = Nodes => Shared!Next]_(Shared!vars) => [Shared!Next]_(Shared!vars)
  BY DEF Whole
<1>5. SameValidators => (up = Nodes => SameValidators)
  OBVIOUS
<1>6. TimedSpec => []Whole
  BY <1>1, <1>2, <1>3, PTL DEF TimedSpec
<1>7. TimedSpec /\ []SameValidators => SharedChain
  BY <1>5, SharedChainKept, PTL
<1>. QED
  BY <1>4, <1>6, <1>7, PTL DEF SharedChain, Shared!Spec

-----------------------------------------------------------------------------
(* How long the validators stay the same. *)

\* A validator misses at most one round per block.
Counted ==
  /\ \A n \in Nodes : \A v \in Ids : ledger[n].missed[v] <= Height(n)
  /\ \A r \in rounds : Len(r.proposal.parent) < MaxHeight

\* No validator of l has missed more than h blocks.
MissedAtMost(l, h) == \A v \in Ids : l.missed[v] <= h

\* A round that no validator has missed too many of slashes nobody.
LEMMA RoundCounts ==
  ASSUME Plain, NEW l \in LedgerRecord, NEW batch, NEW unavailable, NEW h \in Nat,
         MissedAtMost(l, h), h + 1 < MaxMissedBlocks,
         NEW k, k = RunConsensusRound(l, batch, unavailable)
  PROVE  /\ k.active = l.active
         /\ MissedAtMost(k, h + 1)
         /\ Len(k.head) = Len(l.head) + 1
<1>. DEFINE present == Approvals(l, unavailable)
            absent == l.active \ present
            missed == [v \in Ids |-> IF v \in present THEN 0
                                     ELSE IF v \in absent THEN l.missed[v] + 1 ELSE l.missed[v]]
            condemned == {v \in absent : missed[v] >= MaxMissedBlocks}
            judged == [l EXCEPT !.missed = missed, !.active = @ \ condemned,
                                !.slashed = @ \cup condemned]
<1>1. /\ l.active \subseteq Ids /\ l.slashed \subseteq Ids /\ l.missed \in [Ids -> Nat]
      /\ MaxMissedBlocks \in Nat
  BY ConsensusAssumption DEF LedgerRecord
<1>2. missed \in [Ids -> Nat] /\ \A v \in Ids : missed[v] <= h + 1
  BY <1>1 DEF MissedAtMost
<1>3. condemned = {}
  <2>. HIDE DEF missed
  <2>. QED
    BY <1>1, <1>2
<1>4. /\ judged.head = l.head /\ judged.active = l.active \ condemned /\ judged.missed = missed
  BY DEF LedgerRecord
<1>5. judged \in LedgerRecord
  <2>. HIDE DEF missed
  <2>. QED
    BY <1>1, <1>2, <1>3 DEF LedgerRecord
<1>6. k = ApplyBlock(judged, batch, ProposerAt(l.active, Len(l.head)))
  BY DEF RunConsensusRound
<1>. HIDE DEF judged, condemned, missed
<1>7. /\ k.active = judged.active /\ k.missed = judged.missed
      /\ k.head = Append(judged.head, Block(judged, batch))
  BY <1>5, <1>6, AppliedBlock
<1>8. l.head \in Seq(Digest)
  BY DEF LedgerRecord
<1>. QED
  BY <1>2, <1>3, <1>4, <1>7, <1>8 DEF MissedAtMost

LEMMA CountedUnchanged ==
  ASSUME Counted, ledger' = ledger,
         \A r \in rounds' : \E q \in rounds : r.proposal = q.proposal
  PROVE  Counted'
BY DEF Counted, Height, HeadOf

LEMMA StepCounted ==
  ASSUME TypeOK, TypeOK', TurnInv, Agr, Counted, Benign, MaxHeight < MaxMissedBlocks,
         up' = Nodes, [TimedNext]_timedVars
  PROVE  SameValidators' /\ Counted'
<1>1. ASSUME ledger' = ledger
      PROVE  SameValidators'
  BY <1>1, ChainUnchanged DEF SameValidators, Agr, AllThere
<1>2. ASSUME NEW n \in Nodes, Tick(n)
      PROVE  SameValidators' /\ Counted'
  <2>1. ledger' = ledger
    BY <1>2 DEF Tick
  <2>2. \A r \in rounds' : (\E q \in rounds : r.proposal = q.proposal)
                         \/ (r.proposal.parent = HeadOf(n) /\ Height(n) < MaxHeight)
    <3>1. CASE rounds' = rounds
      BY <3>1
    <3>2. CASE Propose(n) /\ Height(n) < MaxHeight
      <4>1. PICK batch : rounds' = rounds \cup
              {[proposal |-> [proposer |-> n, parent |-> HeadOf(n), batch |-> batch, time |-> time],
                waiting |-> (Active(n) \ {n}) \cap known[n], voters |-> {n}, unavailable |-> {}]}
        BY <3>2 DEF Propose
      <4>. QED
        BY <3>2, <4>1
    <3>. QED
      BY <1>2, <3>1, <3>2 DEF Tick
  <2>. QED
    BY <1>1, <2>1, <2>2 DEF Counted, Height, HeadOf
<1>3. ASSUME NEW r \in rounds, EndRound(r)
      PROVE  SameValidators' /\ Counted'
  <2>. DEFINE p == r.proposal
              n == p.proposer
              l == RunConsensusRound(ledger[n], p.batch, r.unavailable)
  <2>1. /\ n \in Nodes /\ p.parent = HeadOf(n) /\ Len(p.parent) < MaxHeight
        /\ rounds' \subseteq rounds
    BY <1>3 DEF TypeOK, Round, Proposal, Agr, VotesHold, Counted, EndRound
  <2>2. CASE ledger' = ledger
    BY <1>1, <2>1, <2>2, CountedUnchanged
  <2>3. CASE Save(n, l)
    <3>. DEFINE h == Len(p.parent)
    <3>1. /\ ledger[n] \in LedgerRecord /\ MissedAtMost(ledger[n], h)
          /\ h \in Nat /\ h + 1 <= MaxHeight /\ h + 1 < MaxMissedBlocks
      <4>1. ledger[n] \in LedgerRecord /\ MissedAtMost(ledger[n], h)
        BY <2>1 DEF TypeOK, Counted, Height, MissedAtMost
      <4>2. h \in Nat
        BY <2>1, HeightType DEF Height
      <4>3. h < MaxHeight /\ MaxHeight \in Nat /\ MaxMissedBlocks \in Nat
        BY <2>1, ConsensusAssumption
      <4>. HIDE DEF h
      <4>4. h + 1 <= MaxHeight /\ h + 1 < MaxMissedBlocks
        BY <4>2, <4>3
      <4>. QED
        BY <4>1, <4>2, <4>4
    <3>2. l.active = ledger[n].active /\ MissedAtMost(l, h + 1)
          /\ Len(l.head) = Len(ledger[n].head) + 1
      <4>1. l = RunConsensusRound(ledger[n], p.batch, r.unavailable)
        OBVIOUS
      <4>2. Plain
        BY DEF Benign
      <4>. HIDE DEF h, l, n, p
      <4>. QED
        BY <3>1, <4>1, <4>2, RoundCounts
    <3>. HIDE DEF l
    <3>3. /\ HeadOf(n)' = l.head /\ Active(n)' = l.active /\ ledger'[n] = l
          /\ \A m \in Nodes \ {n} : HeadOf(m)' = HeadOf(m) /\ Active(m)' = Active(m)
                                   /\ ledger'[m] = ledger[m]
      BY <2>1, <2>3, OneHeadChanges
    <3>4. SameValidators'
      BY <2>1, <3>2, <3>3 DEF SameValidators, Agr, AllThere, Active
    <3>5. Counted'
      <4>1. Len(HeadOf(n)') = h + 1
        BY <2>1, <3>2, <3>3 DEF HeadOf
      <4>. HIDE DEF p, n, h
      <4>2. \A m \in Nodes : \A v \in Ids : ledger'[m].missed[v] <= Len(HeadOf(m)')
        BY <2>1, <3>1, <3>2, <3>3, <4>1 DEF Counted, Height, MissedAtMost
      <4>. QED
        BY <2>1, <4>2 DEF Counted, Height
    <3>. QED
      BY <3>4, <3>5
  <2>. QED
    BY <1>3, <2>2, <2>3 DEF EndRound
<1>4. ASSUME NEW c \in commits, HandleCommit(c.to, c)
      PROVE  SameValidators' /\ Counted'
  <2>. DEFINE n == c.to
              l == ApplyBlock(ledger[n], c.proposal.batch, c.proposal.proposer)
  <2>1. n \in Nodes /\ rounds' = rounds
    BY <1>4 DEF TypeOK, Message, HandleCommit
  <2>2. CASE ~Accepts(n, c)
    <3>1. ledger' = ledger
      BY <1>4, <2>2 DEF HandleCommit
    <3>. QED
      BY <1>1, <2>1, <3>1, CountedUnchanged
  <2>3. CASE Accepts(n, c)
    <3>1. Save(n, l)
      BY <1>4, <2>3 DEF HandleCommit
    <3>2. ledger[n] \in LedgerRecord
      BY <2>1 DEF TypeOK
    <3>3. /\ l.active = ledger[n].active /\ l.missed = ledger[n].missed
          /\ Len(l.head) = Len(HeadOf(n)) + 1
      <4>1. /\ l.active = ledger[n].active /\ l.missed = ledger[n].missed
            /\ l.head = Append(HeadOf(n), Block(ledger[n], c.proposal.batch))
        BY <3>2, AppliedBlock DEF HeadOf, Benign
      <4>. QED
        BY <2>1, <4>1, HeightType
    <3>. HIDE DEF l
    <3>4. /\ HeadOf(n)' = l.head /\ Active(n)' = l.active /\ ledger'[n] = l
          /\ \A m \in Nodes \ {n} : HeadOf(m)' = HeadOf(m) /\ Active(m)' = Active(m)
                                   /\ ledger'[m] = ledger[m]
      BY <2>1, <3>1, OneHeadChanges
    <3>5. SameValidators'
      BY <2>1, <3>3, <3>4 DEF SameValidators, Agr, AllThere, Active
    <3>6. Counted'
      <4>1. \A v \in Ids : ledger[n].missed[v] \in Nat /\ ledger[n].missed[v] <= Height(n)
        BY <2>1 DEF Counted, TypeOK, LedgerRecord
      <4>2. Height(n) \in Nat
        BY <2>1, HeightType
      <4>. HIDE DEF n
      <4>3. \A v \in Ids : ledger'[n].missed[v] <= Len(HeadOf(n)')
        BY <3>3, <3>4, <4>1, <4>2 DEF Height
      <4>4. \A m \in Nodes : \A v \in Ids : ledger'[m].missed[v] <= Len(HeadOf(m)')
        BY <2>1, <3>4, <4>3 DEF Counted, Height
      <4>. QED
        BY <2>1, <4>4 DEF Counted, Height
    <3>. QED
      BY <3>5, <3>6
  <2>. QED
    BY <2>2, <2>3
<1>5. ASSUME NEW n \in Nodes, SyncImport(n)
      PROVE  SameValidators' /\ Counted'
  <2>. DEFINE p == syncing[n]
              l == Imported(n)
  <2>1. /\ p \in Nodes /\ rounds' = rounds /\ Save(n, l)
    BY <1>5 DEF SyncImport, network, Agr, AllThere
  <2>2. l.head = HeadOf(p) /\ l.active = Active(p) /\ l.missed = ledger[p].missed
    BY <2>1 DEF Imported, TypeOK, LedgerRecord, HeadOf, Active
  <2>. HIDE DEF l, p
  <2>3. /\ HeadOf(n)' = l.head /\ Active(n)' = l.active /\ ledger'[n] = l
        /\ \A m \in Nodes \ {n} : HeadOf(m)' = HeadOf(m) /\ Active(m)' = Active(m)
                                 /\ ledger'[m] = ledger[m]
    BY <2>1, OneHeadChanges
  <2>4. SameValidators'
    BY <2>1, <2>2, <2>3 DEF SameValidators, Agr, AllThere
  <2>5. \A m \in Nodes : \A v \in Ids : ledger'[m].missed[v] <= Len(HeadOf(m)')
    BY <2>1, <2>2, <2>3 DEF Counted, Height
  <2>. QED
    BY <2>1, <2>4, <2>5 DEF Counted, Height
<1>6. ASSUME ledger' = ledger, \A r \in rounds' : \E q \in rounds : r.proposal = q.proposal
      PROVE  SameValidators' /\ Counted'
  BY <1>1, <1>6, CountedUnchanged
<1>7. ASSUME NEW r \in rounds, NEW n \in r.waiting, HandlePrepare(n, r) \/ PrepareFails(n, r)
      PROVE  SameValidators' /\ Counted'
  <2>1. r \in Round
    BY DEF TypeOK
  <2>2. \A s \in rounds' : \E q \in rounds : s.proposal = q.proposal
    <3>. DEFINE a == [[r EXCEPT !.waiting = @ \ {n}] EXCEPT !.voters = @ \cup {n}]
                b == [[r EXCEPT !.waiting = @ \ {n}] EXCEPT !.unavailable = @ \cup {n}]
                c == [r EXCEPT !.waiting = @ \ {n}, !.unavailable = @ \cup {n}]
    <3>1. a.proposal = r.proposal /\ b.proposal = r.proposal /\ c.proposal = r.proposal
      BY <2>1, Answered
    <3>2. \E s \in {a, b, c} : rounds' = (rounds \ {r}) \cup {s}
      BY <1>7 DEF HandlePrepare, PrepareFails
    <3>. HIDE DEF a, b, c
    <3>. QED
      BY <3>1, <3>2
  <2>. QED
    BY <1>6, <1>7, <2>2 DEF HandlePrepare, PrepareFails
<1>8. CASE TimerFires
  <2>1. PICK n \in Nodes : Fires(schedule[turn].timer, n)
    BY <1>8, ScheduleType DEF TimerFires
  <2>2. n \in up
    BY DEF Agr, AllThere
  <2>3. ASSUME NEW failed, SyncHeads(n, failed)
        PROVE  SameValidators' /\ Counted'
    BY <1>6, <2>3 DEF SyncHeads, network
  <2>. QED
    BY <1>2, <2>1, <2>2, <2>3 DEF Fires
<1>9. CASE Progress
  <2>1. ASSUME NEW request \in late, HandleLatePrepare(request.to, request)
        PROVE  SameValidators' /\ Counted'
    BY <1>6, <2>1 DEF HandleLatePrepare
  <2>2. ASSUME NEW c \in commits, LoseCommit(c)
        PROVE  SameValidators' /\ Counted'
    BY <1>6, <2>2 DEF LoseCommit
  <2>3. ASSUME NEW n \in Nodes, SyncFails(n)
        PROVE  SameValidators' /\ Counted'
    BY <1>6, <2>3 DEF SyncFails, network
  <2>. QED
    BY <1>3, <1>4, <1>5, <1>7, <1>9, <2>1, <2>2, <2>3 DEF Progress, Messages
<1>10. CASE SurroundingsChange
  BY <1>10, SurroundingsNever DEF SurroundingsChange
<1>11. CASE UNCHANGED timedVars
  BY <1>6, <1>11 DEF timedVars, vars, network
<1>. QED
  BY <1>8, <1>9, <1>10, <1>11 DEF TimedNext

\* As long as the chain is too short for anyone to have missed too many blocks,
\* and all nodes run, none of them removes a validator.
THEOREM NobodyIsRemoved ==
  ASSUME Sparing, MaxHeight < MaxMissedBlocks
  PROVE  TimedSpec => [](up = Nodes => SameValidators)
<1>1. TimedInit => Agr /\ Enough /\ Counted
  <2>. SUFFICES ASSUME TimedInit PROVE Agr /\ Enough /\ Counted
    OBVIOUS
  <2>1. Agr /\ Enough
    BY InitEnough
  <2>2. /\ rounds = {}
        /\ \A n \in Nodes : Len(HeadOf(n)) = 0 /\ \A v \in Ids : ledger[n].missed[v] = 0
    BY DEF TimedInit, Init, Start, HeadOf
  <2>3. Counted
    BY <2>2 DEF Counted, Height
  <2>. QED
    BY <2>1, <2>3
<1>2. /\ TypeOK /\ TypeOK' /\ TurnInv /\ (Whole => Agr /\ Enough /\ Counted)
      /\ [TimedNext]_timedVars
      => (Whole' => Agr' /\ Enough' /\ Counted')
  <2>. SUFFICES ASSUME TypeOK, TypeOK', TurnInv, Whole => Agr /\ Enough /\ Counted,
                       [TimedNext]_timedVars, Whole'
                PROVE  Agr' /\ Enough' /\ Counted'
    OBVIOUS
  <2>1. up' = Nodes
    BY DEF Whole
  <2>2. up = Nodes
    BY <2>1, NobodyComes DEF TypeOK, Sparing, Benign
  <2>3. Whole
    BY <2>2 DEF Whole
  <2>4. SameValidators' /\ Counted'
    BY <2>1, <2>3, StepCounted DEF Sparing
  <2>. QED
    BY <2>1, <2>3, <2>4, StepEnough
<1>3. TimedSpec => []TypeOK /\ []TurnInv
  BY TimedIsConsensus, ConsensusTypeCorrect, TurnInvariant, PTL
<1>4. (Whole => Agr /\ Enough /\ Counted) => (up = Nodes => SameValidators)
  BY DEF Agr, AllThere, SameValidators, Whole
<1>. QED
  BY <1>1, <1>2, <1>3, <1>4, PTL DEF TimedSpec

\* So until then, whatever calls time out, whatever nodes end, and whatever
\* commits are lost as long as they are too few to leave a quorum without a
\* block, the nodes implement one chain as long as all of them run.
THEOREM FaultsKeepOneChain ==
  ASSUME Sparing, MaxHeight < MaxMissedBlocks
  PROVE  TimedSpec => SharedChain
BY SharedChainKept, NobodyIsRemoved, PTL

-----------------------------------------------------------------------------
(* What a shared chain promises. *)

\* Each node's copy of it.
copies == [n \in Nodes |-> HeadOf(n)]

\* What an implementation of Chain keeps: every copy is a prefix of the log.
ChainInv ==
  /\ Longest \in Seq(Digest)
  /\ copies \in [Nodes -> Seq(Digest)]
  /\ \A n \in Nodes : Shared!IsPrefix(copies[n], Longest)

\* What is a prefix of what.
LEMMA PrefixOfItself ==
  ASSUME NEW S, NEW s \in Seq(S)
  PROVE  Shared!IsPrefix(s, s)
BY DEF Shared!IsPrefix

\* Prefixes of prefixes.
LEMMA PrefixOfPrefix ==
  ASSUME NEW S, NEW s \in Seq(S), NEW t \in Seq(S), NEW u \in Seq(S),
         Shared!IsPrefix(s, t), Shared!IsPrefix(t, u)
  PROVE  Shared!IsPrefix(s, u)
BY DEF Shared!IsPrefix

\* What a node gets that catches up.
LEMMA CutIsPrefix ==
  ASSUME NEW S, NEW t \in Seq(S), NEW k \in 1 .. Len(t)
  PROVE  /\ SubSeq(t, 1, k) \in Seq(S)
         /\ Len(SubSeq(t, 1, k)) = k
         /\ Shared!IsPrefix(SubSeq(t, 1, k), t)
BY DEF Shared!IsPrefix

\* Of two prefixes of one chain the shorter is a prefix of the other.
LEMMA PrefixesCompare ==
  ASSUME NEW S, NEW s \in Seq(S), NEW t \in Seq(S), NEW u \in Seq(S),
         Shared!IsPrefix(s, u), Shared!IsPrefix(t, u), Len(s) <= Len(t)
  PROVE  Shared!IsPrefix(s, t)
BY DEF Shared!IsPrefix

\* Every step keeps the copies prefixes of the log, and makes them longer.
LEMMA ChainStep ==
  ASSUME ChainInv, [Shared!Next]_(Shared!vars)
  PROVE  ChainInv' /\ \A n \in Nodes : Shared!IsPrefix(copies[n], copies'[n])
<1>1. CASE UNCHANGED Shared!vars
  <2>1. Longest' = Longest /\ copies' = copies
    BY <1>1 DEF Shared!vars, copies
  <2>. QED
    BY <2>1, PrefixOfItself DEF ChainInv
<1>2. ASSUME NEW n \in Nodes, Shared!Extend(n)
      PROVE  ChainInv' /\ \A m \in Nodes : Shared!IsPrefix(copies[m], copies'[m])
  <2>1. Longest' \in Seq(Digest) /\ Shared!IsPrefix(Longest, Longest') /\ copies' = [copies EXCEPT ![n] = Longest']
    BY <1>2 DEF Shared!Extend, copies
  <2>2. copies' \in [Nodes -> Seq(Digest)] /\ copies'[n] = Longest'
    BY <2>1 DEF ChainInv
  <2>3. \A m \in Nodes : m # n => copies'[m] = copies[m]
    BY <2>1 DEF ChainInv
  <2>4. ASSUME NEW m \in Nodes
        PROVE  Shared!IsPrefix(copies'[m], Longest') /\ Shared!IsPrefix(copies[m], copies'[m])
    <3>1. Shared!IsPrefix(copies[m], Longest')
      BY <2>1, PrefixOfPrefix DEF ChainInv
    <3>2. CASE m = n
      BY <3>1, <3>2, <2>1, <2>2, PrefixOfItself
    <3>3. CASE m # n
      BY <3>1, <3>3, <2>3, PrefixOfItself DEF ChainInv
    <3>. QED
      BY <3>2, <3>3
  <2>. QED
    BY <2>1, <2>2, <2>4 DEF ChainInv
<1>3. ASSUME NEW n \in Nodes, Shared!CatchUp(n)
      PROVE  ChainInv' /\ \A m \in Nodes : Shared!IsPrefix(copies[m], copies'[m])
  <2>1. PICK k \in Len(copies[n]) + 1 .. Len(Longest) :
          copies' = [copies EXCEPT ![n] = SubSeq(Longest, 1, k)] /\ UNCHANGED Longest
    BY <1>3 DEF Shared!CatchUp, copies
  <2>2. Len(copies[n]) \in Nat /\ Len(Longest) \in Nat /\ k \in 1 .. Len(Longest)
    BY <2>1 DEF ChainInv
  <2>3. /\ SubSeq(Longest, 1, k) \in Seq(Digest)
        /\ Len(SubSeq(Longest, 1, k)) = k
        /\ Shared!IsPrefix(SubSeq(Longest, 1, k), Longest)
    BY <2>2, CutIsPrefix DEF ChainInv
  <2>4. copies' \in [Nodes -> Seq(Digest)] /\ copies'[n] = SubSeq(Longest, 1, k)
    BY <2>1, <2>3 DEF ChainInv
  <2>5. \A m \in Nodes : m # n => copies'[m] = copies[m]
    BY <2>1 DEF ChainInv
  <2>6. Shared!IsPrefix(copies[n], SubSeq(Longest, 1, k))
    <3>1. /\ copies[n] \in Seq(Digest)
          /\ Shared!IsPrefix(copies[n], Longest)
          /\ Len(copies[n]) <= Len(SubSeq(Longest, 1, k))
      BY <2>1, <2>2, <2>3 DEF ChainInv
    <3>. QED
      BY <3>1, <2>3, PrefixesCompare DEF ChainInv
  <2>7. ASSUME NEW m \in Nodes
        PROVE  Shared!IsPrefix(copies'[m], Longest') /\ Shared!IsPrefix(copies[m], copies'[m])
    <3>1. CASE m = n
      BY <3>1, <2>1, <2>3, <2>4, <2>6
    <3>2. CASE m # n
      BY <3>2, <2>1, <2>5, PrefixOfItself DEF ChainInv
    <3>. QED
      BY <3>1, <3>2
  <2>. QED
    BY <2>1, <2>4, <2>7 DEF ChainInv
<1>. QED
  BY <1>1, <1>2, <1>3 DEF Shared!Next

\* Nothing is where a chain begins.
LEMMA ChainStart == Shared!Init => ChainInv
<1>. SUFFICES ASSUME Shared!Init PROVE ChainInv
  OBVIOUS
<1>1. Longest = <<>> /\ copies = [n \in Nodes |-> <<>>]
  BY DEF Shared!Init, copies
<1>. QED
  BY <1>1 DEF ChainInv, Shared!IsPrefix

\* An implementation of Chain has agreement: nodes at the same height have the
\* same chain.
LEMMA ChainAgreement == Shared!Spec => []Shared!Agreement
<1>1. ChainInv /\ [Shared!Next]_(Shared!vars) => ChainInv'
  BY ChainStep
<1>2. ChainInv => Shared!Agreement
  <2>. SUFFICES ASSUME ChainInv, NEW n \in Nodes, NEW m \in Nodes, Len(copies[n]) = Len(copies[m])
                PROVE  copies[n] = copies[m]
    BY DEF Shared!Agreement, copies
  <2>. QED
    BY PrefixesCompare DEF ChainInv, Shared!IsPrefix
<1>. QED
  BY <1>1, <1>2, ChainStart, PTL DEF Shared!Spec

\* And no block of a chain is taken back or replaced.
LEMMA ChainOnlyLonger ==
  Shared!Spec => [][\A n \in Nodes : Shared!IsPrefix(HeadOf(n), HeadOf(n)')]_(Shared!vars)
<1>1. ChainInv /\ [Shared!Next]_(Shared!vars) => ChainInv'
  BY ChainStep
<1>2. \A n \in Nodes : copies[n] = HeadOf(n) /\ copies'[n] = HeadOf(n)'
  BY DEF copies
<1>3. ChainInv /\ [Shared!Next]_(Shared!vars)
      => [\A n \in Nodes : Shared!IsPrefix(HeadOf(n), HeadOf(n)')]_(Shared!vars)
  BY <1>2, ChainStep
<1>. QED
  BY <1>1, <1>3, ChainStart, PTL DEF Shared!Spec

\* So whatever calls time out, and whatever commits are lost as long as they
\* are too few to leave a quorum without a block, two nodes never have different
\* chains of one height, and none of them takes a block back, until the chain
\* is so long that a validator may have missed too many blocks.
THEOREM BlocksAreFinal ==
  ASSUME Sparing, "crash" \notin FaultKinds, MaxHeight < MaxMissedBlocks
  PROVE  TimedSpec => /\ []Shared!Agreement
                      /\ [][\A n \in Nodes : Shared!IsPrefix(HeadOf(n), HeadOf(n)')]_(Shared!vars)
<1>1. TimedInit => Whole
  BY InitAgr DEF Agr, AllThere, Whole
<1>2. Whole /\ TypeOK /\ TurnInv /\ [TimedNext]_timedVars => Whole'
  BY NobodyComes DEF Sparing, Benign, Whole
<1>3. TimedSpec => []TypeOK /\ []TurnInv
  BY TimedIsConsensus, ConsensusTypeCorrect, TurnInvariant, PTL
<1>4. TimedSpec => []SameValidators
  <2>1. Whole /\ (up = Nodes => SameValidators) => SameValidators
    BY DEF Whole
  <2>. QED
    BY <1>1, <1>2, <1>3, <2>1, NobodyIsRemoved, PTL DEF TimedSpec
<1>5. TimedSpec => Shared!Spec
  BY <1>4, RotationIsChain, PTL
<1>. QED
  BY <1>5, ChainAgreement, ChainOnlyLonger

-----------------------------------------------------------------------------
(* A proposer's own blocks, when no peer is forgotten by mistake.          *)

\* A node's list of peers has all that run, and a round asks all of them.
Orderly ==
  /\ OneAtATime
  /\ \A n \in Nodes : up \ {n} \subseteq known[n]
  /\ \A r \in rounds :
       LET n == r.proposal.proposer
       IN  Active(n) \cap (known[n] \cup {n}) \subseteq r.voters \cup r.unavailable \cup r.waiting

\* What a step that leaves the variables alone, or the rounds empty, preserves.
LEMMA OrderlyUnchanged ==
  ASSUME Orderly, UNCHANGED <<up, ledger, known, syncing, rounds, commits>>
  PROVE  Orderly'
BY DEF Orderly, OneAtATime, Active

LEMMA OrderlyNoRounds ==
  ASSUME Orderly, UNCHANGED <<up, known>>, rounds' = {},
         commits' # {} => \A n \in Nodes : syncing'[n] = Nobody
  PROVE  Orderly'
BY DEF Orderly, OneAtATime

\* Every step.
LEMMA StepOrderly ==
  ASSUME TypeOK, TurnInv, Orderly, FaultKinds \cap {"prune", "restart"} = {},
         [TimedNext]_timedVars
  PROVE  Orderly'
<1>1. ASSUME NEW n \in Nodes, Tick(n), Quiet
      PROVE  Orderly'
  <2>1. UNCHANGED <<up, ledger, known, syncing, commits>>
    BY <1>1 DEF Tick, peers
  <2>2. CASE rounds' = rounds
    BY <2>1, <2>2, OrderlyUnchanged
  <2>3. CASE Propose(n)
    <3>1. PICK batch : rounds' = rounds \cup
            {[proposal |-> [proposer |-> n, parent |-> HeadOf(n), batch |-> batch, time |-> time],
              waiting |-> (Active(n) \ {n}) \cap known[n], voters |-> {n}, unavailable |-> {}]}
      BY <2>3 DEF Propose
    <3>. DEFINE p == [proposer |-> n, parent |-> HeadOf(n), batch |-> batch, time |-> time]
                r == [proposal |-> p, waiting |-> (Active(n) \ {n}) \cap known[n],
                      voters |-> {n}, unavailable |-> {}]
    <3>2. rounds' = {r} /\ commits' = {} /\ \A m \in Nodes : syncing'[m] = Nobody
      BY <1>1, <2>1, <3>1 DEF Quiet
    <3>3. /\ r.proposal.proposer = n
          /\ Active(n) \cap (known[n] \cup {n}) \subseteq r.voters \cup r.unavailable \cup r.waiting
      OBVIOUS
    <3>. HIDE DEF r
    <3>4. OneAtATime'
      BY <3>2 DEF OneAtATime
    <3>. QED
      BY <2>1, <3>2, <3>3, <3>4 DEF Orderly, Active
  <2>. QED
    BY <1>1, <2>2, <2>3 DEF Tick
<1>2. ASSUME NEW n \in Nodes, NEW failed, SyncHeads(n, failed), Quiet
      PROVE  Orderly'
  <2>1. /\ up' = up /\ rounds' = {} /\ commits' = {}
        /\ known' = [known EXCEPT ![n] = @ \ failed] /\ failed \cap up = {}
    BY <1>2 DEF SyncHeads, Quiet, network, Fault
  <2>2. \A m \in Nodes : up' \ {m} \subseteq known'[m]
    BY <2>1 DEF Orderly, TypeOK
  <2>. QED
    BY <2>1, <2>2 DEF Orderly, OneAtATime
<1>3. ASSUME NEW r \in rounds, NEW n \in r.waiting, HandlePrepare(n, r) \/ PrepareFails(n, r)
      PROVE  Orderly'
  <2>1. r \in Round /\ rounds = {r}
    BY DEF TypeOK, Orderly, OneAtATime
  <2>. DEFINE a == [[r EXCEPT !.waiting = @ \ {n}] EXCEPT !.voters = @ \cup {n}]
              b == [[r EXCEPT !.waiting = @ \ {n}] EXCEPT !.unavailable = @ \cup {n}]
              c == [r EXCEPT !.waiting = @ \ {n}, !.unavailable = @ \cup {n}]
              All(s) == s.voters \cup s.unavailable \cup s.waiting
  <2>2. /\ a.proposal = r.proposal /\ b.proposal = r.proposal /\ c.proposal = r.proposal
        /\ All(r) \subseteq All(a) /\ All(r) \subseteq All(b) /\ All(r) \subseteq All(c)
    <3>. DEFINE p == r.proposal  w == r.waiting  vs == r.voters  us == r.unavailable
    <3>1. /\ a = [proposal |-> p, waiting |-> w \ {n}, voters |-> vs \cup {n}, unavailable |-> us]
          /\ b = [proposal |-> p, waiting |-> w \ {n}, voters |-> vs, unavailable |-> us \cup {n}]
          /\ c = [proposal |-> p, waiting |-> w \ {n}, voters |-> vs, unavailable |-> us \cup {n}]
      BY <2>1, Answered
    <3>. HIDE DEF a, b, c
    <3>. QED
      BY <3>1
  <2>3. PICK s \in {a, b, c} : rounds' = (rounds \ {r}) \cup {s}
    BY <1>3 DEF HandlePrepare, PrepareFails
  <2>4. UNCHANGED <<up, ledger, known, syncing, commits>>
    BY <1>3 DEF HandlePrepare, PrepareFails, peers
  <2>. HIDE DEF a, b, c
  <2>5. rounds' = {s} /\ s.proposal = r.proposal /\ All(r) \subseteq All(s)
    BY <2>1, <2>2, <2>3
  <2>. QED
    BY <2>1, <2>4, <2>5 DEF Orderly, OneAtATime, Active
<1>4. ASSUME NEW r \in rounds, EndRound(r)
      PROVE  Orderly'
  <2>1. /\ rounds' = {} /\ UNCHANGED <<up, known, syncing>>
        /\ \A n \in Nodes : syncing[n] = Nobody
    BY <1>4 DEF EndRound, peers, Orderly, OneAtATime
  <2>. QED
    BY <2>1, OrderlyNoRounds
<1>5. ASSUME NEW request \in late, HandleLatePrepare(request.to, request)
      PROVE  Orderly'
  BY <1>5, OrderlyUnchanged DEF HandleLatePrepare, peers
<1>6. ASSUME NEW c \in commits, HandleCommit(c.to, c) \/ LoseCommit(c)
      PROVE  Orderly'
  <2>1. /\ rounds' = {} /\ UNCHANGED <<up, known, syncing>>
        /\ \A n \in Nodes : syncing[n] = Nobody
    BY <1>6 DEF HandleCommit, LoseCommit, peers, Orderly, OneAtATime
  <2>. QED
    BY <2>1, OrderlyNoRounds
<1>7. ASSUME NEW n \in Nodes, SyncImport(n) \/ SyncFails(n)
      PROVE  Orderly'
  <2>1. syncing[n] # Nobody
    <3>1. CASE SyncImport(n)
      <4>1. syncing[n] \in Nodes
        BY <3>1 DEF SyncImport, TypeOK
      <4>. QED
        BY <4>1, ConsensusAssumption DEF Nobody
    <3>2. CASE SyncFails(n)
      BY <3>2 DEF SyncFails
    <3>. QED
      BY <1>7, <3>1, <3>2
  <2>2. rounds = {} /\ commits = {}
    BY <2>1 DEF Orderly, OneAtATime
  <2>3. UNCHANGED <<up, known, rounds, commits>>
    BY <1>7 DEF SyncImport, SyncFails, peers, network
  <2>. QED
    BY <2>2, <2>3, OrderlyNoRounds
<1>8. CASE Surroundings
  <2>1. ASSUME NEW n \in Nodes, NEW p \in Nodes, Announce(p, n)
        PROVE  FALSE
    BY <2>1 DEF Announce, Orderly
  <2>2. ASSUME NEW n \in Nodes, Crash(n)
        PROVE  Orderly'
    <3>1. /\ up' \subseteq up /\ rounds' \subseteq rounds /\ commits' \subseteq commits
          /\ UNCHANGED <<ledger, known>> /\ syncing' = [syncing EXCEPT ![n] = Nobody]
      BY <2>2 DEF Crash, peers
    <3>2. \A m \in Nodes : syncing[m] = Nobody => syncing'[m] = Nobody
      BY <3>1 DEF TypeOK
    <3>3. OneAtATime'
      BY <3>1, <3>2 DEF Orderly, OneAtATime
    <3>. QED
      BY <3>1, <3>3 DEF Orderly, Active
  <2>3. ASSUME NEW n \in Nodes, Restart(n)
        PROVE  FALSE
    BY <2>3 DEF Restart
  <2>4. ASSUME NEW n \in Nodes, NEW v \in Ids, SlashEquivocation(n, v)
        PROVE  Orderly'
    <3>. DEFINE l == [ledger[n] EXCEPT !.active = @ \ {v}, !.slashed = @ \cup {v}]
    <3>1. UNCHANGED <<up, known, syncing, rounds, commits>> /\ Save(n, l)
      BY <2>4 DEF SlashEquivocation, peers, network
    <3>2. l.active \subseteq ledger[n].active
      BY DEF TypeOK, LedgerRecord
    <3>. HIDE DEF l
    <3>3. \A m \in Nodes : Active(m)' \subseteq Active(m)
      BY ZenonT(30), <3>1, <3>2, OneHeadChanges DEF Active
    <3>4. \A r \in rounds : r.proposal.proposer \in Nodes
      BY DEF TypeOK, Round, Proposal
    <3>5. OneAtATime'
      BY <3>1 DEF Orderly, OneAtATime
    <3>. QED
      BY <3>1, <3>3, <3>4, <3>5 DEF Orderly
  <2>. QED
    BY <1>8, <2>1, <2>2, <2>3, <2>4 DEF Surroundings
<1>9. CASE TimerFires
  <2>1. PICK n \in Nodes : Fires(schedule[turn].timer, n)
    BY <1>9, ScheduleType DEF TimerFires
  <2>2. Quiet
    BY <1>9 DEF TimerFires
  <2>3. CASE UNCHANGED vars
    BY <2>3, OrderlyUnchanged DEF vars, peers, network
  <2>. QED
    BY <1>1, <1>2, <2>1, <2>2, <2>3 DEF Fires
<1>10. CASE UNCHANGED timedVars
  BY <1>10, OrderlyUnchanged DEF timedVars, vars, peers, network
<1>. QED
  BY <1>3, <1>4, <1>5, <1>6, <1>7, <1>8, <1>9, <1>10
     DEF TimedNext, Progress, Messages, SurroundingsChange

\* A round of which all is asked ends with a block only if a quorum voted.
LEMMA EndedByQuorum ==
  ASSUME TypeOK, Orderly, NEW r \in rounds, EndRound(r),
         HeadOf(r.proposal.proposer)' # HeadOf(r.proposal.proposer),
         Active(r.proposal.proposer) \subseteq known[r.proposal.proposer] \cup {r.proposal.proposer}
  PROVE  Cardinality(r.voters) >= Quorum(Cardinality(Active(r.proposal.proposer)))
<1>. DEFINE n == r.proposal.proposer
<1>1. n \in Nodes /\ r.waiting = {} /\ r.voters \subseteq Nodes
  BY DEF TypeOK, Round, Proposal, EndRound
<1>2. Committed(ledger[n], r.unavailable)
  BY DEF EndRound, HeadOf
<1>3. Active(n) \ r.unavailable \subseteq r.voters
  BY <1>1 DEF Orderly
<1>4. Cardinality(Active(n) \ r.unavailable) >= Quorum(Cardinality(Active(n)))
  BY <1>2 DEF Committed, Approvals, Active
<1>5. IsFiniteSet(Ids) /\ Nodes \subseteq Ids /\ Active(n) \subseteq Ids
  BY <1>1, HeightType, ConsensusAssumption DEF Ids
<1>6. IsFiniteSet(r.voters) /\ IsFiniteSet(Active(n))
  <2>1. r.voters \subseteq Ids
    BY <1>1, <1>5
  <2>. QED
    BY <1>5, <2>1, FS_Subset
<1>7. Cardinality(Active(n) \ r.unavailable) <= Cardinality(r.voters)
      /\ IsFiniteSet(Active(n) \ r.unavailable)
  BY <1>3, <1>6, FS_Subset
<1>8. /\ Cardinality(r.voters) \in Nat /\ Cardinality(Active(n)) \in Nat
      /\ Cardinality(Active(n) \ r.unavailable) \in Nat
  BY <1>6, <1>7, FS_CardinalityType
<1>. QED
  BY <1>4, <1>7, <1>8 DEF Quorum

\* A proposer adds its block only if a quorum of its validators voted for it,
\* as long as peers are forgotten only when they are down and stay down.
THEOREM OwnBlocksAreVoted ==
  ASSUME FaultKinds \cap {"prune", "restart"} = {}
  PROVE  TimedSpec => OwnBlocksHaveQuorum
<1>. DEFINE Voted == \A r \in rounds \ rounds' :
       LET n == r.proposal.proposer
       IN  HeadOf(n)' # HeadOf(n) /\ Active(n) \subseteq known[n] \cup {n}
             => Cardinality(r.voters) >= Quorum(Cardinality(Active(n)))
<1>1. TimedInit => Orderly
  BY DEF TimedInit, Init, Orderly, OneAtATime
<1>2. TypeOK /\ TurnInv /\ Orderly /\ [TimedNext]_timedVars => Orderly'
  BY StepOrderly
<1>3. TypeOK /\ TurnInv /\ Orderly /\ [TimedNext]_timedVars => [Voted]_vars
  <2>. SUFFICES ASSUME TypeOK, TurnInv, Orderly, [TimedNext]_timedVars,
                       NEW r \in rounds, r \notin rounds',
                       HeadOf(r.proposal.proposer)' # HeadOf(r.proposal.proposer),
                       Active(r.proposal.proposer)
                         \subseteq known[r.proposal.proposer] \cup {r.proposal.proposer}
                PROVE  Cardinality(r.voters) >= Quorum(Cardinality(Active(r.proposal.proposer)))
    OBVIOUS
  <2>1. rounds = {r}
    BY DEF Orderly, OneAtATime
  <2>2. ledger' # ledger
    BY DEF HeadOf
  <2>3. EndRound(r)
    <3>1. CASE Progress
      <4>1. \A q \in rounds, n \in Nodes : ~HandlePrepare(n, q) /\ ~PrepareFails(n, q)
        BY <2>2 DEF HandlePrepare, PrepareFails
      <4>2. \A q \in rounds : q.waiting \subseteq Nodes
        BY DEF TypeOK, Round
      <4>3. \A c \in commits : ~HandleCommit(c.to, c) /\ ~LoseCommit(c)
        BY DEF HandleCommit, LoseCommit
      <4>4. \A q \in late : ~HandleLatePrepare(q.to, q)
        BY DEF HandleLatePrepare
      <4>5. \A n \in Nodes : ~SyncImport(n) /\ ~SyncFails(n)
        BY DEF SyncImport, SyncFails, network
      <4>. QED
        BY <2>1, <3>1, <4>1, <4>2, <4>3, <4>4, <4>5 DEF Progress, Messages
    <3>2. CASE TimerFires
      BY <3>2 DEF TimerFires, Quiet
    <3>3. CASE Surroundings
      <4>1. \A n \in Nodes : ~Crash(n) /\ ~Restart(n) /\ \A p \in Nodes : ~Announce(p, n)
        BY <2>2 DEF Crash, Restart, Announce
      <4>2. \A n \in Nodes, v \in Ids : ~SlashEquivocation(n, v)
        BY DEF SlashEquivocation, network
      <4>. QED
        BY <3>3, <4>1, <4>2 DEF Surroundings
    <3>. QED
      BY <2>2, <3>1, <3>2, <3>3 DEF TimedNext, SurroundingsChange, timedVars, vars
  <2>. QED
    BY <2>3, EndedByQuorum
<1>4. TimedSpec => []TypeOK /\ []TurnInv
  BY TimedIsConsensus, ConsensusTypeCorrect, TurnInvariant, PTL
<1>. QED
  BY <1>1, <1>2, <1>3, <1>4, PTL DEF TimedSpec, OwnBlocksHaveQuorum

=============================================================================
