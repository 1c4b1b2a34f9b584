---------------------------- MODULE NodeProofs ----------------------------
(***************************************************************************)
(* What holds of a node whatever the bounds: of its store (NodeStorage),   *)
(* and of the network it finds (Peers).                                    *)
(*                                                                         *)
(* The store, for any number of accounts and validators and whatever       *)
(* fails, crashes or is imported: the store, the queue and the memory of a *)
(* running node are snapshots in the order their heads were made.  Each    *)
(* has the blocks of its chain and every account and validator of the      *)
(* earlier ones but those that were deleted in between, and none is lower  *)
(* than an earlier one unless an import has taken the height back.         *)
(*                                                                         *)
(* The network, for any number of nodes: whoever the seed node knows it    *)
(* has told all the others it knows of, or is telling them (CalmInv).      *)
(***************************************************************************)
EXTENDS NodeStorage, Peers, Functions, FiniteSetTheorems, TLAPS

-----------------------------------------------------------------------------
(* The store of a node. *)

USE StorageAssumption

Positions == 1 .. Len(queue)

\* A snapshot that has the blocks of its chain; before the first block it has
\* nothing that the genesis has not.
Whole(s) ==
  /\ \A h \in Recorded(s.height) : h \in DOMAIN s.blocks /\ s.blocks[h] = s.chain[h]
  /\ DOMAIN s.chain = Recorded(s.height)
  /\ s.height = 0 => s.hash = 0 /\ s.validators = {} /\ s.accounts = {}

\* s was taken before t: of its accounts and validators only some in gone had to
\* leave, and if t is lower then an import since then, the one low, made it so.
Older(s, t, gone, low) ==
  /\ s.hash <= t.hash
  /\ s.height <= t.height \/ s.hash < low
  /\ s.validators \subseteq t.validators \cup gone
  /\ s.accounts \subseteq t.accounts \cup gone

WholeInv ==
  /\ Whole(disk)
  /\ \A i \in Positions : Whole(queue[i]) /\ queue[i].height > 0
  /\ up => Whole(mem)

\* Hashes are those of changes that were made.
MadeInv ==
  /\ disk.hash < NextHash /\ lowered < NextHash
  /\ \A i \in Positions : queue[i].hash < NextHash
  /\ up => mem.hash < NextHash

OrderInv ==
  /\ \A i \in Positions : Older(disk, queue[i], deleted, lowered)
  /\ \A i, j \in Positions : i < j => Older(queue[i], queue[j], deleted, lowered)
  /\ up => Older(disk, mem, deleted, lowered)
  /\ up => \A i \in Positions : Older(queue[i], mem, deleted, lowered)

IInv ==
  /\ StorageTypeOK
  /\ ~up => queue = <<>>
  /\ WholeInv
  /\ MadeInv
  /\ OrderInv
  /\ OneSnapshot

\* What a step does to the head on disk.
DiskStep == disk.hash <= disk'.hash /\ (disk'.height < disk.height => lowered > disk.hash)

-----------------------------------------------------------------------------

\* The order of snapshots is transitive.
LEMMA OlderStill ==
  ASSUME NEW s \in Snapshot, NEW t \in Snapshot, NEW u \in Snapshot, NEW gone, NEW low \in Int,
         Older(s, t, gone, low), Older(t, u, gone, low)
  PROVE  Older(s, u, gone, low)
<1>1. /\ s.hash \in Int /\ t.hash \in Int /\ u.hash \in Int
      /\ s.height \in Int /\ t.height \in Int /\ u.height \in Int
  BY DEF Snapshot, Heights, Hashes
<1>2. s.hash <= u.hash /\ (s.height <= u.height \/ s.hash < low)
  BY <1>1 DEF Older
<1>3. s.validators \subseteq u.validators \cup gone /\ s.accounts \subseteq u.accounts \cup gone
  BY DEF Older
<1> QED
  BY <1>2, <1>3 DEF Older

\* What else is deleted, and a later import, leave the order as it is.
LEMMA OlderKept ==
  ASSUME NEW s \in Snapshot, NEW t \in Snapshot, NEW gone, NEW more, gone \subseteq more,
         NEW low \in Int, NEW last \in Int, low <= last, Older(s, t, gone, low)
  PROVE  Older(s, t, more, last)
<1>1. s.hash \in Int
  BY DEF Snapshot, Hashes
<1> QED
  BY <1>1 DEF Older

\* A snapshot is older than itself.
LEMMA OlderItself ==
  ASSUME NEW s \in Snapshot, NEW gone, NEW low
  PROVE  Older(s, s, gone, low)
BY DEF Older, Snapshot, Heights, Hashes

\* One record of blocks on top of another.
LEMMA OnTop ==
  ASSUME NEW f \in Chains, NEW g \in Chains
  PROVE  /\ Over(f, g) \in Chains
         /\ DOMAIN Over(f, g) = DOMAIN f \cup DOMAIN g
         /\ \A h \in DOMAIN f : Over(f, g)[h] = f[h]
         /\ \A h \in DOMAIN g \ DOMAIN f : Over(f, g)[h] = g[h]
<1> DEFINE S == DOMAIN f \cup DOMAIN g
           m == [h \in S |-> IF h \in DOMAIN f THEN f[h] ELSE g[h]]
<1>1. Over(f, g) = m
  BY DEF Over
<1>2. /\ DOMAIN f \in SUBSET Heights /\ DOMAIN g \in SUBSET Heights
      /\ \A h \in DOMAIN f : f[h] \in Hashes
      /\ \A h \in DOMAIN g : g[h] \in Hashes
  BY DEF Chains
<1>3. m \in [S -> Hashes] /\ S \in SUBSET Heights
  BY <1>2
<1>4. m \in Chains
  <2> HIDE DEF S, m
  <2> QED
    BY <1>3 DEF Chains
<1> QED
  BY <1>1, <1>4

\* A batch of puts: a whole snapshot stays whole, whatever was there before.
LEMMA PutIsWhole ==
  ASSUME NEW d \in Snapshot, NEW s \in Snapshot, Whole(s), s.height > 0
  PROVE  /\ Put(d, s) \in Snapshot
         /\ Put(d, s).height = s.height
         /\ Put(d, s).hash = s.hash
         /\ Put(d, s).chain = s.chain
         /\ Put(d, s).pending = s.pending
         /\ Put(d, s).offline = s.offline
         /\ Put(d, s).validators = s.validators \cup d.validators
         /\ Put(d, s).accounts = s.accounts \cup d.accounts
         /\ Whole(Put(d, s))
<1> DEFINE b == Over(s.blocks, d.blocks)
           p == Put(d, s)
<1>1. s.blocks \in Chains /\ d.blocks \in Chains
  BY DEF Snapshot
<1>2. /\ b \in Chains /\ DOMAIN b = DOMAIN s.blocks \cup DOMAIN d.blocks
      /\ \A h \in DOMAIN s.blocks : b[h] = s.blocks[h]
  BY <1>1, OnTop
<1>3. p = [s EXCEPT !.validators = @ \cup d.validators, !.accounts = @ \cup d.accounts, !.blocks = b]
  BY DEF Put
<1> HIDE DEF b, p
<1>4. /\ p \in Snapshot
      /\ p.height = s.height /\ p.hash = s.hash /\ p.chain = s.chain /\ p.blocks = b
      /\ p.pending = s.pending /\ p.offline = s.offline
      /\ p.validators = s.validators \cup d.validators
      /\ p.accounts = s.accounts \cup d.accounts
  BY <1>2, <1>3 DEF Snapshot
<1>5. Whole(p)
  <2>1. \A h \in Recorded(s.height) : h \in DOMAIN b /\ b[h] = s.chain[h]
    BY <1>2 DEF Whole
  <2>2. s.height # 0
    BY DEF Snapshot, Heights
  <2> QED
    BY <1>4, <2>1, <2>2 DEF Whole
<1> QED
  BY <1>4, <1>5 DEF p

LEMMA Initially ==
  ASSUME StorageInit
  PROVE  IInv
<1>1. Genesis \in Snapshot
  <2>1. <<>> \in [{} -> Hashes]
    OBVIOUS
  <2>2. <<>> \in Chains
    BY <2>1 DEF Chains
  <2> QED
    BY <2>2 DEF Genesis, Snapshot, Heights, Hashes
<1>2. StorageTypeOK
  <2>1. queue \in Seq(Snapshot)
    BY DEF StorageInit
  <2>2. 0 \in 0 .. MaxChanges /\ 0 \in 0 .. MaxSyncs /\ 0 \in Hashes
    BY DEF Hashes
  <2> QED
    BY <1>1, <2>1, <2>2 DEF StorageInit, StorageTypeOK
<1>3. Whole(Genesis)
  <2>1. Recorded(0) = {}
    BY DEF Recorded
  <2>2. DOMAIN <<>> = {}
    OBVIOUS
  <2> QED
    BY <2>1, <2>2 DEF Whole, Genesis
<1>4. Positions = {}
  BY DEF StorageInit, Positions
<1>5. MadeInv
  BY <1>4 DEF StorageInit, MadeInv, Genesis, NextHash
<1> QED
  BY <1>2, <1>3, <1>4, <1>5
     DEF StorageInit, IInv, WholeInv, OrderInv, OneSnapshot, HeadOf, Genesis

\* The state becomes a later snapshot s, which is queued.
LEMMA SaveKeeps ==
  ASSUME IInv, up, up' = up, UNCHANGED <<isSeed, disk, saved, failed>>,
         NEW s \in Snapshot, Save(s), Whole(s), s.height > 0,
         syncs' \in 0 .. MaxSyncs, changes' \in 0 .. MaxChanges, changes <= changes', s.hash < changes' + 2,
         lowered' \in Hashes, lowered <= lowered', lowered' < changes' + 2,
         deleted' \subseteq ValidatorIds \cup Addresses, deleted \subseteq deleted',
         Older(mem, s, deleted', lowered')
  PROVE  IInv'
<1> USE DEF IInv
<1>1. queue' = Append(queue, s) /\ mem' = s
  BY DEF Save
<1>2. StorageTypeOK'
  BY <1>1 DEF StorageTypeOK
<1>3. /\ queue \in Seq(Snapshot)
      /\ Positions' = 1 .. Len(queue) + 1
      /\ \A i \in Positions : queue'[i] = queue[i] /\ queue[i] \in Snapshot
      /\ queue'[Len(queue) + 1] = s
  BY <1>1 DEF StorageTypeOK, Positions
<1>4. \A i \in Positions' : i \in Positions \/ i = Len(queue) + 1
  BY <1>3 DEF Positions
<1>5. WholeInv'
  BY <1>1, <1>3, <1>4 DEF WholeInv, Whole, Recorded
<1>6. /\ mem \in Snapshot /\ disk \in Snapshot
      /\ lowered \in Int /\ lowered' \in Int /\ changes \in Int /\ changes' \in Int
  BY DEF StorageTypeOK, Hashes
<1>7. MadeInv'
  <2>1. \A t \in Snapshot : t.hash < NextHash => t.hash < changes' + 2
    BY <1>6 DEF Snapshot, Hashes, NextHash
  <2> QED
    BY <1>1, <1>3, <1>4, <1>6, <2>1 DEF MadeInv, NextHash
<1>8. \A a, b \in Snapshot : Older(a, b, deleted, lowered) => Older(a, b, deleted', lowered')
  BY <1>6, OlderKept
<1>9. /\ Older(disk, s, deleted', lowered')
      /\ \A i \in Positions : Older(queue[i], s, deleted', lowered')
  <2>1. \A t \in Snapshot : Older(t, mem, deleted', lowered') => Older(t, s, deleted', lowered')
    BY <1>6, OlderStill
  <2> QED
    BY <1>3, <1>6, <1>8, <2>1 DEF OrderInv
<1>10. OrderInv'
  <2>1. \A i \in Positions' : Older(disk, queue'[i], deleted', lowered')
    BY <1>3, <1>4, <1>6, <1>8, <1>9 DEF OrderInv
  <2>2. \A i, j \in Positions' : i < j => Older(queue'[i], queue'[j], deleted', lowered')
    <3> SUFFICES ASSUME NEW i \in Positions', NEW j \in Positions', i < j
                 PROVE  Older(queue'[i], queue'[j], deleted', lowered')
      OBVIOUS
    <3>1. i \in Positions
      BY <1>3 DEF Positions, StorageTypeOK
    <3>2. CASE j \in Positions
      BY <1>3, <1>8, <3>1, <3>2 DEF OrderInv
    <3>3. CASE j = Len(queue) + 1
      BY <1>3, <1>9, <3>1, <3>3
    <3> QED
      BY <1>4, <3>2, <3>3
  <2>3. Older(s, s, deleted', lowered')
    BY OlderItself
  <2> QED
    BY <1>1, <1>3, <1>4, <1>9, <2>1, <2>2, <2>3 DEF OrderInv
<1>11. OneSnapshot'
  BY DEF OneSnapshot, HeadOf
<1> QED
  BY <1>1, <1>2, <1>5, <1>7, <1>10, <1>11

LEMMA WriteKeeps ==
  ASSUME IInv, Write
  PROVE  IInv' /\ DiskStep
<1> USE DEF IInv
<1>1. /\ queue \in Seq(Snapshot) /\ queue # <<>>
      /\ 1 \in Positions
      /\ up
  BY DEF Write, StorageTypeOK, Positions
<1>2. queue[1] \in Snapshot /\ disk \in Snapshot /\ saved \in Snapshot /\ lowered \in Int
  BY <1>1 DEF StorageTypeOK, Positions, Hashes
<1>3. /\ queue' \in Seq(Snapshot)
      /\ Positions' = 1 .. Len(queue) - 1
      /\ \A i \in Positions' : queue'[i] = queue[i + 1] /\ i + 1 \in Positions /\ 1 < i + 1
  BY <1>1 DEF Write, Positions
<1>4. /\ disk' \in Snapshot
      /\ disk'.height = queue[1].height
      /\ disk'.hash = queue[1].hash
      /\ disk'.chain = queue[1].chain
      /\ disk'.pending = queue[1].pending
      /\ disk'.offline = queue[1].offline
      /\ disk'.validators = queue[1].validators \cup disk.validators
      /\ disk'.accounts = queue[1].accounts \cup disk.accounts
      /\ Whole(disk')
  BY <1>1, <1>2, PutIsWhole DEF Write, WholeInv
<1>5. DiskStep
  <2>1. /\ disk.height \in Int /\ disk.hash \in Int /\ queue[1].height \in Int
        /\ Older(disk, queue[1], deleted, lowered)
    BY <1>1, <1>2 DEF OrderInv, Snapshot, Heights, Hashes
  <2> QED
    BY <1>2, <1>4, <2>1 DEF DiskStep, Older
<1>6. StorageTypeOK'
  BY <1>2, <1>3, <1>4 DEF StorageTypeOK, Write
<1>7. WholeInv'
  BY <1>1, <1>3, <1>4 DEF WholeInv, Whole, Write
<1>8. MadeInv'
  BY <1>1, <1>3, <1>4 DEF MadeInv, Write, NextHash
<1>9. OrderInv'
  <2>1. \A t : Older(queue[1], t, deleted, lowered) /\ Older(disk, t, deleted, lowered) => Older(disk', t, deleted, lowered)
    BY <1>4 DEF Older
  <2> QED
    BY <1>1, <1>3, <2>1 DEF OrderInv, Write
<1>10. OneSnapshot'
  <2>1. (disk.validators \ queue[1].validators) \cup (disk.accounts \ queue[1].accounts) \subseteq deleted
    BY <1>1 DEF OrderInv, Older
  <2> QED
    BY <1>1, <1>2, <1>4, <2>1 DEF OneSnapshot, HeadOf, Write
<1> QED
  BY <1>1, <1>5, <1>6, <1>7, <1>8, <1>9, <1>10 DEF Write

LEMMA WriteFailsKeeps ==
  ASSUME IInv, WriteFails
  PROVE  IInv'
<1> USE DEF IInv
<1>1. queue \in Seq(Snapshot) /\ queue # <<>> /\ up
  BY DEF WriteFails, StorageTypeOK
<1>2. /\ queue' \in Seq(Snapshot)
      /\ Positions' = 1 .. Len(queue) - 1
      /\ \A i \in Positions' : queue'[i] = queue[i + 1] /\ i + 1 \in Positions
  BY <1>1 DEF WriteFails, Positions
<1>3. StorageTypeOK'
  BY <1>2 DEF StorageTypeOK, WriteFails
<1>4. WholeInv'
  BY <1>2 DEF WholeInv, Whole, WriteFails
<1>5. MadeInv'
  BY <1>2 DEF MadeInv, WriteFails, NextHash
<1>6. OrderInv'
  <2>1. \A i, j \in Positions' : i < j => i + 1 < j + 1
    BY <1>1, <1>2
  <2> QED
    BY <1>2, <2>1 DEF OrderInv, WriteFails
<1>7. OneSnapshot'
  BY DEF OneSnapshot, HeadOf, WriteFails
<1> QED
  BY <1>1, <1>3, <1>4, <1>5, <1>6, <1>7 DEF WriteFails

\* A head is made: it has a greater hash than all before it.
LEMMA NewHeadKeeps ==
  ASSUME IInv, up, NEW s \in Snapshot, NewHead(s), Whole([s EXCEPT !.hash = NextHash]), s.height > 0,
         syncs' \in 0 .. MaxSyncs
  PROVE  IInv' /\ disk' = disk
<1> DEFINE t == [s EXCEPT !.hash = NextHash]
<1>1. /\ mem \in Snapshot /\ changes \in Nat /\ changes < MaxChanges /\ changes' = changes + 1
      /\ lowered \in Hashes /\ lowered < NextHash /\ mem.hash < NextHash
      /\ deleted \subseteq ValidatorIds \cup Addresses
  BY DEF NewHead, IInv, StorageTypeOK, MadeInv
<1>2. /\ t \in Snapshot /\ t.height = s.height /\ t.hash = NextHash
      /\ t.validators = s.validators /\ t.accounts = s.accounts
  <2>1. NextHash \in Hashes
    BY <1>1 DEF NextHash, Hashes
  <2> QED
    BY <2>1 DEF Snapshot
<1>3. /\ deleted' = deleted \cup (mem.validators \ s.validators) \cup (mem.accounts \ s.accounts)
      /\ lowered' = IF s.height < mem.height THEN NextHash ELSE lowered
      /\ Save(t)
      /\ UNCHANGED <<isSeed, up, disk, saved, failed>>
  BY DEF NewHead
<1>4. /\ NextHash \in Int /\ NextHash = changes + 2 /\ NextHash \in Hashes
      /\ mem.height \in Int /\ s.height \in Int /\ mem.hash \in Int /\ lowered \in Int
  BY <1>1 DEF NextHash, Snapshot, Heights, Hashes
<1>5. lowered' \in Hashes /\ lowered <= lowered' /\ lowered' < changes' + 2
  BY <1>1, <1>3, <1>4
<1>6. deleted' \subseteq ValidatorIds \cup Addresses /\ deleted \subseteq deleted'
  BY <1>1, <1>3 DEF Snapshot
<1>7. Older(mem, t, deleted', lowered')
  <2>1. mem.validators \subseteq t.validators \cup deleted' /\ mem.accounts \subseteq t.accounts \cup deleted'
    BY <1>2, <1>3
  <2>2. mem.hash <= t.hash /\ (mem.height <= t.height \/ mem.hash < lowered')
    BY <1>1, <1>2, <1>3, <1>4
  <2> QED
    BY <2>1, <2>2 DEF Older
<1>8. changes' \in 0 .. MaxChanges /\ changes <= changes' /\ t.hash < changes' + 2
  BY <1>1, <1>2, <1>4
<1>9. Whole(t) /\ t.height > 0
  BY <1>2
<1> HIDE DEF t
<1>10. IInv'
  BY <1>2, <1>3, <1>5, <1>6, <1>7, <1>8, <1>9, SaveKeeps
<1> QED
  BY <1>3, <1>10

LEMMA AddBlockKeeps ==
  ASSUME IInv, NEW pending \in SUBSET ValidatorIds,
         NEW validators \in SUBSET ValidatorIds, NEW accounts \in SUBSET Addresses,
         AddBlock(pending, validators, accounts)
  PROVE  IInv' /\ disk' = disk
<1> DEFINE h == mem.height + 1
           block == [x \in {h} |-> NextHash]
           blocks == Over(block, mem.blocks)
           chain == Over(block, mem.chain)
           s == [mem EXCEPT !.height = h, !.pending = pending, !.validators = validators,
                            !.accounts = accounts, !.blocks = blocks, !.chain = chain]
           t == [s EXCEPT !.hash = NextHash]
<1>1. /\ up /\ mem \in Snapshot /\ Whole(mem)
      /\ mem.height \in 1 .. MaxHeight - 1
      /\ changes \in Nat /\ changes < MaxChanges
      /\ syncs \in 0 .. MaxSyncs /\ syncs' = syncs /\ NewHead(s)
  BY DEF AddBlock, NewHead, IInv, StorageTypeOK, WholeInv
<1>2. h \in Heights /\ h \in Int /\ NextHash \in Hashes /\ mem.blocks \in Chains /\ mem.chain \in Chains
  BY <1>1 DEF Snapshot, Heights, Hashes, NextHash
<1>3. block \in Chains /\ DOMAIN block = {h} /\ block[h] = NextHash
  <2>1. block = [x \in {h} |-> NextHash]
    OBVIOUS
  <2>2. block \in [{h} -> Hashes] /\ {h} \in SUBSET Heights
    BY <1>2, <2>1
  <2> HIDE DEF block
  <2> QED
    BY <2>1, <2>2 DEF Chains
<1> HIDE DEF block, h
<1>3a. ASSUME NEW g \in Chains
       PROVE  /\ Over(block, g) \in Chains
              /\ DOMAIN Over(block, g) = {h} \cup DOMAIN g
              /\ Over(block, g)[h] = NextHash
              /\ \A x \in DOMAIN g \ {h} : Over(block, g)[x] = g[x]
  <2>1. /\ Over(block, g) \in Chains
        /\ DOMAIN Over(block, g) = DOMAIN block \cup DOMAIN g
        /\ \A x \in DOMAIN block : Over(block, g)[x] = block[x]
        /\ \A x \in DOMAIN g \ DOMAIN block : Over(block, g)[x] = g[x]
    BY <1>3, OnTop
  <2> QED
    BY <1>3, <2>1
<1>4. /\ blocks \in Chains /\ DOMAIN blocks = {h} \cup DOMAIN mem.blocks /\ blocks[h] = NextHash
      /\ \A x \in DOMAIN mem.blocks \ {h} : blocks[x] = mem.blocks[x]
  <2>1. blocks = Over(block, mem.blocks)
    OBVIOUS
  <2> HIDE DEF blocks
  <2> QED
    BY <1>2, <1>3a, <2>1
<1>5. /\ chain \in Chains /\ DOMAIN chain = {h} \cup DOMAIN mem.chain /\ chain[h] = NextHash
      /\ \A x \in DOMAIN mem.chain \ {h} : chain[x] = mem.chain[x]
  <2>1. chain = Over(block, mem.chain)
    OBVIOUS
  <2> HIDE DEF chain
  <2> QED
    BY <1>2, <1>3a, <2>1
<1> HIDE DEF blocks, chain
<1>6. s \in Snapshot /\ s.height = h
  BY <1>1, <1>2, <1>4, <1>5 DEF Snapshot
<1>7. t.height = h /\ t.blocks = blocks /\ t.chain = chain
  BY <1>1 DEF Snapshot
<1>8. mem.height \in Int /\ h > 0 /\ Recorded(h) = {h} \cup Recorded(mem.height) /\ h \notin Recorded(mem.height)
  BY <1>1 DEF Recorded, Heights, h
<1>9. Whole(t)
  <2>1. \A x \in Recorded(mem.height) : x \in DOMAIN mem.blocks /\ mem.blocks[x] = mem.chain[x] /\ x \in DOMAIN mem.chain
    BY <1>1 DEF Whole
  <2>2. \A x \in Recorded(h) : x \in DOMAIN blocks /\ blocks[x] = chain[x]
    BY <1>4, <1>5, <1>8, <2>1
  <2>3. DOMAIN chain = Recorded(h)
    BY <1>1, <1>5, <1>8 DEF Whole
  <2>4. h # 0
    BY <1>8
  <2> HIDE DEF t
  <2> QED
    BY <1>7, <2>2, <2>3, <2>4 DEF Whole
<1>10. up /\ s.height > 0 /\ syncs' \in 0 .. MaxSyncs /\ Whole([s EXCEPT !.hash = NextHash])
  BY <1>1, <1>6, <1>8, <1>9
<1> HIDE DEF s, t
<1> QED
  BY <1>1, <1>6, <1>10, NewHeadKeeps

LEMMA ImportKeeps ==
  ASSUME IInv, NEW height \in Heights, NEW common \in Heights, NEW longer \in BOOLEAN,
         NEW validators \in SUBSET ValidatorIds, NEW accounts \in SUBSET Addresses,
         NEW offline \in SUBSET ValidatorIds,
         Import(height, common, longer, validators, accounts, offline)
  PROVE  IInv' /\ disk' = disk
<1> DEFINE top == IF longer THEN MaxHeight ELSE height
           chain == [h \in Recorded(height) |-> IF h <= common THEN mem.chain[h] ELSE NextHash]
           rest == [h \in Recorded(top) |-> NextHash]
           blocks == Over(chain, rest)
           s == [height |-> height, hash |-> 0, chain |-> chain, blocks |-> blocks,
                 validators |-> validators, accounts |-> accounts, pending |-> {}, offline |-> offline]
           t == [s EXCEPT !.hash = NextHash]
<1>1. /\ syncs > 0 /\ syncs \in 0 .. MaxSyncs /\ syncs' = syncs - 1 /\ mem \in Snapshot
      /\ height > 0 /\ common <= mem.height /\ common <= height
      /\ changes \in Nat /\ changes < MaxChanges /\ NewHead(s)
  BY DEF Import, NewHead, IInv, StorageTypeOK
<1>2. up /\ Whole(mem)
  BY <1>1 DEF Import, IInv, WholeInv
<1>3. NextHash \in Hashes /\ top \in Heights /\ Recorded(height) \in SUBSET Heights /\ Recorded(top) \in SUBSET Heights
  BY <1>1 DEF Hashes, NextHash, Heights, Recorded
<1> HIDE DEF top
<1>4. chain \in Chains
  <2>1. \A h \in Recorded(mem.height) : mem.chain[h] \in Hashes
    BY <1>1, <1>2 DEF Whole, Snapshot, Chains
  <2>2. \A h \in Recorded(height) : h <= common => h \in Recorded(mem.height)
    BY <1>1 DEF Recorded, Heights, Snapshot
  <2>3. chain \in [Recorded(height) -> Hashes]
    BY <1>3, <2>1, <2>2
  <2> HIDE DEF chain
  <2> QED
    BY <1>3, <2>3 DEF Chains
<1>5. rest \in Chains
  <2>1. rest \in [Recorded(top) -> Hashes]
    BY <1>3
  <2> HIDE DEF rest
  <2> QED
    BY <1>3, <2>1 DEF Chains
<1>6. DOMAIN chain = Recorded(height)
  OBVIOUS
<1> HIDE DEF chain, rest
<1>7. blocks \in Chains /\ \A h \in Recorded(height) : h \in DOMAIN blocks /\ blocks[h] = chain[h]
  <2>1. /\ Over(chain, rest) \in Chains
        /\ DOMAIN Over(chain, rest) = DOMAIN chain \cup DOMAIN rest
        /\ \A h \in DOMAIN chain : Over(chain, rest)[h] = chain[h]
    BY <1>4, <1>5, OnTop
  <2>2. blocks = Over(chain, rest)
    OBVIOUS
  <2> HIDE DEF blocks
  <2> QED
    BY <1>6, <2>1, <2>2
<1> HIDE DEF blocks
<1>8. s \in Snapshot /\ s.height = height /\ s.height > 0
  BY <1>1, <1>4, <1>7 DEF Snapshot, Hashes
<1>9. Whole(t)
  <2>1. t.height = height /\ t.blocks = blocks /\ t.chain = chain
    OBVIOUS
  <2>2. height # 0
    BY <1>1 DEF Heights
  <2> HIDE DEF t
  <2> QED
    BY <1>6, <1>7, <2>1, <2>2 DEF Whole
<1>10. syncs' \in 0 .. MaxSyncs
  BY <1>1
<1>11. Whole([s EXCEPT !.hash = NextHash])
  BY <1>9
<1> HIDE DEF s, t
<1> QED
  BY <1>1, <1>2, <1>8, <1>10, <1>11, NewHeadKeeps

LEMMA MarkOfflineKeeps ==
  ASSUME IInv, NEW v \in ValidatorIds, NEW offline \in BOOLEAN,
         MarkOffline(v, offline)
  PROVE  IInv' /\ disk' = disk
<1> DEFINE s == [mem EXCEPT !.offline = IF offline THEN @ \cup {v} ELSE @ \ {v}]
<1>1. /\ up /\ mem \in Snapshot /\ Whole(mem) /\ v \in mem.validators
      /\ changes \in Nat /\ changes < MaxChanges /\ changes' = changes + 1
      /\ UNCHANGED <<isSeed, up, syncs, disk, saved, failed, deleted, lowered>> /\ Save(s)
      /\ lowered \in Hashes /\ lowered < NextHash /\ mem.hash < NextHash
      /\ syncs \in 0 .. MaxSyncs /\ deleted \subseteq ValidatorIds \cup Addresses
  BY DEF MarkOffline, IInv, StorageTypeOK, WholeInv, MadeInv
<1>2. /\ s \in Snapshot /\ s.height = mem.height /\ s.hash = mem.hash /\ s.chain = mem.chain
      /\ s.validators = mem.validators /\ s.accounts = mem.accounts /\ s.blocks = mem.blocks
  BY <1>1 DEF Snapshot
<1>3. Whole(s) /\ s.height > 0 /\ Older(mem, s, deleted', lowered')
  BY <1>1, <1>2 DEF Whole, Older, Snapshot, Heights, Hashes
<1>4. /\ changes' \in 0 .. MaxChanges /\ changes <= changes' /\ s.hash < changes' + 2
      /\ lowered' \in Hashes /\ lowered <= lowered' /\ lowered' < changes' + 2
      /\ syncs' \in 0 .. MaxSyncs
  BY <1>1, <1>2 DEF Snapshot, Hashes, NextHash
<1>5. deleted' \subseteq ValidatorIds \cup Addresses /\ deleted \subseteq deleted'
  BY <1>1
<1> HIDE DEF s
<1>6. IInv'
  BY <1>1, <1>2, <1>3, <1>4, <1>5, SaveKeeps
<1> QED
  BY <1>1, <1>6

\* A peer is asked for its state, or does not answer.
LEMMA AskKeeps ==
  ASSUME IInv, AskPeer \/ SyncFails
  PROVE  IInv' /\ disk' = disk
<1>1. UNCHANGED <<isSeed, up, mem, disk, queue, histories>> /\ syncs' \in 0 .. MaxSyncs
  BY DEF AskPeer, SyncFails, IInv, StorageTypeOK
<1>2. StorageTypeOK' /\ Positions' = Positions
  BY <1>1 DEF IInv, StorageTypeOK, histories, Positions
<1>3. WholeInv' /\ MadeInv' /\ OrderInv' /\ OneSnapshot'
  BY <1>1, <1>2 DEF IInv, WholeInv, MadeInv, NextHash, OrderInv, OneSnapshot, HeadOf, histories
<1> QED
  BY <1>1, <1>2, <1>3 DEF IInv

LEMMA ProcessKeeps ==
  ASSUME IInv, Crash \/ Restart
  PROVE  IInv'
<1> USE DEF IInv, histories
<1>1. CASE Crash
  <2>1. <<>> \in Seq(Snapshot) /\ Positions' = {}
    BY <1>1 DEF Crash, Positions
  <2>2. 0 \in 0 .. MaxSyncs
    OBVIOUS
  <2>3. Genesis \in Snapshot
    <3>1. <<>> \in [{} -> Hashes]
      OBVIOUS
    <3>2. <<>> \in Chains
      BY <3>1 DEF Chains
    <3> QED
      BY <3>2 DEF Genesis, Snapshot, Heights, Hashes
  <2> QED
    BY <1>1, <2>1, <2>2, <2>3
       DEF Crash, StorageTypeOK, WholeInv, MadeInv, NextHash, OrderInv, OneSnapshot, HeadOf
<1>2. CASE Restart
  <2>1. queue = <<>> /\ Positions' = {} /\ queue' = queue
    BY <1>2 DEF Restart, Positions
  <2>2. Older(disk, disk, deleted, lowered)
    BY OlderItself DEF StorageTypeOK
  <2> QED
    BY <1>2, <2>1, <2>2
       DEF Restart, StorageTypeOK, WholeInv, MadeInv, NextHash, OrderInv, OneSnapshot, HeadOf
<1> QED
  BY <1>1, <1>2

\* A store without a chain has no accounts and validators: whatever comes is
\* later.
LEMMA FirstStartKeeps ==
  ASSUME IInv, FirstStart
  PROVE  IInv'
<1>1. /\ queue = <<>> /\ disk \in Snapshot /\ disk.height = 0 /\ disk.hash = 0
      /\ disk.validators = {} /\ disk.accounts = {}
      /\ up' /\ UNCHANGED <<isSeed, syncs, disk, saved, failed, deleted, lowered, changes>>
      /\ changes \in Nat
  <2>1. /\ ~up /\ disk.height = 0 /\ up' /\ UNCHANGED <<isSeed, syncs, disk, histories>>
    BY DEF FirstStart
  <2>2. queue = <<>> /\ disk \in Snapshot /\ Whole(disk) /\ changes \in Nat
    BY <2>1 DEF IInv, WholeInv, StorageTypeOK
  <2>3. disk.hash = 0 /\ disk.validators = {} /\ disk.accounts = {}
    BY <2>1, <2>2 DEF Whole
  <2> QED
    BY <2>1, <2>2, <2>3 DEF histories
<1>2. \A s \in Snapshot : Older(disk, s, deleted, lowered)
  BY <1>1 DEF Older, Snapshot, Heights, Hashes
<1>3. /\ Genesis \in Snapshot /\ Whole(Genesis) /\ Genesis.blocks = <<>> /\ Genesis.chain = <<>>
      /\ Genesis.hash = 0
  <2>1. <<>> \in [{} -> Hashes] /\ DOMAIN <<>> = {}
    OBVIOUS
  <2>2. <<>> \in Chains
    BY <2>1 DEF Chains
  <2>3. Recorded(0) = {}
    BY DEF Recorded
  <2> QED
    BY <2>1, <2>2, <2>3 DEF Genesis, Snapshot, Heights, Hashes, Whole
<1>4. CASE isSeed
  <2>1. PICK seed \in ValidatorIds :
          Save([Genesis EXCEPT !.height = 1, !.hash = 1, !.validators = {seed}])
    BY <1>4 DEF FirstStart
  <2> DEFINE s == [Genesis EXCEPT !.height = 1, !.hash = 1, !.validators = {seed}]
  <2>2. s \in Snapshot /\ s.height = 1 /\ s.hash = 1 /\ s.blocks = <<>> /\ s.chain = <<>>
    <3>1. 1 \in Heights /\ 1 \in Hashes
      BY DEF Heights, Hashes
    <3> QED
      BY <1>3, <3>1 DEF Genesis, Snapshot
  <2>3. Whole(s)
    <3>1. Recorded(1) = {} /\ DOMAIN <<>> = {}
      BY DEF Recorded
    <3> HIDE DEF s
    <3> QED
      BY <2>2, <3>1 DEF Whole
  <2>4. queue' = <<s>> /\ mem' = s
    BY <1>1, <2>1 DEF Save
  <2> HIDE DEF s
  <2>5. queue' \in Seq(Snapshot) /\ Positions' = {1} /\ queue'[1] = s
    BY <2>2, <2>4 DEF Positions
  <2>6. Older(s, s, deleted, lowered)
    BY <2>2, OlderItself
  <2>7. MadeInv'
    BY <1>1, <2>2, <2>4, <2>5 DEF IInv, MadeInv, NextHash
  <2>8. StorageTypeOK' /\ WholeInv' /\ OneSnapshot'
    BY <1>1, <2>2, <2>3, <2>4, <2>5 DEF IInv, StorageTypeOK, WholeInv, OneSnapshot, HeadOf
  <2>9. OrderInv'
    BY <1>1, <1>2, <2>2, <2>4, <2>5, <2>6 DEF OrderInv
  <2> QED
    BY <1>1, <2>7, <2>8, <2>9 DEF IInv
<1>5. CASE ~isSeed
  <2>1. mem' = Genesis /\ queue' = <<>> /\ Positions' = {}
    BY <1>1, <1>5 DEF FirstStart, Positions
  <2>2. MadeInv'
    BY <1>1, <1>3, <2>1 DEF IInv, MadeInv, NextHash
  <2> QED
    BY <1>1, <1>2, <1>3, <2>1, <2>2
       DEF IInv, StorageTypeOK, WholeInv, OrderInv, OneSnapshot, HeadOf
<1> QED
  BY <1>4, <1>5

LEMMA Invariance ==
  ASSUME IInv, [StorageNext]_storageVars
  PROVE  IInv' /\ DiskStep
<1>1. disk' = disk => DiskStep
  BY DEF IInv, StorageTypeOK, Snapshot, Heights, Hashes, DiskStep
<1>2. CASE Write
  BY <1>2, WriteKeeps
<1>3. CASE WriteFails
  BY <1>1, <1>3, WriteFailsKeeps DEF WriteFails
<1>4. ASSUME NEW pending \in SUBSET ValidatorIds, NEW validators \in SUBSET ValidatorIds,
             NEW accounts \in SUBSET Addresses, AddBlock(pending, validators, accounts)
      PROVE  IInv' /\ DiskStep
  BY <1>1, <1>4, AddBlockKeeps
<1>5. ASSUME NEW height \in Heights, NEW common \in Heights, NEW longer \in BOOLEAN,
             NEW validators \in SUBSET ValidatorIds, NEW accounts \in SUBSET Addresses,
             NEW offline \in SUBSET ValidatorIds,
             Import(height, common, longer, validators, accounts, offline)
      PROVE  IInv' /\ DiskStep
  BY <1>1, <1>5, ImportKeeps
<1>6. ASSUME NEW v \in ValidatorIds, NEW offline \in BOOLEAN, MarkOffline(v, offline)
      PROVE  IInv' /\ DiskStep
  BY <1>1, <1>6, MarkOfflineKeeps
<1>7. CASE Crash \/ Restart
  <2>1. disk' = disk
    BY <1>7 DEF Crash, Restart, histories
  <2> QED
    BY <1>1, <1>7, <2>1, ProcessKeeps
<1>8. CASE FirstStart
  <2>1. disk' = disk
    BY <1>8 DEF FirstStart
  <2> QED
    BY <1>1, <1>8, <2>1, FirstStartKeeps
<1>9. CASE AskPeer \/ SyncFails
  BY <1>1, <1>9, AskKeeps
<1>10. CASE UNCHANGED storageVars
  BY <1>1, <1>10
     DEF storageVars, histories, IInv, StorageTypeOK, WholeInv, MadeInv, NextHash, OrderInv, OneSnapshot,
         HeadOf, Positions
<1> QED
  BY <1>2, <1>3, <1>4, <1>5, <1>6, <1>7, <1>8, <1>9, <1>10 DEF StorageNext

-----------------------------------------------------------------------------

\* Every reachable state satisfies the inductive invariant.
THEOREM StorageInvariant == StorageSpec => []IInv
<1>1. StorageInit => IInv
  BY Initially
<1>2. IInv /\ [StorageNext]_storageVars => IInv'
  BY Invariance
<1> QED
  BY <1>1, <1>2, PTL DEF StorageSpec

\* persistNodeData, writeBatch: the store holds one snapshot, the last one
\* written, and beside it only blocks, and accounts and validators that the
\* state had dropped.
THEOREM StoreHoldsOneSnapshot == StorageSpec => []OneSnapshot
<1>1. IInv => OneSnapshot
  BY DEF IInv
<1> QED
  BY <1>1, StorageInvariant, PTL

\* Each snapshot carries all blocks: after any failed writes, crashes and
\* imports the store has every block of its chain, and not another in its place.
THEOREM StoreLosesNoBlock == StorageSpec => []NoBlockLost
<1>1. IInv => NoBlockLost
  BY DEF IInv, WholeInv, Whole, NoBlockLost
<1> QED
  BY <1>1, StorageInvariant, PTL

\* NodeStore.save: the head on disk never goes back, and the height only after
\* an import took it back (syncFromPeers).
THEOREM StoreGoesForward == StorageSpec => DiskForward
<1>1. IInv /\ [StorageNext]_storageVars => [DiskStep]_storageVars
  BY Invariance
<1> QED
  BY <1>1, StorageInvariant, PTL DEF StorageSpec, DiskForward, DiskStep

-----------------------------------------------------------------------------
(* The network a node finds. *)

\* An entry under an address is the node of that address, and of another node.
AddressesTrue ==
  \A n, m \in Nodes : \A e \in peers[n] : e.id = Address(m) => e.at = m /\ m # n

\* A process that does not run has no memory.
Forgotten == \A n \in Nodes \ running : peers[n] = {} /\ failing[n] = {}

PeersInv == TypeOK /\ AddressesTrue /\ Forgotten

Calm == stops = 0 /\ timeouts = 0

\* One of v and w knows the other, or is being told of it.
Linked(v, w) ==
  \/ Knows(v, w) \/ Knows(w, v)
  \/ [to |-> v, of |-> w] \in calls \/ [to |-> w, of |-> v] \in calls

\* While nothing has gone wrong: nodes are known, and told of, only once they
\* run; nobody misses a validator it has the address of; and of any two
\* validators the seed node knows, or counts on, one will know the other.
CalmInv ==
  /\ Seed \notin running => leaving # {}
  /\ \A n, m \in Nodes : Knows(n, m) => m \in running \/ m = Seed
  /\ \A c \in calls : c.of \in running \/ c.of = Seed
  /\ \A n \in Nodes : \A v \in Validators : Address(v) \notin failing[n]
  /\ \A v, w \in Validators : v # w /\ Knows(Seed, v) /\ Knows(Seed, w) => Linked(v, w)
  /\ leaving \subseteq running
  /\ \A v, w \in leaving : v # w => Linked(v, w)
  /\ Seed \notin running => \A v, w \in leaving : v # w => Knows(v, w) \/ Knows(w, v)

HIDE StorageAssumption
USE NodesAssumption

-----------------------------------------------------------------------------

LEMMA SlowCounted ==
  ASSUME TypeOK, NEW n \in Nodes, NEW slow \in SUBSET peers[n]
  PROVE  IsFiniteSet(slow) /\ Cardinality(slow) \in Nat /\ (Cardinality(slow) = 0 <=> slow = {})
<1>. DEFINE Ps == ({"address", "name"} \X Nodes) \X (Nodes \cup {Nowhere})
            f == [p \in Ps |-> [id |-> p[1], at |-> p[2]]]
<1>1. IsFiniteSet(Nodes)
  BY FS_Union, FS_Singleton DEF Nodes
<1>2. IsFiniteSet({"address", "name"}) /\ IsFiniteSet(Nodes \cup {Nowhere})
  <2>1. {"address", "name"} = {"address"} \cup {"name"}
    OBVIOUS
  <2>2. IsFiniteSet({"address"} \cup {"name"})
    BY FS_Union, FS_Singleton
  <2>. QED
    BY <1>1, <2>1, <2>2, FS_Union, FS_Singleton
<1>3. IsFiniteSet(Ps)
  BY <1>1, <1>2, FS_Product
<1>4. f \in [Ps -> Entry]
  BY DEF Entry
<1>5. \A e \in Entry : \E p \in Ps : f[p] = e
  <2>. SUFFICES ASSUME NEW e \in Entry PROVE \E p \in Ps : f[p] = e
    OBVIOUS
  <2>1. <<e.id, e.at>> \in Ps /\ e = [id |-> e.id, at |-> e.at]
    BY DEF Entry
  <2>. QED
    BY <2>1
<1>6. IsFiniteSet(Entry)
  <2>1. f \in Surjection(Ps, Entry)
    BY <1>4, <1>5 DEF Surjection
  <2>. HIDE DEF f, Ps
  <2>. QED
    BY <1>3, <2>1, FS_Surjection
<1>7. slow \subseteq Entry
  BY DEF TypeOK
<1>. QED
  BY <1>6, <1>7, FS_Subset, FS_CardinalityType, FS_EmptySet

\* Addresses and names are never the same.
LEMMA IdsApart ==
  ASSUME NEW n, NEW m
  PROVE  /\ Address(n) # Name(m)
         /\ Address(n) = Address(m) <=> n = m
         /\ Name(n) = Name(m) <=> n = m
BY DEF Address, Name

\* What is built from the files holds no address.
LEMMA FromFiles ==
  ASSUME NEW n \in Nodes
  PROVE  /\ BootstrapPeers(n) \subseteq Entry
         /\ \A m : \A e \in BootstrapPeers(n) : e.id # Address(m)
         /\ \A e, f \in BootstrapPeers(n) : e.id = f.id => e = f
         /\ Bootstrap[n] \ {n} \in SUBSET Nodes
         /\ Fallbacks(n) \subseteq Nodes /\ ConfigPeers(n) \subseteq Nodes
<1>1. Bootstrap[n] \subseteq Nodes
  OBVIOUS
<1>2. Fallbacks(n) \subseteq Nodes /\ ConfigPeers(n) \subseteq Nodes
  BY <1>1 DEF Fallbacks, ConfigPeers, Nodes, Validators
<1>3. \A e \in BootstrapPeers(n) : \E b \in Bootstrap[n] : e = [id |-> Name(b), at |-> b]
  BY DEF BootstrapPeers
<1>4. BootstrapPeers(n) \subseteq Entry
  BY <1>1, <1>3 DEF Entry, Name
<1>. QED
  BY <1>1, <1>2, <1>3, <1>4, IdsApart

\* Announcements go to other nodes, and tell them of one.
LEMMA ToType ==
  ASSUME NEW n \in Nodes, NEW targets \in SUBSET (Nodes \cup {Nowhere})
  PROVE  /\ To(targets, n) \subseteq Announcement
         /\ \A c \in To(targets, n) : c.of = n
         /\ \A m \in targets : m \in Nodes /\ m # n => [to |-> m, of |-> n] \in To(targets, n)
BY DEF To, Announcement

\* What a node announces is its own address.
LEMMA AnnouncesType ==
  ASSUME NEW n \in Nodes, NEW known \in SUBSET Entry
  PROVE  Announces(n, known) \subseteq {c \in Announcement : c.of = n /\ n # Seed}
<1>1. Targets(n, known) \in SUBSET (Nodes \cup {Nowhere})
  BY FromFiles DEF Targets, Entry
<1>. QED
  BY <1>1, ToType DEF Announces

-----------------------------------------------------------------------------
(* Who knows whom after a step. *)

\* An entry under an address is the address known.
LEMMA KnowsEntry ==
  ASSUME NEW n, NEW m
  PROVE  Knows(n, m) <=> \E e \in peers[n] : e.id = Address(m)
BY DEF Knows, Ids

LEMMA AnnouncedKnows ==
  ASSUME PeersInv, NEW c \in calls, Announced(c)
  PROVE  /\ PeersInv'
         /\ \A n, m \in Nodes : Knows(n, m)' <=> Knows(n, m) \/ (n = c.to /\ m = c.of)
         /\ calls' = (calls \ {c}) \cup Replies(c.to, c.of)
         /\ Replies(c.to, c.of) \subseteq {d \in Announcement : d.of \in {c.to, c.of}}
         /\ ~Knows(c.to, c.of) =>
              \A m \in Nodes \ {c.of} : Knows(c.to, m) => [to |-> m, of |-> c.of] \in calls'
<1>. DEFINE new == [id |-> Address(c.of), at |-> c.of]
            kept == {e \in peers[c.to] : e.at # c.of}
<1>1. c \in Announcement /\ c.to \in Nodes /\ c.of \in Nodes /\ c.to # c.of
  BY DEF PeersInv, TypeOK, Announcement
<1>2. /\ peers \in [Nodes -> SUBSET Entry]
      /\ peers' = [peers EXCEPT ![c.to] = kept \cup {new}]
      /\ \A n \in Nodes : peers'[n] = IF n = c.to THEN kept \cup {new} ELSE peers[n]
  BY <1>1 DEF PeersInv, TypeOK, Announced
<1>3. new \in Entry /\ new.id = Address(c.of) /\ new.at = c.of
  BY <1>1 DEF Entry, Address
<1>. HIDE DEF new
<1>4. \A e \in kept : e.id # Address(c.of)
  BY <1>1 DEF PeersInv, AddressesTrue
<1>5. \A n, m \in Nodes : Knows(n, m)' <=> Knows(n, m) \/ (n = c.to /\ m = c.of)
  <2>. SUFFICES ASSUME NEW n \in Nodes, NEW m \in Nodes
                PROVE  Knows(n, m)' <=> Knows(n, m) \/ (n = c.to /\ m = c.of)
    OBVIOUS
  <2>1. Knows(n, m)' <=> \E e \in peers'[n] : e.id = Address(m)
    BY DEF Knows, Ids
  <2>2. Knows(n, m) <=> \E e \in peers[n] : e.id = Address(m)
    BY KnowsEntry
  <2>3. CASE n # c.to
    BY <1>2, <2>1, <2>2, <2>3
  <2>4. CASE n = c.to /\ m = c.of
    BY <1>2, <1>3, <2>1, <2>4
  <2>5. CASE n = c.to /\ m # c.of
    <3>1. \A e \in peers[n] : e.id = Address(m) => e.at = m
      BY DEF PeersInv, AddressesTrue
    <3>. QED
      BY <1>2, <1>3, <2>1, <2>2, <2>5, <3>1, IdsApart
  <2>. QED
    BY <2>3, <2>4, <2>5
<1>6. Replies(c.to, c.of) \subseteq {d \in Announcement : d.of \in {c.to, c.of}}
  <2>1. {e.at : e \in peers[c.to]} \in SUBSET (Nodes \cup {Nowhere})
    BY <1>1, <1>2 DEF Entry
  <2>2. /\ To({c.of}, c.to) \subseteq {d \in Announcement : d.of = c.to}
        /\ To({e.at : e \in peers[c.to]}, c.of) \subseteq {d \in Announcement : d.of = c.of}
    BY <1>1, <2>1, ToType
  <2>. QED
    BY <2>2 DEF Replies
<1>7. calls' = (calls \ {c}) \cup Replies(c.to, c.of)
  BY DEF Announced
<1>8. ASSUME ~Knows(c.to, c.of), NEW m \in Nodes \ {c.of}, Knows(c.to, m)
      PROVE  [to |-> m, of |-> c.of] \in calls'
  <2>1. PICK e \in peers[c.to] : e.id = Address(m)
    BY <1>8, KnowsEntry
  <2>2. e.at = m
    BY <1>1, <2>1 DEF PeersInv, AddressesTrue
  <2>3. m \in {f.at : f \in peers[c.to]} /\ m # Nowhere
    BY <2>1, <2>2
  <2>4. [to |-> m, of |-> c.of] \in To({f.at : f \in peers[c.to]}, c.of)
    BY <2>3 DEF To
  <2>. QED
    BY <1>7, <1>8, <2>4 DEF Replies
<1>9. TypeOK'
  <2>1. peers' \in [Nodes -> SUBSET Entry]
    BY <1>1, <1>2, <1>3
  <2>2. \A n \in Nodes : \A e, f \in peers'[n] : e.id = f.id => e = f
    <3>. SUFFICES ASSUME NEW n \in Nodes, NEW e \in peers'[n], NEW f \in peers'[n], e.id = f.id
                  PROVE  e = f
      OBVIOUS
    <3>1. CASE n # c.to
      BY <1>2, <3>1 DEF PeersInv, TypeOK
    <3>2. CASE n = c.to
      BY <1>1, <1>2, <1>3, <1>4, <3>2 DEF PeersInv, TypeOK
    <3>. QED
      BY <3>1, <3>2
  <2>. QED
    BY <1>6, <1>7, <2>1, <2>2 DEF PeersInv, TypeOK, Announced, faults
<1>10. AddressesTrue'
  <2>. SUFFICES ASSUME NEW n \in Nodes, NEW m \in Nodes, NEW e \in peers'[n], e.id = Address(m)
                PROVE  e.at = m /\ m # n
    BY DEF AddressesTrue
  <2>1. CASE e \in peers[n]
    BY <2>1 DEF PeersInv, AddressesTrue
  <2>2. CASE n = c.to /\ e = new
    BY <1>1, <1>3, <2>2, IdsApart
  <2>. QED
    BY <1>2, <2>1, <2>2
<1>11. Forgotten'
  BY <1>2 DEF PeersInv, Forgotten, Announced
<1>. QED
  BY <1>5, <1>6, <1>7, <1>8, <1>9, <1>10, <1>11 DEF PeersInv

\* A call that fails under fair conditions was to a node that is down.
LEMMA NotAnnouncedKeeps ==
  ASSUME PeersInv, NEW c \in calls, NotAnnounced(c)
  PROVE  PeersInv' /\ (Calm' => c.to \notin running)
<1>1. /\ UNCHANGED <<running, peers, failing, lookups, leaving, stops>>
      /\ calls' \subseteq calls
      /\ timeouts' \in 0 .. MaxTimeouts
      /\ c.to \notin running \/ timeouts' # 0
  BY DEF NotAnnounced, PeersInv, TypeOK
<1>. QED
  BY <1>1 DEF PeersInv, TypeOK, AddressesTrue, Forgotten, Calm

\* What a node is asked for in vain is what it knows, and while nothing has
\* gone wrong no node that runs.
LEMMA SyncKeeps ==
  ASSUME PeersInv, NEW n \in Nodes, Sync(n)
  PROVE  /\ PeersInv'
         /\ UNCHANGED <<running, peers, lookups, leaving, stops>>
         /\ calls \subseteq calls'
         /\ \A c \in calls' \ calls : c.of = n /\ n # Seed
         /\ Calm' => Calm
         /\ Calm' => \A k, m \in Nodes :
              Address(m) \in failing'[k] =>
                Address(m) \in failing[k] \/ (Knows(k, m) /\ m \notin running)
<1>1. n \in running /\ UNCHANGED <<running, peers, lookups, leaving, stops>>
  BY DEF Sync
<1>2. PICK slow \in SUBSET {e \in peers[n] : e.at \in running} :
        LET down == {e \in peers[n] : e.at \notin running} \cup slow
        IN  /\ timeouts + Cardinality(slow) <= MaxTimeouts
            /\ timeouts' = timeouts + Cardinality(slow)
            /\ failing' = [failing EXCEPT ![n] = {e.id : e \in down}]
            /\ calls' = IF down = {} THEN calls \cup Announces(n, peers[n]) ELSE calls
  BY DEF Sync
<1>. DEFINE down == {e \in peers[n] : e.at \notin running} \cup slow
<1>3. /\ timeouts + Cardinality(slow) <= MaxTimeouts
      /\ timeouts' = timeouts + Cardinality(slow)
      /\ failing' = [failing EXCEPT ![n] = {e.id : e \in down}]
      /\ calls' = calls \/ calls' = calls \cup Announces(n, peers[n])
  BY <1>2
<1>4. slow \subseteq peers[n] /\ peers[n] \subseteq Entry /\ down \subseteq peers[n]
  BY DEF PeersInv, TypeOK
<1>5. Announces(n, peers[n]) \subseteq {c \in Announcement : c.of = n /\ n # Seed}
  BY <1>4, AnnouncesType
<1>6. Cardinality(slow) \in Nat /\ (Cardinality(slow) = 0 => slow = {}) /\ timeouts \in Nat
  BY <1>4, SlowCounted DEF PeersInv, TypeOK
<1>7. {e.id : e \in down} \subseteq {"address", "name"} \X Nodes
  BY <1>4 DEF Entry
<1>8. failing' \in [Nodes -> SUBSET ({"address", "name"} \X Nodes)]
  BY <1>3, <1>7 DEF PeersInv, TypeOK
<1>9. TypeOK'
  BY <1>1, <1>3, <1>5, <1>6, <1>8 DEF PeersInv, TypeOK
<1>10. AddressesTrue' /\ Forgotten'
  BY <1>1, <1>3 DEF PeersInv, TypeOK, AddressesTrue, Forgotten
<1>11. Calm' => Calm /\ slow = {}
  BY <1>1, <1>3, <1>6 DEF Calm
<1>12. ASSUME Calm', NEW k \in Nodes, NEW m \in Nodes, Address(m) \in failing'[k],
              Address(m) \notin failing[k]
       PROVE  Knows(k, m) /\ m \notin running
  <2>1. k = n /\ Address(m) \in {e.id : e \in down}
    BY <1>3, <1>12 DEF PeersInv, TypeOK
  <2>2. PICK e \in peers[n] : e.id = Address(m) /\ e.at \notin running
    BY <1>11, <1>12, <2>1
  <2>3. e.at = m
    BY <2>2 DEF PeersInv, AddressesTrue
  <2>. QED
    BY <2>1, <2>2, <2>3, KnowsEntry
<1>. QED
  BY <1>1, <1>3, <1>5, <1>9, <1>10, <1>11, <1>12 DEF PeersInv

\* Only what was asked for in vain is forgotten.
LEMMA NotAnsweredKnows ==
  ASSUME PeersInv, NEW n \in Nodes, NEW id \in failing[n], NotAnswered(n, id)
  PROVE  /\ PeersInv'
         /\ UNCHANGED <<running, lookups, leaving, faults>>
         /\ n \in running
         /\ calls \subseteq calls'
         /\ \A c \in calls' \ calls : c.of = n /\ n # Seed
         /\ \A k \in Nodes : failing'[k] \subseteq failing[k]
         /\ \A k, m \in Nodes :
              Knows(k, m)' <=> Knows(k, m) /\ ~(k = n /\ id = Address(m))
<1>1. /\ UNCHANGED <<running, lookups, leaving, faults>>
      /\ failing' = [failing EXCEPT ![n] = @ \ {id}]
      /\ peers' = [peers EXCEPT ![n] = Forget(n, id)]
      /\ calls' = calls \/ calls' = calls \cup Announces(n, peers'[n])
  BY DEF NotAnswered
<1>2. /\ Forget(n, id) = {e \in peers[n] : e.id # id}
      /\ \A k \in Nodes : peers'[k] = IF k = n THEN Forget(n, id) ELSE peers[k]
      /\ \A k \in Nodes : failing'[k] \subseteq failing[k] /\ peers'[k] \subseteq peers[k]
      /\ peers' \in [Nodes -> SUBSET Entry]
      /\ failing' \in [Nodes -> SUBSET ({"address", "name"} \X Nodes)]
  BY <1>1 DEF PeersInv, TypeOK, Forget
<1>3. Announces(n, peers'[n]) \subseteq {c \in Announcement : c.of = n /\ n # Seed}
  BY <1>2, AnnouncesType
<1>4. n \in running
  BY DEF PeersInv, Forgotten
<1>5. TypeOK'
  BY <1>1, <1>2, <1>3 DEF PeersInv, TypeOK, faults
<1>6. AddressesTrue'
  BY <1>2 DEF PeersInv, AddressesTrue
<1>7. Forgotten'
  BY <1>1, <1>2 DEF PeersInv, Forgotten
<1>8. ASSUME NEW k \in Nodes, NEW m \in Nodes
      PROVE  Knows(k, m)' <=> Knows(k, m) /\ ~(k = n /\ id = Address(m))
  <2>1. Knows(k, m)' <=> \E e \in peers'[k] : e.id = Address(m)
    BY DEF Knows, Ids
  <2>. QED
    BY <1>2, <2>1, KnowsEntry
<1>. QED
  BY <1>1, <1>2, <1>3, <1>4, <1>5, <1>6, <1>7, <1>8 DEF PeersInv

\* A node starts with what its files say.
LEMMA StartKnows ==
  ASSUME PeersInv, NEW n \in Nodes, Start(n)
  PROVE  /\ PeersInv'
         /\ n \notin running /\ running' = running \cup {n}
         /\ UNCHANGED <<failing, leaving, faults>>
         /\ lookups' = [lookups EXCEPT ![n] = Bootstrap[n] \ {n}]
         /\ calls \subseteq calls'
         /\ \A c \in calls' \ calls : c.of = n /\ n # Seed
         /\ \A k, m \in Nodes : Knows(k, m)' <=> Knows(k, m) /\ k # n
<1>1. /\ n \notin running /\ running' = running \cup {n}
      /\ UNCHANGED <<failing, leaving, faults>>
      /\ peers' = [peers EXCEPT ![n] = BootstrapPeers(n)]
      /\ lookups' = [lookups EXCEPT ![n] = Bootstrap[n] \ {n}]
      /\ calls' = calls \cup Announces(n, BootstrapPeers(n))
  BY DEF Start
<1>2. /\ \A k \in Nodes : peers'[k] = IF k = n THEN BootstrapPeers(n) ELSE peers[k]
      /\ peers' \in [Nodes -> SUBSET Entry]
      /\ lookups' \in [Nodes -> SUBSET Nodes]
  BY <1>1, FromFiles DEF PeersInv, TypeOK
<1>3. Announces(n, BootstrapPeers(n)) \subseteq {c \in Announcement : c.of = n /\ n # Seed}
  BY FromFiles, AnnouncesType
<1>4. TypeOK'
  <2>1. \A k \in Nodes : \A e, f \in peers'[k] : e.id = f.id => e = f
    BY <1>2, FromFiles DEF PeersInv, TypeOK
  <2>. QED
    BY <1>1, <1>2, <1>3, <2>1 DEF PeersInv, TypeOK, faults
<1>5. AddressesTrue'
  BY <1>2, FromFiles DEF PeersInv, AddressesTrue
<1>6. Forgotten'
  BY <1>1, <1>2 DEF PeersInv, Forgotten
<1>7. ASSUME NEW k \in Nodes, NEW m \in Nodes
      PROVE  Knows(k, m)' <=> Knows(k, m) /\ k # n
  <2>1. Knows(k, m)' <=> \E e \in peers'[k] : e.id = Address(m)
    BY DEF Knows, Ids
  <2>2. k = n => ~Knows(k, m)'
    BY <1>2, <2>1, FromFiles
  <2>. QED
    BY <1>2, <2>1, <2>2, KnowsEntry
<1>. QED
  BY <1>1, <1>3, <1>4, <1>5, <1>6, <1>7 DEF PeersInv

\* What a node lists to others under an address it knows under that address.
LEMMA ListedType ==
  ASSUME PeersInv, NEW m \in Nodes
  PROVE  /\ Listed(m) \subseteq Entry
         /\ \A e, f \in Listed(m) : e.id = f.id => e = f
         /\ \A k \in Nodes : \A e \in Listed(m) : e.id = Address(k) => e \in peers[m]
<1>. DEFINE given == {[id |-> Name(c), at |-> IF m \in External THEN Nowhere ELSE c]
                        : c \in {c \in ConfigPeers(m) : Name(c) \notin Ids(m)}}
<1>1. \A e \in given : \E c \in ConfigPeers(m) :
        /\ Name(c) \notin Ids(m)
        /\ e = [id |-> Name(c), at |-> IF m \in External THEN Nowhere ELSE c]
  OBVIOUS
<1>2. Listed(m) = peers[m] \cup given
  BY DEF Listed
<1>. HIDE DEF given
<1>3. given \subseteq Entry
  <2>. SUFFICES ASSUME NEW e \in given PROVE e \in Entry
    OBVIOUS
  <2>1. PICK c \in ConfigPeers(m) :
          e = [id |-> Name(c), at |-> IF m \in External THEN Nowhere ELSE c]
    BY <1>1
  <2>. QED
    BY <2>1, FromFiles DEF Entry, Name
<1>4. \A e \in given : e.id \notin Ids(m)
  BY <1>1
<1>5. \A e, f \in given : e.id = f.id => e = f
  BY <1>1, IdsApart
<1>6. \A e \in peers[m] : e.id \in Ids(m)
  BY DEF Ids
<1>7. \A k : \A e \in given : e.id # Address(k)
  BY <1>1, IdsApart
<1>8. peers[m] \subseteq Entry /\ \A e, f \in peers[m] : e.id = f.id => e = f
  BY DEF PeersInv, TypeOK
<1>. QED
  BY <1>2, <1>3, <1>4, <1>5, <1>6, <1>7, <1>8

\* An address is learned from who knows it.
LEMMA LookupKnows ==
  ASSUME PeersInv, NEW n \in Nodes, NEW m \in Nodes, Lookup(n, m)
  PROVE  /\ PeersInv'
         /\ UNCHANGED <<running, failing, calls, leaving, stops>>
         /\ m \in lookups[n]
         /\ \A k \in Nodes : lookups'[k] \subseteq lookups[k]
         /\ Calm' => Calm
         /\ \A k, j \in Nodes : /\ Knows(k, j) => Knows(k, j)'
                                /\ Knows(k, j)' => Knows(k, j) \/ (k = n /\ Knows(m, j))
<1>1. /\ UNCHANGED <<running, failing, calls, leaving, stops>>
      /\ n \in running /\ m \in lookups[n]
      /\ peers' = peers \/ peers' = [peers EXCEPT ![n] = @ \cup Added(n, m)]
      /\ timeouts' = timeouts \/ (timeouts < MaxTimeouts /\ timeouts' = timeouts + 1)
      /\ lookups' = [lookups EXCEPT ![n] = @ \ {m}]
  BY DEF Lookup
<1>2. CASE peers' = peers
  BY <1>1, <1>2 DEF PeersInv, TypeOK, AddressesTrue, Forgotten, Calm, Knows, Ids
<1>3. CASE peers' = [peers EXCEPT ![n] = @ \cup Added(n, m)]
  <2>1. Added(n, m) = {e \in Listed(m) : e.id # Address(n) /\ e.id \notin Ids(n)}
    BY DEF Added
  <2>2. /\ \A k \in Nodes : peers'[k] = IF k = n THEN peers[n] \cup Added(n, m) ELSE peers[k]
        /\ peers' \in [Nodes -> SUBSET Entry]
    BY <1>3, <2>1, ListedType DEF PeersInv, TypeOK
  <2>3. \A e \in peers[n] : e.id \in Ids(n)
    BY DEF Ids
  <2>4. \A k \in Nodes : \A e, f \in peers'[k] : e.id = f.id => e = f
    BY <2>1, <2>2, <2>3, ListedType DEF PeersInv, TypeOK
  <2>5. TypeOK'
    <3>1. lookups' \in [Nodes -> SUBSET Nodes] /\ timeouts' \in 0 .. MaxTimeouts
      BY <1>1 DEF PeersInv, TypeOK
    <3>2. UNCHANGED <<running, failing, calls, leaving, stops>>
      BY <1>1
    <3>. QED
      BY <2>2, <2>4, <3>1, <3>2 DEF PeersInv, TypeOK
  <2>6. AddressesTrue'
    <3>. SUFFICES ASSUME NEW k \in Nodes, NEW j \in Nodes, NEW e \in peers'[k], e.id = Address(j)
                  PROVE  e.at = j /\ j # k
      BY DEF AddressesTrue
    <3>1. CASE e \in peers[k]
      BY <3>1 DEF PeersInv, AddressesTrue
    <3>2. CASE k = n /\ e \in Added(n, m)
      BY <2>1, <3>2, ListedType DEF PeersInv, AddressesTrue
    <3>. QED
      BY <2>2, <3>1, <3>2
  <2>7. Forgotten'
    BY <1>1, <2>2 DEF PeersInv, Forgotten
  <2>8. ASSUME NEW k \in Nodes, NEW j \in Nodes
        PROVE  /\ Knows(k, j) => Knows(k, j)'
               /\ Knows(k, j)' => Knows(k, j) \/ (k = n /\ Knows(m, j))
    <3>1. Knows(k, j)' <=> \E e \in peers'[k] : e.id = Address(j)
      BY DEF Knows, Ids
    <3>2. /\ Knows(k, j) <=> \E e \in peers[k] : e.id = Address(j)
          /\ Knows(m, j) <=> \E e \in peers[m] : e.id = Address(j)
      BY KnowsEntry
    <3>3. \A e \in Added(n, m) : e.id = Address(j) => e \in peers[m]
      BY <2>1, ListedType
    <3>. QED
      BY <2>2, <3>1, <3>2, <3>3
  <2>. QED
    BY <1>1, <2>5, <2>6, <2>7, <2>8 DEF PeersInv, TypeOK, Calm
<1>. QED
  BY <1>1, <1>2, <1>3

\* A process that ends loses its memory, and nobody else's.
LEMMA DownKnows ==
  ASSUME PeersInv, NEW n \in Nodes, Down(n)
  PROVE  /\ Forgotten' /\ AddressesTrue'
         /\ running' = running \ {n}
         /\ peers' \in [Nodes -> SUBSET Entry]
         /\ failing' \in [Nodes -> SUBSET ({"address", "name"} \X Nodes)]
         /\ lookups' \in [Nodes -> SUBSET Nodes]
         /\ \A k \in Nodes : /\ peers'[k] \subseteq peers[k] /\ failing'[k] \subseteq failing[k]
                             /\ lookups'[k] \subseteq lookups[k]
         /\ \A k, m \in Nodes : Knows(k, m)' <=> Knows(k, m) /\ k # n
<1>1. /\ running' = running \ {n}
      /\ peers' = [peers EXCEPT ![n] = {}]
      /\ failing' = [failing EXCEPT ![n] = {}]
      /\ lookups' = [lookups EXCEPT ![n] = {}]
  BY DEF Down
<1>2. /\ \A k \in Nodes : peers'[k] = IF k = n THEN {} ELSE peers[k]
      /\ \A k \in Nodes : failing'[k] = IF k = n THEN {} ELSE failing[k]
      /\ \A k \in Nodes : lookups'[k] = IF k = n THEN {} ELSE lookups[k]
      /\ peers' \in [Nodes -> SUBSET Entry]
      /\ failing' \in [Nodes -> SUBSET ({"address", "name"} \X Nodes)]
      /\ lookups' \in [Nodes -> SUBSET Nodes]
  BY <1>1 DEF PeersInv, TypeOK
<1>3. AddressesTrue' /\ Forgotten'
  BY <1>1, <1>2 DEF PeersInv, AddressesTrue, Forgotten
<1>4. ASSUME NEW k \in Nodes, NEW m \in Nodes
      PROVE  Knows(k, m)' <=> Knows(k, m) /\ k # n
  <2>1. Knows(k, m)' <=> \E e \in peers'[k] : e.id = Address(m)
    BY DEF Knows, Ids
  <2>. QED
    BY <1>2, <2>1, KnowsEntry
<1>. QED
  BY <1>1, <1>2, <1>3, <1>4

-----------------------------------------------------------------------------
(* The type. *)

LEMMA InitPeers == Init => PeersInv
<1>. SUFFICES ASSUME Init PROVE PeersInv
  OBVIOUS
<1>1. \A n \in Nodes : peers[n] = IF n = Seed THEN BootstrapPeers(n) ELSE {}
  BY DEF Init
<1>2. Seed \in Nodes
  BY DEF Nodes
<1>3. TypeOK
  <2>1. /\ peers \in [Nodes -> SUBSET Entry]
        /\ \A n \in Nodes : \A e, f \in peers[n] : e.id = f.id => e = f
    BY <1>1, FromFiles DEF Init
  <2>2. /\ lookups \in [Nodes -> SUBSET Nodes]
        /\ failing \in [Nodes -> SUBSET ({"address", "name"} \X Nodes)]
    BY FromFiles DEF Init
  <2>. QED
    BY <1>2, <2>1, <2>2 DEF Init, TypeOK
<1>4. AddressesTrue
  BY <1>1, FromFiles DEF AddressesTrue
<1>5. Forgotten
  BY <1>1 DEF Init, Forgotten
<1>. QED
  BY <1>3, <1>4, <1>5 DEF PeersInv

LEMMA StepPeers == PeersInv /\ [Next]_vars => PeersInv'
<1>. SUFFICES ASSUME PeersInv, [Next]_vars PROVE PeersInv'
  OBVIOUS
<1>1. ASSUME NEW c \in calls, AnnouncementEnds(c) PROVE PeersInv'
  BY <1>1, AnnouncedKnows, NotAnnouncedKeeps DEF AnnouncementEnds
<1>2. ASSUME NEW n \in Nodes, Cycle(n) PROVE PeersInv'
  BY <1>2, SyncKeeps, NotAnsweredKnows DEF Cycle
<1>3. ASSUME NEW n \in Nodes, Start(n) PROVE PeersInv'
  BY <1>3, StartKnows
<1>4. ASSUME NEW n \in Nodes, Stop(n) PROVE PeersInv'
  <2>1. Down(n) /\ UNCHANGED <<calls, leaving, timeouts>> /\ stops' \in 0 .. MaxStops
    BY <1>4 DEF Stop, PeersInv, TypeOK
  <2>2. running' \subseteq Nodes
    BY <2>1, DownKnows DEF PeersInv, TypeOK
  <2>3. \A k \in Nodes : \A e, f \in peers'[k] : e.id = f.id => e = f
    BY <2>1, DownKnows DEF PeersInv, TypeOK
  <2>. QED
    BY <2>1, <2>2, <2>3, DownKnows DEF PeersInv, TypeOK
<1>5. ASSUME NEW n \in Nodes, NEW m \in Nodes, Lookup(n, m) PROVE PeersInv'
  BY <1>5, LookupKnows
<1>6. CASE CheckSeednodeHandoff
  <2>1. leaving' \subseteq Validators
    BY <1>6 DEF CheckSeednodeHandoff, Online
  <2>2. UNCHANGED <<running, peers, failing, lookups, calls, faults>>
    BY <1>6 DEF CheckSeednodeHandoff
  <2>. QED
    BY <2>1, <2>2 DEF PeersInv, TypeOK, AddressesTrue, Forgotten, faults
<1>7. CASE SeedExit
  <2>1. Seed \in Nodes /\ Down(Seed) /\ UNCHANGED <<calls, leaving, faults>>
    BY <1>7 DEF SeedExit, Nodes
  <2>2. running' \subseteq Nodes
    BY <2>1, DownKnows DEF PeersInv, TypeOK
  <2>3. \A k \in Nodes : \A e, f \in peers'[k] : e.id = f.id => e = f
    BY <2>1, DownKnows DEF PeersInv, TypeOK
  <2>. QED
    BY <2>1, <2>2, <2>3, DownKnows DEF PeersInv, TypeOK, faults
<1>8. CASE UNCHANGED vars
  BY <1>8 DEF vars, faults, PeersInv, TypeOK, AddressesTrue, Forgotten
<1>. QED
  BY <1>1, <1>2, <1>3, <1>4, <1>5, <1>6, <1>7, <1>8 DEF Next

\* Every reachable state of Peers has its type; in particular no map holds two
\* entries under one id.
THEOREM PeersTypeCorrect == Spec => []TypeOK
<1>1. PeersInv => TypeOK
  BY DEF PeersInv
<1>. QED
  BY <1>1, InitPeers, StepPeers, PTL DEF Spec

-----------------------------------------------------------------------------
(* The handoff. *)

\* What links two nodes that run is kept as long as nobody forgets either and
\* no call is lost.
LEMMA LinkedKept ==
  ASSUME NEW v \in Nodes, NEW w \in Nodes, Linked(v, w),
         Knows(v, w) => Knows(v, w)', Knows(w, v) => Knows(w, v)',
         \A c \in calls \ calls' : \/ c.to \notin {v, w}
                                   \/ c.to = v /\ c.of = w /\ Knows(v, w)'
                                   \/ c.to = w /\ c.of = v /\ Knows(w, v)'
                                   \/ c.of \notin {v, w}
  PROVE  Linked(v, w)'
<1>1. Linked(v, w)' <=> \/ Knows(v, w)' \/ Knows(w, v)'
                        \/ [to |-> v, of |-> w] \in calls' \/ [to |-> w, of |-> v] \in calls'
  BY DEF Linked
<1>. DEFINE a == [to |-> v, of |-> w]
            b == [to |-> w, of |-> v]
<1>2. a.to = v /\ a.of = w /\ b.to = w /\ b.of = v
  OBVIOUS
<1>3. Knows(v, w) \/ Knows(w, v) \/ a \in calls \/ b \in calls
  BY DEF Linked
<1>. HIDE DEF a, b
<1>4. Linked(v, w)' <=> Knows(v, w)' \/ Knows(w, v)' \/ a \in calls' \/ b \in calls'
  BY <1>1 DEF a, b
<1>5. CASE v # w
  BY <1>2, <1>3, <1>4, <1>5
<1>6. CASE v = w
  BY <1>2, <1>3, <1>4, <1>6
<1>. QED
  BY <1>5, <1>6

\* A step that lets nobody forget a running validator, adds only calls of
\* running nodes and completes or keeps the others, keeps the invariant.
LEMMA CalmKept ==
  ASSUME PeersInv, CalmInv, running' = running, leaving' = leaving,
         \A n, m \in Nodes : Knows(n, m)' => Knows(n, m) \/ m \in running \/ m = Seed,
         \A n \in Nodes : \A v \in Validators \cap running : Knows(n, v) => Knows(n, v)',
         \A c \in calls' \ calls : c.of \in running \/ c.of = Seed,
         \A c \in calls \ calls' : c.to \notin running \/ Knows(c.to, c.of)',
         \A n \in Nodes : \A v \in Validators : Address(v) \notin failing'[n],
         \A v, w \in Validators : v # w /\ Knows(Seed, v)' /\ Knows(Seed, w)' =>
           (Knows(Seed, v) /\ Knows(Seed, w)) \/ Linked(v, w)'
  PROVE  CalmInv'
<1>1. Validators \subseteq Nodes /\ Seed \in Nodes /\ Seed \notin Validators
      /\ leaving \subseteq Validators
  BY DEF PeersInv, TypeOK, Nodes
<1>2. ASSUME NEW v \in Validators \cap running, NEW w \in Validators \cap running, Linked(v, w)
      PROVE  Linked(v, w)'
  <2>1. \A c \in calls \ calls' : \/ c.to \notin {v, w}
                                  \/ c.to = v /\ c.of = w /\ Knows(v, w)'
                                  \/ c.to = w /\ c.of = v /\ Knows(w, v)'
                                  \/ c.of \notin {v, w}
                                  \/ c.to = c.of
    OBVIOUS
  <2>2. \A c \in calls : c.to # c.of
    BY DEF PeersInv, TypeOK, Announcement
  <2>. QED
    BY <1>1, <1>2, <2>1, <2>2, LinkedKept
<1>3. \A v \in Validators : Knows(Seed, v) => v \in running
  BY <1>1 DEF CalmInv
<1>4. \A v, w \in Validators : v # w /\ Knows(Seed, v)' /\ Knows(Seed, w)' => Linked(v, w)'
  BY <1>2, <1>3 DEF CalmInv
<1>5. \A v, w \in leaving : v # w => Linked(v, w)'
  BY <1>1, <1>2 DEF CalmInv
<1>6. Seed \notin running => \A v, w \in leaving : v # w => Knows(v, w)' \/ Knows(w, v)'
  BY <1>1 DEF CalmInv
<1>7. \A n, m \in Nodes : Knows(n, m)' => m \in running \/ m = Seed
  BY DEF CalmInv
<1>8. \A c \in calls' : c.of \in running \/ c.of = Seed
  BY DEF CalmInv
<1>9. /\ CalmInv' <=>
         /\ Seed \notin running' => leaving' # {}
         /\ \A n, m \in Nodes : Knows(n, m)' => m \in running' \/ m = Seed
         /\ \A c \in calls' : c.of \in running' \/ c.of = Seed
         /\ \A n \in Nodes : \A v \in Validators : Address(v) \notin failing'[n]
         /\ \A v, w \in Validators : v # w /\ Knows(Seed, v)' /\ Knows(Seed, w)' => Linked(v, w)'
         /\ leaving' \subseteq running'
         /\ \A v, w \in leaving' : v # w => Linked(v, w)'
         /\ Seed \notin running' => \A v, w \in leaving' : v # w => Knows(v, w)' \/ Knows(w, v)'
  BY DEF CalmInv
<1>. QED
  BY <1>4, <1>5, <1>6, <1>7, <1>8, <1>9 DEF CalmInv

\* An announcement arrives: who tells a node of a newcomer tells the newcomer
\* of none, and everyone it knows of the newcomer.
LEMMA AnnouncedCalm ==
  ASSUME PeersInv, CalmInv, NEW c \in calls, Announced(c)
  PROVE  CalmInv'
<1>1. UNCHANGED <<running, failing, lookups, leaving, faults>> /\ c.to \in running
  BY DEF Announced
<1>2. c.to \in Nodes /\ c.of \in Nodes /\ c.to # c.of
  BY DEF PeersInv, TypeOK, Announcement
<1>3. c.of \in running \/ c.of = Seed
  BY DEF CalmInv
<1>4. \A d \in calls' \ calls : d.of \in running \/ d.of = Seed
  BY <1>1, <1>3, AnnouncedKnows
<1>5. \A d \in calls \ calls' : d = c
  BY AnnouncedKnows
<1>6. ASSUME NEW v \in Validators, NEW w \in Validators, v # w, Knows(Seed, v)', Knows(Seed, w)'
      PROVE  (Knows(Seed, v) /\ Knows(Seed, w)) \/ Linked(v, w)'
  <2>1. Seed \in Nodes /\ v \in Nodes /\ w \in Nodes
    BY DEF Nodes
  <2>2. Linked(v, w)' <=> \/ Knows(v, w)' \/ Knows(w, v)'
                          \/ [to |-> v, of |-> w] \in calls' \/ [to |-> w, of |-> v] \in calls'
    BY DEF Linked
  <2>3. CASE ~Knows(Seed, v)
    <3>1. c.to = Seed /\ c.of = v /\ Knows(Seed, w)
      BY <1>6, <2>1, <2>3, AnnouncedKnows
    <3>. QED
      BY <1>6, <2>1, <2>2, <2>3, <3>1, AnnouncedKnows
  <2>4. CASE ~Knows(Seed, w)
    <3>1. c.to = Seed /\ c.of = w /\ Knows(Seed, v)
      BY <1>6, <2>1, <2>4, AnnouncedKnows
    <3>. QED
      BY <1>6, <2>1, <2>2, <2>4, <3>1, AnnouncedKnows
  <2>. QED
    BY <2>3, <2>4
<1>7. /\ \A n, m \in Nodes : Knows(n, m)' => Knows(n, m) \/ m \in running \/ m = Seed
      /\ \A n, m \in Nodes : Knows(n, m) => Knows(n, m)'
      /\ Knows(c.to, c.of)'
  BY <1>2, <1>3, AnnouncedKnows
<1>8. \A n \in Nodes : \A v \in Validators \cap running : Knows(n, v) => Knows(n, v)'
  BY <1>7 DEF Nodes
<1>9. \A n \in Nodes : \A v \in Validators : Address(v) \notin failing'[n]
  BY <1>1 DEF CalmInv
<1>10. running' = running /\ leaving' = leaving
  BY <1>1
<1>. QED
  BY <1>4, <1>5, <1>6, <1>7, <1>8, <1>9, <1>10, CalmKept

\* A step that changes neither the maps nor who runs.
LEMMA SameKnowledge ==
  ASSUME peers' = peers
  PROVE  \A n, m : Knows(n, m)' <=> Knows(n, m)
BY DEF Knows, Ids

LEMMA CycleCalm ==
  ASSUME PeersInv, CalmInv, NEW n \in Nodes, Cycle(n), Calm'
  PROVE  CalmInv'
<1>1. CASE Sync(n)
  <2>1. /\ running' = running /\ leaving' = leaving /\ peers' = peers
        /\ \A k, m : Knows(k, m)' <=> Knows(k, m)
    BY <1>1, SyncKeeps, SameKnowledge
  <2>2. n \in running
    BY <1>1 DEF Sync
  <2>3. /\ \A c \in calls' \ calls : c.of \in running \/ c.of = Seed
        /\ calls \ calls' = {}
    BY <1>1, <2>2, SyncKeeps
  <2>4. ASSUME NEW k \in Nodes, NEW v \in Validators, Address(v) \in failing'[k]
        PROVE  FALSE
    <3>1. v \in Nodes /\ v # Seed
      BY DEF Nodes
    <3>2. Address(v) \in failing[k] \/ (Knows(k, v) /\ v \notin running)
      BY <1>1, <2>4, <3>1, SyncKeeps
    <3>. QED
      BY <3>1, <3>2 DEF CalmInv
  <2>. QED
    BY <2>1, <2>3, <2>4, CalmKept
<1>2. ASSUME NEW id \in failing[n], NotAnswered(n, id)
      PROVE  CalmInv'
  <2>1. /\ running' = running /\ leaving' = leaving /\ n \in running
        /\ \A c \in calls' \ calls : c.of = n
        /\ calls \ calls' = {}
        /\ \A k \in Nodes : failing'[k] \subseteq failing[k]
        /\ \A k, m \in Nodes : Knows(k, m)' <=> Knows(k, m) /\ ~(k = n /\ id = Address(m))
    BY <1>2, NotAnsweredKnows
  <2>2. \A v \in Validators : id # Address(v)
    BY <1>2 DEF CalmInv
  <2>3. Validators \subseteq Nodes /\ Seed \in Nodes
    BY DEF Nodes
  <2>4. \A k \in Nodes : \A v \in Validators : Knows(k, v)' <=> Knows(k, v)
    BY <2>1, <2>2, <2>3
  <2>5. \A k \in Nodes : \A v \in Validators : Address(v) \notin failing'[k]
    BY <2>1 DEF CalmInv
  <2>6. \A k, m \in Nodes : Knows(k, m)' => Knows(k, m) \/ m \in running \/ m = Seed
    BY <2>1
  <2>7. \A c \in calls' \ calls : c.of \in running \/ c.of = Seed
    BY <2>1
  <2>. QED
    BY <2>1, <2>3, <2>4, <2>5, <2>6, <2>7, CalmKept
<1>. QED
  BY <1>1, <1>2 DEF Cycle

\* A node that starts is known to nobody yet.
LEMMA StartCalm ==
  ASSUME PeersInv, CalmInv, NEW n \in Nodes, Start(n)
  PROVE  CalmInv'
<1>1. /\ n \notin running /\ running' = running \cup {n}
      /\ leaving' = leaving /\ failing' = failing
      /\ calls \subseteq calls'
      /\ \A c \in calls' \ calls : c.of = n /\ n # Seed
      /\ \A k, m \in Nodes : Knows(k, m)' <=> Knows(k, m) /\ k # n
  BY StartKnows
<1>2. n # Seed
  BY <1>1 DEF Start, CalmInv
<1>3. Validators \subseteq Nodes /\ Seed \in Nodes /\ Seed \notin Validators
      /\ leaving \subseteq Validators
  BY DEF PeersInv, TypeOK, Nodes
<1>4. \A v, w \in Nodes \ {n} : Linked(v, w) => Linked(v, w)'
  <2>. SUFFICES ASSUME NEW v \in Nodes \ {n}, NEW w \in Nodes \ {n}, Linked(v, w)
                PROVE  Linked(v, w)'
    OBVIOUS
  <2>1. Linked(v, w)' <=> \/ Knows(v, w)' \/ Knows(w, v)'
                          \/ [to |-> v, of |-> w] \in calls' \/ [to |-> w, of |-> v] \in calls'
    BY DEF Linked
  <2>. QED
    BY <1>1, <2>1 DEF Linked
<1>5. \A v \in Validators : Knows(Seed, v)' => Knows(Seed, v) /\ v # n
  BY <1>1, <1>2, <1>3 DEF CalmInv
<1>6. \A v, w \in Validators : v # w /\ Knows(Seed, v)' /\ Knows(Seed, w)' => Linked(v, w)'
  BY <1>3, <1>4, <1>5 DEF CalmInv
<1>7. \A v, w \in leaving : v # w => Linked(v, w)'
  BY <1>1, <1>3, <1>4 DEF CalmInv
<1>8. Seed \notin running' => \A v, w \in leaving : v # w => Knows(v, w)' \/ Knows(w, v)'
  BY <1>1, <1>3 DEF CalmInv
<1>9. \A k, m \in Nodes : Knows(k, m)' => m \in running' \/ m = Seed
  BY <1>1 DEF CalmInv
<1>10. \A c \in calls' : c.of \in running' \/ c.of = Seed
  BY <1>1 DEF CalmInv
<1>. QED
  BY <1>1, <1>6, <1>7, <1>8, <1>9, <1>10 DEF CalmInv

\* Whom the seed node counts it knows, so they are linked.
LEMMA HandoffCalm ==
  ASSUME PeersInv, CalmInv, CheckSeednodeHandoff
  PROVE  CalmInv'
<1>1. UNCHANGED <<running, peers, failing, calls>> /\ Seed \in running
  BY DEF CheckSeednodeHandoff
<1>2. \A v \in leaving' : v \in Validators /\ Knows(Seed, v)
  BY DEF CheckSeednodeHandoff, Online
<1>3. \A v \in Validators : v \in Nodes /\ v # Seed
  BY DEF Nodes
<1>4. Seed \in Nodes
  BY DEF Nodes
<1>5. leaving' \subseteq running
  BY <1>2, <1>3, <1>4 DEF CalmInv
<1>6. \A v, w \in leaving' : v # w => Linked(v, w)
  BY <1>2 DEF CalmInv
<1>7. \A v, w : (Knows(v, w)' <=> Knows(v, w)) /\ (Linked(v, w)' <=> Linked(v, w))
  BY <1>1 DEF Knows, Ids, Linked
<1>. QED
  BY <1>1, <1>5, <1>6, <1>7 DEF CalmInv

\* When the seed node exits, nothing is under way between those it counted.
LEMMA ExitCalm ==
  ASSUME PeersInv, CalmInv, SeedExit
  PROVE  CalmInv'
<1>1. /\ Seed \in Nodes /\ leaving # {} /\ Down(Seed)
      /\ calls' = calls /\ leaving' = leaving
      /\ \A c \in calls : ~(c.to \in leaving /\ c.of \in leaving)
  BY DEF SeedExit, Nodes
<1>2. /\ running' = running \ {Seed}
      /\ \A k \in Nodes : failing'[k] \subseteq failing[k]
      /\ \A k, m \in Nodes : Knows(k, m)' <=> Knows(k, m) /\ k # Seed
  BY <1>1, DownKnows
<1>3. Validators \subseteq Nodes /\ Seed \notin Validators /\ leaving \subseteq Validators
  BY DEF PeersInv, TypeOK, Nodes
<1>4. ASSUME NEW v \in leaving, NEW w \in leaving, v # w
      PROVE  (Knows(v, w)' \/ Knows(w, v)') /\ Linked(v, w)'
  <2>1. Linked(v, w)
    BY <1>4 DEF CalmInv
  <2>2. Knows(v, w) \/ Knows(w, v)
    BY <1>1, <1>4, <2>1 DEF Linked
  <2>. QED
    BY <1>2, <1>3, <2>2 DEF Linked
<1>5. \A v, w \in Validators : ~Knows(Seed, v)'
  BY <1>1, <1>2, <1>3
<1>6. \A k, m \in Nodes : Knows(k, m)' => m \in running' \/ m = Seed
  BY <1>2 DEF CalmInv
<1>7. \A c \in calls' : c.of \in running' \/ c.of = Seed
  BY <1>1, <1>2 DEF CalmInv
<1>8. leaving' \subseteq running'
  BY <1>1, <1>2, <1>3 DEF CalmInv
<1>9. \A k \in Nodes : \A v \in Validators : Address(v) \notin failing'[k]
  BY <1>2 DEF CalmInv
<1>. QED
  BY <1>1, <1>4, <1>5, <1>6, <1>7, <1>8, <1>9 DEF CalmInv

LEMMA StepCalm ==
  ASSUME PeersInv, lookups[Seed] = {}, Calm => CalmInv, [Next]_vars, Calm'
  PROVE  CalmInv'
<1>1. stops \in Nat /\ timeouts \in Nat
  BY DEF PeersInv, TypeOK
<1>2. ASSUME NEW c \in calls, AnnouncementEnds(c) PROVE CalmInv'
  <2>1. CASE Announced(c)
    <3>1. Calm
      BY <2>1 DEF Announced, faults, Calm
    <3>. QED
      BY <2>1, <3>1, AnnouncedCalm
  <2>2. CASE NotAnnounced(c)
    <3>1. /\ UNCHANGED <<running, peers, failing, leaving, stops>>
          /\ calls' = calls \ {c}
          /\ timeouts' = timeouts \/ timeouts' = timeouts + 1
      BY <2>2 DEF NotAnnounced
    <3>2. CalmInv
      BY <1>1, <3>1 DEF Calm
    <3>3. c.to \notin running
      BY <2>2, NotAnnouncedKeeps
    <3>4. \A k, m : Knows(k, m)' <=> Knows(k, m)
      BY <3>1, SameKnowledge
    <3>5. \A k \in Nodes : \A v \in Validators : Address(v) \notin failing'[k]
      BY <3>1, <3>2 DEF CalmInv
    <3>6. /\ calls' \ calls = {} /\ \A d \in calls \ calls' : d.to \notin running
          /\ running' = running /\ leaving' = leaving
      BY <3>1, <3>3
    <3>. QED
      BY <3>2, <3>4, <3>5, <3>6, CalmKept
  <2>. QED
    BY <1>2, <2>1, <2>2 DEF AnnouncementEnds
<1>3. ASSUME NEW n \in Nodes, Cycle(n) PROVE CalmInv'
  <2>1. Calm
    <3>1. ASSUME NEW id \in failing[n], NotAnswered(n, id) PROVE Calm
      BY <3>1 DEF NotAnswered, faults, Calm
    <3>. QED
      BY <1>3, <3>1, SyncKeeps DEF Cycle
  <2>. QED
    BY <1>3, <2>1, CycleCalm
<1>4. ASSUME NEW n \in Nodes, Start(n) PROVE CalmInv'
  <2>1. Calm
    BY <1>4 DEF Start, faults, Calm
  <2>. QED
    BY <1>4, <2>1, StartCalm
<1>5. ASSUME NEW n \in Nodes, Stop(n) PROVE CalmInv'
  BY <1>1, <1>5 DEF Stop, Calm
<1>6. ASSUME NEW n \in Nodes, NEW m \in Nodes, Lookup(n, m) PROVE CalmInv'
  <2>1. /\ UNCHANGED <<running, failing, calls, leaving>>
        /\ m \in lookups[n] /\ Calm
        /\ \A k, j \in Nodes : /\ Knows(k, j) => Knows(k, j)'
                               /\ Knows(k, j)' => Knows(k, j) \/ (k = n /\ Knows(m, j))
    BY <1>6, LookupKnows
  <2>2. CalmInv /\ n # Seed
    BY <2>1
  <2>3. /\ \A k, j \in Nodes : Knows(k, j)' => Knows(k, j) \/ j \in running \/ j = Seed
        /\ \A j \in Nodes : Knows(Seed, j)' => Knows(Seed, j)
    BY <2>1, <2>2 DEF CalmInv, Nodes
  <2>4. Validators \subseteq Nodes
    BY DEF Nodes
  <2>5. \A k \in Nodes : \A v \in Validators : Address(v) \notin failing'[k]
    BY <2>1, <2>2 DEF CalmInv
  <2>6. running' = running /\ leaving' = leaving /\ calls' \ calls = {} /\ calls \ calls' = {}
    BY <2>1
  <2>. QED
    BY <2>1, <2>2, <2>3, <2>4, <2>5, <2>6, CalmKept
<1>7. CASE CheckSeednodeHandoff
  <2>1. Calm
    BY <1>7 DEF CheckSeednodeHandoff, faults, Calm
  <2>. QED
    BY <1>7, <2>1, HandoffCalm
<1>8. CASE SeedExit
  <2>1. Calm
    BY <1>8 DEF SeedExit, faults, Calm
  <2>. QED
    BY <1>8, <2>1, ExitCalm
<1>9. CASE UNCHANGED vars
  <2>1. UNCHANGED <<running, peers, failing, calls, leaving, stops, timeouts>>
    BY <1>9 DEF vars, faults
  <2>2. CalmInv
    BY <2>1 DEF Calm
  <2>3. \A v, w : (Knows(v, w)' <=> Knows(v, w)) /\ (Linked(v, w)' <=> Linked(v, w))
    BY <2>1 DEF Knows, Ids, Linked
  <2>. QED
    BY <2>1, <2>2, <2>3 DEF CalmInv
<1>. QED
  BY <1>2, <1>3, <1>4, <1>5, <1>6, <1>7, <1>8, <1>9 DEF Next

\* A seed node that starts from its own files alone never looks up peers.
LEMMA SeedAsksNobody ==
  ASSUME Bootstrap[Seed] \subseteq {Seed}
  PROVE  /\ Init => lookups[Seed] = {}
         /\ PeersInv /\ lookups[Seed] = {} /\ [Next]_vars => lookups'[Seed] = {}
<1>1. Seed \in Nodes
  BY DEF Nodes
<1>2. Init => lookups[Seed] = {}
  BY <1>1 DEF Init
<1>3. ASSUME PeersInv, lookups[Seed] = {}, [Next]_vars PROVE lookups'[Seed] = {}
  <2>1. ASSUME NEW n \in Nodes, Cycle(n) PROVE lookups' = lookups
    BY <2>1 DEF Cycle, Sync, NotAnswered
  <2>2. ASSUME NEW n \in Nodes, Start(n) PROVE lookups'[Seed] = {}
    <3>1. lookups' = [lookups EXCEPT ![n] = Bootstrap[n] \ {n}]
      BY <2>2 DEF Start
    <3>2. n = Seed => Bootstrap[n] \ {n} = {}
      OBVIOUS
    <3>. QED
      BY <1>1, <1>3, <3>1, <3>2 DEF PeersInv, TypeOK
  <2>3. ASSUME NEW n \in Nodes, Down(n) PROVE lookups'[Seed] = {}
    BY <1>1, <1>3, <2>3, DownKnows
  <2>4. ASSUME NEW n \in Nodes, NEW m \in Nodes, Lookup(n, m) PROVE lookups'[Seed] = {}
    BY <1>1, <1>3, <2>4, LookupKnows
  <2>5. ASSUME NEW c \in calls, AnnouncementEnds(c) PROVE lookups' = lookups
    BY <2>5 DEF AnnouncementEnds, Announced, NotAnnounced
  <2>. QED
    BY <1>1, <1>3, <2>1, <2>2, <2>3, <2>4, <2>5
    DEF Next, Stop, SeedExit, CheckSeednodeHandoff, vars
<1>. QED
  BY <1>2, <1>3

\* What the seed node leaves behind (CheckSeednodeHandoff, its exit five seconds
\* later), for any number of validators, whatever each of them was given to
\* start from, and whichever become active when: of any two it counted, one
\* knows the other, unless a node has stopped or a call has timed out.  The
\* seed node has to start from its own files alone, as on the devnet with a
\* seed node (testnets/devnet/genesis.json): it forwards every newcomer that
\* announces itself, and none that it finds by asking others (Lookup).
THEOREM NetworkIsHandedOver ==
  ASSUME Bootstrap[Seed] \subseteq {Seed}
  PROVE  Spec => []HandsOverANetwork
<1>1. Init => CalmInv
  <2>. SUFFICES ASSUME Init PROVE CalmInv
    OBVIOUS
  <2>1. \A n, m \in Nodes : ~Knows(n, m)
    BY FromFiles, KnowsEntry DEF Init
  <2>. QED
    BY <2>1 DEF Init, CalmInv, Nodes
<1>2. PeersInv /\ lookups[Seed] = {} /\ (Calm => CalmInv) => HandsOverANetwork
  BY DEF Calm, CalmInv, HandsOverANetwork
<1>3. /\ PeersInv /\ lookups[Seed] = {} /\ (Calm => CalmInv) /\ [Next]_vars
      => (Calm' => CalmInv')
  BY StepCalm
<1>4. Init => lookups[Seed] = {}
  BY SeedAsksNobody
<1>5. PeersInv /\ lookups[Seed] = {} /\ [Next]_vars => (lookups[Seed] = {})'
  BY SeedAsksNobody
<1>. QED
  BY <1>1, <1>2, <1>3, <1>4, <1>5, InitPeers, StepPeers, PTL DEF Spec

=============================================================================
