---------------------------- MODULE NodeStorage ----------------------------
(***************************************************************************)
(* One node's memory and its LevelDB (storage.ts, and loadStateFromDisk,   *)
(* persistNodeData and importStateSnapshot in main.ts).                    *)
(*                                                                         *)
(* Every change that is to survive is followed by a snapshot of the whole  *)
(* state, which NodeStore.save queues; a queued snapshot is written later  *)
(* by one atomic batch of puts.  No code path deletes a key, and the node  *)
(* never closes its store: whatever ends the process, a signal or the      *)
(* seed node's own exit after a handoff, loses the queue.                  *)
(*                                                                         *)
(* A state that is imported replaces all that the node has, and it may be  *)
(* behind: the heights are compared before the peer is asked for it.  What *)
(* it replaces keeps its keys, and a restart loads them again.             *)
(***************************************************************************)
EXTENDS Integers, Sequences

CONSTANTS
  ValidatorIds,
  Addresses,    \* of accounts that the genesis does not have
  MaxHeight,    \* bound: no block is added at this height
  MaxChanges,   \* bound: blocks added, states imported and marks made
  MaxQueue,     \* bound: snapshots waiting to be written
  MaxSyncs      \* bound: peers asked for their state at one time

ASSUME StorageAssumption ==
  /\ MaxHeight \in Nat \ {0}
  /\ MaxChanges \in Nat
  /\ MaxQueue \in Nat \ {0}
  /\ MaxSyncs \in Nat
  /\ ValidatorIds \cap Addresses = {}

VARIABLES
  isSeed,    \* whether this is the seed node; it stays so
  up,        \* the process runs
  mem,       \* its state, while it runs
  syncs,     \* how many peers that were ahead it waits for, to send their state
  disk,      \* the keys of its store
  queue,     \* snapshots waiting to be written
  saved,     \* history: the snapshot last written
  failed,    \* history: a snapshot taken after it failed to be written
  deleted,   \* history: accounts and validators that left the state
  lowered,   \* history: the last import that took the height back, by its hash
  changes    \* history: what was saved after the bootstrap block

histories == <<saved, failed, deleted, lowered, changes>>
storageVars == <<isSeed, up, mem, syncs, disk, queue, histories>>

Heights == 0 .. MaxHeight
Hashes == 0 .. MaxChanges + 1

\* What a snapshot holds of the state.  The contracts, which are one key, go with
\* the head.  A hash is the number of the change that made the head, so a later
\* one is greater; blocks has the hash of the last record of each height, and
\* chain, which is history, those of the head's ancestors.
Chains == UNION {[S -> Hashes] : S \in SUBSET Heights}

Snapshot == [height : Heights, hash : Hashes, blocks : Chains, chain : Chains,
             validators : SUBSET ValidatorIds, accounts : SUBSET Addresses,
             pending : SUBSET ValidatorIds, offline : SUBSET ValidatorIds]

Genesis == [height |-> 0, hash |-> 0, blocks |-> <<>>, chain |-> <<>>,
            validators |-> {}, accounts |-> {}, pending |-> {}, offline |-> {}]

\* Blocks have a record from the second on: applyBootstrapOnce leaves none.
Recorded(h) == 2 .. h

\* The records f, written over those of g.
Over(f, g) == [h \in DOMAIN f \cup DOMAIN g |-> IF h \in DOMAIN f THEN f[h] ELSE g[h]]

HeadOf(s) == [height |-> s.height, hash |-> s.hash, chain |-> s.chain]

StorageTypeOK ==
  /\ isSeed \in BOOLEAN
  /\ up \in BOOLEAN
  /\ mem \in Snapshot
  /\ disk \in Snapshot
  /\ queue \in Seq(Snapshot)
  /\ saved \in Snapshot
  /\ failed \in BOOLEAN
  /\ deleted \subseteq ValidatorIds \cup Addresses
  /\ lowered \in Hashes
  /\ syncs \in 0 .. MaxSyncs
  /\ changes \in 0 .. MaxChanges

StorageInit ==
  /\ isSeed \in BOOLEAN
  /\ up = FALSE
  /\ mem = Genesis
  /\ syncs = 0
  /\ disk = Genesis
  /\ queue = <<>>
  /\ saved = Genesis
  /\ failed = FALSE
  /\ deleted = {}
  /\ lowered = 0
  /\ changes = 0

-----------------------------------------------------------------------------
(* NodeStore *)

\* Mutant: nothing is queued while a snapshot waits.
SaveCoalesced(s) ==
  /\ Len(queue) < MaxQueue
  /\ queue' = IF queue = <<>> THEN <<s>> ELSE queue
  /\ mem' = s

\* The state becomes s, and persistNodeData queues a snapshot of it.
Save(s) ==
  /\ Len(queue) < MaxQueue
  /\ queue' = Append(queue, s)
  /\ mem' = s

\* Mutants of writeBatch: the batch holds the newest block only; it leaves out
\* the array of offline validators.
PutNewestBlock(d, s) ==
  [s EXCEPT !.validators = @ \cup d.validators, !.accounts = @ \cup d.accounts,
            !.blocks = Over([h \in {s.height} \cap DOMAIN @ |-> @[h]], d.blocks)]

PutForgetsOffline(d, s) ==
  [s EXCEPT !.validators = @ \cup d.validators, !.accounts = @ \cup d.accounts,
            !.blocks = Over(@, d.blocks), !.offline = d.offline]

\* The keys of d after a batch of puts of s: what s lacks stays.
Put(d, s) ==
  [s EXCEPT !.validators = @ \cup d.validators, !.accounts = @ \cup d.accounts, !.blocks = Over(@, d.blocks)]

\* Mutant: the queued snapshots are written newest first.
WriteNewestFirst ==
  /\ queue # <<>>
  /\ disk' = Put(disk, queue[Len(queue)])
  /\ saved' = queue[Len(queue)]
  /\ queue' = SubSeq(queue, 1, Len(queue) - 1)
  /\ failed' = FALSE
  /\ UNCHANGED <<isSeed, up, mem, syncs, deleted, lowered, changes>>

Write ==
  /\ queue # <<>>
  /\ disk' = Put(disk, queue[1])
  /\ saved' = queue[1]
  /\ queue' = Tail(queue)
  /\ failed' = FALSE
  /\ UNCHANGED <<isSeed, up, mem, syncs, deleted, lowered, changes>>

\* The batch is rejected as a whole; the error is logged and the queue goes on.
WriteFails ==
  /\ queue # <<>>
  /\ queue' = Tail(queue)
  /\ failed' = TRUE
  /\ UNCHANGED <<isSeed, up, mem, syncs, disk, saved, deleted, lowered, changes>>

-----------------------------------------------------------------------------
(* Changes of the state *)

\* The hash of the next head.
NextHash == changes + 2

NewHead(s) ==
  /\ changes < MaxChanges
  /\ changes' = changes + 1
  /\ Save([s EXCEPT !.hash = NextHash])
  /\ deleted' = deleted \cup (mem.validators \ s.validators) \cup (mem.accounts \ s.accounts)
  /\ lowered' = IF s.height < mem.height THEN NextHash ELSE lowered
  /\ UNCHANGED <<isSeed, up, disk, saved, failed>>

\* A block, proposed here or committed for another proposer: it may make
\* accounts, queue a registration, admit the queued validators and drop one
\* (unregistered or ejected).
AddBlock(pending, validators, accounts) ==
  LET block == [h \in {mem.height + 1} |-> NextHash]
  IN  /\ up
      /\ mem.height \in 1 .. MaxHeight - 1
      /\ pending \subseteq mem.pending \cup (ValidatorIds \ mem.validators)
      /\ validators \in {mem.validators \cup (mem.pending \ pending)}
                          \cup {mem.validators \ {v} : v \in mem.validators}
      /\ mem.accounts \subseteq accounts
      /\ NewHead([mem EXCEPT !.height = @ + 1, !.pending = pending, !.validators = validators,
                             !.accounts = accounts, !.blocks = Over(block, @), !.chain = Over(block, @)])
      /\ UNCHANGED syncs

\* syncFromPeers up to the await of qtx_getState: a peer is ahead.
AskPeer ==
  /\ up
  /\ mem.height < MaxHeight /\ changes < MaxChanges
  /\ syncs < MaxSyncs
  /\ syncs' = syncs + 1
  /\ UNCHANGED <<isSeed, up, mem, disk, queue, histories>>

\* The peer does not answer: the sync is given up.
SyncFails ==
  /\ syncs > 0
  /\ syncs' = syncs - 1
  /\ UNCHANGED <<isSeed, up, mem, disk, queue, histories>>

\* syncFromPeers after it: the answer replaces everything, though the node may
\* have gone on in between; the queued registrations are not part of what peers
\* send.  The peer's chain has the first common blocks of the node's, and its
\* records may go on with those of a longer chain that it had before.
Import(height, common, longer, validators, accounts, offline) ==
  LET top == IF longer THEN MaxHeight ELSE height
      chain == [h \in Recorded(height) |-> IF h <= common THEN mem.chain[h] ELSE NextHash]
  IN  /\ up /\ syncs > 0
      /\ height > 0
      /\ common <= mem.height /\ common <= height
      /\ NewHead([height |-> height, hash |-> 0, chain |-> chain,
                  blocks |-> Over(chain, [h \in Recorded(top) |-> NextHash]),
                  validators |-> validators, accounts |-> accounts, pending |-> {}, offline |-> offline])
      /\ syncs' = syncs - 1

\* qtx_markValidatorOffline (qtx_slashEquivocation saves in the same way).
MarkOffline(v, offline) ==
  /\ up
  /\ v \in mem.validators
  /\ changes < MaxChanges
  /\ changes' = changes + 1
  /\ Save([mem EXCEPT !.offline = IF offline THEN @ \cup {v} ELSE @ \ {v}])
  /\ UNCHANGED <<isSeed, up, syncs, disk, saved, failed, deleted, lowered>>

-----------------------------------------------------------------------------
(* The end of the process and its start *)

Crash ==
  /\ up
  /\ up' = FALSE
  /\ mem' = Genesis
  /\ queue' = <<>>
  /\ syncs' = 0
  /\ UNCHANGED <<isSeed, disk, histories>>

\* loadStateFromDisk finds a chain: whatever has a key is part of it again.
Restart ==
  /\ ~up
  /\ disk.height > 0
  /\ up' = TRUE
  /\ mem' = disk
  /\ UNCHANGED <<isSeed, syncs, disk, queue, histories>>

\* It finds none: the node starts from the genesis, and the seed node applies
\* its bootstrap block at once.
FirstStart ==
  /\ ~up
  /\ disk.height = 0
  /\ up' = TRUE
  /\ UNCHANGED <<isSeed, syncs, disk, histories>>
  /\ IF isSeed
     THEN \E seed \in ValidatorIds :
            /\ Save([Genesis EXCEPT !.height = 1, !.hash = 1, !.validators = {seed}])
     ELSE mem' = Genesis /\ UNCHANGED queue

-----------------------------------------------------------------------------

StorageNext ==
  \/ Write \/ WriteFails
  \/ \E pending, validators \in SUBSET ValidatorIds, accounts \in SUBSET Addresses :
       AddBlock(pending, validators, accounts)
  \/ AskPeer \/ SyncFails
  \/ \E height, common \in Heights, longer \in BOOLEAN, validators, offline \in SUBSET ValidatorIds, accounts \in SUBSET Addresses :
       Import(height, common, longer, validators, accounts, offline)
  \/ \E v \in ValidatorIds, offline \in BOOLEAN : MarkOffline(v, offline)
  \/ Crash \/ Restart \/ FirstStart

StorageSpec == StorageInit /\ [][StorageNext]_storageVars

\* The promise chain of the write queue goes on as long as the process runs.
StorageFairSpec == StorageSpec /\ WF_storageVars(Write)

-----------------------------------------------------------------------------
(* Properties *)

\* The store never goes back to a head that the node had before the one it
\* holds, whatever fails or crashes: snapshots are written in the order they were
\* taken (the writeQueue chain).  And its height goes back only if an import has
\* taken the node's own height back since that head.
DiskForward ==
  [][disk.hash <= disk'.hash /\ (disk'.height < disk.height => lowered > disk.hash)]_storageVars

\* The store holds one snapshot, the last one written, and beside it nothing
\* but blocks, and accounts and validators the state had dropped: heads,
\* registrations and marks of different moments never mix, though every batch
\* only adds keys.
OneSnapshot ==
  /\ HeadOf(disk) = HeadOf(saved)
  /\ disk.pending = saved.pending
  /\ disk.offline = saved.offline
  /\ saved.validators \subseteq disk.validators /\ saved.accounts \subseteq disk.accounts
  /\ (disk.validators \ saved.validators) \cup (disk.accounts \ saved.accounts) \subseteq deleted

\* Every block of the chain whose head is on disk is on disk: a failed write
\* loses no block for good, because each snapshot carries all of them, and the
\* blocks that a replaced chain leaves at greater heights are overwritten when
\* the chain reaches them.
NoBlockLost ==
  \A h \in Recorded(disk.height) : h \in DOMAIN disk.blocks /\ disk.blocks[h] = disk.chain[h]

\* While the process runs, what it saved is on disk in the end, or a write
\* failed since; a crash ends the promise.
SavedInTheEnd ==
  \A n \in Hashes :
    (up /\ mem.hash = n) ~> (disk.hash >= n \/ failed \/ ~up)

=============================================================================
