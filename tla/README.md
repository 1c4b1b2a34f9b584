# Verification of the Quantix V2 protocol, node and wallets

TLA+ modules for the protocol package, the node and the wallet software of this
repository, the TLC configurations that check them on small instances, and
theorems about them that TLAPS proves for every value of the constants.

    tlc -workers 2 -config MCLedgerEpochs.cfg MCLedger.tla
    tlapm LedgerProofs.tla

Paths below are relative to `src/`; `main.ts` is `apps/node/src/main.ts`,
`background.ts` is `apps/wallet-extension/entrypoints/background.ts`, and
`transactions.ts`, `consensus.ts`, `state.ts`, `types.ts` are in
`packages/protocol/src/`.

## 1. Inventory

| component | code | state | operations |
|---|---|---|---|
| ledger | `transactions.ts`, `consensus.ts`, `state.ts`, `types.ts` | height, accounts, validators, queue of registrations, cooldowns, contracts | `runConsensusRound`, `applyBlock`, `applyTransaction`, rewards, activation, `slashValidatorForEquivocation` |
| mempool | `apps/node/src/tx-policy.ts`, `main.ts:480-496, 1144-1173, 1367-1384` | `mempool`, `seenTxHashes` | `enqueueValidatedTx`, `pruneStaleMempool`, gossip intake, batch selection and removal |
| distributed production | `main.ts:218-262, 523-864, 1186-1263` | per node: ledger, stall counter, proposals voted for, endpoints of peers | block timer, prepare, commit, sync by snapshot |
| persistence | `apps/node/src/storage.ts`, `main.ts:1469-1606` | LevelDB keys, write queue | `save`, `writeBatch`, `load`, restart |
| native contract methods | `transactions.ts:604-1221` | contract storage | `set/get/delete/increment/batch_set`, `token_*` |
| contract runtime | `transactions.ts:745-1138` | contract storage | validation, gas estimate, interpreter of qtx-v1 programs |
| peers | `main.ts:504-521, 758-804, 1332-1408` | `peerEndpointById`, handoff | announce, forward, announce back, discover, prune, handoff |
| auto registration | `main.ts:362-434` | none of its own | stake and register transactions of the node's own key |
| faucet | `apps/wallet/src/app/api/faucet/route.ts` | none of its own: it reads accounts | drip |
| SDK, command line, web wallet | `packages/sdk`, `tools/wallet/qtx.ts`, `apps/wallet` | the balance and nonce they have read | transfer, stake, register |
| wallet extension, worker | `background.ts`, `utils/crypto.ts`, `utils/storage.ts` | encrypted vault, session password, decrypted vault | exists, status, create, unlock, lock, generate, import, set active, list, send |
| wallet extension, views | `apps/wallet-extension/utils/wallet-ui.ts` | locked or not, the account shown, the refresh timer | boot, setup, unlock, account actions, refresh |
| RPC dispatch, configuration, crypto, network types, explorer | `main.ts`, `packages/genesis`, `packages/crypto`, `packages/network`, `apps/explorer` | none of the protocol | stateless helpers and displays |

How they interact: a client reads balance, nonce and pending transactions from
one node, signs, and submits; the node checks the transaction, puts it in its
mempool and gossips it. A timer makes the scheduled proposer take a batch,
collect prepare votes from its peers, apply the block through
`runConsensusRound`, persist it and broadcast a commit; a follower applies the
committed block through `applyBlock`. A node that is behind replaces its whole
state by a peer's snapshot. Contract transactions run native methods or a
program inside the block. Everything runs on one event loop per process: a
handler is interrupted only at its awaits, and that is where the models let
others run.

### What is hard, and what makes each part correct

| component | hard behaviour | correct when |
|---|---|---|
| ledger | a block is a sequence of partial steps (downtime pass, ejections, cooldowns, transactions, rewards, activation) over the same accounts; calls that fail half way; epochs, caps and limits that meet | no money appears or disappears; nonces are used once and in order; cooldowns end on time; the queue of registrations is sound, and the best qualified candidates are activated, within the cap; downtime limits bite at their value |
| mempool | the sort's comparator, gossip out of order, removal of a batch that was taken before an await | no stale transaction is proposed, a sender's transactions are served, what arrives during a round survives it |
| distributed production | votes, commits and syncs of several nodes interleave; lost commits, slow answers, skipped turns, crashes | nodes at one height have one chain, a block has a quorum, while a quorum is up the chain grows |
| persistence | queued snapshots, failed writes, a crash between a block and its write, keys that are never deleted, imports that replace the chain | the store holds one snapshot, goes back only where the node did, has every block of its chain, and is up to date in the end |
| contracts | token methods beside raw writes to the same storage, moves to oneself, late initialisations, re-included transactions, gas estimated before the run | supply and balances differ only by named causes, allowances add up to what they were last set to, owners keep their token where nobody writes its keys raw, receipts are true, a program stays within its gas |
| peers | dead peers are forgotten, restarted ones come back, some know each other by configured names only | running validators find each other again; the seed node leaves a network that works without it |
| clients and auto registration | decisions on state that a block or another client has overtaken | a wallet is funded once, promises of the faucet are kept, sends are in turn, who can pay for a registration gets it |
| wallet extension | handlers that interleave at awaits, workers that browsers end at any time, two views | accounts are kept, a lock forgets the session, the views end on what the worker has |

`PROJECT.json` lists the single hazards with their lines.

## 2. The modules

| module | models | state |
|---|---|---|
| `Rewards` | the shares of `distributeValidatorRewards` in its four modes, as pure functions | none |
| `Rounds` | the quorum and the rotation of proposers | none |
| `TxPolicy` | the comparator and sort of the mempool, replacement, removal and pruning, as pure functions | none |
| `Token` | the `token_*` methods, as functions from a token to a token and an answer | none |
| `QtxVm` | validation, gas and interpreter of qtx-v1 programs, as functions | none |
| `Ledger` | one node's ledger, one action per step of a block | accounts, validators, queue, cooldowns, contracts, the block in progress |
| `Consensus` | several nodes that produce blocks, with messages, sync, crashes and restarts | per node: its ledger (below), store, endpoints, pacing, votes; messages |
| `Rotation` | `Consensus` under the timing that the configuration intends | which timer fires next |
| `Chain` | what block production promises: one chain of which nodes have copies | the chain, the copies |
| `Mempool` | the mempools of several nodes: admission, gossip, and what blocks do to them | per node: mempool, hashes seen, nonces, blocks it does not have yet; gossip on its way; the round under way |
| `Clients` | programs that read a node, decide and submit, beside a node that registers itself | the committed accounts, the mempool, the round under way, per client: what it has read |
| `Contracts` | one contract address: deployment, token and storage methods, programs, receipts | contract, token, other keys, nonces, receipts; what was approved, moved, charged |
| `NodeStorage` | one node's memory, write queue and store | the state in memory, the queued snapshots, the store |
| `Peers` | `peerEndpointById` of every node, announcements, pruning, the seed node's exit | the maps, calls under way, what the seed counted |
| `Vault`, `Wallet` | the extension's worker, and its views on top of it | stored vault, session, memory, requests; the views and their flows |
| `LedgerProofs`, `ConsensusProofs`, `MempoolProofs`, `ClientsProofs`, `ContractsProofs`, `WalletProofs` | theorems about the modules they are named after; those about `Rotation` and `Chain` are in `ConsensusProofs` | |
| `NodeProofs` | theorems about `NodeStorage` and `Peers` | |
| `FiniteTheorems` | what the sums, loops, filters and the sort of these modules compute | |
| `MCLedger`, `MCConsensus`, `MCRotation`, `MCMempool`, `MCContracts`, `MCPeers`, `MCClients` | instances for TLC | |

`Mempool` and `Clients` share `TxPolicy`; `Contracts` is built from `Token` and
`QtxVm`; `Wallet` extends `Vault`; `Rotation` extends `Consensus` and is shown
to implement `Chain`.

**Ledger.** A block is `BeginRound` (at the proposer: `runConsensusRound` with
the downtime bookkeeping of `markValidatorMissedBlock`) or `BeginCommit` (at a
follower: no bookkeeping), then `EjectInactiveValidator` for each idle
validator, `SettlePendingUnstakes`, transactions one by one in any order and
number, and `FinishBlock` (rewards, activation, height). The steps are actions
of their own so that every state between two of them is checked; nothing else
can run between them in the code, except that `SlashEquivocation` only runs
between blocks. A transaction's `amount` is the code's `value ?? amount` for
contract transactions. What a contract's program does is abstracted to four
outcomes (`vm`: succeeds, fails, invalid; `pay`: a native transfer out of the
contract); `Contracts` is the inside of that oracle. `history` and `issued` are
history variables: the nonces that took effect, and what the ledger has minted
minus what it has burned.

**Consensus.** Of the ledger a node keeps what decides agreement: the chain of
block digests, the validator set, the queue of registrations and the missed
counters. `Digest` has what `hashState` can tell two blocks apart by.
`HandlePrepare` and `HandleCommit` are the RPC handlers, `Tick` the block timer
with `produceDistributedBlock` up to its first await, `EndRound` what follows
after the last answer, `SyncHeads` and `SyncImport` the two halves of
`syncFromPeers` around its awaits. Simplifications: the heads of all peers are
read in one step; the entry that a proposer makes for itself in
`pendingProposals` is left out, since no commit is sent to it; the removal of
validators after 10000 idle blocks is left to `Ledger`; transactions are not
ordered within a block, and each has a nonce of its own, so that applying one
again is a refusal (nonces are `Ledger`'s and `Mempool`'s subject). `forgot` is a
history variable in each ledger: the registrations that a sync has taken out of
the queue; it travels with the state as the queue does. A node that restarts
knows the bootstrap peers by node id only (`seeds`), which serves for sync and
not for votes. A crash may lose the last write (`disk`), and a node's own
messages; `NodeStorage` justifies that a store is at one block, but for keys that
nothing deletes. Of these, validators matter here: an import leaves the ones that
the new state lacks in the store (`stale`), and a restart finds them again
(`Loaded`; any of them, as some may never have been written). From then on they
are validators, a registration of theirs is refused, and an activation from the
queue writes over the key. `returned` is the history variable for them, and
travels with the state as `forgot` does.

**Rotation** fires the timers of all nodes in the order of a schedule, again
and again, each one when all that the timers before it started is over. It is
the regime the devnet configurations aim at: block intervals of 4 s against
2.5 s for a peer's answer, and a sync every two block intervals.

**Mempool.** `Admits` and `Enqueue` are `enqueueValidatedTx`; `Submit`,
`SeedTransfer` and `ReceivePeer` the three handlers that reach it, with gossip
as messages that arrive in any order or are lost. `StartBlock` and
`FinishBlock` are `produceDistributedBlock` before and after its await, and
`CatchUp` is a committed block at another node. How nodes agree is left to
`Consensus`: one round is under way at a time, the proposers take turns, and
every node gets the same blocks, up to `MaxLag` blocks late (a sync is several
`CatchUp`s and its one pruning has the same effect as theirs). What a ledger
says of a transaction besides its nonce is its field `ok`. `Sort` (in
`TxPolicy`) is not under `src/`: it is the engine's binary insertion sort for
short arrays, whose result matters since the comparator is not an order. Filters
and loops are recursive functions, so that they can be proved about. The
bound named at `Submit` means that each client offers a transaction to a node
once: a client that offers a failing transaction with a high fee again and
again, which costs it nothing, takes up every block.

**Clients.** Each client is a task and a stage: an action is what it does
between two of its awaits, with what it has read kept in its record. A faucet
request reads the recipient (`ReadRecipient`), then the funder (`ReadFunder`),
and pays; the extension reads the account and the mempool one after the other
(`ReadBalance`, `ReadMempool`) and writes its activity log whole
(`ReadActivity`, `WriteActivity`); the SDK's `getNextNonce` reads the account
alone; the web wallet shows a balance (`Refresh`) and submits by it
later (`UsePanel`); `qtx validator register` reads stake and nonce once and
submits a stake and a registration (`ReadStake`, `SubmitStake`,
`SubmitRegister`). The node takes part with `AutoStake` and `AutoRegister`
(`autoRegisterAsValidator`, whose announcement is in `Peers`), its blocks
(`StartBlock`, `FinishBlock`, `RoundFails`), and blocks of others
(`OthersBlock`). The ledger here is reduced to transfers, stakes and
registrations of these clients.

**Token, QtxVm, Contracts.** A method of the token is a function of the token
record and its arguments, with the order of reads and writes of the code: a
move to oneself reads both balances before it writes them. `QtxVm` translates
the validation of a deployment, the gas estimate, value resolution and each
instruction; a program is data, and is run by a loop over its instructions.
`Contracts` applies them: one action per method, each with the nonce that moves
on before the runtime is entered and the receipt `applyBlock` writes. The raw
methods (`CallSet`, `CallDelete`, `CallIncrement`, `CallBatchSet`) ask nobody's
leave and take any key, those of the token included: `Write` puts their entries
into the token's keys and the others, and `raw` (history) remembers which keys of
the token the last call wrote. An allowance set raw counts as set (`approved`),
a deleted number is zero, an owner may become a name that is no user
(`Stranger`), and a token that is no longer marked as initialised may be
initialised again. `Reinclude` is a block
that contains an applied transaction again: its refusal replaces the receipt
(`transactions.ts:50`). Users are interchangeable, so the run uses symmetry.

**NodeStorage.** `Save` in the code queues a snapshot taken at the call; here
every change of the state queues one. `Write` is `writeBatch`, one atomic batch
that puts keys and deletes none (`Put`), so the store keeps accounts, validators
and blocks that the state has dropped, and `Restart` loads them; `WriteFails` is a
rejected batch, after which the queue goes on. `Crash` is any end of the process,
since nothing closes the store. `isSeed` is chosen at the start: only the seed
node applies its bootstrap block when it finds an empty store. `AskPeer` and
`Import` are `syncFromPeers` before and after its last await: the heights are
compared before it, so `Import` takes any state, one with a lower height, other
accounts or another chain included, and one whose own blocks go beyond its height
because the peer had a longer chain before. A head is known by a number that
grows with every change; `blocks` has the head of the last record of each height,
`chain` (history) that of the head's ancestors. A peer that was ahead still has a
chain when it answers, and records of blocks up to `MaxHeight`. Contracts are one
key and go with the head.

**Peers.** A node is in another's map under its address, once it has announced
itself, or under the name that genesis or `config.json` gives it; the two
entries are pruned one by one. An announcement is stored, forwarded to all
other entries and answered by an announcement back (`AnnouncementEnds`);
`Cycle` is the sync timer, which asks every entry for its head (`Sync`), deletes
those that do not answer (`NotAnswered`) and announces the node again; `Lookup` is
`discoverPeers` at the start. The seed node counts the active validators it has
an endpoint of, and exits for good (`CheckSeednodeHandoff`, `SeedExit`, five
seconds apart). Which validators are active is the chain's business: it may be
any.

**Vault and Wallet.** A handler's step is what runs between two awaits; storage
serves calls in order, so a call takes effect when it is made. Handlers share
the decrypted vault they find in memory and hold on to it when memory moves on,
so vault objects have identities (`objects`). A restart of the worker keeps
both storages and loses memory and handlers. `Wallet` adds the views: a flow is
the sequence of requests that a button or the timer starts, each reply an
action. Two slots bound the requests under way.

## 3. What the runs show

| run | instance | shows |
|---|---|---|
| `ledger_epochs` | 3 validators and candidates, cap 2, epochs of 2 blocks, 5 blocks | `PendingSound`, `ActiveCap`, `ActivationNeedsStake`, `ActivationFair` |
| `ledger_money` | 2 accounts, 1 contract, 4 validators of one owner with downtime limits 2 and 3, hybrid rewards, cooldown 2, 5 blocks of 2 transactions; 895,783 states | `TypeOK`, `Conservation`, `HistoryInOrder`, `UnstakeOnTime`, `OnlyRegistrationOverdraws`, `DowntimeBounded` |
| `rotation` | 4 nodes, 2 heights, a transaction, 2 faults (slow answers, lost commits, crashes), 3 schedules; 2.2 million states | `SharedChain` (Rotation implements Chain), `OwnBlocksHaveQuorum`, `KeepsCommitting` |
| `consensus_async` | 2 nodes, a registration, epochs of 2 blocks, 2 proposals, one fault of any kind, restarts, any interleaving; 2.3 million states | `RegistrationsKept`, `SameHeadSameState` |
| `mempool` | 2 nodes, a failing transfer of one of them, a client with 2 transactions, blocks of 2, one fault | `NoStaleOrRival`, `ArrivalsSurvive`, `Served` |
| `contracts` | 2 users, 2 contract transactions each, one re-inclusion, amounts 1 and 2, supplies −1 and 1, 4 codes, raw writes of any key; 243,528 states | `SupplyAccounted`, `AllowanceRespected`, `OwnerKept`, `ReceiptTruth`, `GasCoversWork`, `DeployedRuns` |
| `storage` | a validator, an account, heights up to 3, 3 changes, a queue of 2, one sync at a time; 487,525 states | `OneSnapshot`, `NoBlockLost`, `DiskForward`, `SavedInTheEnd` |
| `peers` | seed, 1 configured and 1 external validator, handoff at 2, one stop, one timeout; 419,324 states | `HandsOverANetwork`, `ValidatorsMeet`, `StaticStayKnown` |
| `wallet` | 2 views, 2 accounts, 2 passwords, 2 requests at a time, 2 actions, one restart or failure; 1.26 million states | `AccountsKept`, `SessionOpensVault`, `LockForgets`, `ViewsFollow` |
| `clients` | 9 combinations of 10 clients and the node, mempool and blocks of 4, an activity log of 2, one fault; 91,744 states | `FundedOnce`, `PromiseKept`, `SendsInTurn`, `ActivityKept`, `Registers` |

The bounds: epochs of two blocks and a cap of one or two places are the least
with a boundary that is full, one that is not, and one that frees a place.
A cooldown of two, and limits of two and three for downtime, are the least
with a value below, at and above each; four validators of one owner let two
ejections burn from one stake in one block. Blocks hold at most two
transactions, so that a rejected and an accepted one, or two of one sender,
meet in one block. Four nodes are the least that tolerate one failure (quorum
3), two heights leave a node one or two blocks behind, and two faults
are as many as a fault and the loss of its remedy. The timestamp `time` stands
for the identity of a proposal: with `Endless` all later proposals share one,
which makes the state space finite without ending production; the properties
of `rotation` do not depend on telling such proposals apart, as at most one is
pending. `consensus_async` has two nodes, so each needs the other's vote; its
hazards (overlapping rounds, late votes, double application of a batch, sync
between prepare and commit, a slash or a queue that only one node has) need no
third node, and with epochs of two blocks a registration is queued at one height
and active at the next. `SameHeadSameState` names three causes of a difference:
a validator slashed by a call since the head, a queue forgotten by a sync, and
validators that a restart brought back. They occur, but for a returned validator
that is slashed, which takes two faults and is left to the proof. In `mempool` blocks hold fewer
transactions than a mempool can, and the senders' turns, gossip and both
proposers meet. In `contracts` the two users have
four transactions between them: a deployment and three calls, such as an
approval, its use and a raw write in between, or an initialisation, a deletion of
its mark and another initialisation; the codes cover every
instruction, one that fails, and two that a deployment refuses. In `storage`
a queue of two has a snapshot that overtakes and one that is overtaken, and
three changes are a validator and an account that come, a block, and an import
that takes both and the height away, with a restart at any point. In `peers` one
configured and one external validator are the two ways to be known, and the handoff needs both. In `wallet` two requests overlap at every
pair of awaits. In `clients` each combination is the least set of programs that
meet at one account; a log of two entries is full while two views log to it
(`LogLimit`, 200 in the code); a batch smaller than a sender's gap is left out on
purpose, see below.

`CHECK_DEADLOCK FALSE`: these models stop where their bounds on heights,
proposals, attempts and faults are reached. `mempool`, `storage` and `peers` go
on for ever and are checked for deadlock too.

`TypeOK` is in every larger module; `ledger_money` checks `Ledger`'s,
`ConsensusProofs` proves `Consensus`'s, `WalletProofs` proves `Wallet`'s, and it
can be added to the other configurations when one changes a module.

**Fairness** is assumed where the code has a timer, a promise chain or a time
limit that brings the step about:

- `Rotation!FairSpec`: timers keep firing (`setInterval`), and what they start
  ends (`rpcCall` aborts at its time limit), so `WF` of `TimerFires` and
  `Progress`. Crashes are not forced, and nothing brings a crashed node back;
  `KeepsCommitting` asks that a quorum of all nodes stays up.
- `Mempool!FairSpec`: blocks are started and finished and every node gets them,
  for the same reasons; gossip and clients are not forced to do anything, and
  rounds fail at most `MaxFaults` times. `Served` is stated for senders whose
  transactions can be executed and whose later transactions never offer more
  than their earlier ones (section 5 says why).
- `NodeStorage!StorageFairSpec`: `WF` of `Write`, since the write queue is a promise
  chain that goes on while the process runs; crashes are not forced.
- `Peers!FairSpec`: `WF` of timers, starts, lookups and ends of calls, each as
  far as it does not time out: a call that answers within its limit is the
  normal case, and the properties say what holds when some do not.
- `Wallet!FairSpec`: handlers end and responses arrive (`WF`); the refresh
  timer fires, but a slot that is taken may delay it again and again (`SF`).
- `Clients!FairSpec`: block and sync timers fire, a round ends, and a command
  that was started goes on to its next step; persons are not forced.

The limits of the agreement result are part of it. `SharedChain` is checked
with rewards disabled (the default when genesis has no reward section, as in
the four node devnet), with fewer than three missed blocks, for slow answers
and up to two lost commits, while all nodes run, and when rounds do not overlap;
for such faults, fewer than a quorum, it is proved for any number of nodes
(section 4).
It ends where a block is in one node only: if all three commits of
a block are lost, or its proposer crashes before it sends them, the other three
nodes commit another block at that height, and the first one is taken back by
sync or stays in the store of the stopped node. Under crashes `rotation` shows
progress and quorums, not agreement. The properties of `peers` say where they stop as well:
validators of one configuration end up knowing each other whatever times out;
an external validator only while no call does and the seed node stays. Those of
`wallet` except overlapping saves (`raced`), which lose an account or leave a
session that opens nothing.

### Where the code disagrees with its documentation or tests

| run | what TLC finds |
|---|---|
| `rotation_wedge` | with rewards on, one lost commit leads to two pairs of nodes at one height with different hashes, and production stops for good (`main.ts:787`; `main.ts:676`: "Peer will recover via head sync path.") |
| `consensus_overlap` | two overlapping rounds at one height both get a quorum, because followers vote for both (`main.ts:1214`; `consensus.ts:69`) |

Met while modelling, found in the models with other parameters, and kept out of
the runs by the bound or the condition named:

| where | what happens |
|---|---|
| `main.ts:584`, `consensus.ts:72-83` | a crashed peer that sync has pruned counts as approving, so two of three nodes commit with two votes (`tests/devnet-convergence.test.ts:67` has production stop without a quorum). The faults of `rotation` have no pruning |
| `main.ts:660-679` | a proposer applies and stores its block, then sends the commits, once: if none arrives the others commit another block at that height, and the first one's transactions are undone. `rotation` loses at most two of the three commits, and `SharedChain` asks that all nodes run |
| `main.ts:613-615`, `consensus.ts:128` | only the proposer of a block counts who did not answer: the block in which it removes a validator for that has another hash at its followers, which keep the validator, so two chains of one height result without a lost message or a crash. `rotation` has fewer blocks than the limit of missed ones |
| `main.ts:863`, `676` | a snapshot has no queue of registrations: with epochs a synced node forgets queued validators. `RegistrationsKept` and `SameHeadSameState` name the registrations that a sync forgot, and the validators of a replaced chain that a restart loads (`storage.ts:256-262`) |
| `main.ts:787-799` | the heights are compared before the peer is asked for its state and not after: an import can take the height back. `DiskForward` names the case; `SharedChain` is checked where a sync ends before the next timer fires |
| `storage.ts:256-268`, `main.ts:809` | a batch of puts keeps accounts, validators and blocks of a chain that an import replaced, and a restart loads them as part of the state. `OneSnapshot` names what stays |
| `transactions.ts:615-662` | the raw storage methods write the token's keys too, without the checks of its methods: `SupplyAccounted`, `AllowanceRespected` and `OwnerKept` name a raw write as a cause, or count it as a new value |
| `background.ts:116` | the activity log keeps 200 entries. `ActivityKept` names the case |
| `tx-policy.ts:164-168` | the comparator is not transitive: with six transactions of two senders a later one comes first, and the block refuses and drops it. `Served` asks for fees that do not rise |
| `transactions.ts:168` | with `epochLength` 0 a registration is active at once and does not look at `maxActiveValidators`, of which `types.ts:113` makes no exception. `ActiveCap` is for epochs |
| `transactions.ts:460` | the fee of a call whose program fails is burned and is not part of the total that the validators' percentage is taken of |
| `transactions.ts:50` | a contract transaction that a later block contains again loses its receipt of success. `ReceiptTruth` names the case |
| `main.ts:1113` | `qtx_estimateGas` returns the base gas of a call, without the program's part that `docs/qtx-v1-smart-contracts.md:68-70` and the runtime require |
| `main.ts:1344` | a comment counts on the "next discoverPeers cycle", but `discoverPeers` runs at startup only: a forward or an announcement back that is lost is not repeated. `ValidatorsMeet` asks that none is |
| `main.ts:1353-1357, 1399-1402` | a seed node that looks up other nodes forwards none of the peers it learns of that way, so it can leave two validators that do not know each other. In `peers`, as on the devnet with a seed node, its bootstrap list names only itself |
| `main.ts:369, 770` | a restarted seed node and an external validator that pruned it do not meet again. `ValidatorsMeet` asks that the seed node stays |
| `main.ts:251-253` | several stakes are sent while the first one is still pending; they all take effect. `Registers` holds all the same |
| `main.ts:648` | with a batch smaller than the gap between a sender's transactions, the batch that is refused and dropped can be the self-registering node's again and again, and it never registers. `clients` has batches as large as the mempool |
| `apps/wallet/src/app/api/faucet/route.ts:132` | "Enforce one-time faucet funding per wallet": a block between the reads of recipient and funder lets two requests of one wallet both pay. `FundedOnce` names the case |
| `packages/sdk/src/index.ts:670` | "return the next valid nonce": it is the committed nonce and one, which the node refuses while a transaction of the sender is pending |
| `apps/wallet/src/components/SendPanel.tsx:49` | the panel puts the base fee into the fee it offers and the node adds its own, so sending all that is shown is admitted to the mempool and refused by the block |
| `background.ts`, `wallet-ui.ts` | `lockTimeoutMin` is stored and not used, `ACTIVE_ADDRESS_KEY` is written and not read, no view sends `vault:lock`; boot takes a failed `vault:exists` for an existing vault |

## 4. What is proved

TLAPS proves the following for every value of the constants that satisfies the
assumptions the modules name (`AccountAssumption`, `ValidatorAssumption`,
`TxAssumption`, `ParameterAssumption`; `ConsensusAssumption`,
`SchedulesAssumption`; `MempoolAssumption`; `ClientsAssumption`,
`FaucetAssumption`; `NodesAssumption`; `StorageAssumption`;
`NobodyAssumption`, `CallAssumption`, `UserAssumption`, `CodeAssumption`,
`LimitAssumption`; `VaultAssumption`, `WalletAssumption`). They give the constants their types; the others that matter
are that sets of accounts, users and nodes are finite, as they are summed over
or counted, and that the faucet pays from one account (`FAUCET_FUNDER_ADDRESS`
of its environment).

| module | theorem | states |
|---|---|---|
| `LedgerProofs` | `TypeCorrect`, `Typed` | types; `TypeOK` |
| | `MoneyConserved` | `Conservation` |
| | `OverdrawnByRegistration` | `OnlyRegistrationOverdraws` |
| | `TransactionsInOrder`, `UnstakeReleasedOnTime`, `DowntimeIsBounded` | `HistoryInOrder`, `UnstakeOnTime`, `DowntimeBounded` |
| | `QueueSound`, `ActivatedWithStake`, `ActivationIsFair` | `PendingSound`, `ActivationNeedsStake`, `ActivationFair` |
| | `CapHolds` | `ActiveCap`, with epochs |
| `ConsensusProofs` | `ConsensusTypeCorrect` | `TypeOK` |
| | `RegistrationsAreKept`, `SameHeadMeansSameState` | `RegistrationsKept`, `SameHeadSameState` |
| | `TimedIsConsensus` | `Rotation` refines `Consensus` |
| | `OneChainWhileMostHaveIt` | `SharedChain`, while the validators stay the same and no quorum is without the last block |
| | `NoQuorumIsBehind`, `SharedChainKept`, `HeadsAgree` | that no quorum is, `SharedChain` and `SameHead`, under `Sparing` and while the validators stay the same |
| | `RotationIsChain` | `Rotation` refines `Chain`, under the same conditions and without crashes |
| | `NobodyIsRemoved`, `FaultsKeepOneChain` | that the validators stay the same until the chain is as long as the limit of missed blocks; `SharedChain` until then |
| | `BlocksAreFinal` | that nodes at one height have one chain and take no block back until then, without crashes |
| | `OwnBlocksAreVoted` | `OwnBlocksHaveQuorum`, unless peers are pruned or restart |
| `MempoolProofs` | `MempoolTypeCorrect`, `NeitherStaleNorRivals`, `EntriesSurvive` | `TypeOK`, `NoStaleOrRival`, `ArrivalsSurvive` |
| `ClientsProofs` | `Invariance` | the inductive invariant |
| | `OnePaymentEach`, `PaymentsAreCovered` | `FundedOnce`, `PromiseKept` |
| | `ExtensionIsInTurn`, `LogsAreMerged` | `SendsInTurn`, `ActivityKept` |
| `ContractsProofs` | `ContractInvariant`, `ReceiptsTellTheTruth`, `AllowancesAreRespected`, `OwnersKeepTheirToken` | `ReceiptTruth`, `AllowanceRespected`, `OwnerKept` |
| | `NobodyOverdraws` | no token method but initialisation takes a balance below zero |
| | `SupplyIsAccounted` | `SupplyAccounted` |
| | `GasIsCovered`, `DeployedCodeRuns` | `GasCoversWork`, `DeployedRuns` |
| `NodeProofs` | `StorageInvariant`, `StoreHoldsOneSnapshot`, `StoreLosesNoBlock`, `StoreGoesForward` | `OneSnapshot`, `NoBlockLost`, `DiskForward` |
| | `PeersTypeCorrect`, `NetworkIsHandedOver` | `TypeOK`; `HandsOverANetwork`, if the seed node names no other node to start from |
| `WalletProofs` | `WalletTypeCorrect`, `LocksForget`, `AddedIsKept`, `SessionFits` | `LockForgets`, `AccountsKept`, `SessionOpensVault` |

### How

**FiniteTheorems.** Sums over sets, filters, the binary search and the sort are
loops, and the prover's induction rules cannot be instantiated. The module
proves what they compute all the same, by minimal counterexample. Of the subsets
of a finite set that a claim fails for, one has none below it (`Minimal`, from
the library's theorem that strict inclusion is well founded). For a loop the
subsets are the intervals up to a round. The results: a sum is an integer,
splits over disjoint sets, changes by what one term changes, and a map that
renames the terms keeps it; every loop has a course (`CourseExists`), so that
what its rounds do can be reasoned about one by one; a filter returns the chosen
entries in their order (`SelectedTakes`); `Placed` inserts, wherever the search
ends, and `Sort` permutes, although the comparator is not transitive. The last
section says so of the rules of a mempool: what is admitted has no rival, and
pruning or removing a block leaves exactly the rest.

**Ledger.** Few of the properties are inductive alone. `TypeInv` carries the
types and the finiteness of the queue. `EjectingInv` says that validators that
are about to be ejected are registered, and that there are some only while the
block settles: an ejection takes from the stake of its validator's owner, who
would not be known otherwise. `MoneyInv` adds that balances are integers, and
that every cooldown carries a nonce its owner has used, so that an unstake adds
an entry and does not coincide with one. `Conservation` is then that each action changes
the three sums by what it adds to `issued`; the hard ones are `FinishBlock`,
whose rewards sum shares by validator and credits by owner, the
settlement, and the downtime passes, in which several validators of one owner lose stake at once.
`UnstakeOnTime` needs `UnstakeInv`: every entry knows its block and is due, at
the latest, in the settlement that comes next. `CapHolds` and `ActivationFair`
need `ArrivalInv`, that the queue's places are all different, which makes the
order of activation strict and total; the rest is a count: the candidates that
are reached are at most as many as the free places, and as many if one is left
behind.

**Consensus.** The invariant `Inv` speaks of every ledger there is, in memory
and in the stores (`Ledgers`), because ledgers travel whole: by snapshot to
another node, by restart back in time. `ApplyBlockSound`, `RoundSound`,
`ImportSound`, `SlashSound` and `LoadedSound` say that each change of a single
ledger keeps it sound; the rest is that messages and proposals carry well typed
batches. Sound is that the chain's registrations are among the validators, the
queue and what a sync forgot, with no others but those that a restart brought
back, that nobody is active and slashed at once (`KeptIn`), and that what the
head's hash covers is what the ledger has, up to slashes, a forgotten queue and
restarts since (`FollowsHead`). The keys left in a store need an invariant of
their own, that none is an active and a slashed validator's (`Apart`), since they
become part of a ledger. `SameHeadSameState` compares two ledgers through the
head they share.

**Rotation.** Agreement is proved for any number of nodes, any schedules and
transactions, any number of slow prepares, and any crashes, as long as all nodes
run. What else it takes is named (`Sparing`): no candidates and no rewards, no
restarts, pruned peers or slashing calls, and in all fewer faults than a quorum
has nodes, unless no commit can be lost. `Agr` is the inductive invariant: one
node has the longest chain and all have a part of it; of rounds, commits and
syncs one thing goes on at a time; the voters of the open round are on their
proposer's head; a vote was for a chain that its voter still has, also a vote
that comes late; commits under way extend the longest chain by its last block.

It is inductive as long as `MostHaveIt`: fewer nodes than a quorum are `Behind`,
without the last block and without a commit on its way that brings it. A
proposer that is behind then finds no quorum for another block, because each
of its voters would be behind too. How a step may change `Behind` is `Spread`:
it grows by the loss of a commit, or begins anew with those that did not vote
for a new block. Two arguments bound it. If no commit is lost, the voters of
the block are a quorum that has it (`QuorumHasIt`), and of two quorums one node
is in both (`QuorumsMeet`). If commits are lost, the nodes behind are counted:
`Lost` adds to them those whose answer to the open round did not come, since a
round that gets its quorum leaves them behind, and each fault adds one node to
it at most (`StepLost`), so that over any number of blocks `Lost` is never more
than the faults so far (`Enough`). `OneChainWhileMostHaveIt` is the theorem
without the count, and says that nothing but a quorum that is left behind
splits the chain. The run `rotation`, with two faults and a quorum of three, is
an instance of `FaultsKeepOneChain`.

A step maps to a step of `Chain` when a proposer adds a block or a follower gets
one, and to a stutter otherwise. Validators are removed by missed blocks, which
only proposers count: `Counted` bounds these counts by the chain's length, from
which `NobodyIsRemoved` follows. The theorems need the condition
`MaxHeight < MaxMissedBlocks`, or that the validators stay the same: with a limit
of one missed block TLC finds `SharedChain` violated by one slow answer (section 3).

**Mempool.** `Sound` says that a mempool has one entry for a sender and nonce
and none that the node's ledger has used; it is inductive with the types and
with the bound on how far a node may be behind. An entry leaves only by
`Pruned`, stale, or by `Without`, in the block of its node: `Survive` says so of
every step.

**Clients.** `IInv` ties what a client has read to what the chain and the mempool
have become since: until a block comes a recipient the faucet found untouched
is untouched, and the nonce a faucet request holds is, if it is still the
funder's next, one whose balance pays (`FaucetReads`); what the extension has
seen waiting waits, and its nonce is the one after it (`ExtensionReads`). Every
payment that waits comes next for the funder and can be paid (`Promised`),
whoever else sends from that account, because another transaction of that nonce
is refused. Every payment made has reached its recipient or waits (`Accounted`).
Blocks of any length are summed up by `Later`, what they may do to an account,
and `AppliedPays`, that a block which uses up a payment's nonce has paid it.

**Contracts.** `Receipts` ties receipts to the transactions that ran and to the
nonces; `Allowances` says that balances and allowances are integers, that what a
spender moved and what it may still move add up to what the allowance was last
set to, and that what it moved is not negative. `Accounted` follows each method's sums. A program is
a loop over its instructions: `GoodRun` is what holds of a run after each of
them, above all that its work is no more than the gas of the instructions so
far, and the gas of a whole program is the sum over all of them.

**NodeStorage.** That the store goes forward is a fact about three places at
once: the hashes in the queue ascend, none is below the store's, none above
memory's; a crash keeps it because memory is then read from the store. Heights
need not ascend, but where one is lower than the one before, the last import that
took the height back is later than that head (`lowered`). Each snapshot has the
records of its own chain, up to its height, whatever stale ones it has above it,
and a batch that is put over older keys keeps that. That the store holds one
snapshot needs that what it holds beside the last one written are accounts and
validators that left the state since (`deleted`).

**Peers.** `PeersInv` says that an entry under an address leads to the node of
that address, and that a stopped process has no memory. `CalmInv` is what holds
until a node stops or a call times out: a node is known, and announced, only
once it runs; nobody misses a validator whose address it has, so none is pruned;
and any two validators that the seed node knows, or has counted, are linked: one
knows the other, or the announcement that tells it is under way. It holds
because the seed node learns of a validator by its announcement alone, and
forwards that to all it knows. So the seed node must not ask others
(`discoverPeers`): if its own configuration names a node to start from, it
learns of that node's other peers and forwards them to nobody, and can leave two validators behind
that do not know each other. The theorem has that as a condition on `Bootstrap`,
which the devnet with a seed node meets (`testnets/devnet/genesis.json:44` names
the seed node only).

**Wallet.** `StepCases` reduces every step of the views to what it does to the
worker in one slot: a message arrives, a handler goes on, a slot becomes idle.
`TypeInv` adds what a request carries at each stage, above all that only a
handler that saves holds a vault object, from which `FreshIsFree` counts that
there is an identity for the next one. `LockInv` says that after a lock nobody
has a password in hand, and that a worker which has not read the session's
password has no vault and opens none but by an unlock. `Kept`, which holds until
saves overlap, says that every copy of the vault, in storage, in memory or on
its way in a handler, has every account a view was told of or is about to be
told of (`Told`), and that every password in use opens the stored vault; a save
that ends keeps it because no other save and no load was under way to go by the
old one.

### Only model-checked

All liveness, which is beyond this prover: `KeepsCommitting`, `Served`,
`SavedInTheEnd`, `ValidatorsMeet`, `StaticStayKnown`, `ViewsFollow` and
`Registers`. Every safety
and action property of the runs that pass is stated by a theorem, whose
conditions the constants of the run satisfy.

## 5. Not modelled

- Signatures, hashes and key derivation as functions: a signature is valid or
  not, a hash identifies what it covers, a password opens the vault it closed.
- RPC dispatch, formatting and parameter parsing; loading genesis and
  configuration, whose values are the constants of the modules.
- `packages/network`: type declarations that nothing at run time uses.
- The explorer and the pages of the web wallet beyond what they submit: they
  render what they read. The web wallet's key in `sessionStorage` is loaded and
  cleared by single assignments.
- Of the extension, settings, export and the activity view, which change
  nothing the vault keeps.
- Of the command line, `unstake`, the contract commands and the load generator:
  they sign and submit as the modelled commands do.
- Contract events, and the text of programs: their parsed instructions are
  given.

What a further proof would need: agreement of the nodes that are left after a
crash needs an abstract specification weaker than `Chain`, in which the block of
a crashed proposer may be replaced.
