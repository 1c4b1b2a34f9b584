------------------------------ MODULE Clients ------------------------------
(***************************************************************************)
(* Everyone who makes transactions, at one node: the faucet of the web     *)
(* wallet's server, the wallet extension's background worker, the SDK with *)
(* the command line on it, the web wallet's panels, `qtx validator         *)
(* register`, and a node that registers itself.  Each reads the committed  *)
(* account over RPC, some also the mempool, and submits later: blocks and  *)
(* other clients come in between.  All but the web wallet offer no fee     *)
(* above the base fee, which the node adds; the web wallet offers it too.  *)
(***************************************************************************)
EXTENDS TxPolicy

CONSTANTS
  Addresses,
  Node,              \* the address of the node's own key
  Clients,           \* who acts: a person with a program, or a faucet request
  Task,              \* for each client: what it is to do
  Genesis,           \* the balances at the start
  MinValidatorStake,
  StakeAmount,       \* what the node's configuration says it stakes
  BaseFee,
  MaxTxPerBlock,
  LogLimit,          \* 200 in the code: what the extension's activity log keeps
  Parties,           \* bound: which of the clients and the node act in one behaviour
  MaxTries,          \* bound: how often each client does its task
  MaxPool,           \* bound: a node does not stake while the mempool is full
  MaxFaults          \* bound: rounds without a quorum, failed mempool reads

Kinds == {"faucet", "extension", "sdk", "web", "validator"}

Types == {"transfer", "stake", "validator_register"}

ASSUME ClientsAssumption ==
  /\ Node \in Addresses /\ "node" \notin Clients
  /\ Task \in [Clients -> [kind : Kinds, type : Types, from : Addresses, to : Addresses, amount : Nat \ {0}]]
  /\ Genesis \in [Addresses -> Nat]
  /\ Parties \subseteq SUBSET (Clients \cup {Node})
  /\ BaseFee \in Nat \ {0}
  /\ MinValidatorStake \in Nat \ {0}
  /\ StakeAmount \in Nat /\ StakeAmount >= MinValidatorStake
  /\ MaxTries \in [Clients -> Nat]
  /\ {MaxTxPerBlock, MaxPool, LogLimit} \subseteq Nat \ {0}
  /\ MaxFaults \in Nat

\* The faucet's server makes transfers with the one key of its environment.
ASSUME FaucetAssumption ==
  \A c, d \in Clients :
    Task[c].kind = "faucet" /\ Task[d].kind = "faucet" => Task[c].type = "transfer" /\ Task[c].from = Task[d].from

VARIABLES
  chain,      \* the committed state: accounts, and who is registered or pending
  mempool,
  batch,      \* the batch of the node's round under way, or NoRound
  client,     \* where each client is in its task
  activity,   \* the extension's activity log, the newest entry first: an entry is
              \* the transaction of one try of a client
  paid,       \* history: the faucet's payments, in the order they were accepted
  faults

vars == <<chain, mempool, batch, client, activity, paid, faults>>

NoRound == [txs |-> <<>>, open |-> FALSE]

\* nonce and stake: what it computed; shown: the balance that the web wallet
\* shows; log: what it read of the activity log.
\* pending and steady are history: the sender's waiting nonces at the first
\* read, and that no block came since then.
Ready == [stage |-> "ready", nonce |-> 0, stake |-> 0, shown |-> 0, log |-> <<>>, pending |-> {},
          steady |-> TRUE, tries |-> 0]

Nonces == [a \in Addresses |-> chain.accounts[a].nonce]

Waiting(a) == {mempool[i].nonce : i \in Pending(mempool, a)}

-----------------------------------------------------------------------------
(* The node. *)

Affords(sender, tx) == sender.balance >= tx.amount + BaseFee + tx.fee

\* What the sender has left: the amount and the fees are gone, the nonce is used.
Spent(sender, tx, amount) ==
  [sender EXCEPT !.balance = sender.balance - amount - BaseFee - tx.fee, !.nonce = tx.nonce]

WithAccount(state, a, account) == [state EXCEPT !.accounts = [state.accounts EXCEPT ![a] = account]]

\* applyTransaction: the state after tx; a refused one changes nothing.
Apply(state, tx) ==
  LET sender == state.accounts[tx.from]
      sent == WithAccount(state, tx.from, Spent(sender, tx, tx.amount))
      staked == [Spent(sender, tx, tx.amount) EXCEPT !.staked = @ + tx.amount]
      registered == [WithAccount(state, tx.from, Spent(sender, tx, 0)) EXCEPT !.registered = @ \cup {tx.from}]
  IN  IF tx.nonce # sender.nonce + 1 THEN state
      ELSE CASE tx.type = "transfer" /\ Affords(sender, tx) ->
                  WithAccount(sent, tx.to, [sent.accounts[tx.to] EXCEPT !.balance = @ + tx.amount])
             [] tx.type = "stake" /\ Affords(sender, tx) -> WithAccount(state, tx.from, staked)
             [] tx.type = "validator_register" /\ tx.from \notin state.registered
                  /\ sender.staked >= MinValidatorStake -> registered
             [] OTHER -> state

\* applyBlock: one after the other.
Applied(state, txs) ==
  LET after[i \in 0 .. Len(txs)] == IF i = 0 THEN state ELSE Apply(after[i - 1], txs[i])
  IN  after[Len(txs)]

\* enqueueSignedTx: admitted, or an error for the caller.
Admits(tx) == Acceptable(Nonces, mempool, tx)

Enqueue(tx) == mempool' = Sort(Append(mempool, tx))

\* History: a block comes, whoever has read the state may be out of date.
Unsettled ==
  [c \in Clients |-> [client[c] EXCEPT !.steady = @ /\ client[c].stage \notin {"untouched", "chain", "signed"}]]

\* Mutant: what a block refuses stays in the mempool of its proposer.
WithoutAccepted(pool, txs) ==
  Selected(pool, {i \in DOMAIN pool :
                    ~(Contains(txs, pool[i]) /\ pool[i].nonce <= Applied(chain, txs).accounts[pool[i].from].nonce)})

\* What a block of the node takes out of its mempool.
Taken(pool, txs) == Without(pool, txs)

\* A block with the transactions txs is committed; own says who proposed it.
Block(txs, own) ==
  LET after == Applied(chain, txs)
  IN  /\ chain' = after
      /\ mempool' = Pruned(IF own THEN Taken(mempool, txs) ELSE mempool,
                           [a \in Addresses |-> after.accounts[a].nonce])
      /\ client' = Unsettled

\* produceDistributedBlock up to the await of the votes, and after it.
StartBlock ==
  /\ ~batch.open
  /\ mempool # <<>>
  /\ batch' = [txs |-> SubSeq(mempool, 1, Min({MaxTxPerBlock, Len(mempool)})), open |-> TRUE]
  /\ UNCHANGED <<chain, mempool, client, activity, paid, faults>>

FinishBlock ==
  /\ batch.open
  /\ Block(batch.txs, TRUE)
  /\ batch' = NoRound
  /\ UNCHANGED <<activity, paid, faults>>

RoundFails ==
  /\ batch.open
  /\ faults < MaxFaults
  /\ faults' = faults + 1
  /\ batch' = NoRound
  /\ UNCHANGED <<chain, mempool, client, activity, paid>>

\* A block of another proposer, who has got some of the mempool by gossip.
OthersBlock ==
  /\ ~batch.open
  /\ \E k \in 1 .. Len(mempool) : Block(SubSeq(mempool, 1, k), FALSE)
  /\ chain' # chain
  /\ UNCHANGED <<batch, activity, paid, faults>>

-----------------------------------------------------------------------------
(* autoRegisterAsValidator, at the end of every sync cycle. *)

OwnNonce == NextExpectedNonce(Nonces, mempool, Node)

OwnTx(type, amount) ==
  [type |-> type, from |-> Node, to |-> Node, amount |-> amount, nonce |-> OwnNonce, fee |-> 0, by |-> "node"]

AutoStake ==
  LET account == chain.accounts[Node]
      needed == StakeAmount - account.staked
  IN  /\ Node \notin chain.registered
      /\ account.staked < MinValidatorStake
      /\ account.balance >= needed + BaseFee
      /\ Len(mempool) < MaxPool
      /\ Admits(OwnTx("stake", needed))
      /\ Enqueue(OwnTx("stake", needed))
      /\ UNCHANGED <<chain, batch, client, activity, paid, faults>>

AutoRegister ==
  /\ Node \notin chain.registered
  /\ chain.accounts[Node].staked >= MinValidatorStake
  /\ Len(mempool) < MaxPool
  /\ Admits(OwnTx("validator_register", 1))
  /\ Enqueue(OwnTx("validator_register", 1))
  /\ UNCHANGED <<chain, batch, client, activity, paid, faults>>

-----------------------------------------------------------------------------
(* The clients. *)

Becomes(c, record) == client' = [client EXCEPT ![c] = record]

Goes(c, stage) == Becomes(c, [client[c] EXCEPT !.stage = stage])

\* An answer to a submission: what was read before it is of no more use.
Ends(c, stage) == Becomes(c, [Ready EXCEPT !.stage = stage, !.nonce = client[c].nonce, !.tries = client[c].tries])

At(c, kind, stage) == Task[c].kind = kind /\ client[c].stage = stage

\* What a client offers above the base fee.
Fee(c) == IF Task[c].kind = "web" THEN BaseFee ELSE 0

\* The transaction that a client signs.
Signed(c, type, amount) ==
  [type |-> type, from |-> Task[c].from, to |-> Task[c].to, amount |-> amount,
   nonce |-> client[c].nonce, fee |-> Fee(c), by |-> c]

\* Whoever has finished may begin again.
Again(c) ==
  /\ client[c].stage \in {"done", "failed"}
  /\ Task[c].kind # "faucet"
  /\ client[c].tries < MaxTries[c]
  /\ Becomes(c, [Ready EXCEPT !.tries = client[c].tries])
  /\ UNCHANGED <<chain, mempool, batch, activity, paid, faults>>

\* Mutant: only the nonce is looked at.
NeverSent(a) == chain.accounts[a].nonce = 0

\* POST /api/faucet: the recipient must be untouched ...
Untouched(a) == chain.accounts[a].balance = 0 /\ chain.accounts[a].staked = 0 /\ chain.accounts[a].nonce = 0

ReadRecipient(c) ==
  /\ At(c, "faucet", "ready")
  /\ Goes(c, IF Untouched(Task[c].to) THEN "untouched" ELSE "failed")
  /\ UNCHANGED <<chain, mempool, batch, activity, paid, faults>>

\* Mutant: the faucet takes the node's next nonce.
NonceAfterPending(a) == NextExpectedNonce(Nonces, mempool, a)

\* qtx_getBalance plus one.
NextNonce(a) == Nonces[a] + 1

\* ... and the funder able to pay.
ReadFunder(c) ==
  LET funder == Task[c].from
  IN  /\ At(c, "faucet", "untouched")
      /\ IF chain.accounts[funder].balance < Task[c].amount + BaseFee
         THEN Goes(c, "failed")
         ELSE Becomes(c, [client[c] EXCEPT !.stage = "signed", !.nonce = NextNonce(funder)])
      /\ UNCHANGED <<chain, mempool, batch, activity, paid, faults>>

\* getNextNonce of the SDK and of the web wallet, and the extension's first read.
ReadBalance(c) ==
  LET from == Task[c].from
  IN  /\ client[c].stage = "ready"
      /\ Task[c].kind \in {"sdk", "extension"}
      /\ Becomes(c, [client[c] EXCEPT !.stage = IF Task[c].kind = "sdk" THEN "signed" ELSE "chain",
                                      !.nonce = NextNonce(from),
                                      !.pending = Waiting(from),
                                      !.tries = @ + 1])
      /\ UNCHANGED <<chain, mempool, batch, activity, paid, faults>>

\* The web wallet's refresh, every ten seconds.
Refresh(c) ==
  /\ Task[c].kind = "web"
  /\ client[c].stage \in {"ready", "shown"}
  /\ Becomes(c, [client[c] EXCEPT !.stage = "shown", !.shown = chain.accounts[Task[c].from].balance])
  /\ UNCHANGED <<chain, mempool, batch, activity, paid, faults>>

\* handleSend and handleSubmit up to the answer of getNextNonce: only a transfer
\* is compared with the balance that is shown.
UsePanel(c) ==
  LET short == Task[c].type = "transfer" /\ client[c].shown < Task[c].amount + Fee(c)
  IN  /\ At(c, "web", "shown")
      /\ Becomes(c, [client[c] EXCEPT !.stage = IF short THEN "failed" ELSE "signed",
                                      !.nonce = NextNonce(Task[c].from),
                                      !.tries = @ + 1])
      /\ UNCHANGED <<chain, mempool, batch, activity, paid, faults>>

\* Mutant: what waits is not looked at.
IgnoringPending(nonce, a) == nonce

\* sendTransferTx: after the latest that waits, if that is later.
AfterPending(nonce, a) == Max({nonce} \cup {waiting + 1 : waiting \in Waiting(a)})

ReadMempool(c) ==
  /\ At(c, "extension", "chain")
  /\ Becomes(c, [client[c] EXCEPT !.stage = "signed", !.nonce = AfterPending(@, Task[c].from)])
  /\ UNCHANGED <<chain, mempool, batch, activity, paid, faults>>

\* "Best-effort only."
ReadMempoolFails(c) ==
  /\ At(c, "extension", "chain")
  /\ faults < MaxFaults
  /\ faults' = faults + 1
  /\ Becomes(c, [client[c] EXCEPT !.stage = "signed", !.steady = FALSE])
  /\ UNCHANGED <<chain, mempool, batch, activity, paid>>

\* qtx_submitTransaction for all of them.
Submit(c) ==
  LET tx == Signed(c, Task[c].type, Task[c].amount)
  IN  /\ client[c].stage = "signed"
      /\ IF Admits(tx)
         THEN /\ Enqueue(tx)
              /\ Ends(c, IF Task[c].kind = "extension" THEN "sent" ELSE "done")
              /\ paid' = IF Task[c].kind = "faucet"
                         THEN Append(paid, [to |-> tx.to, steady |-> client[c].steady]) ELSE paid
         ELSE Ends(c, "failed") /\ UNCHANGED <<mempool, paid>>
      /\ UNCHANGED <<chain, batch, activity, faults>>

\* appendActivity, a read and a write of the extension's storage.
ReadActivity(c) ==
  /\ At(c, "extension", "sent")
  /\ Becomes(c, [client[c] EXCEPT !.stage = "logging", !.log = activity])
  /\ UNCHANGED <<chain, mempool, batch, activity, paid, faults>>

\* Mutant: the log begins anew.
OnlyItem(log, item) == <<item>>

\* The new entry goes first, any other of the same transaction goes, and so does
\* what is beyond the limit.
WithItem(log, item) ==
  LET deduped == IF Contains(log, item) THEN Without(log, <<item>>) ELSE log
      whole == <<item>> \o deduped
  IN  SubSeq(whole, 1, IF Len(whole) < LogLimit THEN Len(whole) ELSE LogLimit)

WriteActivity(c) ==
  /\ At(c, "extension", "logging")
  /\ activity' = WithItem(client[c].log, <<c, client[c].tries>>)
  /\ Ends(c, "done")
  /\ UNCHANGED <<chain, mempool, batch, paid, faults>>

\* cmdValidator: it stakes what is missing and registers, with nonces that it
\* computes from one read.
ReadStake(c) ==
  LET account == chain.accounts[Task[c].from]
      additional == Max({0, Task[c].amount - account.staked})
  IN  /\ At(c, "validator", "ready")
      /\ Becomes(c, [client[c] EXCEPT !.stage = IF additional > 0 THEN "stake" ELSE "register",
                                      !.nonce = account.nonce + 1,
                                      !.stake = additional,
                                      !.tries = @ + 1])
      /\ UNCHANGED <<chain, mempool, batch, activity, paid, faults>>

SubmitStake(c) ==
  LET tx == Signed(c, "stake", client[c].stake)
  IN  /\ At(c, "validator", "stake")
      /\ IF Admits(tx)
         THEN Enqueue(tx) /\ Becomes(c, [client[c] EXCEPT !.stage = "register", !.nonce = @ + 1])
         ELSE Ends(c, "failed") /\ UNCHANGED mempool
      /\ UNCHANGED <<chain, batch, activity, paid, faults>>

SubmitRegister(c) ==
  LET tx == Signed(c, "validator_register", 1)
  IN  /\ At(c, "validator", "register")
      /\ IF Admits(tx)
         THEN Enqueue(tx) /\ Ends(c, "done")
         ELSE Ends(c, "failed") /\ UNCHANGED mempool
      /\ UNCHANGED <<chain, batch, activity, paid, faults>>

Step(c) ==
  \/ ReadRecipient(c) \/ ReadFunder(c)
  \/ ReadBalance(c) \/ ReadMempool(c)
  \/ Refresh(c) \/ UsePanel(c)
  \/ Submit(c)
  \/ ReadActivity(c) \/ WriteActivity(c)
  \/ ReadStake(c) \/ SubmitStake(c) \/ SubmitRegister(c)

Next ==
  \/ StartBlock \/ FinishBlock \/ RoundFails \/ OthersBlock
  \/ AutoStake \/ AutoRegister
  \/ \E c \in Clients : Step(c) \/ ReadMempoolFails(c) \/ Again(c)

Init ==
  /\ \E party \in Parties :
       /\ chain = [accounts |-> [a \in Addresses |->
                      [balance |-> IF a # Node \/ Node \in party THEN Genesis[a] ELSE 0, staked |-> 0, nonce |-> 0]],
                   registered |-> {}]
       /\ client = [c \in Clients |-> [Ready EXCEPT !.stage = IF c \in party THEN "ready" ELSE "absent"]]
  /\ mempool = <<>>
  /\ batch = NoRound
  /\ activity = <<>>
  /\ paid = <<>>
  /\ faults = 0

Spec == Init /\ [][Next]_vars

\* The block and sync timers keep firing, a round ends, and a command that was
\* started is not left halfway.
FairSpec ==
  /\ Spec
  /\ WF_vars(StartBlock)
  /\ WF_vars(FinishBlock)
  /\ WF_vars(AutoStake \/ AutoRegister)
  /\ \A c \in Clients : WF_vars(SubmitStake(c) \/ SubmitRegister(c))

-----------------------------------------------------------------------------
(* Properties *)

\* Every variable has its type; what an account has staked or paid was there.
TypeOK ==
  /\ chain.registered \subseteq Addresses
  /\ \A a \in Addresses :
       LET account == chain.accounts[a]
       IN  {account.staked, account.nonce} \subseteq Nat /\ account.balance >= -2 * BaseFee
  /\ \A i \in DOMAIN mempool : mempool[i].type \in Types /\ mempool[i].from \in Addresses
  /\ batch.open \in BOOLEAN
  /\ Len(batch.txs) <= MaxTxPerBlock
  /\ client \in [Clients -> [stage : {"absent", "ready", "untouched", "chain", "shown", "signed", "sent", "logging",
                                      "stake", "register", "done", "failed"},
                           nonce : Nat, stake : Nat, shown : Int, log : Seq(Clients \X Nat),
                           pending : SUBSET Nat, steady : BOOLEAN, tries : Nat]]
  /\ activity \in Seq(Clients \X Nat) /\ Len(activity) <= LogLimit
  /\ faults \in 0 .. MaxFaults

\* faucet route.ts: "Enforce one-time faucet funding per wallet": a request
\* between whose reads no block came never pays an address that was paid.
FundedOnce ==
  \A i, j \in DOMAIN paid : i < j /\ paid[i].to = paid[j].to => ~paid[j].steady

\* A payment for which the faucet has given out a transaction hash can be made
\* by the funder for as long as it waits, whoever else uses that account: the
\* nonce it took shows that the balance it read still stands.
PromiseKept ==
  \A i \in DOMAIN mempool :
    LET tx == mempool[i]
    IN  tx.by # "node" /\ Task[tx.by].kind = "faucet"
        => chain.accounts[tx.from].balance >= tx.amount + BaseFee

\* What waits of a sender has a gap.
Gap(a) == Waiting(a) # (Nonces[a] + 1) .. (Nonces[a] + Cardinality(Waiting(a)))

\* The node refuses what the extension sends only if a block came or the
\* sender's waiting transactions changed since it began, or they have a gap.
SendsInTurn ==
  [][\A c \in Clients :
       At(c, "extension", "signed") /\ client'[c].stage = "failed"
         => ~client[c].steady \/ Waiting(Task[c].from) # client[c].pending \/ Gap(Task[c].from)]_vars

\* What was sent and logged is forgotten only if two views logged at once, and
\* the entry was made after one of them had read the log, or if the log that was
\* read was full and the entry the oldest in it.
ActivityKept ==
  [][\A entry \in ToSet(activity) \ ToSet(activity') :
       \E c \in Clients :
         LET log == client[c].log
         IN  /\ At(c, "extension", "logging")
             /\ ~Contains(log, entry) \/ (Len(log) = LogLimit /\ log[LogLimit] = entry)]_vars

\* qtx.ts: "when validator_register is applied in the same block, sender.staked
\* will satisfy minValidatorStake": the stake of c's command is there, or is on
\* its way and can be paid.
Promising(c) ==
  LET from == Task[c].from
      account == chain.accounts[from]
  IN  \/ account.staked >= MinValidatorStake
      \/ /\ Task[c].amount >= MinValidatorStake
         /\ \E tx \in ToSet(mempool) : tx.by = c /\ tx.type = "stake" /\ account.balance >= tx.amount + BaseFee

\* A node that can pay its stake and the fees becomes a validator, however
\* often it stakes again because the stake it has sent is not in a block yet;
\* and so does the account of a command that promises to, if nobody else uses it.
Registers ==
  /\ chain.accounts[Node].balance >= StakeAmount + 2 * BaseFee => <>(Node \in chain.registered)
  /\ \A c \in Clients :
       (\A d \in Clients \ {c} : Task[d].from # Task[c].from) /\ Task[c].from # Node
         => (At(c, "validator", "register") /\ Promising(c) ~> Task[c].from \in chain.registered)

=============================================================================
