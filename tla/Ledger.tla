------------------------------- MODULE Ledger -------------------------------
(***************************************************************************)
(* One node's copy of the protocol state and the code that changes it:     *)
(* packages/protocol (state.ts, transactions.ts, consensus.ts).            *)
(*                                                                         *)
(* applyBlock is one synchronous call; it is modelled by the steps of its  *)
(* own loops, in the order the code runs them, and nothing else happens    *)
(* until the block is finished (block.phase).  A block is opened by the    *)
(* node's own consensus round (BeginRound) or by the commit of another     *)
(* proposer's block (BeginCommit).                                         *)
(***************************************************************************)
EXTENDS Rewards, Rounds, Sequences

CONSTANTS
  Users,            \* account addresses that can sign transactions
  Contracts,        \* contract addresses
  ValidatorIds,     \* validator ids, numbered in the order of localeCompare
  Seed, SeedId,     \* the seed node's account and validator id
  InitialBalance,   \* genesis balance of each user
  SeedStake,        \* what the seed node stakes at bootstrap
  Txs,              \* the transactions the environment may put in a block
  MinValidatorStake, UnstakeCooldownBlocks, BaseFee,
  MaxActiveValidators, EpochLength,
  RewardEnabled, BlockReward, FeeSharePercent, ProposerBonusPercent, RewardMode,
  MaxMissedBlocks, EjectionBlocks, BurnPercent, SlashPercent,
  NoValidator,      \* an id with no validator record
  MaxHeight,        \* bound: no block is opened at this height
  MaxBlockTxs       \* bound: transactions that take effect in one block

Addresses == Users \cup Contracts

TxTypes == {"transfer", "stake", "unstake", "validator_register",
            "validator_unregister", "contract_deploy", "contract_call"}

\* The fields of a signed transaction the ledger looks at.  `vm' abstracts the
\* contract code and gas of contract transactions: "invalid" is refused before
\* anything changes (bad code, too little gas), "fails" makes the contract's
\* program stop with an error, "ok" runs it to its end.  `pay' is the amount
\* the native `transfer' method sends from the contract to `to'.
TxRecord == [type : TxTypes, from : Users, nonce : Nat, amount : Int, fee : Int,
             to : Addresses, id : ValidatorIds, contract : Contracts,
             vm : {"ok", "invalid", "fails"}, pay : Nat]

ASSUME AccountAssumption ==
  /\ IsFiniteSet(Addresses)
  /\ Seed \in Users
  /\ Users \cap Contracts = {}
  /\ InitialBalance \in [Users -> Nat]
  /\ SeedStake \in Nat

ASSUME ValidatorAssumption ==
  /\ ValidatorIds \subseteq Nat
  /\ IsFiniteSet(ValidatorIds)
  /\ SeedId \in ValidatorIds
  /\ NoValidator \notin [owner : Users, active : BOOLEAN, slashed : BOOLEAN,
                         missed : Nat, inactive : Nat]

ASSUME TxAssumption == \A tx \in Txs : tx \in TxRecord

ASSUME ParameterAssumption ==
  /\ MinValidatorStake \in Nat
  /\ UnstakeCooldownBlocks \in Nat
  /\ BaseFee \in Nat
  /\ MaxActiveValidators \in Nat
  /\ EpochLength \in Nat
  /\ RewardEnabled \in BOOLEAN
  /\ BlockReward \in Nat
  /\ FeeSharePercent \in 0 .. 100
  /\ ProposerBonusPercent \in 0 .. 100
  /\ MaxMissedBlocks \in Nat \ {0}
  /\ EjectionBlocks \in Nat \ {0}
  /\ BurnPercent \in 0 .. 100
  /\ SlashPercent \in 0 .. 100
  /\ MaxHeight \in Nat
  /\ MaxBlockTxs \in Nat

VARIABLES
  height,             \* height of the last committed block
  balance, nonce, staked,   \* the accounts; an absent account is all zero
  validators,         \* validator record of each id, or NoValidator
  pendingValidators,  \* registrations that wait for the next epoch
  pendingUnstakes,    \* unstaked amounts still in their cooldown
  contracts,          \* addresses with deployed code
  block,              \* the block being applied
  history,            \* history: nonces of each user's effective transactions
  issued              \* history: what fees, rewards and burns did to the supply

accounts == <<balance, nonce, staked>>
vars == <<height, accounts, validators, pendingValidators, pendingUnstakes,
          contracts, block, history, issued>>

ValidatorRecord == [owner : Users, active : BOOLEAN, slashed : BOOLEAN,
                    missed : Nat, inactive : Nat]

\* The order of the array is the order of `arrival'.
PendingRecord == [id : ValidatorIds, owner : Users, registeredAtHeight : Nat, arrival : Nat]

\* The nonce of the unstake transaction tells equal entries of the array apart.
\* since (history): the block that took the amount out of the stake.
UnstakeRecord == [owner : Users, nonce : Nat, amount : Nat, since : Nat, unlockAt : Nat]

\* phase: "idle" between blocks, "settle" while the round's ejections run and
\* until the cooldowns are settled, "txs" while transactions are applied.
\* fees: what distributeValidatorRewards will count.
BlockRecord == [phase : {"idle", "settle", "txs"}, proposer : ValidatorIds,
                ejecting : SUBSET ValidatorIds, count : Nat, fees : Nat]

Idle == [phase |-> "idle", proposer |-> SeedId, ejecting |-> {},
         count |-> 0, fees |-> 0]

Open(proposer, ejecting) ==
  [Idle EXCEPT !.phase = "settle", !.proposer = proposer, !.ejecting = ejecting]

NewValidator(owner) ==
  [owner |-> owner, active |-> TRUE, slashed |-> FALSE, missed |-> 0, inactive |-> 0]

Registered == {v \in ValidatorIds : validators[v] # NoValidator}
Active == {v \in Registered : validators[v].active /\ ~validators[v].slashed}

-----------------------------------------------------------------------------
(* The seed node's chain after its bootstrap block: it has staked,         *)
(* registered itself at once and paid two base fees, with no reward.       *)

Init ==
  /\ height = 1
  /\ balance = [a \in Addresses |->
                  IF a \notin Users THEN 0
                  ELSE IF a = Seed THEN InitialBalance[a] - SeedStake - 2 * BaseFee
                  ELSE InitialBalance[a]]
  /\ nonce = [a \in Users |-> IF a = Seed THEN 2 ELSE 0]
  /\ staked = [a \in Users |-> IF a = Seed THEN SeedStake ELSE 0]
  /\ validators = [v \in ValidatorIds |->
                     IF v = SeedId THEN NewValidator(Seed) ELSE NoValidator]
  /\ pendingValidators = {}
  /\ pendingUnstakes = {}
  /\ contracts = {}
  /\ block = Idle
  /\ history = [a \in Users |-> IF a = Seed THEN <<1, 2>> ELSE <<>>]
  /\ issued = - 2 * BaseFee

-----------------------------------------------------------------------------
(* runConsensusRound: the proposer's own bookkeeping, before the block.    *)

ScheduledProposer(active) == ProposerAt(active, height)

\* Mutant: participation clears inactiveBlocks and forgets missedBlocks.
AfterRoundKeepsMissed(v, participating, unavailable) ==
  LET r == validators[v]
      missed == r.missed + 1
  IN  IF r = NoValidator THEN NoValidator
      ELSE IF v \in participating THEN [r EXCEPT !.inactive = 0]
      ELSE IF r.slashed \/ v \notin unavailable THEN [r EXCEPT !.inactive = @ + 1]
      ELSE IF missed < MaxMissedBlocks
           THEN [r EXCEPT !.inactive = @ + 1, !.missed = missed]
      ELSE [r EXCEPT !.inactive = @ + 1, !.missed = missed,
                     !.active = FALSE, !.slashed = TRUE]

\* One validator's record after the pass over all registered validators.
AfterRound(v, participating, unavailable) ==
  LET r == validators[v]
      missed == r.missed + 1
  IN  IF r = NoValidator THEN NoValidator
      ELSE IF v \in participating THEN [r EXCEPT !.missed = 0, !.inactive = 0]
      ELSE IF r.slashed \/ v \notin unavailable THEN [r EXCEPT !.inactive = @ + 1]
      ELSE IF missed < MaxMissedBlocks
           THEN [r EXCEPT !.inactive = @ + 1, !.missed = missed]
      ELSE [r EXCEPT !.inactive = @ + 1, !.missed = missed,
                     !.active = FALSE, !.slashed = TRUE]

BeginRound(unavailable) ==
  LET participating == Active \ unavailable
  IN  /\ block.phase = "idle"
      /\ height < MaxHeight
      /\ Active # {}
      /\ Cardinality(participating) >= Quorum(Cardinality(Active))
      /\ validators' = [v \in ValidatorIds |-> AfterRound(v, participating, unavailable)]
      /\ block' = Open(ScheduledProposer(Active),
                       {v \in Registered \ participating :
                          validators[v].inactive + 1 >= EjectionBlocks})
      /\ UNCHANGED <<height, accounts, pendingValidators, pendingUnstakes,
                     contracts, history, issued>>

\* qtx_consensusCommit on a node that did not propose: applyBlock alone, with
\* the proposer named by the proposal (which may have been slashed or have left
\* since the proposal was voted on).
BeginCommit(proposer) ==
  /\ block.phase = "idle"
  /\ height < MaxHeight
  /\ block' = Open(proposer, {})
  /\ UNCHANGED <<height, accounts, validators, pendingValidators, pendingUnstakes,
                 contracts, history, issued>>

\* ejectInactiveValidator, once for every validator the pass found.
EjectInactiveValidator(v) ==
  LET owner == validators[v].owner
      burnAmount == Percent(staked[owner], BurnPercent)
  IN  /\ block.phase = "settle"
      /\ v \in block.ejecting
      /\ staked' = [staked EXCEPT ![owner] = @ - burnAmount]
      /\ validators' = [validators EXCEPT ![v] = NoValidator]
      /\ block' = [block EXCEPT !.ejecting = @ \ {v}]
      /\ issued' = issued - burnAmount
      /\ UNCHANGED <<height, balance, nonce, pendingValidators, pendingUnstakes,
                     contracts, history>>

\* What the entries of `entries' give back to address a.
Released(entries, a) ==
  LET theirs == {e \in entries : e.owner = a}
  IN  SumFunction([e \in theirs |-> e.amount])

SettlePendingUnstakes ==
  LET releasable == {e \in pendingUnstakes : e.unlockAt <= height}
  IN  /\ block.phase = "settle"
      /\ block.ejecting = {}
      /\ balance' = [a \in Addresses |-> balance[a] + Released(releasable, a)]
      /\ pendingUnstakes' = pendingUnstakes \ releasable
      /\ block' = [block EXCEPT !.phase = "txs"]
      /\ UNCHANGED <<height, nonce, staked, validators, pendingValidators,
                     contracts, history, issued>>

-----------------------------------------------------------------------------
(* applyTransaction, one action per transaction type.  A transaction that  *)
(* is refused changes nothing modelled here and is not a step, with one    *)
(* exception, ContractCallFails.                                           *)

Fee(tx) == BaseFee + tx.fee
TotalDebit(tx) == tx.amount + Fee(tx)

\* The balances b when one account has been debited and then one credited.
Moved(b, from, debit, to, credit) ==
  LET debited == [b EXCEPT ![from] = @ - debit]
  IN  [debited EXCEPT ![to] = @ + credit]

AmountOK(tx) ==
  IF tx.type \in {"contract_deploy", "contract_call"} THEN tx.amount >= 0 ELSE tx.amount > 0

\* Mutant: any later nonce will do.
AdmissibleAnyLaterNonce(tx, type) ==
  /\ block.phase = "txs"
  /\ block.count < MaxBlockTxs
  /\ tx.type = type
  /\ AmountOK(tx)
  /\ tx.fee >= 0
  /\ tx.nonce > nonce[tx.from]

\* The checks made before the switch on the type.
Admissible(tx, type) ==
  /\ block.phase = "txs"
  /\ block.count < MaxBlockTxs
  /\ tx.type = type
  /\ AmountOK(tx)
  /\ tx.fee >= 0
  /\ tx.nonce = nonce[tx.from] + 1

\* The sender's nonce moves on; `counted' is what totalFees will include.
TakeEffect(tx, counted) ==
  /\ nonce' = [nonce EXCEPT ![tx.from] = @ + 1]
  /\ history' = [history EXCEPT ![tx.from] = Append(@, tx.nonce)]
  /\ issued' = issued - Fee(tx)
  /\ block' = [block EXCEPT !.count = @ + 1, !.fees = @ + counted]

Transfer(tx) ==
  /\ Admissible(tx, "transfer")
  /\ balance[tx.from] >= TotalDebit(tx)
  /\ balance' = Moved(balance, tx.from, TotalDebit(tx), tx.to, tx.amount)
  /\ TakeEffect(tx, Fee(tx))
  /\ UNCHANGED <<height, staked, validators, pendingValidators, pendingUnstakes, contracts>>

Stake(tx) ==
  /\ Admissible(tx, "stake")
  /\ balance[tx.from] >= TotalDebit(tx)
  /\ balance' = [balance EXCEPT ![tx.from] = @ - TotalDebit(tx)]
  /\ staked' = [staked EXCEPT ![tx.from] = @ + tx.amount]
  /\ TakeEffect(tx, Fee(tx))
  /\ UNCHANGED <<height, validators, pendingValidators, pendingUnstakes, contracts>>

\* Mutants of the unstake transaction: the stake is not compared with the
\* amount; the balance is not compared with the fee; the cooldown is counted
\* from the block under construction.
UnstakeAnyAmount(tx) ==
  /\ Admissible(tx, "unstake")
  /\ balance[tx.from] >= Fee(tx)
  /\ staked' = [staked EXCEPT ![tx.from] = @ - tx.amount]
  /\ balance' = [balance EXCEPT ![tx.from] = @ - Fee(tx)]
  /\ pendingUnstakes' = pendingUnstakes \cup
       {[owner |-> tx.from, nonce |-> tx.nonce, amount |-> tx.amount,
         since |-> height + 1, unlockAt |-> height + UnstakeCooldownBlocks]}
  /\ TakeEffect(tx, Fee(tx))
  /\ UNCHANGED <<height, validators, pendingValidators, contracts>>

UnstakeOnCredit(tx) ==
  /\ Admissible(tx, "unstake")
  /\ staked[tx.from] >= tx.amount
  /\ staked' = [staked EXCEPT ![tx.from] = @ - tx.amount]
  /\ balance' = [balance EXCEPT ![tx.from] = @ - Fee(tx)]
  /\ pendingUnstakes' = pendingUnstakes \cup
       {[owner |-> tx.from, nonce |-> tx.nonce, amount |-> tx.amount,
         since |-> height + 1, unlockAt |-> height + UnstakeCooldownBlocks]}
  /\ TakeEffect(tx, Fee(tx))
  /\ UNCHANGED <<height, validators, pendingValidators, contracts>>

UnstakeOneBlockLate(tx) ==
  /\ Admissible(tx, "unstake")
  /\ staked[tx.from] >= tx.amount
  /\ balance[tx.from] >= Fee(tx)
  /\ staked' = [staked EXCEPT ![tx.from] = @ - tx.amount]
  /\ balance' = [balance EXCEPT ![tx.from] = @ - Fee(tx)]
  /\ pendingUnstakes' = pendingUnstakes \cup
       {[owner |-> tx.from, nonce |-> tx.nonce, amount |-> tx.amount,
         since |-> height + 1, unlockAt |-> height + 1 + UnstakeCooldownBlocks]}
  /\ TakeEffect(tx, Fee(tx))
  /\ UNCHANGED <<height, validators, pendingValidators, contracts>>

Unstake(tx) ==
  /\ Admissible(tx, "unstake")
  /\ staked[tx.from] >= tx.amount
  /\ balance[tx.from] >= Fee(tx)
  /\ staked' = [staked EXCEPT ![tx.from] = @ - tx.amount]
  /\ balance' = [balance EXCEPT ![tx.from] = @ - Fee(tx)]
  /\ pendingUnstakes' = pendingUnstakes \cup
       {[owner |-> tx.from, nonce |-> tx.nonce, amount |-> tx.amount,
         since |-> height + 1, unlockAt |-> height + UnstakeCooldownBlocks]}
  /\ TakeEffect(tx, Fee(tx))
  /\ UNCHANGED <<height, validators, pendingValidators, contracts>>

Queued(v) == \E p \in pendingValidators : p.id = v

\* The place after every entry of the queue.
NextArrival ==
  IF pendingValidators = {} THEN 0 ELSE 1 + Max({p.arrival : p \in pendingValidators})

\* Mutant: a second registration of a queued id is not refused.
RegisterAgain(tx) ==
  /\ Admissible(tx, "validator_register")
  /\ tx.id \notin Registered
  /\ staked[tx.from] >= MinValidatorStake
  /\ balance' = [balance EXCEPT ![tx.from] = @ - Fee(tx)]
  /\ IF EpochLength > 0
     THEN /\ pendingValidators' = pendingValidators \cup
               {[id |-> tx.id, owner |-> tx.from, registeredAtHeight |-> height,
                 arrival |-> NextArrival]}
          /\ UNCHANGED validators
     ELSE /\ validators' = [validators EXCEPT ![tx.id] = NewValidator(tx.from)]
          /\ UNCHANGED pendingValidators
  /\ TakeEffect(tx, Fee(tx))
  /\ UNCHANGED <<height, staked, pendingUnstakes, contracts>>

\* The fee is taken without looking at the balance.
ValidatorRegister(tx) ==
  /\ Admissible(tx, "validator_register")
  /\ tx.id \notin Registered
  /\ ~Queued(tx.id)
  /\ staked[tx.from] >= MinValidatorStake
  /\ balance' = [balance EXCEPT ![tx.from] = @ - Fee(tx)]
  /\ IF EpochLength > 0
     THEN /\ pendingValidators' = pendingValidators \cup
               {[id |-> tx.id, owner |-> tx.from, registeredAtHeight |-> height,
                 arrival |-> NextArrival]}
          /\ UNCHANGED validators
     ELSE /\ validators' = [validators EXCEPT ![tx.id] = NewValidator(tx.from)]
          /\ UNCHANGED pendingValidators
  /\ TakeEffect(tx, Fee(tx))
  /\ UNCHANGED <<height, staked, pendingUnstakes, contracts>>

ValidatorUnregister(tx) ==
  /\ Admissible(tx, "validator_unregister")
  /\ tx.id \in Registered \/ Queued(tx.id)
  /\ balance[tx.from] >= Fee(tx)
  /\ balance' = [balance EXCEPT ![tx.from] = @ - Fee(tx)]
  /\ IF tx.id \in Registered
     THEN /\ validators' = [validators EXCEPT ![tx.id] = NoValidator]
          /\ UNCHANGED pendingValidators
     ELSE /\ pendingValidators' = {p \in pendingValidators : p.id # tx.id}
          /\ UNCHANGED validators
  /\ TakeEffect(tx, Fee(tx))
  /\ UNCHANGED <<height, staked, pendingUnstakes, contracts>>

ContractDeploy(tx) ==
  /\ Admissible(tx, "contract_deploy")
  /\ tx.vm # "invalid"
  /\ tx.contract \notin contracts
  /\ balance[tx.from] >= TotalDebit(tx)
  /\ balance' = Moved(balance, tx.from, TotalDebit(tx), tx.contract, tx.amount)
  /\ contracts' = contracts \cup {tx.contract}
  /\ TakeEffect(tx, Fee(tx))
  /\ UNCHANGED <<height, staked, validators, pendingValidators, pendingUnstakes>>

Callable(tx) ==
  /\ Admissible(tx, "contract_call")
  /\ tx.vm # "invalid"
  /\ tx.contract \in contracts
  /\ balance[tx.from] >= TotalDebit(tx)

\* The balances when the call's value has reached the contract.
CallDebited(tx) == Moved(balance, tx.from, TotalDebit(tx), tx.contract, tx.amount)

\* The native `transfer' method; refused without an amount the contract has.
NativeTransfer(debited, tx) ==
  IF 0 < tx.pay /\ tx.pay <= debited[tx.contract]
  THEN Moved(debited, tx.contract, tx.pay, tx.to, tx.pay)
  ELSE debited

ContractCall(tx) ==
  /\ Callable(tx)
  /\ tx.vm = "ok"
  /\ balance' = NativeTransfer(CallDebited(tx), tx)
  /\ TakeEffect(tx, Fee(tx))
  /\ UNCHANGED <<height, staked, validators, pendingValidators, pendingUnstakes, contracts>>

\* Mutant of a failing call: its value leaves the sender and reaches nobody.
CallFailsLosesValue(tx) ==
  /\ Callable(tx)
  /\ tx.vm = "fails"
  /\ balance' = [balance EXCEPT ![tx.from] = @ - TotalDebit(tx)]
  /\ TakeEffect(tx, 0)
  /\ UNCHANGED <<height, staked, validators, pendingValidators, pendingUnstakes, contracts>>

\* The contract's program returns an error: the call is reported as rejected,
\* but its debit, its nonce and its value stay, and its fee is not counted.
ContractCallFails(tx) ==
  /\ Callable(tx)
  /\ tx.vm = "fails"
  /\ balance' = CallDebited(tx)
  /\ TakeEffect(tx, 0)
  /\ UNCHANGED <<height, staked, validators, pendingValidators, pendingUnstakes, contracts>>

ApplyTransaction(tx) ==
  \/ Transfer(tx)
  \/ Stake(tx)
  \/ Unstake(tx)
  \/ ValidatorRegister(tx)
  \/ ValidatorUnregister(tx)
  \/ ContractDeploy(tx)
  \/ ContractCall(tx)
  \/ ContractCallFails(tx)

-----------------------------------------------------------------------------
(* The end of applyBlock: rewards, activation, head.                       *)

FeePool == Percent(block.fees, FeeSharePercent)

Rewarding == RewardEnabled /\ block.proposer \in Active

BlockShares ==
  Shares(RewardMode, Active, block.proposer, FeePool, BlockReward, ProposerBonusPercent,
         [v \in Active |-> staked[validators[v].owner]])

\* What the validators owned by address a receive.
Rewarded(a) ==
  SumFunctionOnSet(BlockShares, {v \in Active : validators[v].owner = a})

\* Mutant: the sort is ascending.
BeforeAscending(p, q) ==
  \/ staked[p.owner] < staked[q.owner]
  \/ /\ staked[p.owner] = staked[q.owner]
     /\ \/ p.registeredAtHeight < q.registeredAtHeight
        \/ p.registeredAtHeight = q.registeredAtHeight /\ p.arrival < q.arrival

\* The order of the sort: more stake, then earlier registration; the sort is
\* stable, so arrival decides the rest.
Before(p, q) ==
  \/ staked[p.owner] > staked[q.owner]
  \/ /\ staked[p.owner] = staked[q.owner]
     /\ \/ p.registeredAtHeight < q.registeredAtHeight
        \/ p.registeredAtHeight = q.registeredAtHeight /\ p.arrival < q.arrival

\* Mutant: the stake is not looked at again.
EligibleUnchecked == pendingValidators

Eligible == {p \in pendingValidators : staked[p.owner] >= MinValidatorStake}

\* Mutant: the validators already active do not take a slot.
SlotsIgnoringActive ==
  IF MaxActiveValidators = 0 THEN Cardinality(pendingValidators) ELSE MaxActiveValidators

Slots ==
  IF MaxActiveValidators = 0 THEN Cardinality(pendingValidators)
  ELSE IF MaxActiveValidators > Cardinality(Active)
       THEN MaxActiveValidators - Cardinality(Active) ELSE 0

\* The entries the loop of activatePendingValidators looks at before the slots
\* run out: those with fewer than `Slots' eligible entries before them.
Reached == {p \in pendingValidators : Cardinality({q \in Eligible : Before(q, p)}) < Slots}

EpochBoundary == EpochLength > 0 /\ (height + 1) % EpochLength = 0

Activated == IF EpochBoundary THEN Reached \cap Eligible ELSE {}

\* Candidates that were looked at and no longer have the minimum stake.
Dropped == IF EpochBoundary THEN Reached \ Eligible ELSE {}

FinishBlock ==
  /\ block.phase = "txs"
  /\ IF Rewarding
     THEN /\ balance' = [a \in Addresses |-> balance[a] + Rewarded(a)]
          /\ issued' = issued + FeePool + BlockReward
     ELSE UNCHANGED <<balance, issued>>
  /\ validators' = [v \in ValidatorIds |->
                      IF \E p \in Activated : p.id = v
                      THEN NewValidator((CHOOSE p \in Activated : p.id = v).owner)
                      ELSE validators[v]]
  /\ pendingValidators' = pendingValidators \ (Activated \cup Dropped)
  /\ height' = height + 1
  /\ block' = Idle
  /\ UNCHANGED <<nonce, staked, pendingUnstakes, contracts, history>>

\* qtx_slashEquivocation, between two blocks.
SlashEquivocation(v) ==
  LET owner == validators[v].owner
      slashAmount == Percent(staked[owner], SlashPercent)
  IN  /\ block.phase = "idle"
      /\ v \in Registered
      /\ ~validators[v].slashed
      /\ staked' = [staked EXCEPT ![owner] = @ - slashAmount]
      /\ validators' = [validators EXCEPT ![v].slashed = TRUE, ![v].active = FALSE]
      /\ issued' = issued - slashAmount
      /\ UNCHANGED <<height, balance, nonce, pendingValidators, pendingUnstakes,
                     contracts, block, history>>

Next ==
  \/ \E unavailable \in SUBSET Active : BeginRound(unavailable)
  \/ \E v \in ValidatorIds : BeginCommit(v)
  \/ \E v \in ValidatorIds : EjectInactiveValidator(v)
  \/ SettlePendingUnstakes
  \/ \E tx \in Txs : ApplyTransaction(tx)
  \/ FinishBlock
  \/ \E v \in ValidatorIds : SlashEquivocation(v)

Spec == Init /\ [][Next]_vars

-----------------------------------------------------------------------------
(* Properties *)

\* Every variable has its type; balances may be negative (see ValidatorRegister).
TypeOK ==
  /\ height \in Nat
  /\ balance \in [Addresses -> Int]
  /\ nonce \in [Users -> Nat]
  /\ staked \in [Users -> Nat]
  /\ validators \in [ValidatorIds -> ValidatorRecord \cup {NoValidator}]
  /\ pendingValidators \subseteq PendingRecord
  /\ pendingUnstakes \subseteq UnstakeRecord
  /\ contracts \subseteq Contracts
  /\ block \in BlockRecord
  /\ history \in [Users -> Seq(Nat)]
  /\ issued \in Int

\* All money: balances, stakes and the amounts in their cooldown.
TotalSupply ==
  SumFunction(balance) + SumFunction(staked) + SumFunction([e \in pendingUnstakes |-> e.amount])

\* No step creates or loses money except the three that may: fees are burned,
\* a distribution pays exactly the validators' pool plus the block reward,
\* and a slash or an ejection burns the part of the stake it takes
\* (applyBlock, distributeValidatorRewards, ejectInactiveValidator).
Conservation ==
  TotalSupply = SumFunction(InitialBalance) + issued

\* The transactions of an account that took effect are its nonces 1, 2, 3, ...
\* each once and in that order, whatever the blocks contained, also for calls
\* that were reported as rejected (the nonce rule of applyTransaction).
HistoryInOrder ==
  \A a \in Users : history[a] = [i \in 1 .. nonce[a] |-> i]

\* An id waits in the queue at most once and never while it is registered
\* (validator_register, validator_unregister, activatePendingValidators).
PendingSound ==
  /\ \A p, q \in pendingValidators : p.id = q.id => p = q
  /\ \A p \in pendingValidators : p.id \notin Registered

\* types.ts: maxActiveValidators is the "max number of concurrently active
\* validators"; it has to hold in every state, not only at an epoch boundary.
ActiveCap ==
  MaxActiveValidators > 0 => Cardinality(Active) <= MaxActiveValidators

\* The two downtime counters of the rounds this node proposed agree: a
\* validator is slashed by the round that reaches the limit and not later, and
\* one that is kept has not reached the ejection threshold.
DowntimeBounded ==
  \A v \in Registered :
    /\ validators[v].active <=> ~validators[v].slashed
    /\ validators[v].missed <= validators[v].inactive
    /\ validators[v].active => validators[v].missed < MaxMissedBlocks
    /\ validators[v].inactive < EjectionBlocks \/ v \in block.ejecting

\* Nobody enters the validator set without the minimum stake at that moment,
\* also when the stake was withdrawn while the registration was queued.
ActivationNeedsStake ==
  [][\A v \in ValidatorIds :
       v \notin Registered /\ v \in Registered'
         => staked'[validators'[v].owner] >= MinValidatorStake]_vars

\* A queued candidate that qualifies is passed over only when the set is full,
\* and never for one with less stake, or with equal stake and a later
\* registration ("top pending validators", activatePendingValidators).
ActivationFair ==
  [][height' # height /\ height' % EpochLength = 0 =>
       \A q \in pendingValidators \cap pendingValidators' :
         staked[q.owner] >= MinValidatorStake =>
           /\ MaxActiveValidators > 0
           /\ Cardinality(Active') >= MaxActiveValidators
           /\ \A p \in pendingValidators :
                p.id \in Registered' =>
                  \/ staked[p.owner] > staked[q.owner]
                  \/ /\ staked[p.owner] = staked[q.owner]
                     /\ p.registeredAtHeight <= q.registeredAtHeight]_vars

\* Unstaked money returns in the block that ends the cooldown and in no other:
\* unstakeCooldownBlocks blocks after the block of the unstake transaction
\* (the next one when the cooldown is 0).
UnstakeOnTime ==
  [][\A e \in pendingUnstakes :
       e \notin pendingUnstakes' =>
         height + 1 = e.since + IF UnstakeCooldownBlocks = 0 THEN 1
                                ELSE UnstakeCooldownBlocks]_vars

\* validator_register is the only step that takes money an account does not
\* have: it alone charges its fee without a balance check.
OnlyRegistrationOverdraws ==
  [][\A a \in Addresses :
       balance'[a] < 0 /\ balance'[a] < balance[a]
         => \E tx \in Txs : tx.from = a /\ ValidatorRegister(tx)]_vars

=============================================================================
