---------------------------- MODULE LedgerProofs ----------------------------
(***************************************************************************)
(* Theorems about Ledger for every value of its constants.                 *)
(***************************************************************************)
EXTENDS Ledger, FiniteTheorems, FiniteSetTheorems, TLAPS

(***************************************************************************)
(* TypeOK without the conjuncts on balance and issued, which most theorems *)
(* do not need; MoneyInv below adds them.  The queue of registrations is   *)
(* also known to be finite: the place of a new entry is a maximum.         *)
(***************************************************************************)
TypeInv ==
  /\ height \in Nat
  /\ nonce \in [Users -> Nat]
  /\ staked \in [Users -> Nat]
  /\ validators \in [ValidatorIds -> ValidatorRecord \cup {NoValidator}]
  /\ pendingValidators \subseteq PendingRecord
  /\ pendingUnstakes \subseteq UnstakeRecord
  /\ contracts \subseteq Contracts
  /\ block \in BlockRecord
  /\ history \in [Users -> Seq(Nat)]
  /\ IsFiniteSet(pendingValidators)

\* A percentage of a natural number is a natural number not above it.
LEMMA PercentBound ==
  ASSUME NEW x \in Nat, NEW p \in 0 .. 100
  PROVE  Percent(x, p) \in 0 .. x
<1>1. x * p \in Nat /\ x * p <= x * 100
  OBVIOUS
<1>. DEFINE y == x * p
<1>2. y \in Nat /\ y <= x * 100
  BY <1>1
<1>. HIDE DEF y
<1>3. y \div 100 \in 0 .. x
  BY <1>2
<1>. QED
  BY <1>3 DEF Percent, y

\* An open block, an idle one and a new validator are well typed.
LEMMA RecordTypes ==
  /\ Idle \in BlockRecord
  /\ \A v \in ValidatorIds, ids \in SUBSET ValidatorIds : Open(v, ids) \in BlockRecord
  /\ \A a \in Users : NewValidator(a) \in ValidatorRecord
BY ValidatorAssumption DEF Idle, Open, NewValidator, BlockRecord, ValidatorRecord

\* The record of a registered validator.
LEMMA RegisteredType ==
  ASSUME TypeInv, NEW v \in Registered
  PROVE  v \in ValidatorIds /\ validators[v] \in ValidatorRecord
BY DEF TypeInv, Registered

\* A transaction of the environment is well typed, and so is what it charges.
LEMMA TxType ==
  ASSUME NEW tx \in Txs, tx.fee >= 0
  PROVE  /\ tx.from \in Users /\ tx.nonce \in Nat /\ tx.amount \in Int
         /\ tx.to \in Addresses /\ tx.id \in ValidatorIds /\ tx.contract \in Contracts
         /\ Fee(tx) \in Nat
BY TxAssumption, ParameterAssumption DEF TxRecord, Fee

\* What a transaction that takes effect does to its sender's nonce and to the
\* block is well typed.
LEMMA TakeEffectType ==
  ASSUME TypeInv, NEW tx \in Txs, NEW counted \in Nat,
         tx.fee >= 0, TakeEffect(tx, counted)
  PROVE  /\ nonce' \in [Users -> Nat]
         /\ history' \in [Users -> Seq(Nat)]
         /\ block' \in BlockRecord
<1>1. tx.from \in Users /\ tx.nonce \in Nat /\ Fee(tx) \in Nat
  BY TxType
<1>2. nonce' \in [Users -> Nat]
  BY <1>1 DEF TakeEffect, TypeInv
<1>3. history' \in [Users -> Seq(Nat)]
  BY <1>1 DEF TakeEffect, TypeInv
<1>4. block' \in BlockRecord
  <2>1. block \in BlockRecord
    BY DEF TypeInv
  <2>2. block' = [block EXCEPT !.count = block.count + 1, !.fees = block.fees + counted]
    BY DEF TakeEffect
  <2>3. block.count + 1 \in Nat /\ block.fees + counted \in Nat
    BY <1>1, <2>1 DEF BlockRecord
  <2>. QED
    BY <2>1, <2>2, <2>3 DEF BlockRecord
<1>. QED
  BY <1>2, <1>3, <1>4

\* A proper subset of a finite set is finite and smaller.
LEMMA ProperSubset ==
  ASSUME NEW S, IsFiniteSet(S), NEW T \in SUBSET S, T # S
  PROVE  /\ IsFiniteSet(T)
         /\ Cardinality(T) \in Nat /\ Cardinality(S) \in Nat
         /\ Cardinality(T) < Cardinality(S)
<1>1. IsFiniteSet(T) /\ Cardinality(T) <= Cardinality(S) /\ Cardinality(T) # Cardinality(S)
  BY FS_Subset
<1>2. Cardinality(T) \in Nat /\ Cardinality(S) \in Nat
  BY <1>1, FS_CardinalityType
<1>. QED
  BY <1>1, <1>2

\* The elements of a finite set of numbers have the ranks 0 .. n - 1.
LEMMA RankOnto ==
  ASSUME NEW S \in SUBSET Nat, IsFiniteSet(S), NEW k \in 0 .. Cardinality(S) - 1
  PROVE  \E v \in S : Cardinality({u \in S : u < v}) = k
<1>. DEFINE Below(v) == {u \in S : u < v}
            n == Cardinality(S)
            rank == [v \in S |-> Cardinality(Below(v))]
<1>1. n \in Nat /\ n > 0
  BY FS_CardinalityType
<1>2. \A v \in S : IsFiniteSet(Below(v)) /\ rank[v] \in 0 .. n - 1
  <2>. SUFFICES ASSUME NEW v \in S
                PROVE  IsFiniteSet(Below(v)) /\ rank[v] \in 0 .. n - 1
    OBVIOUS
  <2>1. Below(v) \subseteq S /\ Below(v) # S
    OBVIOUS
  <2>2. IsFiniteSet(Below(v)) /\ Cardinality(Below(v)) \in Nat /\ Cardinality(Below(v)) < n
    BY <2>1, ProperSubset
  <2>. QED
    BY <1>1, <2>2
<1>3. \A u, v \in S : u < v => rank[u] < rank[v]
  <2>. SUFFICES ASSUME NEW u \in S, NEW v \in S, u < v
                PROVE  rank[u] < rank[v]
    OBVIOUS
  <2>1. u \in Below(v) /\ u \notin Below(u)
    OBVIOUS
  <2>2. Below(u) \subseteq Below(v)
    <3>. SUFFICES ASSUME NEW w \in S, w < u  PROVE  w < v
      OBVIOUS
    <3>. QED
      OBVIOUS
  <2>. QED
    BY <1>2, <2>1, <2>2, ProperSubset
<1>4. rank \in Injection(S, 0 .. n - 1)
  <2>1. rank \in [S -> 0 .. n - 1]
    BY <1>2
  <2>. HIDE DEF rank, n
  <2>2. ASSUME NEW u \in S, NEW v \in S, u # v
        PROVE  rank[u] # rank[v]
    <3>1. u < v \/ v < u
      BY <2>2
    <3>2. rank[u] \in 0 .. n - 1 /\ rank[v] \in 0 .. n - 1
      BY <1>2
    <3>3. rank[u] \in Int /\ rank[v] \in Int
      BY <3>2
    <3>. QED
      BY <1>3, <3>1, <3>3
  <2>. QED
    BY <2>1, <2>2 DEF Injection, IsInjective
<1>5. IsFiniteSet(0 .. n - 1) /\ Cardinality(0 .. n - 1) = n
  BY <1>1, FS_Interval
<1>6. rank \in Surjection(S, 0 .. n - 1)
  BY <1>4, <1>5, FS_Injection
<1>. QED
  BY <1>6 DEF Surjection

\* The scheduled proposer is an active validator whenever there is one.
LEMMA ProposerActive ==
  ASSUME TypeInv, Active # {}
  PROVE  ScheduledProposer(Active) \in Active
<1>1. Active \in SUBSET Nat /\ IsFiniteSet(Active)
  <2>1. Active \subseteq ValidatorIds
    BY DEF Active, Registered
  <2>. QED
    BY <2>1, ValidatorAssumption, FS_Subset
<1>2. Cardinality(Active) \in Nat /\ Cardinality(Active) > 0
  BY <1>1, FS_CardinalityType, FS_EmptySet
<1>3. height % Cardinality(Active) \in 0 .. Cardinality(Active) - 1
  BY <1>2 DEF TypeInv
<1>. QED
  BY <1>1, <1>3, RankOnto DEF ScheduledProposer, ProposerAt

\* A finite set of numbers has a greatest element.
LEMMA MaxExists ==
  ASSUME NEW S \in SUBSET Nat, IsFiniteSet(S), S # {}
  PROVE  Max(S) \in S /\ \A y \in S : y <= Max(S)
<1>. DEFINE n == Cardinality(S)
<1>1. n \in Nat /\ n > 0
  BY FS_CardinalityType, FS_EmptySet
<1>2. PICK v \in S : Cardinality({u \in S : u < v}) = n - 1
  BY <1>1, RankOnto
<1>3. ASSUME NEW y \in S, y > v
      PROVE  FALSE
  <2>. DEFINE Below(w) == {u \in S : u < w}
  <2>1. v \in Below(y) /\ v \notin Below(v) /\ y \notin Below(y)
    BY <1>3
  <2>2. Below(v) \subseteq Below(y)
    <3>. SUFFICES ASSUME NEW w \in S, w < v  PROVE  w < y
      OBVIOUS
    <3>. QED
      BY <1>3
  <2>3. IsFiniteSet(Below(y)) /\ Cardinality(Below(y)) \in Nat /\ Cardinality(Below(y)) < n
    BY <2>1, ProperSubset
  <2>4. Cardinality(Below(v)) < Cardinality(Below(y))
    BY <2>1, <2>2, <2>3, ProperSubset
  <2>5. Cardinality(Below(v)) = n - 1
    BY <1>2
  <2>. HIDE DEF Below, n
  <2>. QED
    BY <1>1, <2>3, <2>4, <2>5
<1>4. \A y \in S : v >= y
  BY <1>3
<1>. QED
  BY <1>4 DEF Max

\* A new entry goes behind every entry of the queue.
LEMMA ArrivalType ==
  ASSUME TypeInv
  PROVE  NextArrival \in Nat /\ \A p \in pendingValidators : p.arrival < NextArrival
<1>. DEFINE S == {p.arrival : p \in pendingValidators}
<1>1. S \in SUBSET Nat
  BY DEF TypeInv, PendingRecord
<1>2. IsFiniteSet(S)
  <2>. DEFINE f == [p \in pendingValidators |-> p.arrival]
  <2>1. f \in Surjection(pendingValidators, S)
    BY DEF Surjection
  <2>. QED
    BY <2>1, FS_Surjection DEF TypeInv
<1>3. CASE pendingValidators = {}
  BY <1>3 DEF NextArrival
<1>4. CASE pendingValidators # {}
  <2>1. Max(S) \in S /\ \A y \in S : y <= Max(S)
    BY <1>1, <1>2, <1>4, MaxExists
  <2>2. NextArrival = 1 + Max(S)
    BY <1>4 DEF NextArrival
  <2>3. Max(S) \in Nat
    BY <1>1, <2>1
  <2>4. \A p \in pendingValidators : p.arrival \in S /\ p.arrival \in Nat
    BY <1>1
  <2>. HIDE DEF S
  <2>. QED
    BY <2>1, <2>2, <2>3, <2>4
<1>. QED
  BY <1>3, <1>4

-----------------------------------------------------------------------------
(* Type correctness *)

\* Only registered validators are being ejected, and only before the
\* transactions of the block; without it the owner of an ejected validator
\* would not be known to exist.
EjectingInv ==
  /\ block.ejecting \subseteq Registered
  /\ block.phase # "settle" => block.ejecting = {}

\* What every effective transaction does, whatever its type.
LEMMA TxEffect ==
  ASSUME NEW tx \in Txs, ApplyTransaction(tx)
  PROVE  /\ block.phase = "txs" /\ tx.fee >= 0 /\ tx.nonce = nonce[tx.from] + 1
         /\ \E counted \in Nat : TakeEffect(tx, counted)
         /\ height' = height
<1>1. ASSUME NEW type, Admissible(tx, type)
      PROVE  block.phase = "txs" /\ tx.fee >= 0 /\ tx.nonce = nonce[tx.from] + 1 /\ Fee(tx) \in Nat
  BY <1>1, TxType DEF Admissible
<1>. USE <1>1 DEF ApplyTransaction
<1>2. CASE Transfer(tx)
  BY <1>2 DEF Transfer
<1>3. CASE Stake(tx)
  BY <1>3 DEF Stake
<1>4. CASE Unstake(tx)
  BY <1>4 DEF Unstake
<1>5. CASE ValidatorRegister(tx)
  BY <1>5 DEF ValidatorRegister
<1>6. CASE ValidatorUnregister(tx)
  BY <1>6 DEF ValidatorUnregister
<1>7. CASE ContractDeploy(tx)
  BY <1>7 DEF ContractDeploy
<1>8. CASE ContractCall(tx)
  BY <1>8 DEF ContractCall, Callable
<1>9. CASE ContractCallFails(tx)
  BY <1>9 DEF ContractCallFails, Callable
<1>. QED
  BY <1>2, <1>3, <1>4, <1>5, <1>6, <1>7, <1>8, <1>9

\* The fields of the open block that a transaction leaves alone.
LEMMA TxBlock ==
  ASSUME TypeInv, NEW tx \in Txs, ApplyTransaction(tx)
  PROVE  block'.phase = block.phase /\ block'.ejecting = block.ejecting
BY TxEffect DEF TypeInv, BlockRecord, TakeEffect

\* No validator record is the absence of one.
LEMMA RecordIsNotAbsent == NoValidator \notin ValidatorRecord
BY ValidatorAssumption DEF ValidatorRecord

\* How one round turns the record r of a registered validator into s: it took
\* part; or it did not and was not blamed, was blamed, or reached the limit.
RoundStep(r, s, tookPart) ==
  /\ r \in ValidatorRecord /\ s \in ValidatorRecord
  /\ s.owner = r.owner
  /\ \/ /\ tookPart
        /\ s.missed = 0 /\ s.inactive = 0
        /\ s.active = r.active /\ s.slashed = r.slashed
     \/ /\ ~tookPart
        /\ s.inactive = r.inactive + 1
        /\ \/ s.missed = r.missed /\ s.active = r.active /\ s.slashed = r.slashed
           \/ /\ s.missed = r.missed + 1 /\ s.missed < MaxMissedBlocks
              /\ s.active = r.active /\ s.slashed = r.slashed
           \/ /\ s.missed = r.missed + 1
              /\ s.active = FALSE /\ s.slashed = TRUE

\* The pass of runConsensusRound over a registered validator is such a step.
LEMMA AfterRoundFields ==
  ASSUME TypeInv, NEW v \in Registered, NEW participating, NEW unavailable
  PROVE  RoundStep(validators[v], AfterRound(v, participating, unavailable),
                   v \in participating)
<1>. DEFINE r == validators[v]
            s == AfterRound(v, participating, unavailable)
<1>a. r = validators[v] /\ s = AfterRound(v, participating, unavailable)
  OBVIOUS
<1>. HIDE DEF r, s
<1>b. SUFFICES RoundStep(r, s, v \in participating)
  BY <1>a
<1>1. r \in ValidatorRecord /\ r # NoValidator
  BY <1>a, RegisteredType, RecordIsNotAbsent
<1>2. r.missed \in Nat /\ r.inactive \in Nat /\ r.missed + 1 \in Nat /\ r.inactive + 1 \in Nat
  BY <1>1 DEF ValidatorRecord
<1>3. CASE v \in participating
  <2>1. s = [r EXCEPT !.missed = 0, !.inactive = 0]
    BY <1>a, <1>1, <1>3 DEF AfterRound
  <2>. DEFINE q == [r EXCEPT !.missed = 0]
  <2>2. /\ q \in ValidatorRecord /\ q.owner = r.owner
        /\ q.missed = 0 /\ q.active = r.active /\ q.slashed = r.slashed
    BY <1>1 DEF ValidatorRecord
  <2>3. s = [q EXCEPT !.inactive = 0]
    BY <1>1, <2>1 DEF ValidatorRecord
  <2>. HIDE DEF q
  <2>4. /\ s \in ValidatorRecord /\ s.owner = r.owner /\ s.inactive = 0
        /\ s.missed = 0 /\ s.active = r.active /\ s.slashed = r.slashed
    BY <2>2, <2>3 DEF ValidatorRecord
  <2>. QED
    BY <1>1, <1>3, <2>4 DEF RoundStep
<1>4. CASE v \notin participating /\ (r.slashed \/ v \notin unavailable)
  <2>1. s = [r EXCEPT !.inactive = r.inactive + 1]
    BY <1>a, <1>1, <1>4 DEF AfterRound
  <2>2. /\ s \in ValidatorRecord /\ s.owner = r.owner /\ s.inactive = r.inactive + 1
        /\ s.missed = r.missed /\ s.active = r.active /\ s.slashed = r.slashed
    BY <1>1, <1>2, <2>1 DEF ValidatorRecord
  <2>. QED
    BY <1>1, <1>4, <2>2 DEF RoundStep
<1>5. CASE v \notin participating /\ ~(r.slashed \/ v \notin unavailable)
           /\ r.missed + 1 < MaxMissedBlocks
  <2>1. s = [r EXCEPT !.inactive = r.inactive + 1, !.missed = r.missed + 1]
    BY <1>a, <1>1, <1>5 DEF AfterRound
  <2>. QED
    BY <1>1, <1>2, <1>5, <2>1 DEF RoundStep, ValidatorRecord
<1>6. CASE v \notin participating /\ ~(r.slashed \/ v \notin unavailable)
           /\ ~(r.missed + 1 < MaxMissedBlocks)
  <2>1. s = [r EXCEPT !.inactive = r.inactive + 1, !.missed = r.missed + 1,
                      !.active = FALSE, !.slashed = TRUE]
    BY <1>a, <1>1, <1>6 DEF AfterRound
  <2>. QED
    BY <1>1, <1>2, <1>6, <2>1 DEF RoundStep, ValidatorRecord
<1>. QED
  BY <1>3, <1>4, <1>5, <1>6

\* A round leaves the record of a registered validator a record.
LEMMA AfterRoundType ==
  ASSUME TypeInv, NEW v \in Registered, NEW participating, NEW unavailable
  PROVE  AfterRound(v, participating, unavailable) \in ValidatorRecord
BY AfterRoundFields DEF RoundStep

\* An id without a record stays without one in a round.
LEMMA AfterRoundAbsent ==
  ASSUME NEW v, validators[v] = NoValidator, NEW participating, NEW unavailable
  PROVE  AfterRound(v, participating, unavailable) = NoValidator
BY DEF AfterRound

\* The initial state is well typed.
LEMMA TypeInit ==
  ASSUME Init
  PROVE  TypeInv /\ EjectingInv
<1>. USE AccountAssumption, ValidatorAssumption, ParameterAssumption DEF Init
<1>1. height \in Nat /\ nonce \in [Users -> Nat] /\ staked \in [Users -> Nat]
  OBVIOUS
<1>2. validators \in [ValidatorIds -> ValidatorRecord \cup {NoValidator}]
  BY RecordTypes
<1>3. pendingValidators = {} /\ pendingUnstakes = {} /\ contracts = {}
  OBVIOUS
<1>4. block \in BlockRecord /\ block.ejecting = {}
  BY RecordTypes DEF Idle
<1>5. history \in [Users -> Seq(Nat)]
  OBVIOUS
<1>. QED
  BY <1>1, <1>2, <1>3, <1>4, <1>5, FS_EmptySet DEF TypeInv, EjectingInv

\* The part of TypeInv about the accounts, the queue of registrations and the
\* validators is preserved by each type of transaction.
LEMMA TypeTx ==
  ASSUME TypeInv, NEW tx \in Txs, ApplyTransaction(tx)
  PROVE  TypeInv'
<1>1. /\ tx.from \in Users /\ tx.nonce \in Nat /\ tx.amount \in Int
      /\ tx.id \in ValidatorIds /\ tx.contract \in Contracts
  BY TxEffect, TxType
<1>2. /\ nonce' \in [Users -> Nat] /\ history' \in [Users -> Seq(Nat)]
      /\ block' \in BlockRecord /\ height' \in Nat
  BY TxEffect, TakeEffectType DEF TypeInv
<1>3. SUFFICES /\ staked' \in [Users -> Nat]
               /\ validators' \in [ValidatorIds -> ValidatorRecord \cup {NoValidator}]
               /\ pendingValidators' \subseteq PendingRecord
               /\ pendingUnstakes' \subseteq UnstakeRecord
               /\ contracts' \subseteq Contracts
               /\ IsFiniteSet(pendingValidators')
  BY <1>2 DEF TypeInv
<1>. USE <1>1 DEF TypeInv
<1>4. CASE Transfer(tx)
  BY <1>4 DEF Transfer
<1>5. CASE Stake(tx)
  <2>1. tx.amount > 0
    BY <1>5 DEF Stake, Admissible, AmountOK
  <2>. QED
    BY <1>5, <2>1 DEF Stake
<1>6. CASE Unstake(tx)
  <2>1. tx.amount > 0
    BY <1>6 DEF Unstake, Admissible, AmountOK
  <2>2. staked' \in [Users -> Nat]
    BY <1>6, <2>1 DEF Unstake
  <2>3. pendingUnstakes' \subseteq UnstakeRecord
    BY <1>6, <2>1, ParameterAssumption DEF Unstake, UnstakeRecord
  <2>. QED
    BY <1>6, <2>2, <2>3 DEF Unstake
<1>7. CASE ValidatorRegister(tx)
  <2>1. pendingValidators' \subseteq PendingRecord /\ IsFiniteSet(pendingValidators')
    <3>. DEFINE e == [id |-> tx.id, owner |-> tx.from, registeredAtHeight |-> height,
                      arrival |-> NextArrival]
    <3>1. e \in PendingRecord
      BY ArrivalType DEF PendingRecord
    <3>2. pendingValidators' = pendingValidators \/ pendingValidators' = pendingValidators \cup {e}
      BY <1>7 DEF ValidatorRegister
    <3>3. IsFiniteSet(pendingValidators \cup {e})
      BY FS_AddElement
    <3>. QED
      BY <3>1, <3>2, <3>3
  <2>2. validators' \in [ValidatorIds -> ValidatorRecord \cup {NoValidator}]
    BY <1>7, RecordTypes DEF ValidatorRegister
  <2>. QED
    BY <1>7, <2>1, <2>2 DEF ValidatorRegister
<1>8. CASE ValidatorUnregister(tx)
  <2>1. pendingValidators' \subseteq pendingValidators
    BY <1>8 DEF ValidatorUnregister
  <2>2. pendingValidators' \subseteq PendingRecord /\ IsFiniteSet(pendingValidators')
    BY <2>1, FS_Subset
  <2>3. validators' \in [ValidatorIds -> ValidatorRecord \cup {NoValidator}]
    BY <1>8 DEF ValidatorUnregister
  <2>. QED
    BY <1>8, <2>2, <2>3 DEF ValidatorUnregister
<1>9. CASE ContractDeploy(tx)
  BY <1>9 DEF ContractDeploy
<1>10. CASE ContractCall(tx)
  BY <1>10 DEF ContractCall
<1>11. CASE ContractCallFails(tx)
  BY <1>11 DEF ContractCallFails
<1>. QED
  BY <1>4, <1>5, <1>6, <1>7, <1>8, <1>9, <1>10, <1>11 DEF ApplyTransaction

\* The round's pass over the validators registers and unregisters nobody.
LEMMA RoundRegistered ==
  ASSUME TypeInv, NEW unavailable, BeginRound(unavailable)
  PROVE  /\ validators' \in [ValidatorIds -> ValidatorRecord \cup {NoValidator}]
         /\ Registered' = Registered
<1>. DEFINE Next1(v) == AfterRound(v, Active \ unavailable, unavailable)
<1>1. \A v \in ValidatorIds :
        /\ Next1(v) \in ValidatorRecord \cup {NoValidator}
        /\ Next1(v) # NoValidator <=> validators[v] # NoValidator
  <2>. SUFFICES ASSUME NEW v \in ValidatorIds
                PROVE  /\ Next1(v) \in ValidatorRecord \cup {NoValidator}
                       /\ Next1(v) # NoValidator <=> validators[v] # NoValidator
    OBVIOUS
  <2>1. CASE v \in Registered
    <3>1. Next1(v) \in ValidatorRecord
      BY <2>1, AfterRoundType
    <3>. QED
      BY <2>1, <3>1, RecordIsNotAbsent DEF Registered
  <2>2. CASE v \notin Registered
    BY <2>2, AfterRoundAbsent DEF Registered
  <2>. QED
    BY <2>1, <2>2
<1>2. validators' = [v \in ValidatorIds |-> Next1(v)]
  BY DEF BeginRound
<1>. HIDE DEF Next1
<1>. QED
  BY <1>1, <1>2 DEF Registered

\* The actions that open a block.
LEMMA TypeBegin ==
  ASSUME TypeInv, EjectingInv,
         (\E unavailable \in SUBSET Active : BeginRound(unavailable))
         \/ (\E v \in ValidatorIds : BeginCommit(v))
  PROVE  TypeInv' /\ EjectingInv'
<1>1. ASSUME NEW unavailable \in SUBSET Active, BeginRound(unavailable)
      PROVE  TypeInv' /\ EjectingInv'
  <2>. DEFINE ejecting == {v \in Registered \ (Active \ unavailable) :
                             validators[v].inactive + 1 >= EjectionBlocks}
  <2>1. block' = Open(ScheduledProposer(Active), ejecting) /\ Active # {}
    BY <1>1 DEF BeginRound
  <2>2. ScheduledProposer(Active) \in ValidatorIds /\ ejecting \subseteq Registered
        /\ ejecting \subseteq ValidatorIds
    BY <2>1, ProposerActive DEF Active, Registered
  <2>. HIDE DEF ejecting
  <2>3. block' \in BlockRecord /\ block'.ejecting = ejecting /\ block'.phase = "settle"
    BY <2>1, <2>2, RecordTypes DEF Open, Idle
  <2>4. /\ validators' \in [ValidatorIds -> ValidatorRecord \cup {NoValidator}]
        /\ Registered' = Registered
    BY <1>1, RoundRegistered
  <2>5. TypeInv'
    BY <1>1, <2>3, <2>4 DEF BeginRound, TypeInv, accounts
  <2>. QED
    BY <2>2, <2>3, <2>4, <2>5 DEF EjectingInv
<1>2. ASSUME NEW v \in ValidatorIds, BeginCommit(v)
      PROVE  TypeInv' /\ EjectingInv'
  <2>1. block' \in BlockRecord /\ block'.ejecting = {} /\ block'.phase = "settle"
    BY <1>2, RecordTypes DEF BeginCommit, Open, Idle
  <2>. QED
    BY <1>2, <2>1 DEF BeginCommit, TypeInv, accounts, EjectingInv
<1>. QED
  BY <1>1, <1>2

\* The share of a stake that a slash or an ejection burns is not above the stake.
LEMMA BurnType ==
  ASSUME TypeInv, NEW v \in Registered, NEW p \in 0 .. 100
  PROVE  /\ validators[v].owner \in Users
         /\ [staked EXCEPT ![validators[v].owner] =
               @ - Percent(staked[validators[v].owner], p)] \in [Users -> Nat]
<1>. DEFINE owner == validators[v].owner
<1>1. owner \in Users
  BY RegisteredType DEF ValidatorRecord
<1>2. staked[owner] \in Nat
  BY <1>1 DEF TypeInv
<1>3. Percent(staked[owner], p) \in 0 .. staked[owner]
  BY <1>2, PercentBound
<1>4. staked[owner] - Percent(staked[owner], p) \in Nat
  BY <1>2, <1>3
<1>. HIDE DEF owner
<1>5. [staked EXCEPT ![owner] = staked[owner] - Percent(staked[owner], p)] \in [Users -> Nat]
  BY <1>1, <1>4 DEF TypeInv
<1>. QED
  BY <1>1, <1>5 DEF owner

\* The actions between the opening of a block and its transactions.
LEMMA TypeSettle ==
  ASSUME TypeInv, EjectingInv,
         (\E v \in ValidatorIds : EjectInactiveValidator(v)) \/ SettlePendingUnstakes
  PROVE  TypeInv' /\ EjectingInv'
<1>0. block \in BlockRecord
  BY DEF TypeInv
<1>1. ASSUME NEW v \in ValidatorIds, EjectInactiveValidator(v)
      PROVE  TypeInv' /\ EjectingInv'
  <2>1. v \in Registered
    BY <1>1 DEF EjectInactiveValidator, EjectingInv
  <2>2. staked' \in [Users -> Nat]
    BY <1>1, <2>1, BurnType, ParameterAssumption DEF EjectInactiveValidator
  <2>3. block' \in BlockRecord /\ block'.ejecting = block.ejecting \ {v}
        /\ block'.phase = "settle"
    BY <1>0, <1>1 DEF EjectInactiveValidator, BlockRecord
  <2>4. /\ validators' \in [ValidatorIds -> ValidatorRecord \cup {NoValidator}]
        /\ Registered' = Registered \ {v}
    BY <1>1 DEF EjectInactiveValidator, TypeInv, Registered
  <2>5. TypeInv'
    BY <1>1, <2>2, <2>3, <2>4 DEF EjectInactiveValidator, TypeInv
  <2>. QED
    BY <2>3, <2>4, <2>5 DEF EjectingInv
<1>2. CASE SettlePendingUnstakes
  <2>1. block' \in BlockRecord /\ block'.ejecting = {}
    BY <1>0, <1>2 DEF SettlePendingUnstakes, BlockRecord
  <2>2. pendingUnstakes' \subseteq UnstakeRecord
    BY <1>2 DEF SettlePendingUnstakes, TypeInv
  <2>3. TypeInv'
    BY <1>2, <2>1, <2>2 DEF SettlePendingUnstakes, TypeInv
  <2>. QED
    BY <2>1, <2>3 DEF EjectingInv
<1>. QED
  BY <1>1, <1>2

\* The end of a block, and a slash between two blocks.
LEMMA TypeFinish ==
  ASSUME TypeInv, EjectingInv,
         FinishBlock \/ (\E v \in ValidatorIds : SlashEquivocation(v))
  PROVE  TypeInv' /\ EjectingInv'
<1>1. CASE FinishBlock
  <2>1. block' = Idle
    BY <1>1 DEF FinishBlock
  <2>2. block' \in BlockRecord /\ block'.ejecting = {}
    BY <2>1, RecordTypes DEF Idle
  <2>3. validators' \in [ValidatorIds -> ValidatorRecord \cup {NoValidator}]
    <3>1. ASSUME NEW v \in ValidatorIds, \E p \in Activated : p.id = v
          PROVE  NewValidator((CHOOSE p \in Activated : p.id = v).owner) \in ValidatorRecord
      <4>1. Activated \subseteq pendingValidators
        BY DEF Activated, Eligible
      <4>2. (CHOOSE p \in Activated : p.id = v) \in Activated
        BY <3>1
      <4>. QED
        BY <4>1, <4>2, RecordTypes DEF TypeInv, PendingRecord
    <3>. QED
      BY <1>1, <3>1 DEF FinishBlock, TypeInv
  <2>4. pendingValidators' \subseteq PendingRecord /\ IsFiniteSet(pendingValidators')
    <3>1. pendingValidators' \subseteq pendingValidators
      BY <1>1 DEF FinishBlock
    <3>. QED
      BY <3>1, FS_Subset DEF TypeInv
  <2>5. TypeInv'
    BY <1>1, <2>2, <2>3, <2>4 DEF FinishBlock, TypeInv
  <2>. QED
    BY <2>2, <2>5 DEF EjectingInv
<1>2. ASSUME NEW v \in ValidatorIds, SlashEquivocation(v)
      PROVE  TypeInv' /\ EjectingInv'
  <2>1. v \in Registered
    BY <1>2 DEF SlashEquivocation
  <2>2. staked' \in [Users -> Nat]
    BY <1>2, <2>1, BurnType, ParameterAssumption DEF SlashEquivocation
  <2>3. validators' \in [ValidatorIds -> ValidatorRecord \cup {NoValidator}]
    <3>1. validators[v] \in ValidatorRecord
      BY <2>1, RegisteredType
    <3>2. [validators[v] EXCEPT !.slashed = TRUE, !.active = FALSE] \in ValidatorRecord
      BY <3>1 DEF ValidatorRecord
    <3>3. validators' = [validators EXCEPT ![v] = [@ EXCEPT !.slashed = TRUE, !.active = FALSE]]
      BY <1>2, <3>1 DEF SlashEquivocation, TypeInv, ValidatorRecord
    <3>. QED
      BY <3>2, <3>3 DEF TypeInv
  <2>4. TypeInv'
    BY <1>2, <2>2, <2>3 DEF SlashEquivocation, TypeInv
  <2>5. block.ejecting = {} /\ block' = block
    BY <1>2 DEF SlashEquivocation, EjectingInv
  <2>. QED
    BY <2>4, <2>5 DEF EjectingInv
<1>. QED
  BY <1>1, <1>2

\* Every step keeps the types.
LEMMA TypeNext ==
  ASSUME TypeInv, EjectingInv, [Next]_vars
  PROVE  TypeInv' /\ EjectingInv'
<1>1. ASSUME NEW tx \in Txs, ApplyTransaction(tx)
      PROVE  TypeInv' /\ EjectingInv'
  <2>1. block.phase = "txs" /\ block'.phase = block.phase /\ block'.ejecting = block.ejecting
    BY <1>1, TxEffect, TxBlock
  <2>. QED
    BY <1>1, <2>1, TypeTx DEF EjectingInv
<1>2. CASE UNCHANGED vars
  BY <1>2 DEF vars, accounts, TypeInv, EjectingInv, Registered
<1>. QED
  BY <1>1, <1>2, TypeBegin, TypeSettle, TypeFinish DEF Next

\* Type correctness: in every reachable state the accounts have natural nonces
\* and stakes, every validator record and queue entry is well formed, and the
\* block being applied was opened for a known proposer.
THEOREM TypeCorrect == Spec => [](TypeInv /\ EjectingInv)
<1>1. Init => TypeInv /\ EjectingInv
  BY TypeInit
<1>2. (TypeInv /\ EjectingInv) /\ [Next]_vars => (TypeInv /\ EjectingInv)'
  BY TypeNext
<1>. QED
  BY <1>1, <1>2, PTL DEF Spec

-----------------------------------------------------------------------------
(* The transactions of an account take effect in the order of their nonces *)

\* What one effective transaction adds keeps the record in order.
LEMMA AppendInOrder ==
  ASSUME NEW n \in Nat, NEW h, h = [i \in 1 .. n |-> i]
  PROVE  Append(h, n + 1) = [i \in 1 .. n + 1 |-> i]
<1>1. h \in Seq(Nat) /\ Len(h) = n
  BY Z3
<1>2. Append(h, n + 1) \in Seq(Nat) /\ Len(Append(h, n + 1)) = n + 1
  BY <1>1
<1>3. \A i \in 1 .. n + 1 : Append(h, n + 1)[i] = i
  BY <1>1
<1>. QED
  BY <1>2, <1>3

\* HistoryInOrder is inductive with the types.
LEMMA HistoryNext ==
  ASSUME TypeInv, HistoryInOrder, [Next]_vars
  PROVE  HistoryInOrder'
<1>1. ASSUME NEW tx \in Txs, ApplyTransaction(tx)
      PROVE  HistoryInOrder'
  <2>1. /\ tx.nonce = nonce[tx.from] + 1 /\ tx.from \in Users
        /\ nonce' = [nonce EXCEPT ![tx.from] = @ + 1]
        /\ history' = [history EXCEPT ![tx.from] = Append(@, tx.nonce)]
    BY <1>1, TxEffect, TxType DEF TakeEffect
  <2>. SUFFICES ASSUME NEW a \in Users
                PROVE  history'[a] = [i \in 1 .. nonce'[a] |-> i]
    BY DEF HistoryInOrder
  <2>2. nonce[a] \in Nat /\ history[a] = [i \in 1 .. nonce[a] |-> i]
    BY DEF TypeInv, HistoryInOrder
  <2>3. CASE a = tx.from
    <3>1. nonce'[a] = nonce[a] + 1 /\ history'[a] = Append(history[a], nonce[a] + 1)
      BY <2>1, <2>3 DEF TypeInv
    <3>. QED
      BY <2>2, <3>1, AppendInOrder
  <2>4. CASE a # tx.from
    BY <2>1, <2>2, <2>4 DEF TypeInv
  <2>. QED
    BY <2>3, <2>4
<1>2. CASE UNCHANGED <<nonce, history>>
  BY <1>2 DEF HistoryInOrder
<1>3. ASSUME NEW unavailable, BeginRound(unavailable)
      PROVE  UNCHANGED <<nonce, history>>
  BY <1>3 DEF BeginRound, accounts
<1>4. ASSUME NEW v, BeginCommit(v)
      PROVE  UNCHANGED <<nonce, history>>
  BY <1>4 DEF BeginCommit, accounts
<1>5. ASSUME NEW v, EjectInactiveValidator(v)
      PROVE  UNCHANGED <<nonce, history>>
  BY <1>5 DEF EjectInactiveValidator
<1>6. CASE SettlePendingUnstakes
  BY <1>2, <1>6 DEF SettlePendingUnstakes
<1>7. CASE FinishBlock
  BY <1>2, <1>7 DEF FinishBlock
<1>8. ASSUME NEW v, SlashEquivocation(v)
      PROVE  UNCHANGED <<nonce, history>>
  BY <1>8 DEF SlashEquivocation
<1>9. CASE UNCHANGED vars
  BY <1>2, <1>9 DEF vars, accounts
<1>. QED
  BY <1>1, <1>2, <1>3, <1>4, <1>5, <1>6, <1>7, <1>8, <1>9 DEF Next

\* Whatever the blocks contain, and whoever proposed them, the effective
\* transactions of an account are its nonces 1, 2, 3, ... in order: no replay,
\* no gap, also for calls reported as rejected (applyTransaction).
THEOREM TransactionsInOrder == Spec => []HistoryInOrder
<1>1. Init => HistoryInOrder
  <2>. SUFFICES ASSUME Init, NEW a \in Users
                PROVE  history[a] = [i \in 1 .. nonce[a] |-> i]
    BY DEF HistoryInOrder
  <2>1. CASE a = Seed
    <3>1. history[a] = <<1, 2>> /\ nonce[a] = 2
      BY <2>1 DEF Init
    <3>. QED
      BY <3>1
  <2>2. CASE a # Seed
    <3>1. history[a] = <<>> /\ nonce[a] = 0
      BY <2>2 DEF Init
    <3>. QED
      BY <3>1
  <2>. QED
    BY <2>1, <2>2
<1>2. (TypeInv /\ EjectingInv) /\ HistoryInOrder /\ [Next]_vars => HistoryInOrder'
  BY HistoryNext
<1>. QED
  BY <1>1, <1>2, TypeCorrect, PTL DEF Spec

-----------------------------------------------------------------------------
(* Registration: the queue and the validator set *)

\* The steps that can bring an id into the validator set or into the queue are
\* a registration and the end of a block; no other step adds to either.
LEMMA OnlyTwoRegister ==
  ASSUME TypeInv, EjectingInv, [Next]_vars,
         \A tx \in Txs : ~ValidatorRegister(tx), ~FinishBlock
  PROVE  Registered' \subseteq Registered /\ pendingValidators' \subseteq pendingValidators
<1>1. ASSUME NEW unavailable, BeginRound(unavailable)
      PROVE  Registered' \subseteq Registered /\ UNCHANGED pendingValidators
  BY <1>1, RoundRegistered DEF BeginRound
<1>2. ASSUME NEW v, BeginCommit(v)
      PROVE  UNCHANGED <<validators, pendingValidators>>
  BY <1>2 DEF BeginCommit
<1>3. ASSUME NEW v, EjectInactiveValidator(v)
      PROVE  Registered' \subseteq Registered /\ UNCHANGED pendingValidators
  BY <1>3 DEF EjectInactiveValidator, TypeInv, Registered
<1>4. CASE SettlePendingUnstakes
  BY <1>4 DEF SettlePendingUnstakes, Registered
<1>5. ASSUME NEW v, SlashEquivocation(v)
      PROVE  Registered' \subseteq Registered /\ UNCHANGED pendingValidators
  BY <1>5 DEF SlashEquivocation, TypeInv, Registered
<1>6. ASSUME NEW tx \in Txs, ApplyTransaction(tx), ~ValidatorUnregister(tx)
      PROVE  UNCHANGED <<validators, pendingValidators>>
  BY <1>6 DEF ApplyTransaction, Transfer, Stake, Unstake, ContractDeploy, ContractCall,
              ContractCallFails
<1>7. ASSUME NEW tx \in Txs, ValidatorUnregister(tx)
      PROVE  Registered' \subseteq Registered /\ pendingValidators' \subseteq pendingValidators
  BY <1>7 DEF ValidatorUnregister, TypeInv, Registered
<1>8. CASE UNCHANGED vars
  BY <1>8 DEF vars, Registered
<1>9. UNCHANGED <<validators, pendingValidators>> =>
        Registered' \subseteq Registered /\ pendingValidators' \subseteq pendingValidators
  BY DEF Registered
<1>. QED
  BY <1>1, <1>2, <1>3, <1>4, <1>5, <1>6, <1>7, <1>8, <1>9 DEF Next

\* What a registration adds: the id to the validator set, or an entry for it
\* to the queue; never both, and never when the id is in either.
LEMMA RegisterEffect ==
  ASSUME TypeInv, NEW tx \in Txs, ValidatorRegister(tx)
  PROVE  /\ tx.id \notin Registered /\ \A p \in pendingValidators : p.id # tx.id
         /\ \/ /\ Registered' = Registered
               /\ \E e \in PendingRecord : /\ e.id = tx.id
                                           /\ pendingValidators' = pendingValidators \cup {e}
            \/ /\ Registered' = Registered \cup {tx.id}
               /\ validators'[tx.id].owner = tx.from
               /\ pendingValidators' = pendingValidators
<1>1. tx.id \in ValidatorIds /\ tx.from \in Users
  BY TxEffect, TxType DEF ApplyTransaction
<1>2. tx.id \notin Registered /\ \A p \in pendingValidators : p.id # tx.id
  BY DEF ValidatorRegister, Queued
<1>3. CASE EpochLength > 0
  <2>. DEFINE e == [id |-> tx.id, owner |-> tx.from, registeredAtHeight |-> height,
                    arrival |-> NextArrival]
  <2>1. e \in PendingRecord /\ e.id = tx.id
    BY <1>1, ArrivalType DEF PendingRecord, TypeInv
  <2>2. pendingValidators' = pendingValidators \cup {e} /\ UNCHANGED validators
    BY <1>3 DEF ValidatorRegister
  <2>. HIDE DEF e
  <2>. QED
    BY <1>2, <2>1, <2>2 DEF Registered
<1>4. CASE ~(EpochLength > 0)
  <2>1. validators' = [validators EXCEPT ![tx.id] = NewValidator(tx.from)]
        /\ UNCHANGED pendingValidators
    BY <1>4 DEF ValidatorRegister
  <2>2. NewValidator(tx.from) # NoValidator /\ NewValidator(tx.from).owner = tx.from
    BY <1>1, RecordTypes, RecordIsNotAbsent DEF NewValidator
  <2>. QED
    BY <1>1, <1>2, <2>1, <2>2 DEF Registered, TypeInv
<1>. QED
  BY <1>3, <1>4

\* What the end of a block adds to the validator set: the owners of the
\* activated entries.
LEMMA FinishEffect ==
  ASSUME TypeInv, FinishBlock
  PROVE  /\ Activated \subseteq Eligible /\ Activated \subseteq pendingValidators
         /\ pendingValidators' \subseteq pendingValidators \ Activated
         /\ Registered' = Registered \cup {p.id : p \in Activated}
         /\ \A v \in Registered' \ Registered :
              \E p \in Activated : p.id = v /\ validators'[v] = NewValidator(p.owner)
<1>1. Activated \subseteq Eligible /\ Activated \subseteq pendingValidators
  BY DEF Activated, Eligible
<1>2. pendingValidators' \subseteq pendingValidators \ Activated
  BY DEF FinishBlock
<1>3. \A p \in Activated : p.id \in ValidatorIds /\ p.owner \in Users
  BY <1>1 DEF TypeInv, PendingRecord
<1>4. ASSUME NEW v \in ValidatorIds
      PROVE  IF \E p \in Activated : p.id = v
             THEN /\ validators'[v] # NoValidator
                  /\ \E p \in Activated : p.id = v /\ validators'[v] = NewValidator(p.owner)
             ELSE validators'[v] = validators[v]
  <2>. DEFINE c == CHOOSE p \in Activated : p.id = v
  <2>1. CASE \E p \in Activated : p.id = v
    <3>1. c \in Activated /\ c.id = v
      BY <2>1
    <3>2. validators'[v] = NewValidator(c.owner)
      BY <2>1 DEF FinishBlock
    <3>. HIDE DEF c
    <3>3. NewValidator(c.owner) # NoValidator
      BY <1>3, <3>1, RecordTypes, RecordIsNotAbsent
    <3>. QED
      BY <2>1, <3>1, <3>2, <3>3
  <2>2. CASE ~ \E p \in Activated : p.id = v
    BY <2>2 DEF FinishBlock
  <2>. QED
    BY <2>1, <2>2
<1>5. Registered' = Registered \cup {p.id : p \in Activated}
  BY <1>3, <1>4 DEF Registered
<1>6. \A v \in Registered' \ Registered :
        \E p \in Activated : p.id = v /\ validators'[v] = NewValidator(p.owner)
  BY <1>4 DEF Registered
<1>. QED
  BY <1>1, <1>2, <1>5, <1>6

\* PendingSound is inductive with the types.
LEMMA PendingNext ==
  ASSUME TypeInv, EjectingInv, PendingSound, [Next]_vars
  PROVE  PendingSound'
<1>1. ASSUME NEW tx \in Txs, ValidatorRegister(tx)
      PROVE  PendingSound'
  BY <1>1, RegisterEffect DEF PendingSound
<1>2. CASE FinishBlock
  BY <1>2, FinishEffect DEF PendingSound
<1>3. CASE (\A tx \in Txs : ~ValidatorRegister(tx)) /\ ~FinishBlock
  BY <1>3, OnlyTwoRegister DEF PendingSound
<1>. QED
  BY <1>1, <1>2, <1>3

\* No id is queued twice, and none is queued while it is registered, with any
\* epoch length and any mixture of registrations, removals and ejections.
THEOREM QueueSound == Spec => []PendingSound
<1>1. Init => PendingSound
  BY DEF Init, PendingSound
<1>2. (TypeInv /\ EjectingInv) /\ PendingSound /\ [Next]_vars => PendingSound'
  BY PendingNext
<1>. QED
  BY <1>1, <1>2, TypeCorrect, PTL DEF Spec

\* The stake is in place when a registration takes effect.
LEMMA ActivationStep ==
  ASSUME TypeInv, EjectingInv, [Next]_vars, NEW v \in Registered' \ Registered
  PROVE  staked'[validators'[v].owner] >= MinValidatorStake
<1>1. ASSUME NEW tx \in Txs, ValidatorRegister(tx)
      PROVE  staked'[validators'[v].owner] >= MinValidatorStake
  <2>1. v = tx.id /\ validators'[v].owner = tx.from
    BY <1>1, RegisterEffect
  <2>. QED
    BY <1>1, <2>1 DEF ValidatorRegister
<1>2. CASE FinishBlock
  <2>1. PICK p \in Activated : p.id = v /\ validators'[v] = NewValidator(p.owner)
    BY <1>2, FinishEffect
  <2>2. p \in Eligible /\ validators'[v].owner = p.owner
    BY <1>2, <2>1, FinishEffect DEF NewValidator
  <2>. QED
    BY <1>2, <2>2 DEF FinishBlock, Eligible
<1>3. CASE (\A tx \in Txs : ~ValidatorRegister(tx)) /\ ~FinishBlock
  BY <1>3, OnlyTwoRegister
<1>. QED
  BY <1>1, <1>2, <1>3

\* A validator enters the set only with the minimum stake at that moment, also
\* when its registration waited for an epoch and the stake moved meanwhile.
THEOREM ActivatedWithStake == Spec => ActivationNeedsStake
<1>1. (TypeInv /\ EjectingInv) /\ [Next]_vars =>
        [\A v \in ValidatorIds :
           v \notin Registered /\ v \in Registered'
             => staked'[validators'[v].owner] >= MinValidatorStake]_vars
  BY ActivationStep
<1>. QED
  BY <1>1, TypeCorrect, PTL DEF Spec, ActivationNeedsStake

-----------------------------------------------------------------------------
(* Downtime *)

\* DowntimeBounded of one record; ejected: it is about to be removed.
DowntimeOK(r, ejected) ==
  /\ r.active <=> ~r.slashed
  /\ r.missed <= r.inactive
  /\ r.active => r.missed < MaxMissedBlocks
  /\ r.inactive < EjectionBlocks \/ ejected

\* A validator that has just joined has both counters at zero.
LEMMA NewDowntimeOK ==
  ASSUME NEW a  PROVE  DowntimeOK(NewValidator(a), FALSE)
BY ParameterAssumption DEF DowntimeOK, NewValidator

\* One round: a validator whose inactivity reaches the threshold is in the set
\* of those the round ejects.
LEMMA RoundDowntimeOK ==
  ASSUME NEW r, NEW s, NEW tookPart \in BOOLEAN, RoundStep(r, s, tookPart), DowntimeOK(r, FALSE)
  PROVE  DowntimeOK(s, ~tookPart /\ r.inactive + 1 >= EjectionBlocks)
<1>1. /\ r.missed \in Nat /\ r.inactive \in Nat /\ s.missed \in Nat /\ s.inactive \in Nat
      /\ r.active \in BOOLEAN /\ r.slashed \in BOOLEAN
      /\ s.active \in BOOLEAN /\ s.slashed \in BOOLEAN
  BY DEF RoundStep, ValidatorRecord
<1>2. CASE tookPart
  <2>1. s.missed = 0 /\ s.inactive = 0 /\ s.active = r.active /\ s.slashed = r.slashed
    BY <1>2 DEF RoundStep
  <2>. QED
    BY <2>1, ParameterAssumption DEF DowntimeOK
<1>3. CASE ~tookPart
  <2>1. /\ s.inactive = r.inactive + 1
        /\ \/ s.missed = r.missed /\ s.active = r.active /\ s.slashed = r.slashed
           \/ /\ s.missed = r.missed + 1 /\ s.missed < MaxMissedBlocks
              /\ s.active = r.active /\ s.slashed = r.slashed
           \/ /\ s.missed = r.missed + 1
              /\ s.active = FALSE /\ s.slashed = TRUE
    BY <1>3 DEF RoundStep
  <2>. QED
    BY <1>1, <1>3, <2>1, ParameterAssumption DEF DowntimeOK
<1>. QED
  BY <1>2, <1>3

\* DowntimeBounded is inductive with the types.
LEMMA DowntimeNext ==
  ASSUME TypeInv, EjectingInv, DowntimeBounded, [Next]_vars, NEW v \in Registered'
  PROVE  DowntimeOK(validators'[v], v \in block'.ejecting)
<1>1. \A w \in Registered : DowntimeOK(validators[w], w \in block.ejecting)
  BY DEF DowntimeBounded, DowntimeOK
<1>2. v \in ValidatorIds
  BY DEF Registered
<1>3. ASSUME validators'[v] = validators[v],
             v \in block.ejecting => v \in block'.ejecting
      PROVE  DowntimeOK(validators'[v], v \in block'.ejecting)
  BY <1>1, <1>3 DEF Registered, DowntimeOK
<1>4. ASSUME NEW unavailable, BeginRound(unavailable)
      PROVE  DowntimeOK(validators'[v], v \in block'.ejecting)
  <2>. DEFINE participating == Active \ unavailable
              r == validators[v]
              s == AfterRound(v, participating, unavailable)
  <2>1. v \in Registered /\ validators'[v] = s
    BY <1>2, <1>4, RoundRegistered DEF BeginRound
  <2>2. DowntimeOK(r, FALSE)
    <3>1. (v \in block.ejecting) = FALSE
      BY <1>4 DEF BeginRound, EjectingInv
    <3>2. DowntimeOK(r, v \in block.ejecting)
      BY <1>1, <2>1
    <3>. QED
      BY <3>1, <3>2 DEF DowntimeOK
  <2>3. v \in block'.ejecting <=> v \notin participating /\ r.inactive + 1 >= EjectionBlocks
    BY <1>4, <2>1 DEF BeginRound, Open, Idle
  <2>4. RoundStep(r, s, v \in participating)
    BY <2>1, AfterRoundFields
  <2>. DEFINE tookPart == v \in participating
  <2>. HIDE DEF participating, r, s
  <2>5. DowntimeOK(s, v \notin participating /\ r.inactive + 1 >= EjectionBlocks)
    <3>1. tookPart \in BOOLEAN /\ RoundStep(r, s, tookPart)
      BY <2>4
    <3>. HIDE DEF tookPart
    <3>2. DowntimeOK(s, ~tookPart /\ r.inactive + 1 >= EjectionBlocks)
      BY <2>2, <3>1, RoundDowntimeOK
    <3>. QED
      BY <3>2 DEF DowntimeOK, tookPart
  <2>. QED
    BY <2>1, <2>3, <2>5 DEF DowntimeOK
<1>5. ASSUME NEW w, BeginCommit(w)
      PROVE  DowntimeOK(validators'[v], v \in block'.ejecting)
  BY <1>3, <1>5 DEF BeginCommit, EjectingInv
<1>6. ASSUME NEW w \in ValidatorIds, EjectInactiveValidator(w)
      PROVE  DowntimeOK(validators'[v], v \in block'.ejecting)
  <2>1. v # w
    BY <1>6 DEF EjectInactiveValidator, TypeInv, Registered
  <2>. QED
    BY <1>3, <1>6, <2>1 DEF EjectInactiveValidator, TypeInv, BlockRecord
<1>7. CASE SettlePendingUnstakes
  BY <1>3, <1>7 DEF SettlePendingUnstakes, TypeInv, BlockRecord
<1>8. ASSUME NEW tx \in Txs, ApplyTransaction(tx)
      PROVE  DowntimeOK(validators'[v], v \in block'.ejecting)
  <2>1. block'.ejecting = block.ejecting
    BY <1>8, TxBlock
  <2>2. CASE validators'[v] = validators[v]
    BY <1>3, <2>1, <2>2
  <2>3. CASE validators'[v] # validators[v]
    <3>1. validators' = [validators EXCEPT ![tx.id] = NewValidator(tx.from)] /\ v = tx.id
      BY <1>2, <1>8, <2>3 DEF ApplyTransaction, Transfer, Stake, Unstake, ValidatorRegister,
         ValidatorUnregister, ContractDeploy, ContractCall, ContractCallFails, Registered, TypeInv
    <3>2. validators'[v] = NewValidator(tx.from)
      BY <1>2, <3>1 DEF TypeInv
    <3>. QED
      BY <3>2, NewDowntimeOK DEF DowntimeOK
  <2>. QED
    BY <2>2, <2>3
<1>9. CASE FinishBlock
  <2>1. CASE validators'[v] = validators[v]
    BY <1>3, <1>9, <2>1 DEF FinishBlock, EjectingInv
  <2>2. CASE validators'[v] # validators[v]
    <3>1. \E a : validators'[v] = NewValidator(a)
      BY <1>2, <1>9, <2>2 DEF FinishBlock
    <3>. QED
      BY <3>1, NewDowntimeOK DEF DowntimeOK
  <2>. QED
    BY <2>1, <2>2
<1>10. ASSUME NEW w \in ValidatorIds, SlashEquivocation(w)
       PROVE  DowntimeOK(validators'[v], v \in block'.ejecting)
  <2>1. block' = block
    BY <1>10 DEF SlashEquivocation
  <2>2. CASE v = w
    <3>1. v \in Registered
      BY <1>10, <2>2 DEF SlashEquivocation
    <3>2. validators[v] \in ValidatorRecord /\ DowntimeOK(validators[v], v \in block.ejecting)
      BY <1>1, <3>1, RegisteredType
    <3>3. validators'[v] = [validators[v] EXCEPT !.slashed = TRUE, !.active = FALSE]
      BY <1>2, <1>10, <2>2, <3>2 DEF SlashEquivocation, TypeInv, ValidatorRecord
    <3>4. /\ validators'[v].slashed = TRUE /\ validators'[v].active = FALSE
          /\ validators'[v].missed = validators[v].missed
          /\ validators'[v].inactive = validators[v].inactive
      BY <3>2, <3>3 DEF ValidatorRecord
    <3>. QED
      BY <2>1, <3>2, <3>4 DEF DowntimeOK
  <2>3. CASE v # w
    <3>1. validators'[v] = validators[v]
      BY <1>2, <1>10, <2>3 DEF SlashEquivocation, TypeInv
    <3>. QED
      BY <1>3, <2>1, <3>1
  <2>. QED
    BY <2>2, <2>3
<1>11. CASE UNCHANGED vars
  BY <1>3, <1>11 DEF vars
<1>. QED
  BY <1>4, <1>5, <1>6, <1>7, <1>8, <1>9, <1>10, <1>11 DEF Next

\* The two downtime counters agree in every reachable state: nobody stays
\* active at the limit of missed blocks, and nobody stays registered at the
\* ejection threshold once the round's ejections have run.
THEOREM DowntimeIsBounded == Spec => []DowntimeBounded
<1>1. Init => DowntimeBounded
  <2>. SUFFICES ASSUME Init, NEW v \in Registered
                PROVE  DowntimeOK(validators[v], v \in block.ejecting)
    BY DEF DowntimeBounded, DowntimeOK
  <2>1. validators[v] = NewValidator(Seed)
    BY DEF Init, Registered
  <2>. QED
    BY <2>1, NewDowntimeOK DEF DowntimeOK
<1>2. (TypeInv /\ EjectingInv) /\ DowntimeBounded /\ [Next]_vars => DowntimeBounded'
  <2>. SUFFICES ASSUME TypeInv, EjectingInv, DowntimeBounded, [Next]_vars
                PROVE  DowntimeBounded'
    OBVIOUS
  <2>1. \A v \in Registered' : DowntimeOK(validators'[v], v \in block'.ejecting)
    BY DowntimeNext
  <2>. QED
    BY <2>1 DEF DowntimeBounded, DowntimeOK
<1>. QED
  BY <1>1, <1>2, TypeCorrect, PTL DEF Spec

-----------------------------------------------------------------------------
(* The cooldown of unstaked money *)

\* Every entry knows its block, and the block that releases it is still ahead:
\* an entry is due at the latest in the settlement of the next block, and
\* settlement leaves no entry that is due.
UnstakeInv ==
  \A e \in pendingUnstakes :
    /\ e.unlockAt = e.since + UnstakeCooldownBlocks - 1
    /\ IF block.phase = "txs"
       THEN /\ e.since <= height + 1
            /\ UnstakeCooldownBlocks > 0 => e.unlockAt > height
            /\ UnstakeCooldownBlocks = 0 => e.unlockAt >= height
       ELSE /\ e.since <= height
            /\ UnstakeCooldownBlocks > 0 => e.unlockAt >= height
            /\ UnstakeCooldownBlocks = 0 => e.unlockAt + 1 >= height

\* Only an unstake transaction and the settlement change the list, and only
\* they and the two ends of a block matter to UnstakeInv.
LEMMA UnstakeNext ==
  ASSUME TypeInv, EjectingInv, UnstakeInv, [Next]_vars
  PROVE  /\ UnstakeInv'
         /\ \A e \in pendingUnstakes : e \notin pendingUnstakes' =>
              height + 1 = e.since + IF UnstakeCooldownBlocks = 0 THEN 1
                                     ELSE UnstakeCooldownBlocks
<1>. USE ParameterAssumption
<1>0. /\ height \in Nat /\ block \in BlockRecord
      /\ \A e \in pendingUnstakes : e.unlockAt \in Nat /\ e.since \in Nat
  BY DEF TypeInv, UnstakeRecord
<1>1. ASSUME UNCHANGED <<pendingUnstakes, height>>,
             block'.phase = "txs" <=> block.phase = "txs"
      PROVE  UnstakeInv'
  BY <1>1 DEF UnstakeInv
<1>2. CASE UNCHANGED pendingUnstakes /\ UnstakeInv'
  BY <1>2
<1>3. ASSUME NEW unavailable, BeginRound(unavailable)
      PROVE  UnstakeInv' /\ UNCHANGED pendingUnstakes
  BY <1>1, <1>3 DEF BeginRound, Open, Idle
<1>4. ASSUME NEW v, BeginCommit(v)
      PROVE  UnstakeInv' /\ UNCHANGED pendingUnstakes
  BY <1>1, <1>4 DEF BeginCommit, Open, Idle
<1>5. ASSUME NEW v, EjectInactiveValidator(v)
      PROVE  UnstakeInv' /\ UNCHANGED pendingUnstakes
  BY <1>0, <1>1, <1>5 DEF EjectInactiveValidator, BlockRecord
<1>6. ASSUME NEW v, SlashEquivocation(v)
      PROVE  UnstakeInv' /\ UNCHANGED pendingUnstakes
  BY <1>1, <1>6 DEF SlashEquivocation
<1>7. CASE FinishBlock
  <2>1. /\ height' = height + 1 /\ block.phase = "txs" /\ block'.phase = "idle"
        /\ UNCHANGED pendingUnstakes
    BY <1>7 DEF FinishBlock, Idle
  <2>. QED
    BY <1>0, <1>2, <2>1 DEF UnstakeInv
<1>8. CASE SettlePendingUnstakes
  <2>1. /\ height' = height /\ block.phase = "settle" /\ block'.phase = "txs"
        /\ pendingUnstakes' = {e \in pendingUnstakes : e.unlockAt > height}
    BY <1>0, <1>8 DEF SettlePendingUnstakes, BlockRecord
  <2>. QED
    BY <1>0, <2>1 DEF UnstakeInv
<1>9. ASSUME NEW tx \in Txs, Unstake(tx)
      PROVE  UnstakeInv' /\ pendingUnstakes \subseteq pendingUnstakes'
  <2>. DEFINE e == [owner |-> tx.from, nonce |-> tx.nonce, amount |-> tx.amount,
                    since |-> height + 1, unlockAt |-> height + UnstakeCooldownBlocks]
  <2>1. pendingUnstakes' = pendingUnstakes \cup {e} /\ height' = height /\ block.phase = "txs"
    BY <1>9 DEF Unstake, Admissible
  <2>2. block'.phase = "txs"
    BY <1>9, <2>1, TxBlock DEF ApplyTransaction
  <2>3. e.since = height + 1 /\ e.unlockAt = height + UnstakeCooldownBlocks
    OBVIOUS
  <2>. HIDE DEF e
  <2>. QED
    BY <1>0, <2>1, <2>2, <2>3 DEF UnstakeInv
<1>10. ASSUME NEW tx \in Txs, ApplyTransaction(tx), ~Unstake(tx)
       PROVE  UnstakeInv' /\ UNCHANGED pendingUnstakes
  <2>1. UNCHANGED pendingUnstakes
    BY <1>10 DEF ApplyTransaction, Transfer, Stake, ValidatorRegister, ValidatorUnregister,
                 ContractDeploy, ContractCall, ContractCallFails
  <2>. QED
    BY <1>1, <1>10, <2>1, TxEffect, TxBlock
<1>11. CASE UNCHANGED vars
  BY <1>1, <1>11 DEF vars
<1>. QED
  BY <1>2, <1>3, <1>4, <1>5, <1>6, <1>7, <1>8, <1>9, <1>10, <1>11 DEF Next

\* Unstaked money returns in the one block that ends its cooldown: never
\* early, and never forgotten by the settlements in between.
THEOREM UnstakeReleasedOnTime == Spec => UnstakeOnTime
<1>1. Init => UnstakeInv
  BY DEF Init, UnstakeInv
<1>2. (TypeInv /\ EjectingInv) /\ UnstakeInv /\ [Next]_vars => UnstakeInv'
  BY UnstakeNext
<1>3. (TypeInv /\ EjectingInv) /\ UnstakeInv /\ [Next]_vars =>
        [\A e \in pendingUnstakes :
           e \notin pendingUnstakes' =>
             height + 1 = e.since + IF UnstakeCooldownBlocks = 0 THEN 1
                                    ELSE UnstakeCooldownBlocks]_vars
  BY UnstakeNext
<1>. QED
  BY <1>1, <1>2, <1>3, TypeCorrect, PTL DEF Spec, UnstakeOnTime

-----------------------------------------------------------------------------
(* The cap on active validators, when the configuration uses epochs *)

\* No two entries of the queue have the same place.
ArrivalInv == \A p, q \in pendingValidators : p.arrival = q.arrival => p = q

\* The sort of the queue is a strict total order of its entries.
LEMMA BeforeOrder ==
  ASSUME TypeInv, ArrivalInv,
         NEW p \in pendingValidators, NEW q \in pendingValidators, NEW r \in pendingValidators
  PROVE  /\ ~Before(p, p)
         /\ Before(p, q) /\ Before(q, r) => Before(p, r)
         /\ p # q => Before(p, q) \/ Before(q, p)
<1>1. \A e \in pendingValidators :
        staked[e.owner] \in Nat /\ e.registeredAtHeight \in Nat /\ e.arrival \in Nat
  BY DEF TypeInv, PendingRecord
<1>2. p # q => p.arrival # q.arrival
  BY DEF ArrivalInv
<1>. QED
  BY <1>1, <1>2 DEF Before

\* Without epochs nothing waits in the queue.
EpochQueue == ~ (EpochLength > 0) => pendingValidators = {}

\* The queue is used with epochs only, and its places stay distinct.
LEMMA ArrivalNext ==
  ASSUME TypeInv, EjectingInv, ArrivalInv, EpochQueue, [Next]_vars
  PROVE  ArrivalInv' /\ EpochQueue'
<1>1. ASSUME NEW tx \in Txs, ValidatorRegister(tx)
      PROVE  ArrivalInv' /\ EpochQueue'
  <2>. DEFINE e == [id |-> tx.id, owner |-> tx.from, registeredAtHeight |-> height,
                    arrival |-> NextArrival]
  <2>1. IF EpochLength > 0 THEN pendingValidators' = pendingValidators \cup {e}
        ELSE pendingValidators' = pendingValidators
    BY <1>1 DEF ValidatorRegister
  <2>2. e.arrival = NextArrival
    OBVIOUS
  <2>3. \A p \in pendingValidators : p.arrival # NextArrival
    <3>1. NextArrival \in Nat /\ \A p \in pendingValidators : p.arrival < NextArrival
      BY ArrivalType
    <3>2. \A p \in pendingValidators : p.arrival \in Nat
      BY DEF TypeInv, PendingRecord
    <3>. QED
      BY <3>1, <3>2
  <2>. HIDE DEF e
  <2>. QED
    BY <2>1, <2>2, <2>3 DEF ArrivalInv, EpochQueue
<1>2. CASE FinishBlock
  BY <1>2, FinishEffect DEF ArrivalInv, EpochQueue
<1>3. CASE (\A tx \in Txs : ~ValidatorRegister(tx)) /\ ~FinishBlock
  BY <1>3, OnlyTwoRegister DEF ArrivalInv, EpochQueue
<1>. QED
  BY <1>1, <1>2, <1>3

\* One boundary activates at most as many candidates as there are slots.
LEMMA ActivatedFitsSlots ==
  ASSUME TypeInv, ArrivalInv, MaxActiveValidators > 0
  PROVE  IsFiniteSet(Activated) /\ Cardinality(Activated) <= Slots
<1>. DEFINE Ahead(p) == {q \in Eligible : Before(q, p)}
            rank == [p \in Activated |-> Cardinality(Ahead(p))]
<1>1. /\ Eligible \subseteq pendingValidators /\ Activated \subseteq Eligible
      /\ Activated \subseteq Reached
  BY DEF Activated, Eligible
<1>2. IsFiniteSet(Eligible) /\ IsFiniteSet(Activated)
  BY <1>1, FS_Subset DEF TypeInv
<1>3. IsFiniteSet(Active) /\ Cardinality(Active) \in Nat
  <2>1. Active \subseteq ValidatorIds
    BY DEF Active, Registered
  <2>. QED
    BY <2>1, ValidatorAssumption, FS_Subset, FS_CardinalityType
<1>4. Slots \in Nat
  BY <1>3, ParameterAssumption DEF Slots
<1>5. \A p \in Activated : IsFiniteSet(Ahead(p)) /\ rank[p] \in 0 .. Slots - 1
  <2>. SUFFICES ASSUME NEW p \in Activated
                PROVE  IsFiniteSet(Ahead(p)) /\ rank[p] \in 0 .. Slots - 1
    OBVIOUS
  <2>1. IsFiniteSet(Ahead(p))
    BY <1>2, FS_Subset
  <2>2. Cardinality(Ahead(p)) \in Nat
    BY <2>1, FS_CardinalityType
  <2>3. Cardinality(Ahead(p)) < Slots
    BY <1>1 DEF Reached
  <2>. QED
    BY <1>4, <2>1, <2>2, <2>3
<1>6. ASSUME NEW p \in Activated, NEW q \in Activated, Before(p, q)
      PROVE  rank[p] < rank[q]
  <2>1. Ahead(p) \subseteq Ahead(q)
    BY <1>1, <1>6, BeforeOrder
  <2>2. p \in Ahead(q) /\ p \notin Ahead(p)
    BY <1>1, <1>6, BeforeOrder
  <2>. QED
    BY <1>5, <2>1, <2>2, ProperSubset
<1>7. rank \in Injection(Activated, 0 .. Slots - 1)
  <2>1. rank \in [Activated -> 0 .. Slots - 1]
    BY <1>5
  <2>2. \A p \in Activated : rank[p] \in 0 .. Slots - 1
    BY <1>5
  <2>. HIDE DEF rank
  <2>3. ASSUME NEW p \in Activated, NEW q \in Activated, p # q
        PROVE  rank[p] # rank[q]
    <3>1. rank[p] < rank[q] \/ rank[q] < rank[p]
      BY <1>1, <1>6, <2>3, BeforeOrder
    <3>2. rank[p] \in Int /\ rank[q] \in Int
      BY <1>4, <2>2
    <3>. QED
      BY <3>1, <3>2
  <2>. QED
    BY <2>1, <2>3 DEF Injection, IsInjective
<1>8. IsFiniteSet(0 .. Slots - 1) /\ Cardinality(0 .. Slots - 1) = Slots
  BY <1>4, FS_Interval
<1>. QED
  BY <1>2, <1>7, <1>8, FS_Injection

\* With epochs, only the end of a block makes a validator active.
LEMMA ActiveStep ==
  ASSUME TypeInv, EjectingInv, EpochLength > 0, [Next]_vars
  PROVE  IF FinishBlock THEN Active' \subseteq Active \cup {p.id : p \in Activated}
         ELSE Active' \subseteq Active
<1>. DEFINE Same(v) == v \in Registered' => v \in Registered /\ validators'[v] = validators[v]
<1>1. (\A v \in ValidatorIds : Same(v)) => Active' \subseteq Active
  BY DEF Active, Registered
<1>2. CASE FinishBlock
  <2>1. ASSUME NEW v \in Active'
        PROVE  v \in Active \/ v \in {p.id : p \in Activated}
    <3>1. v \in ValidatorIds /\ v \in Registered'
      BY <2>1 DEF Active, Registered
    <3>2. CASE \E p \in Activated : p.id = v
      BY <3>2
    <3>3. CASE ~ \E p \in Activated : p.id = v
      BY <1>2, <2>1, <3>1, <3>3 DEF FinishBlock, Active, Registered
    <3>. QED
      BY <3>2, <3>3
  <2>. QED
    BY <1>2, <2>1
<1>3. ASSUME NEW unavailable, BeginRound(unavailable)
      PROVE  Active' \subseteq Active
  <2>. SUFFICES ASSUME NEW v \in Active'
                PROVE  v \in Active
    OBVIOUS
  <2>1. v \in ValidatorIds /\ v \in Registered
    BY <1>3, RoundRegistered DEF Active, Registered
  <2>. DEFINE participating == Active \ unavailable
              s == AfterRound(v, participating, unavailable)
  <2>2. RoundStep(validators[v], s, v \in participating)
    BY <2>1, AfterRoundFields
  <2>3. validators'[v] = s
    BY <1>3, <2>1 DEF BeginRound
  <2>. HIDE DEF participating, s
  <2>4. s.active /\ ~s.slashed
    BY <2>3 DEF Active
  <2>5. validators[v].active /\ ~validators[v].slashed
    BY <2>2, <2>4 DEF RoundStep, ValidatorRecord
  <2>. QED
    BY <2>1, <2>5 DEF Active
<1>4. ASSUME NEW v, BeginCommit(v)
      PROVE  Active' \subseteq Active
  BY <1>4 DEF BeginCommit, Active, Registered
<1>5. ASSUME NEW v, EjectInactiveValidator(v)
      PROVE  Active' \subseteq Active
  BY <1>5 DEF EjectInactiveValidator, TypeInv, Active, Registered
<1>6. CASE SettlePendingUnstakes
  BY <1>6 DEF SettlePendingUnstakes, Active, Registered
<1>7. ASSUME NEW tx \in Txs, ApplyTransaction(tx)
      PROVE  Active' \subseteq Active
  <2>1. ASSUME NEW v \in ValidatorIds, v \in Registered'
        PROVE  v \in Registered /\ validators'[v] = validators[v]
    BY <1>7, <2>1 DEF ApplyTransaction, Transfer, Stake, Unstake, ValidatorRegister,
       ValidatorUnregister, ContractDeploy, ContractCall, ContractCallFails, Registered, TypeInv
  <2>. QED
    BY <1>1, <2>1
<1>8. ASSUME NEW w \in ValidatorIds, SlashEquivocation(w)
      PROVE  Active' \subseteq Active
  <2>. SUFFICES ASSUME NEW v \in Active', v # w
                PROVE  v \in Active
    <3>1. w \notin Active'
      <4>1. validators[w] \in ValidatorRecord
        BY <1>8, RegisteredType DEF SlashEquivocation
      <4>2. validators'[w] = [validators[w] EXCEPT !.slashed = TRUE, !.active = FALSE]
        BY <1>8, <4>1 DEF SlashEquivocation, TypeInv, ValidatorRecord
      <4>. QED
        BY <4>1, <4>2 DEF Active, ValidatorRecord
    <3>. QED
      BY <3>1
  <2>. QED
    BY <1>8 DEF SlashEquivocation, Active, Registered, TypeInv
<1>9. CASE UNCHANGED vars
  BY <1>9 DEF vars, Active, Registered
<1>. QED
  BY <1>2, <1>3, <1>4, <1>5, <1>6, <1>7, <1>8, <1>9 DEF Next

\* ActiveCap and the distinct places of the queue are inductive with the types.
LEMMA CapNext ==
  ASSUME TypeInv, EjectingInv, ArrivalInv, ActiveCap, EpochLength > 0, [Next]_vars
  PROVE  ArrivalInv' /\ ActiveCap'
<1>1. ArrivalInv'
  BY ArrivalNext DEF EpochQueue
<1>2. ActiveCap'
  <2>. SUFFICES ASSUME MaxActiveValidators > 0
                PROVE  Cardinality(Active') <= MaxActiveValidators
    BY DEF ActiveCap
  <2>1. IsFiniteSet(Active) /\ Cardinality(Active) \in Nat
        /\ Cardinality(Active) <= MaxActiveValidators
    <3>1. Active \subseteq ValidatorIds
      BY DEF Active, Registered
    <3>. QED
      BY <3>1, ValidatorAssumption, FS_Subset, FS_CardinalityType DEF ActiveCap
  <2>. USE ParameterAssumption
  <2>2. CASE ~FinishBlock
    <3>1. Active' \subseteq Active
      BY <2>2, ActiveStep
    <3>2. Cardinality(Active') <= Cardinality(Active) /\ Cardinality(Active') \in Nat
      BY <2>1, <3>1, FS_Subset, FS_CardinalityType
    <3>. QED
      BY <2>1, <3>2
  <2>3. CASE FinishBlock
    <3>. DEFINE ids == {p.id : p \in Activated}
                f == [p \in Activated |-> p.id]
    <3>1. Active' \subseteq Active \cup ids
      BY <2>3, ActiveStep
    <3>2. IsFiniteSet(Activated) /\ Cardinality(Activated) <= Slots
      BY ActivatedFitsSlots
    <3>3. f \in Surjection(Activated, ids)
      BY DEF Surjection
    <3>4. IsFiniteSet(ids) /\ Cardinality(ids) <= Cardinality(Activated)
      BY <3>2, <3>3, FS_Surjection
    <3>5. Slots = MaxActiveValidators - Cardinality(Active)
      BY <2>1 DEF Slots
    <3>6. /\ Cardinality(ids) \in Nat /\ Cardinality(Activated) \in Nat
          /\ Cardinality(Active \cap ids) \in Nat
      <4>1. IsFiniteSet(Active \cap ids)
        BY <2>1, FS_Subset
      <4>. QED
        BY <3>2, <3>4, <4>1, FS_CardinalityType
    <3>7. /\ IsFiniteSet(Active \cup ids)
          /\ Cardinality(Active \cup ids) =
               Cardinality(Active) + Cardinality(ids) - Cardinality(Active \cap ids)
      BY <2>1, <3>4, FS_Union
    <3>8. Cardinality(Active') <= Cardinality(Active \cup ids) /\ Cardinality(Active') \in Nat
      BY <3>1, <3>7, FS_Subset, FS_CardinalityType
    <3>. HIDE DEF ids, f
    <3>. QED
      BY <2>1, <3>2, <3>4, <3>5, <3>6, <3>7, <3>8
  <2>. QED
    BY <2>2, <2>3
<1>. QED
  BY <1>1, <1>2

\* With epochs the number of active validators never exceeds the configured
\* maximum, however many candidates wait and whoever is slashed or removed in
\* between.  Without epochs it does, since a registration is active at once.
THEOREM CapHolds ==
  ASSUME EpochLength > 0
  PROVE  Spec => []ActiveCap
<1>1. Init => ArrivalInv /\ ActiveCap
  <2>. SUFFICES ASSUME Init
                PROVE  ArrivalInv /\ ActiveCap
    OBVIOUS
  <2>1. ArrivalInv
    BY DEF Init, ArrivalInv
  <2>2. Active \subseteq {SeedId}
    BY DEF Init, Active, Registered
  <2>3. IsFiniteSet({SeedId}) /\ Cardinality({SeedId}) = 1
    BY FS_Singleton
  <2>4. Cardinality(Active) <= 1 /\ Cardinality(Active) \in Nat
    BY <2>2, <2>3, FS_Subset, FS_CardinalityType
  <2>. QED
    BY <2>1, <2>4, ParameterAssumption DEF ActiveCap
<1>2. (TypeInv /\ EjectingInv) /\ (ArrivalInv /\ ActiveCap) /\ [Next]_vars
        => (ArrivalInv /\ ActiveCap)'
  BY CapNext
<1>. QED
  BY <1>1, <1>2, TypeCorrect, PTL DEF Spec

-----------------------------------------------------------------------------
(* Who is activated at an epoch boundary *)

\* Who is ahead of a candidate that is passed over: as many qualifying entries
\* as there are slots were looked at before it, and every slot is taken.
LEMMA AheadFillsSlots ==
  ASSUME TypeInv, ArrivalInv, EpochBoundary, NEW q \in pendingValidators,
         q \in Eligible, q \notin Reached
  PROVE  /\ IsFiniteSet(Activated) /\ Slots \in Nat
         /\ Cardinality(Activated) >= Slots
<1>. DEFINE Ahead(p) == {e \in Eligible : Before(e, p)}
            E == Ahead(q)
            n == Cardinality(E)
            rank == [p \in E |-> Cardinality(Ahead(p))]
            T == {p \in E : rank[p] < Slots}
            f == [p \in T |-> rank[p]]
<1>1. Eligible \subseteq pendingValidators /\ IsFiniteSet(Eligible) /\ IsFiniteSet(E) /\ n \in Nat
  <2>1. Eligible \subseteq pendingValidators
    BY DEF Eligible
  <2>2. IsFiniteSet(Eligible) /\ IsFiniteSet(E)
    BY <2>1, FS_Subset DEF TypeInv
  <2>. QED
    BY <2>1, <2>2, FS_CardinalityType
<1>2. Slots \in Nat
  <2>1. Active \subseteq ValidatorIds
    BY DEF Active, Registered
  <2>2. Cardinality(Active) \in Nat /\ Cardinality(pendingValidators) \in Nat
    BY <2>1, ValidatorAssumption, FS_Subset, FS_CardinalityType DEF TypeInv
  <2>. QED
    BY <2>2, ParameterAssumption DEF Slots
<1>3. n >= Slots
  BY <1>1, <1>2 DEF Reached
<1>4. \A p \in E : /\ IsFiniteSet(Ahead(p)) /\ Ahead(p) \subseteq E /\ p \notin Ahead(p)
                   /\ rank[p] = Cardinality(Ahead(p)) /\ rank[p] \in 0 .. n - 1
  <2>. SUFFICES ASSUME NEW p \in E
                PROVE  /\ IsFiniteSet(Ahead(p)) /\ Ahead(p) \subseteq E /\ p \notin Ahead(p)
                       /\ rank[p] \in 0 .. n - 1
    OBVIOUS
  <2>1. Ahead(p) \subseteq E /\ p \notin Ahead(p)
    BY <1>1, BeforeOrder
  <2>2. IsFiniteSet(Ahead(p)) /\ Cardinality(Ahead(p)) \in Nat /\ Cardinality(Ahead(p)) < n
    BY <1>1, <2>1, ProperSubset
  <2>. QED
    BY <1>1, <2>1, <2>2
<1>5. ASSUME NEW p \in E, NEW e \in E, Before(p, e)
      PROVE  rank[p] < rank[e]
  <2>1. Ahead(p) \subseteq Ahead(e) /\ p \in Ahead(e)
    BY <1>1, <1>5, BeforeOrder
  <2>. QED
    BY <1>4, <2>1, ProperSubset
<1>6. rank \in Injection(E, 0 .. n - 1)
  <2>1. rank \in [E -> 0 .. n - 1]
    BY <1>4
  <2>2. \A p \in E : rank[p] \in 0 .. n - 1
    BY <1>4
  <2>3. \A p, e \in E : p # e => Before(p, e) \/ Before(e, p)
    BY <1>1, BeforeOrder
  <2>. HIDE DEF rank, E, n
  <2>4. ASSUME NEW p \in E, NEW e \in E, p # e
        PROVE  rank[p] # rank[e]
    <3>1. rank[p] < rank[e] \/ rank[e] < rank[p]
      BY <1>5, <2>3, <2>4
    <3>2. rank[p] \in Int /\ rank[e] \in Int
      BY <1>1, <2>2
    <3>. QED
      BY <3>1, <3>2
  <2>. QED
    BY <2>1, <2>4 DEF Injection, IsInjective
<1>7. rank \in Surjection(E, 0 .. n - 1)
  <2>1. IsFiniteSet(0 .. n - 1) /\ Cardinality(0 .. n - 1) = n
    BY <1>1, FS_Interval
  <2>. QED
    BY <1>6, <2>1, FS_Injection
<1>8. f \in Surjection(T, 0 .. Slots - 1)
  <2>1. \A k \in 0 .. n - 1 : \E p \in E : rank[p] = k
    BY <1>7 DEF Surjection
  <2>2. \A p \in E : rank[p] \in Nat
    <3>1. \A p \in E : rank[p] \in 0 .. n - 1
      BY <1>4
    <3>. HIDE DEF rank, E, n
    <3>. QED
      BY <1>1, <3>1
  <2>. HIDE DEF rank, E, n
  <2>3. \A p \in T : f[p] = rank[p] /\ rank[p] \in 0 .. Slots - 1
    BY <1>2, <2>2
  <2>4. \A k \in 0 .. Slots - 1 : \E p \in T : f[p] = k
    <3>. SUFFICES ASSUME NEW k \in 0 .. Slots - 1 PROVE \E p \in T : f[p] = k
      OBVIOUS
    <3>1. k \in 0 .. n - 1 /\ k < Slots
      BY <1>1, <1>2, <1>3
    <3>2. PICK p \in E : rank[p] = k
      BY <2>1, <3>1
    <3>. QED
      BY <3>1, <3>2
  <2>5. f \in [T -> 0 .. Slots - 1]
    BY <2>3
  <2>. HIDE DEF T, f
  <2>. QED
    BY <2>4, <2>5 DEF Surjection
<1>9. T \subseteq Activated
  <2>1. \A p \in T : p \in Eligible /\ Cardinality(Ahead(p)) < Slots
    BY <1>4
  <2>. QED
    BY <1>1, <2>1 DEF Activated, Reached
<1>10. IsFiniteSet(Activated) /\ IsFiniteSet(T)
  <2>1. Activated \subseteq Eligible
    BY DEF Activated
  <2>2. IsFiniteSet(Activated)
    BY <1>1, <2>1, FS_Subset
  <2>. QED
    BY <1>9, <2>2, FS_Subset
<1>11. Cardinality(0 .. Slots - 1) = Slots
  BY <1>2, FS_Interval
<1>. HIDE DEF T, f
<1>12. Cardinality(T) >= Slots
  <2>1. Cardinality(0 .. Slots - 1) <= Cardinality(T)
    BY <1>8, <1>10, FS_Surjection
  <2>2. Cardinality(T) \in Nat
    BY <1>10, FS_CardinalityType
  <2>. QED
    BY <1>2, <1>11, <2>1, <2>2
<1>13. Cardinality(T) <= Cardinality(Activated) /\ Cardinality(T) \in Nat
       /\ Cardinality(Activated) \in Nat
  BY <1>9, <1>10, FS_Subset, FS_CardinalityType
<1>. QED
  BY <1>2, <1>10, <1>12, <1>13

\* The end of a block keeps the active validators and adds what it activates.
LEMMA FinishActivates ==
  ASSUME TypeInv, PendingSound, FinishBlock
  PROVE  /\ Active \cup {p.id : p \in Activated} \subseteq Active'
         /\ Active \cap {p.id : p \in Activated} = {}
<1>1. Activated \subseteq pendingValidators
  BY DEF Activated, Eligible
<1>2. \A p \in Activated : p.id \in ValidatorIds /\ p.owner \in Users /\ p.id \notin Registered
  BY <1>1 DEF TypeInv, PendingRecord, PendingSound
<1>3. ASSUME NEW v \in Active
      PROVE  v \in Active' /\ \A p \in Activated : p.id # v
  <2>1. v \in Registered /\ v \in ValidatorIds
    BY DEF Active, Registered
  <2>2. \A p \in Activated : p.id # v
    BY <1>2, <2>1
  <2>3. validators'[v] = validators[v]
    BY <2>1, <2>2 DEF FinishBlock
  <2>. QED
    BY <2>1, <2>2, <2>3 DEF Active, Registered
<1>4. ASSUME NEW p \in Activated
      PROVE  p.id \in Active'
  <2>. DEFINE c == CHOOSE e \in Activated : e.id = p.id
  <2>1. c \in Activated
    OBVIOUS
  <2>2. validators'[p.id] = NewValidator(c.owner) /\ p.id \in ValidatorIds
    BY <1>2 DEF FinishBlock
  <2>. HIDE DEF c
  <2>3. NewValidator(c.owner) # NoValidator
    BY <1>2, <2>1, RecordTypes, RecordIsNotAbsent
  <2>. QED
    BY <2>2, <2>3 DEF Active, Registered, NewValidator
<1>. QED
  BY <1>3, <1>4

\* Every slot is taken when an eligible candidate is passed over.
LEMMA SetIsFull ==
  ASSUME TypeInv, ArrivalInv, PendingSound, FinishBlock, EpochBoundary,
         NEW q \in pendingValidators, q \in Eligible, q \notin Reached
  PROVE  MaxActiveValidators > 0 /\ Cardinality(Active') >= MaxActiveValidators
<1>1. IsFiniteSet(Activated) /\ Slots \in Nat /\ Cardinality(Activated) >= Slots
  BY AheadFillsSlots
<1>2. MaxActiveValidators > 0
  <2>. SUFFICES ASSUME MaxActiveValidators = 0 PROVE FALSE
    BY ParameterAssumption
  <2>. DEFINE A == {e \in Eligible : Before(e, q)}
  <2>1. A \subseteq pendingValidators /\ q \notin A
    BY BeforeOrder DEF Eligible
  <2>2. Cardinality(A) < Cardinality(pendingValidators) /\ Cardinality(A) \in Nat
        /\ Cardinality(pendingValidators) \in Nat
    BY <2>1, ProperSubset DEF TypeInv
  <2>3. Slots = Cardinality(pendingValidators)
    BY DEF Slots
  <2>4. q \in Reached
    BY <2>2, <2>3 DEF Reached
  <2>. QED
    BY <2>4
<1>. DEFINE ids == {p.id : p \in Activated}
            f == [p \in Activated |-> p.id]
<1>3. f \in Injection(Activated, ids) /\ f \in Surjection(Activated, ids)
  <2>1. Activated \subseteq pendingValidators
    BY DEF Activated, Eligible
  <2>. QED
    BY <2>1 DEF Injection, IsInjective, Surjection, PendingSound
<1>4. IsFiniteSet(ids) /\ Cardinality(ids) = Cardinality(Activated)
  <2>1. IsFiniteSet(ids)
    BY <1>1, <1>3, FS_Surjection
  <2>. QED
    BY <1>3, <2>1, FS_Injection
<1>5. /\ IsFiniteSet(Active) /\ Cardinality(Active) \in Nat
      /\ IsFiniteSet(Active') /\ Cardinality(Active') \in Nat
  <2>1. Active \subseteq ValidatorIds /\ Active' \subseteq ValidatorIds
    BY DEF Active, Registered
  <2>. QED
    BY <2>1, ValidatorAssumption, FS_Subset, FS_CardinalityType
<1>6. Active \cup ids \subseteq Active' /\ Active \cap ids = {}
  BY FinishActivates
<1>. HIDE DEF ids, f
<1>7. Cardinality(Active \cup ids) = Cardinality(Active) + Cardinality(ids)
  <2>1. Cardinality(Active \cup ids)
          = Cardinality(Active) + Cardinality(ids) - Cardinality(Active \cap ids)
    BY <1>4, <1>5, FS_Union
  <2>2. Cardinality(Active \cap ids) = 0 /\ Cardinality(ids) \in Nat
    BY <1>4, <1>6, FS_EmptySet, FS_CardinalityType
  <2>. QED
    BY <1>5, <2>1, <2>2
<1>8. Cardinality(Active \cup ids) <= Cardinality(Active')
  BY <1>5, <1>6, FS_Subset
<1>9. Cardinality(Active) + Slots >= MaxActiveValidators
  BY <1>2, <1>5, ParameterAssumption DEF Slots
<1>10. Cardinality(Activated) \in Nat
  BY <1>1, FS_CardinalityType
<1>. QED
  BY <1>1, <1>2, <1>4, <1>5, <1>7, <1>8, <1>9, <1>10, ParameterAssumption

\* Whoever is activated is ahead of an eligible candidate that is not looked at.
LEMMA ActivatedAhead ==
  ASSUME TypeInv, ArrivalInv,
         NEW q \in pendingValidators, q \in Eligible, q \notin Reached,
         NEW p \in pendingValidators, p \in Reached
  PROVE  Before(p, q)
<1>. DEFINE Ahead(e) == {x \in Eligible : Before(x, e)}
<1>1. Eligible \subseteq pendingValidators /\ IsFiniteSet(Ahead(p)) /\ IsFiniteSet(Ahead(q))
  <2>1. Eligible \subseteq pendingValidators
    BY DEF Eligible
  <2>. QED
    BY <2>1, FS_Subset DEF TypeInv
<1>2. /\ Cardinality(Ahead(p)) \in Nat /\ Cardinality(Ahead(q)) \in Nat
      /\ Cardinality(Ahead(p)) < Slots /\ ~ (Cardinality(Ahead(q)) < Slots)
  BY <1>1, FS_CardinalityType DEF Reached
<1>3. p # q
  OBVIOUS
<1>4. SUFFICES ASSUME Before(q, p) PROVE FALSE
  BY <1>3, BeforeOrder
<1>5. Ahead(q) \subseteq Ahead(p)
  BY <1>1, <1>4, BeforeOrder
<1>6. Cardinality(Ahead(q)) <= Cardinality(Ahead(p))
  BY <1>1, <1>5, FS_Subset
<1>7. Slots \in Nat
  <2>1. Active \subseteq ValidatorIds
    BY DEF Active, Registered
  <2>2. Cardinality(Active) \in Nat /\ Cardinality(pendingValidators) \in Nat
    BY <2>1, ValidatorAssumption, FS_Subset, FS_CardinalityType DEF TypeInv
  <2>. QED
    BY <2>2, ParameterAssumption DEF Slots
<1>. HIDE DEF Ahead
<1>. QED
  BY <1>2, <1>6, <1>7

\* Only the end of a block moves the head.
LEMMA HeightStep ==
  ASSUME [Next]_vars, height' # height
  PROVE  FinishBlock
<1>1. \A tx \in Txs : ApplyTransaction(tx) => height' = height
  BY TxEffect
<1>. QED
  BY <1>1 DEF Next, BeginRound, BeginCommit, EjectInactiveValidator, SettlePendingUnstakes,
              SlashEquivocation, vars

\* An epoch boundary activates the top of the queue: whoever qualifies and is
\* left behind finds the set full, and nobody activated has less stake or, with
\* the same stake, a later registration.
THEOREM ActivationIsFair == Spec => ActivationFair
<1>. DEFINE A == height' # height /\ height' % EpochLength = 0 =>
                   \A q \in pendingValidators \cap pendingValidators' :
                     staked[q.owner] >= MinValidatorStake =>
                       /\ MaxActiveValidators > 0
                       /\ Cardinality(Active') >= MaxActiveValidators
                       /\ \A p \in pendingValidators :
                            p.id \in Registered' =>
                              \/ staked[p.owner] > staked[q.owner]
                              \/ /\ staked[p.owner] = staked[q.owner]
                                 /\ p.registeredAtHeight <= q.registeredAtHeight
<1>1. Init => ArrivalInv /\ EpochQueue
  BY DEF Init, ArrivalInv, EpochQueue
<1>2. TypeInv /\ EjectingInv /\ (ArrivalInv /\ EpochQueue) /\ [Next]_vars
        => (ArrivalInv /\ EpochQueue)'
  BY ArrivalNext
<1>3. TypeInv /\ EjectingInv /\ ArrivalInv /\ EpochQueue /\ PendingSound /\ [Next]_vars => A
  <2>. SUFFICES ASSUME TypeInv, ArrivalInv, EpochQueue, PendingSound, [Next]_vars,
                       height' # height, height' % EpochLength = 0,
                       NEW q \in pendingValidators \cap pendingValidators',
                       staked[q.owner] >= MinValidatorStake
                PROVE  /\ MaxActiveValidators > 0
                       /\ Cardinality(Active') >= MaxActiveValidators
                       /\ \A p \in pendingValidators :
                            p.id \in Registered' =>
                              \/ staked[p.owner] > staked[q.owner]
                              \/ /\ staked[p.owner] = staked[q.owner]
                                 /\ p.registeredAtHeight <= q.registeredAtHeight
    OBVIOUS
  <2>1. FinishBlock
    BY HeightStep
  <2>2. EpochBoundary
    BY <2>1 DEF EpochQueue, EpochBoundary, FinishBlock
  <2>3. q \in Eligible /\ q \notin Reached
    BY <2>1, <2>2 DEF FinishBlock, Activated, Dropped, Eligible
  <2>4. MaxActiveValidators > 0 /\ Cardinality(Active') >= MaxActiveValidators
    BY <2>1, <2>2, <2>3, SetIsFull
  <2>5. ASSUME NEW p \in pendingValidators, p.id \in Registered'
        PROVE  \/ staked[p.owner] > staked[q.owner]
               \/ /\ staked[p.owner] = staked[q.owner]
                  /\ p.registeredAtHeight <= q.registeredAtHeight
    <3>1. p \in Activated
      BY <2>1, <2>5, FinishEffect DEF PendingSound
    <3>2. p \in Reached
      BY <3>1 DEF Activated
    <3>3. Before(p, q)
      BY <2>3, <3>2, ActivatedAhead
    <3>4. p.registeredAtHeight \in Nat /\ q.registeredAtHeight \in Nat
      BY DEF TypeInv, PendingRecord
    <3>. QED
      BY <3>3, <3>4 DEF Before
  <2>. QED
    BY <2>4, <2>5
<1>. HIDE DEF A
<1>4. A => [A]_vars
  OBVIOUS
<1>. QED
  BY <1>1, <1>2, <1>3, <1>4, TypeCorrect, QueueSound, PTL DEF Spec, ActivationFair, A

-----------------------------------------------------------------------------
(* Money *)

\* The accounts are finitely many.
LEMMA AccountsFinite == IsFiniteSet(Addresses) /\ IsFiniteSet(Users) /\ IsFiniteSet(Contracts)
BY AccountAssumption, FS_Subset DEF Addresses

\* The sum of some balances is a number, and a change of one balance changes it
\* by as much.
LEMMA BalanceSum ==
  ASSUME NEW b \in [Addresses -> Int]
  PROVE  /\ SumFunction(b) \in Int
         /\ \A a \in Addresses, v \in Int :
              /\ [b EXCEPT ![a] = v] \in [Addresses -> Int]
              /\ SumFunction([b EXCEPT ![a] = v]) = SumFunction(b) + v - b[a]
<1>1. SumFunction(b) \in Int
  <2>1. SumFunction(b) = SumFunctionOnSet(b, Addresses)
    BY DEF SumFunction
  <2>. QED
    BY <2>1, AccountsFinite, SumIsInt
<1>2. ASSUME NEW a \in Addresses, NEW v \in Int
      PROVE  /\ [b EXCEPT ![a] = v] \in [Addresses -> Int]
             /\ SumFunction([b EXCEPT ![a] = v]) = SumFunction(b) + v - b[a]
  BY ZenonT(30), AccountsFinite, SumOfUpdated
<1>. QED
  BY <1>1, <1>2

\* The same for the stakes.
LEMMA StakeSum ==
  ASSUME NEW s \in [Users -> Int]
  PROVE  /\ SumFunction(s) \in Int
         /\ \A a \in Users, v \in Int :
              SumFunction([s EXCEPT ![a] = v]) = SumFunction(s) + v - s[a]
<1>1. SumFunction(s) \in Int
  <2>1. SumFunction(s) = SumFunctionOnSet(s, Users)
    BY DEF SumFunction
  <2>. QED
    BY <2>1, AccountsFinite, SumIsInt
<1>2. ASSUME NEW a \in Users, NEW v \in Int
      PROVE  SumFunction([s EXCEPT ![a] = v]) = SumFunction(s) + v - s[a]
  BY ZenonT(30), AccountsFinite, SumOfUpdated
<1>. QED
  BY <1>1, <1>2

\* A debit of one account and a credit of another, or of the same one.
LEMMA MoveSum ==
  ASSUME NEW b \in [Addresses -> Int], NEW from \in Addresses, NEW to \in Addresses,
         NEW x \in Int, NEW y \in Int
  PROVE  /\ Moved(b, from, x, to, y) \in [Addresses -> Int]
         /\ SumFunction(Moved(b, from, x, to, y)) = SumFunction(b) - x + y
<1>. DEFINE c == [b EXCEPT ![from] = b[from] - x]
            d == [c EXCEPT ![to] = c[to] + y]
<1>1. c \in [Addresses -> Int] /\ SumFunction(c) = SumFunction(b) + (b[from] - x) - b[from]
  <2>1. b[from] - x \in Int
    OBVIOUS
  <2>. QED
    BY <2>1, BalanceSum
<1>2. d = Moved(b, from, x, to, y)
  BY DEF Moved
<1>. HIDE DEF c
<1>3. d \in [Addresses -> Int] /\ SumFunction(d) = SumFunction(c) + (c[to] + y) - c[to]
  <2>1. c[to] + y \in Int
    BY <1>1
  <2>. QED
    BY <1>1, <2>1, BalanceSum
<1>. HIDE DEF d
<1>4. b[from] \in Int /\ c[to] \in Int /\ SumFunction(b) \in Int
  BY <1>1, BalanceSum
<1>. QED
  BY <1>1, <1>2, <1>3, <1>4

\* The amount of an unstake that waits for its end.
AmountOf == [e \in UnstakeRecord |-> e.amount]

\* What is in its cooldown, added up.
LEMMA LockedSum ==
  ASSUME NEW u \in SUBSET UnstakeRecord, IsFiniteSet(u)
  PROVE  /\ SumFunction([e \in u |-> e.amount]) = SumFunctionOnSet(AmountOf, u)
         /\ SumFunctionOnSet(AmountOf, u) \in Int
         /\ \A e \in u : AmountOf[e] \in Nat /\ AmountOf[e] = e.amount
<1>. DEFINE f == [e \in u |-> e.amount]
<1>1. \A e \in u : AmountOf[e] \in Nat /\ AmountOf[e] = e.amount /\ f[e] = AmountOf[e]
  BY DEF AmountOf, UnstakeRecord
<1>2. SumFunction(f) = SumFunctionOnSet(f, u)
  BY DEF SumFunction
<1>. HIDE DEF f
<1>3. SumFunctionOnSet(f, u) = SumFunctionOnSet(AmountOf, u)
  BY <1>1, SumsAgree
<1>4. SumFunctionOnSet(AmountOf, u) \in Int
  BY <1>1, SumIsInt
<1>. QED
  BY <1>1, <1>2, <1>3, <1>4 DEF f

\* The types the sums need, and why an unstake adds a new entry: those there
\* are carry nonces their owner has used.
MoneyInv ==
  /\ balance \in [Addresses -> Int]
  /\ issued \in Int
  /\ IsFiniteSet(pendingUnstakes)
  /\ \A e \in pendingUnstakes : e.nonce <= nonce[e.owner]

\* The three parts of the supply are numbers.
LEMMA SupplyParts ==
  ASSUME TypeInv, MoneyInv
  PROVE  /\ SumFunction(balance) \in Int
         /\ SumFunction(staked) \in Int
         /\ SumFunction([e \in pendingUnstakes |-> e.amount]) \in Int
<1>1. SumFunction(balance) \in Int
  BY BalanceSum DEF MoneyInv
<1>2. SumFunction(staked) \in Int
  <2>1. staked \in [Users -> Int]
    BY DEF TypeInv
  <2>. QED
    BY <2>1, StakeSum
<1>3. SumFunction([e \in pendingUnstakes |-> e.amount]) \in Int
  <2>1. pendingUnstakes \in SUBSET UnstakeRecord /\ IsFiniteSet(pendingUnstakes)
    BY DEF TypeInv, MoneyInv
  <2>. QED
    BY <2>1, LockedSum
<1>. QED
  BY <1>1, <1>2, <1>3

\* The amounts a transaction names are numbers, and it moves no less than none.
LEMMA TxAmounts ==
  ASSUME NEW tx \in Txs, NEW type, Admissible(tx, type)
  PROVE  /\ tx.from \in Users /\ tx.from \in Addresses /\ tx.to \in Addresses
         /\ tx.contract \in Addresses /\ tx.amount \in Nat /\ tx.pay \in Nat
         /\ Fee(tx) \in Nat /\ TotalDebit(tx) = tx.amount + Fee(tx) /\ TotalDebit(tx) \in Nat
<1>1. tx \in TxRecord
  BY TxAssumption
<1>2. tx.fee >= 0 /\ tx.amount >= 0
  BY <1>1 DEF Admissible, AmountOK, TxRecord
<1>3. Fee(tx) \in Nat
  BY <1>2, TxType
<1>4. tx.amount \in Nat /\ tx.pay \in Nat
  BY <1>1, <1>2 DEF TxRecord
<1>5. TotalDebit(tx) = tx.amount + Fee(tx) /\ TotalDebit(tx) \in Nat
  BY <1>3, <1>4 DEF TotalDebit
<1>. QED
  BY <1>1, <1>3, <1>4, <1>5 DEF TxRecord, Addresses

\* What a call's debit and the native transfer do to the balances.
LEMMA CallSums ==
  ASSUME MoneyInv, NEW tx \in Txs, Admissible(tx, "contract_call")
  PROVE  /\ CallDebited(tx) \in [Addresses -> Int]
         /\ SumFunction(CallDebited(tx)) = SumFunction(balance) - TotalDebit(tx) + tx.amount
         /\ NativeTransfer(CallDebited(tx), tx) \in [Addresses -> Int]
         /\ SumFunction(NativeTransfer(CallDebited(tx), tx)) = SumFunction(CallDebited(tx))
<1>1. /\ tx.from \in Addresses /\ tx.to \in Addresses /\ tx.contract \in Addresses
      /\ tx.amount \in Int /\ tx.pay \in Int /\ TotalDebit(tx) \in Int
  BY TxAmounts
<1>2. /\ CallDebited(tx) \in [Addresses -> Int]
      /\ SumFunction(CallDebited(tx)) = SumFunction(balance) - TotalDebit(tx) + tx.amount
  <2>1. balance \in [Addresses -> Int]
    BY DEF MoneyInv
  <2>. DEFINE debit == TotalDebit(tx)
  <2>2. CallDebited(tx) = Moved(balance, tx.from, debit, tx.contract, tx.amount)
    BY DEF CallDebited
  <2>3. debit \in Int
    BY <1>1
  <2>. HIDE DEF debit
  <2>4. /\ Moved(balance, tx.from, debit, tx.contract, tx.amount) \in [Addresses -> Int]
        /\ SumFunction(Moved(balance, tx.from, debit, tx.contract, tx.amount))
             = SumFunction(balance) - debit + tx.amount
    BY <1>1, <2>1, <2>3, MoveSum
  <2>. QED
    BY <2>2, <2>4 DEF debit
<1>. DEFINE d == CallDebited(tx)
<1>3. /\ NativeTransfer(d, tx) \in [Addresses -> Int]
      /\ SumFunction(NativeTransfer(d, tx)) = SumFunction(d)
  <2>. HIDE DEF d
  <2>0. d \in [Addresses -> Int] /\ SumFunction(d) \in Int
    BY <1>2, BalanceSum DEF d
  <2>1. /\ Moved(d, tx.contract, tx.pay, tx.to, tx.pay) \in [Addresses -> Int]
        /\ SumFunction(Moved(d, tx.contract, tx.pay, tx.to, tx.pay)) = SumFunction(d) - tx.pay + tx.pay
    BY <1>1, <2>0, MoveSum
  <2>. QED
    BY <1>1, <2>0, <2>1 DEF NativeTransfer
<1>. QED
  BY <1>2, <1>3

\* A transaction that takes effect burns its fee and no more: whatever it moves
\* between balances, stakes and cooldowns stays in the supply.
LEMMA MoneyTx ==
  ASSUME TypeInv, MoneyInv, NEW tx \in Txs, ApplyTransaction(tx)
  PROVE  /\ MoneyInv'
         /\ TotalSupply' = TotalSupply - Fee(tx)
         /\ issued' = issued - Fee(tx)
<1>. DEFINE B == SumFunction(balance)
            S == SumFunction(staked)
            L == SumFunction([e \in pendingUnstakes |-> e.amount])
<1>1. B \in Int /\ S \in Int /\ L \in Int
  BY SupplyParts
<1>2. TotalSupply = B + S + L
  BY DEF TotalSupply
<1>3. tx.from \in Users /\ tx.fee >= 0 /\ Fee(tx) \in Nat
  BY TxEffect, TxType
<1>4. /\ nonce' = [nonce EXCEPT ![tx.from] = @ + 1] /\ issued' = issued - Fee(tx)
      /\ tx.nonce = nonce[tx.from] + 1
  BY TxEffect DEF TakeEffect
<1>5. \A e \in pendingUnstakes : e.nonce <= nonce'[e.owner]
  BY <1>3, <1>4 DEF TypeInv, MoneyInv, UnstakeRecord
<1>6. issued' \in Int
  BY <1>3, <1>4 DEF MoneyInv
<1>7. TotalSupply' = SumFunction(balance') + SumFunction(staked')
                       + SumFunction([e \in pendingUnstakes' |-> e.amount])
  BY DEF TotalSupply
<1>8. ASSUME UNCHANGED <<staked, pendingUnstakes>>, balance' \in [Addresses -> Int],
             SumFunction(balance') = B - Fee(tx)
      PROVE  MoneyInv' /\ TotalSupply' = TotalSupply - Fee(tx)
  <2>1. MoneyInv'
    BY <1>5, <1>6, <1>8 DEF MoneyInv
  <2>2. SumFunction(staked') = S /\ SumFunction([e \in pendingUnstakes' |-> e.amount]) = L
    BY <1>8
  <2>. HIDE DEF B, S, L
  <2>. QED
    BY <1>1, <1>2, <1>3, <1>7, <1>8, <2>1, <2>2
<1>. HIDE DEF B, S, L
<1>9. CASE Transfer(tx)
  <2>1. /\ tx.from \in Addresses /\ tx.to \in Addresses
        /\ tx.amount \in Int /\ TotalDebit(tx) = tx.amount + Fee(tx) /\ TotalDebit(tx) \in Int
    BY <1>9, TxAmounts DEF Transfer
  <2>2. balance' = Moved(balance, tx.from, TotalDebit(tx), tx.to, tx.amount)
        /\ UNCHANGED <<staked, pendingUnstakes>>
    BY <1>9 DEF Transfer
  <2>3. balance' \in [Addresses -> Int]
        /\ SumFunction(balance') = B - TotalDebit(tx) + tx.amount
    BY <2>1, <2>2, MoveSum DEF MoneyInv, B
  <2>. QED
    BY <1>1, <1>3, <1>4, <1>8, <2>1, <2>2, <2>3
<1>10. CASE Stake(tx)
  <2>1. /\ tx.from \in Addresses /\ tx.amount \in Nat
        /\ TotalDebit(tx) = tx.amount + Fee(tx) /\ TotalDebit(tx) \in Int
    BY <1>10, TxAmounts DEF Stake
  <2>. DEFINE v == balance[tx.from] - TotalDebit(tx)
              w == staked[tx.from] + tx.amount
  <2>2. /\ balance' = [balance EXCEPT ![tx.from] = v]
        /\ staked' = [staked EXCEPT ![tx.from] = w]
        /\ UNCHANGED pendingUnstakes
    BY <1>10 DEF Stake
  <2>3. balance[tx.from] \in Int /\ staked[tx.from] \in Int /\ staked \in [Users -> Int]
    BY <1>3, <2>1 DEF MoneyInv, TypeInv
  <2>4. v \in Int /\ w \in Int
    BY <2>1, <2>3
  <2>. HIDE DEF v, w
  <2>5. balance' \in [Addresses -> Int] /\ SumFunction(balance') = B + v - balance[tx.from]
    BY <2>1, <2>2, <2>4, BalanceSum DEF MoneyInv, B
  <2>6. SumFunction(staked') = S + w - staked[tx.from]
    BY <1>3, <2>2, <2>3, <2>4, StakeSum DEF S
  <2>7. MoneyInv'
    BY <1>5, <1>6, <2>2, <2>5 DEF MoneyInv
  <2>8. SumFunction([e \in pendingUnstakes' |-> e.amount]) = L
    BY <2>2 DEF L
  <2>9. v = balance[tx.from] - TotalDebit(tx) /\ w = staked[tx.from] + tx.amount
    BY DEF v, w
  <2>10. TotalSupply' = TotalSupply - Fee(tx)
    BY <1>1, <1>2, <1>3, <1>7, <2>1, <2>3, <2>4, <2>5, <2>6, <2>8, <2>9
  <2>. QED
    BY <1>4, <2>7, <2>10
<1>11. CASE Unstake(tx)
  <2>1. tx.from \in Addresses /\ tx.amount \in Nat
    BY <1>11, TxAmounts DEF Unstake
  <2>. DEFINE v == balance[tx.from] - Fee(tx)
              w == staked[tx.from] - tx.amount
              e == [owner |-> tx.from, nonce |-> tx.nonce, amount |-> tx.amount,
                    since |-> height + 1, unlockAt |-> height + UnstakeCooldownBlocks]
  <2>2. /\ balance' = [balance EXCEPT ![tx.from] = v]
        /\ staked' = [staked EXCEPT ![tx.from] = w]
        /\ pendingUnstakes' = pendingUnstakes \cup {e}
    BY <1>11 DEF Unstake
  <2>3. balance[tx.from] \in Int /\ staked[tx.from] \in Int /\ staked \in [Users -> Int]
    BY <1>3, <2>1 DEF MoneyInv, TypeInv
  <2>4. v \in Int /\ w \in Int
    BY <1>3, <2>1, <2>3
  <2>5. e \in UnstakeRecord /\ e.amount = tx.amount /\ e.nonce = nonce'[e.owner]
    BY <1>3, <1>4, <2>1, ParameterAssumption DEF UnstakeRecord, TypeInv
  <2>6. e \notin pendingUnstakes
    <3>1. e.owner = tx.from /\ e.nonce = nonce[tx.from] + 1 /\ nonce[tx.from] \in Nat
      BY <1>3, <1>4 DEF TypeInv
    <3>. HIDE DEF e
    <3>. QED
      BY <3>1 DEF MoneyInv
  <2>. HIDE DEF v, w, e
  <2>7. balance' \in [Addresses -> Int] /\ SumFunction(balance') = B + v - balance[tx.from]
    BY <2>1, <2>2, <2>4, BalanceSum DEF MoneyInv, B
  <2>8. SumFunction(staked') = S + w - staked[tx.from]
    BY <1>3, <2>2, <2>3, <2>4, StakeSum DEF S
  <2>9. /\ IsFiniteSet(pendingUnstakes') /\ pendingUnstakes' \in SUBSET UnstakeRecord
        /\ IsFiniteSet(pendingUnstakes) /\ pendingUnstakes \in SUBSET UnstakeRecord
    BY <2>2, <2>5, FS_AddElement DEF MoneyInv, TypeInv
  <2>10. MoneyInv'
    <3>1. nonce'[e.owner] \in Nat
      BY <1>3, <1>4, <2>5 DEF TypeInv, UnstakeRecord
    <3>2. \A x \in pendingUnstakes' : x.nonce <= nonce'[x.owner]
      BY <1>5, <2>2, <2>5, <3>1
    <3>. QED
      BY <1>6, <2>7, <2>9, <3>2 DEF MoneyInv
  <2>11. SumFunction([x \in pendingUnstakes' |-> x.amount]) = tx.amount + L
    <3>1. SumFunction([x \in pendingUnstakes' |-> x.amount]) = SumFunctionOnSet(AmountOf, pendingUnstakes')
      BY <2>9, LockedSum
    <3>2. L = SumFunctionOnSet(AmountOf, pendingUnstakes)
      BY <2>9, LockedSum DEF L
    <3>3. \A x \in pendingUnstakes \cup {e} : AmountOf[x] \in Int
      <4>1. pendingUnstakes \cup {e} \subseteq UnstakeRecord
        BY <2>2, <2>9
      <4>2. \A x \in UnstakeRecord : AmountOf[x] \in Int
        BY DEF AmountOf, UnstakeRecord
      <4>. QED
        BY <4>1, <4>2
    <3>4. SumFunctionOnSet(AmountOf, pendingUnstakes \cup {e})
            = AmountOf[e] + SumFunctionOnSet(AmountOf, pendingUnstakes)
      BY <2>6, <2>9, <3>3, SumWith
    <3>5. AmountOf[e] = tx.amount
      BY <2>5 DEF AmountOf
    <3>. QED
      BY <2>2, <3>1, <3>2, <3>4, <3>5
  <2>12. v = balance[tx.from] - Fee(tx) /\ w = staked[tx.from] - tx.amount
    BY DEF v, w
  <2>13. TotalSupply' = TotalSupply - Fee(tx)
    BY <1>1, <1>2, <1>3, <1>7, <2>1, <2>3, <2>4, <2>7, <2>8, <2>11, <2>12
  <2>. QED
    BY <1>4, <2>10, <2>13
<1>12. CASE ValidatorRegister(tx) \/ ValidatorUnregister(tx)
  <2>1. tx.from \in Addresses
    BY <1>3 DEF Addresses
  <2>. DEFINE v == balance[tx.from] - Fee(tx)
  <2>2. balance' = [balance EXCEPT ![tx.from] = v] /\ UNCHANGED <<staked, pendingUnstakes>>
    BY <1>12 DEF ValidatorRegister, ValidatorUnregister
  <2>3. balance[tx.from] \in Int
    BY <2>1 DEF MoneyInv
  <2>4. v \in Int
    BY <1>3, <2>3
  <2>5. v - balance[tx.from] = - Fee(tx)
    BY <1>3, <2>3
  <2>. HIDE DEF v
  <2>6. balance' \in [Addresses -> Int] /\ SumFunction(balance') = B + v - balance[tx.from]
    BY <2>1, <2>2, <2>4, BalanceSum DEF MoneyInv, B
  <2>7. SumFunction(balance') = B - Fee(tx)
    BY <1>1, <1>3, <2>3, <2>4, <2>5, <2>6
  <2>. QED
    BY <1>4, <1>8, <2>2, <2>6, <2>7
<1>13. CASE ContractDeploy(tx)
  <2>1. /\ tx.from \in Addresses /\ tx.contract \in Addresses
        /\ tx.amount \in Int /\ TotalDebit(tx) = tx.amount + Fee(tx) /\ TotalDebit(tx) \in Int
    BY <1>13, TxAmounts DEF ContractDeploy
  <2>2. balance' = Moved(balance, tx.from, TotalDebit(tx), tx.contract, tx.amount)
        /\ UNCHANGED <<staked, pendingUnstakes>>
    BY <1>13 DEF ContractDeploy
  <2>3. balance' \in [Addresses -> Int]
        /\ SumFunction(balance') = B - TotalDebit(tx) + tx.amount
    BY <2>1, <2>2, MoveSum DEF MoneyInv, B
  <2>. QED
    BY <1>1, <1>3, <1>4, <1>8, <2>1, <2>2, <2>3
<1>14. CASE ContractCall(tx) \/ ContractCallFails(tx)
  <2>1. Admissible(tx, "contract_call")
    BY <1>14 DEF ContractCall, ContractCallFails, Callable
  <2>2. /\ tx.amount \in Int /\ TotalDebit(tx) = tx.amount + Fee(tx) /\ TotalDebit(tx) \in Int
    BY <2>1, TxAmounts
  <2>3. /\ balance' = NativeTransfer(CallDebited(tx), tx) \/ balance' = CallDebited(tx)
        /\ UNCHANGED <<staked, pendingUnstakes>>
    BY <1>14 DEF ContractCall, ContractCallFails
  <2>4. balance' \in [Addresses -> Int]
        /\ SumFunction(balance') = B - TotalDebit(tx) + tx.amount
    BY <2>1, <2>3, CallSums DEF B
  <2>. QED
    BY <1>1, <1>3, <1>4, <1>8, <2>2, <2>3, <2>4
<1>. QED
  BY <1>9, <1>10, <1>11, <1>12, <1>13, <1>14 DEF ApplyTransaction

\* The shares of a distribution are natural numbers and add up to what is
\* distributed.
Splits(shares, active, amount) ==
  /\ shares \in [active -> Nat]
  /\ SumFunctionOnSet(shares, active) = amount

\* Everybody gets `each' and one validator `extra' on top.
LEMMA EachPlusExtra ==
  ASSUME NEW active, IsFiniteSet(active), NEW proposer \in active,
         NEW f, NEW g, NEW extra \in Int,
         \A v \in active : f[v] \in Int /\ g[v] = f[v] + IF v = proposer THEN extra ELSE 0
  PROVE  SumFunctionOnSet(g, active) = SumFunctionOnSet(f, active) + extra
<1>1. \A v \in active : g[v] \in Int
  OBVIOUS
<1>2. \A v \in active \ {proposer} : g[v] = f[v]
  OBVIOUS
<1>3. SumFunctionOnSet(g, active) = SumFunctionOnSet(f, active) + g[proposer] - f[proposer]
  BY <1>1, <1>2, SumChanged
<1>4. g[proposer] = f[proposer] + extra /\ f[proposer] \in Int
  OBVIOUS
<1>5. SumFunctionOnSet(f, active) \in Int
  BY SumIsInt
<1>. QED
  BY <1>3, <1>4, <1>5

\* A validator alone that gets everything.
LEMMA ProposerSplit ==
  ASSUME NEW active, IsFiniteSet(active), NEW proposer \in active, NEW amount \in Nat
  PROVE  Splits(ProposerShares(active, proposer, amount), active, amount)
<1>. DEFINE f == [v \in active |-> 0]
            g == ProposerShares(active, proposer, amount)
<1>1. /\ g \in [active -> Nat]
      /\ \A v \in active : f[v] = 0 /\ g[v] = f[v] + IF v = proposer THEN amount ELSE 0
  BY DEF ProposerShares
<1>. HIDE DEF f, g
<1>2. SumFunctionOnSet(g, active) = SumFunctionOnSet(f, active) + amount
  BY <1>1, EachPlusExtra
<1>3. SumFunctionOnSet(f, active) = 0 * Cardinality(active)
  BY <1>1, SumOfConstant
<1>4. 0 * Cardinality(active) = 0
  BY FS_CardinalityType
<1>. QED
  BY <1>1, <1>2, <1>3, <1>4 DEF Splits, g

\* The floor division of EqualShares.
LEMMA FloorTimes ==
  ASSUME NEW p \in Nat, NEW n \in Nat \ {0}
  PROVE  p \div n \in Nat /\ (p \div n) * n <= p
<1>1. p \div n \in Nat /\ p = n * (p \div n) + (p % n) /\ p % n \in 0 .. n - 1
  OBVIOUS
<1>. DEFINE q == p \div n
            r == p % n
<1>2. q \in Nat /\ p = n * q + r /\ r \in Nat
  BY <1>1
<1>3. n * q = q * n
  BY <1>2
<1>. QED
  BY <1>2, <1>3

\* Equal shares of a block's reward add up to no more than the reward.
LEMMA EqualSplit ==
  ASSUME NEW active, IsFiniteSet(active), NEW proposer \in active,
         NEW pool \in Nat, NEW reserved \in Nat
  PROVE  Splits(EqualShares(active, proposer, pool, reserved), active, pool + reserved)
<1>. DEFINE n == Cardinality(active)
            each == pool \div n
            extra == (pool - each * n) + reserved
            f == [v \in active |-> each]
            g == EqualShares(active, proposer, pool, reserved)
<1>1. n \in Nat \ {0}
  BY FS_CardinalityType, FS_EmptySet
<1>2. each \in Nat /\ each * n \in Nat /\ each * n <= pool
  <2>. HIDE DEF n
  <2>. QED
    BY <1>1, FloorTimes
<1>3. extra \in Nat
  <2>. DEFINE m == each * n
  <2>1. m \in Nat /\ m <= pool
    BY <1>2
  <2>. HIDE DEF m
  <2>2. pool - m + reserved \in Nat
    BY <2>1
  <2>. QED
    BY <2>2 DEF m
<1>4. \A v \in active : f[v] = each /\ g[v] = f[v] + IF v = proposer THEN extra ELSE 0
  BY DEF EqualShares
<1>5. g = [v \in active |-> g[v]]
  BY DEF EqualShares
<1>. HIDE DEF f, g
<1>6. g \in [active -> Nat]
  <2>. HIDE DEF each, extra
  <2>1. \A v \in active : g[v] \in Nat
    BY <1>2, <1>3, <1>4
  <2>. QED
    BY <1>5, <2>1
<1>7. SumFunctionOnSet(g, active) = SumFunctionOnSet(f, active) + extra
  <2>. HIDE DEF each, extra
  <2>. QED
    BY <1>2, <1>3, <1>4, EachPlusExtra
<1>8. SumFunctionOnSet(f, active) = each * n
  <2>. HIDE DEF each
  <2>. QED
    BY <1>2, <1>4, SumOfConstant
<1>. DEFINE m == each * n
<1>9. m \in Nat /\ extra = (pool - m) + reserved
  BY <1>2
<1>10. m + extra = pool + reserved
  <2>. HIDE DEF m, extra
  <2>. QED
    BY <1>3, <1>9
<1>. QED
  BY <1>6, <1>7, <1>8, <1>10 DEF Splits, g

\* The floors of a proportional split add up to no more than what is split.
LEMMA FloorsFit ==
  ASSUME NEW active, IsFiniteSet(active), NEW pool \in Nat, NEW w \in [active -> Nat],
         NEW total, total = SumFunctionOnSet(w, active), total > 0,
         NEW f, \A v \in active : f[v] = (pool * w[v]) \div total
  PROVE  /\ \A v \in active : f[v] \in Nat
         /\ SumFunctionOnSet(f, active) \in 0 .. pool
<1>1. total \in Nat \ {0}
  BY SumIsNat
<1>. DEFINE g == [v \in active |-> total * f[v]]
            h == [v \in active |-> pool * w[v]]
            s == SumFunctionOnSet(f, active)
<1>2. \A v \in active : f[v] \in Nat /\ total * f[v] <= pool * w[v]
  <2>. SUFFICES ASSUME NEW v \in active PROVE f[v] \in Nat /\ total * f[v] <= pool * w[v]
    OBVIOUS
  <2>1. pool * w[v] \in Nat
    OBVIOUS
  <2>. DEFINE p == pool * w[v]
  <2>2. f[v] = p \div total /\ p \in Nat
    BY <2>1
  <2>. HIDE DEF p
  <2>3. f[v] \in Nat /\ f[v] * total <= p
    BY <1>1, <2>2, FloorTimes
  <2>4. f[v] * total = total * f[v]
    BY <1>1, <2>3
  <2>. QED
    BY <2>3, <2>4 DEF p
<1>3. s \in Nat
  BY <1>2, SumIsNat
<1>4. SumFunctionOnSet(g, active) = total * s
  <2>1. \A v \in active : f[v] \in Int /\ g[v] = total * f[v]
    BY <1>2
  <2>. HIDE DEF g
  <2>. QED
    BY <1>1, <2>1, SumOfMultiples
<1>5. SumFunctionOnSet(h, active) = pool * total
  <2>1. \A v \in active : w[v] \in Int /\ h[v] = pool * w[v]
    OBVIOUS
  <2>. HIDE DEF h
  <2>. QED
    BY <2>1, SumOfMultiples
<1>6. SumFunctionOnSet(g, active) <= SumFunctionOnSet(h, active)
  <2>1. \A v \in active : g[v] \in Int /\ h[v] \in Int /\ g[v] <= h[v]
    BY <1>1, <1>2
  <2>. HIDE DEF g, h
  <2>. QED
    BY <2>1, SumMonotone
<1>7. total * s <= pool * total
  BY <1>4, <1>5, <1>6
<1>8. s <= pool
  <2>. HIDE DEF s
  <2>1. SUFFICES ASSUME s >= pool + 1 PROVE FALSE
    BY <1>3
  <2>2. total * s >= total * (pool + 1)
    BY <1>1, <1>3, <2>1
  <2>3. total * (pool + 1) = pool * total + total
    BY <1>1
  <2>4. total * s \in Int /\ pool * total \in Int /\ total * (pool + 1) \in Int
    BY <1>1, <1>3
  <2>. QED
    BY <1>1, <1>7, <2>2, <2>3, <2>4
<1>. QED
  BY <1>2, <1>3, <1>8

\* So do shares in proportion to the stakes.
LEMMA WeightedSplit ==
  ASSUME NEW active, IsFiniteSet(active), NEW proposer \in active,
         NEW pool \in Nat, NEW reserved \in Nat, NEW w \in [active -> Nat]
  PROVE  Splits(WeightedShares(active, proposer, pool, reserved, w), active, pool + reserved)
<1>. DEFINE total == SumFunction(w)
            f == [v \in active |-> (pool * w[v]) \div total]
            extra == (pool - SumFunction(f)) + reserved
            g == WeightedShares(active, proposer, pool, reserved, w)
<1>1. total = SumFunctionOnSet(w, active) /\ total \in Nat
  BY SumIsNat DEF SumFunction
<1>2. CASE total > 0
  <2>1. /\ g = [v \in active |-> f[v] + IF v = proposer THEN extra ELSE 0]
        /\ \A v \in active : f[v] = (pool * w[v]) \div total
        /\ SumFunction(f) = SumFunctionOnSet(f, active)
    BY <1>2 DEF WeightedShares, SumFunction
  <2>. HIDE DEF f, g, total
  <2>2. (\A v \in active : f[v] \in Nat) /\ SumFunctionOnSet(f, active) \in 0 .. pool
    BY <1>1, <1>2, <2>1, FloorsFit
  <2>3. extra \in Nat /\ SumFunctionOnSet(f, active) + extra = pool + reserved
    BY <2>1, <2>2
  <2>. HIDE DEF extra
  <2>4. SumFunctionOnSet(g, active) = SumFunctionOnSet(f, active) + extra
    BY <2>1, <2>2, <2>3, EachPlusExtra
  <2>5. g \in [active -> Nat]
    BY <2>1, <2>2, <2>3
  <2>. QED
    BY <2>3, <2>4, <2>5 DEF Splits, g
<1>3. CASE ~(total > 0)
  <2>1. g = ProposerShares(active, proposer, pool + reserved)
    BY <1>3 DEF WeightedShares
  <2>. QED
    BY <2>1, ProposerSplit
<1>. QED
  BY <1>2, <1>3

\* In every mode the validators' shares add up to the pool and the block reward.
LEMMA SharesSplit ==
  ASSUME NEW active, IsFiniteSet(active), NEW proposer \in active,
         NEW pool \in Nat, NEW reward \in Nat, NEW bonus \in 0 .. 100,
         NEW w \in [active -> Nat], NEW mode
  PROVE  Splits(Shares(mode, active, proposer, pool, reward, bonus, w), active, pool + reward)
<1>1. CASE mode = "proposer-only"
  BY <1>1, ProposerSplit DEF Shares
<1>2. CASE mode = "all-equal"
  BY <1>2, EqualSplit DEF Shares
<1>3. CASE mode = "weighted-by-stake"
  BY <1>3, WeightedSplit DEF Shares
<1>4. CASE mode \notin {"proposer-only", "all-equal", "weighted-by-stake"}
  <2>. DEFINE b == Percent(pool, bonus)
  <2>1. b \in 0 .. pool
    BY PercentBound
  <2>2. Shares(mode, active, proposer, pool, reward, bonus, w)
          = EqualShares(active, proposer, pool - b, b + reward)
    BY <1>4 DEF Shares
  <2>. HIDE DEF b
  <2>3. pool - b \in Nat /\ b + reward \in Nat /\ (pool - b) + (b + reward) = pool + reward
    BY <2>1
  <2>4. Splits(EqualShares(active, proposer, pool - b, b + reward), active,
               (pool - b) + (b + reward))
    BY <2>3, EqualSplit
  <2>. QED
    BY <2>2, <2>3, <2>4
<1>. QED
  BY <1>1, <1>2, <1>3, <1>4

\* What the settled entries give back is natural for every address, and all of
\* them together give back what was locked in them.
LEMMA ReleasedSum ==
  ASSUME NEW u \in SUBSET UnstakeRecord, IsFiniteSet(u)
  PROVE  /\ \A a \in Addresses : Released(u, a) \in Nat
         /\ SumFunctionOnSet([a \in Addresses |-> Released(u, a)], Addresses)
              = SumFunctionOnSet(AmountOf, u)
<1>. DEFINE key == [e \in UnstakeRecord |-> e.owner]
            h == [a \in Addresses |-> Released(u, a)]
            theirs(a) == {e \in u : e.owner = a}
<1>1. \A a \in Addresses : /\ theirs(a) = {e \in u : key[e] = a}
                           /\ theirs(a) \in SUBSET UnstakeRecord /\ IsFiniteSet(theirs(a))
  BY FS_Subset
<1>2. \A a \in Addresses : Released(u, a) = SumFunction([e \in theirs(a) |-> e.amount])
  BY DEF Released
<1>3. \A e \in u : key[e] \in Addresses /\ AmountOf[e] \in Nat
  BY LockedSum DEF UnstakeRecord, Addresses
<1>4. \A a \in Addresses : h[a] = Released(u, a)
  OBVIOUS
<1>. HIDE DEF key, h, theirs
<1>5. \A a \in Addresses : Released(u, a) = SumFunctionOnSet(AmountOf, theirs(a))
  BY <1>1, <1>2, LockedSum
<1>6. \A a \in Addresses : \A e \in theirs(a) : AmountOf[e] \in Nat
  BY <1>1, <1>3
<1>7. \A a \in Addresses : Released(u, a) \in Nat
  <2>. SUFFICES ASSUME NEW a \in Addresses PROVE Released(u, a) \in Nat
    OBVIOUS
  <2>1. SumFunctionOnSet(AmountOf, theirs(a)) \in Nat
    BY <1>1, <1>6, SumIsNat
  <2>. QED
    BY <1>5, <2>1
<1>8. SumFunctionOnSet(h, Addresses) = SumFunctionOnSet(AmountOf, u)
  <2>. DEFINE part == [a \in Addresses |-> theirs(a)]
  <2>1. \A a \in Addresses : /\ part[a] = theirs(a) /\ part[a] \in SUBSET u
                             /\ \A e \in u : e \in part[a] <=> key[e] = a
    BY <1>1
  <2>. HIDE DEF part
  <2>2. \A a \in Addresses : h[a] = SumFunctionOnSet(AmountOf, part[a])
    BY <1>4, <1>5, <2>1
  <2>3. \A e \in u : AmountOf[e] \in Int /\ key[e] \in Addresses
    BY <1>3
  <2>4. IsFiniteSet(Addresses) /\ IsFiniteSet(u)
    BY AccountsFinite
  <2>. QED
    BY <2>1, <2>2, <2>3, <2>4, SumOfGroups
<1>. QED
  BY <1>7, <1>8 DEF h

\* Adding something to every balance adds the sum of it.
LEMMA CreditAll ==
  ASSUME NEW b \in [Addresses -> Int], NEW h \in [Addresses -> Int],
         NEW c, c = [a \in Addresses |-> b[a] + h[a]]
  PROVE  /\ c \in [Addresses -> Int]
         /\ SumFunction(c) = SumFunction(b) + SumFunctionOnSet(h, Addresses)
<1>1. c \in [Addresses -> Int] /\ \A a \in Addresses : c[a] = b[a] + h[a]
  OBVIOUS
<1>2. SumFunctionOnSet(c, Addresses)
        = SumFunctionOnSet(b, Addresses) + SumFunctionOnSet(h, Addresses)
  BY <1>1, AccountsFinite, SumOfSums
<1>. QED
  BY <1>1, <1>2 DEF SumFunction

\* Settling the cooldowns moves money and makes none.
LEMMA MoneySettle ==
  ASSUME TypeInv, MoneyInv, SettlePendingUnstakes
  PROVE  MoneyInv' /\ TotalSupply' = TotalSupply /\ issued' = issued
<1>. DEFINE u == pendingUnstakes
            R == {e \in pendingUnstakes : e.unlockAt <= height}
            h == [a \in Addresses |-> Released(R, a)]
<1>1. /\ balance' = [a \in Addresses |-> balance[a] + Released(R, a)]
      /\ pendingUnstakes' = u \ R
      /\ UNCHANGED <<staked, issued, nonce>>
  BY DEF SettlePendingUnstakes
<1>2. /\ u \in SUBSET UnstakeRecord /\ IsFiniteSet(u)
      /\ R \in SUBSET u /\ R \in SUBSET UnstakeRecord /\ IsFiniteSet(R)
      /\ u \ R \in SUBSET UnstakeRecord /\ IsFiniteSet(u \ R)
  BY FS_Subset DEF TypeInv, MoneyInv
<1>3. /\ SumFunction([e \in u |-> e.amount]) = SumFunctionOnSet(AmountOf, u)
      /\ SumFunction([e \in pendingUnstakes' |-> e.amount]) = SumFunctionOnSet(AmountOf, u \ R)
      /\ SumFunctionOnSet(AmountOf, u \ R) \in Int
      /\ SumFunctionOnSet(AmountOf, R) \in Int
      /\ \A e \in u : AmountOf[e] \in Int
  <2>. DEFINE k == u \ R
  <2>. HIDE DEF R, u, k
  <2>1. /\ SumFunction([e \in u |-> e.amount]) = SumFunctionOnSet(AmountOf, u)
        /\ \A e \in u : AmountOf[e] \in Int
    BY <1>2, LockedSum
  <2>2. /\ SumFunction([e \in k |-> e.amount]) = SumFunctionOnSet(AmountOf, k)
        /\ SumFunctionOnSet(AmountOf, k) \in Int
    BY <1>2, LockedSum DEF k
  <2>3. SumFunctionOnSet(AmountOf, R) \in Int
    BY <1>2, LockedSum
  <2>. QED
    BY <1>1, <2>1, <2>2, <2>3 DEF k
<1>4. SumFunctionOnSet(AmountOf, u)
        = SumFunctionOnSet(AmountOf, R) + SumFunctionOnSet(AmountOf, u \ R)
  <2>. HIDE DEF R, u
  <2>. QED
    BY <1>2, <1>3, SumOfParts
<1>5. balance' \in [Addresses -> Int]
      /\ SumFunction(balance') = SumFunction(balance) + SumFunctionOnSet(AmountOf, R)
  <2>1. /\ \A a \in Addresses : Released(R, a) \in Nat
        /\ SumFunctionOnSet(h, Addresses) = SumFunctionOnSet(AmountOf, R)
    <3>. HIDE DEF R
    <3>. QED
      BY <1>2, ReleasedSum
  <2>2. h \in [Addresses -> Int] /\ balance' = [a \in Addresses |-> balance[a] + h[a]]
    BY <1>1, <2>1
  <2>. HIDE DEF h, R
  <2>. QED
    BY <2>1, <2>2, CreditAll DEF MoneyInv
<1>6. MoneyInv'
  <2>1. \A e \in pendingUnstakes' : e \in pendingUnstakes
    BY <1>1
  <2>2. IsFiniteSet(pendingUnstakes')
    BY <1>1, <1>2
  <2>. QED
    BY <1>1, <1>5, <2>1, <2>2 DEF MoneyInv
<1>7. /\ SumFunction(balance) \in Int /\ SumFunction(staked) \in Int
      /\ SumFunction(staked') = SumFunction(staked)
  BY <1>1, SupplyParts
<1>. HIDE DEF R, h
<1>8. TotalSupply' = TotalSupply
  BY <1>3, <1>4, <1>5, <1>7 DEF TotalSupply, u
<1>. QED
  BY <1>1, <1>6, <1>8

\* A slash and an ejection burn what they take from the stake.
LEMMA MoneyBurn ==
  ASSUME TypeInv, MoneyInv, NEW v \in Registered, NEW p \in 0 .. 100,
         staked' = [staked EXCEPT ![validators[v].owner] =
                      @ - Percent(staked[validators[v].owner], p)],
         issued' = issued - Percent(staked[validators[v].owner], p),
         UNCHANGED <<balance, pendingUnstakes, nonce>>
  PROVE  /\ MoneyInv'
         /\ TotalSupply' = TotalSupply + (issued' - issued)
<1>. DEFINE o == validators[v].owner
            b == Percent(staked[validators[v].owner], p)
            w == staked[o] - b
<1>1. o \in Users
  BY BurnType
<1>2. staked[o] \in Nat /\ staked \in [Users -> Int]
  BY <1>1 DEF TypeInv
<1>3. b \in Nat
  <2>. DEFINE x == staked[validators[v].owner]
  <2>1. x \in Nat
    BY <1>2
  <2>. HIDE DEF x
  <2>2. Percent(x, p) \in 0 .. x
    BY <2>1, PercentBound
  <2>. QED
    BY <2>1, <2>2 DEF x
<1>4. w \in Int /\ w = staked[o] - b /\ staked' = [staked EXCEPT ![o] = w] /\ issued' = issued - b
  BY <1>2, <1>3
<1>. HIDE DEF o, b, w
<1>5. SumFunction(staked') = SumFunction(staked) + w - staked[o]
  <2>1. w \in Int /\ staked' = [staked EXCEPT ![o] = w]
    BY <1>4
  <2>2. staked \in [Users -> Int]
    BY <1>2
  <2>. QED
    BY <1>1, <2>1, <2>2, StakeSum
<1>6. MoneyInv'
  BY <1>3, <1>4 DEF MoneyInv
<1>7. /\ SumFunction(balance) \in Int /\ SumFunction(staked) \in Int
      /\ SumFunction([e \in pendingUnstakes |-> e.amount]) \in Int /\ issued \in Int
  BY SupplyParts DEF MoneyInv
<1>8. TotalSupply' = SumFunction(balance) + SumFunction(staked')
                       + SumFunction([e \in pendingUnstakes |-> e.amount])
  BY DEF TotalSupply
<1>9. TotalSupply = SumFunction(balance) + SumFunction(staked)
                       + SumFunction([e \in pendingUnstakes |-> e.amount])
  BY DEF TotalSupply
<1>10. TotalSupply' = TotalSupply + (issued' - issued)
  BY <1>2, <1>3, <1>4, <1>5, <1>7, <1>8, <1>9
<1>. QED
  BY <1>6, <1>10

\* What the owners receive from a distribution adds up to the pool and the reward.
LEMMA RewardedSum ==
  ASSUME TypeInv, Rewarding
  PROVE  /\ \A a \in Addresses : Rewarded(a) \in Nat
         /\ SumFunctionOnSet([a \in Addresses |-> Rewarded(a)], Addresses)
              = FeePool + BlockReward
         /\ FeePool \in Nat
<1>. DEFINE w == [v \in Active |-> staked[validators[v].owner]]
            key == [v \in Active |-> validators[v].owner]
            h == [a \in Addresses |-> Rewarded(a)]
            f == BlockShares
<1>1. IsFiniteSet(Active) /\ block.proposer \in Active
  <2>1. Active \subseteq ValidatorIds
    BY DEF Active, Registered
  <2>. QED
    BY <2>1, ValidatorAssumption, FS_Subset DEF Rewarding
<1>2. \A v \in Active : validators[v].owner \in Users
  BY RegisteredType DEF Active, ValidatorRecord
<1>3. w \in [Active -> Nat]
  BY <1>2 DEF TypeInv
<1>4. FeePool \in Nat
  <2>1. block.fees \in Nat
    BY DEF TypeInv, BlockRecord
  <2>2. FeeSharePercent \in 0 .. 100
    BY ParameterAssumption
  <2>3. Percent(block.fees, FeeSharePercent) \in 0 .. block.fees
    BY <2>1, <2>2, PercentBound
  <2>. QED
    BY <2>1, <2>3 DEF FeePool
<1>5. f \in [Active -> Nat] /\ SumFunctionOnSet(f, Active) = FeePool + BlockReward
  <2>. HIDE DEF w
  <2>1. f = Shares(RewardMode, Active, block.proposer, FeePool, BlockReward,
                   ProposerBonusPercent, w)
    BY DEF BlockShares, w
  <2>2. Splits(f, Active, FeePool + BlockReward)
    BY <1>1, <1>3, <1>4, <2>1, ParameterAssumption, SharesSplit
  <2>. QED
    BY <2>2 DEF Splits
<1>6. \A a \in Addresses : /\ h[a] = Rewarded(a)
                           /\ Rewarded(a) = SumFunctionOnSet(f, {v \in Active : key[v] = a})
  <2>. SUFFICES ASSUME NEW a \in Addresses
                PROVE  Rewarded(a) = SumFunctionOnSet(f, {v \in Active : key[v] = a})
    OBVIOUS
  <2>1. {v \in Active : key[v] = a} = {v \in Active : validators[v].owner = a}
    OBVIOUS
  <2>. QED
    BY <2>1 DEF Rewarded
<1>7. \A v \in Active : f[v] \in Int /\ key[v] \in Addresses
  <2>. HIDE DEF f
  <2>. QED
    BY <1>2, <1>5 DEF Addresses
<1>. HIDE DEF f, key, h, w
<1>8. SumFunctionOnSet(h, Addresses) = SumFunctionOnSet(f, Active)
  <2>. DEFINE part == [a \in Addresses |-> {v \in Active : key[v] = a}]
  <2>1. \A a \in Addresses : /\ part[a] \in SUBSET Active
                             /\ \A v \in Active : v \in part[a] <=> key[v] = a
                             /\ h[a] = SumFunctionOnSet(f, part[a])
    BY <1>6
  <2>2. IsFiniteSet(Addresses) /\ IsFiniteSet(Active)
    BY <1>1, AccountsFinite
  <2>. HIDE DEF part
  <2>. QED
    BY <1>7, <2>1, <2>2, SumOfGroups
<1>9. \A a \in Addresses : Rewarded(a) \in Nat
  <2>. SUFFICES ASSUME NEW a \in Addresses PROVE Rewarded(a) \in Nat
    OBVIOUS
  <2>. DEFINE theirs == {v \in Active : key[v] = a}
  <2>1. IsFiniteSet(theirs) /\ \A v \in theirs : f[v] \in Nat
    BY <1>1, <1>5, FS_Subset
  <2>. HIDE DEF theirs
  <2>2. SumFunctionOnSet(f, theirs) \in Nat
    BY <2>1, SumIsNat
  <2>. QED
    BY <1>6, <2>2 DEF theirs
<1>. QED
  BY <1>4, <1>5, <1>8, <1>9 DEF h

\* The end of a block pays what it records in `issued'.
LEMMA MoneyFinish ==
  ASSUME TypeInv, MoneyInv, FinishBlock
  PROVE  /\ MoneyInv'
         /\ TotalSupply' = TotalSupply + (issued' - issued)
<1>1. UNCHANGED <<staked, pendingUnstakes, nonce>>
  BY DEF FinishBlock
<1>. DEFINE S == SumFunction(staked)
            L == SumFunction([e \in pendingUnstakes |-> e.amount])
<1>2. /\ SumFunction(balance) \in Int /\ S \in Int /\ L \in Int /\ issued \in Int
      /\ TotalSupply = SumFunction(balance) + S + L
      /\ TotalSupply' = SumFunction(balance') + S + L
  BY <1>1, SupplyParts DEF TotalSupply, MoneyInv
<1>. HIDE DEF S, L
<1>3. CASE Rewarding
  <2>. DEFINE h == [a \in Addresses |-> Rewarded(a)]
  <2>1. balance' = [a \in Addresses |-> balance[a] + Rewarded(a)]
        /\ issued' = issued + FeePool + BlockReward
    BY <1>3 DEF FinishBlock
  <2>2. /\ h \in [Addresses -> Int]
        /\ balance' = [a \in Addresses |-> balance[a] + h[a]]
        /\ SumFunctionOnSet(h, Addresses) = FeePool + BlockReward
        /\ FeePool \in Int /\ BlockReward \in Int
    BY <1>3, <2>1, RewardedSum, ParameterAssumption
  <2>. HIDE DEF h
  <2>3. balance' \in [Addresses -> Int]
        /\ SumFunction(balance') = SumFunction(balance) + SumFunctionOnSet(h, Addresses)
    BY <2>2, CreditAll DEF MoneyInv
  <2>4. MoneyInv'
    BY <1>1, <1>2, <2>1, <2>2, <2>3 DEF MoneyInv
  <2>5. TotalSupply' = TotalSupply + (issued' - issued)
    BY <1>2, <2>1, <2>2, <2>3
  <2>. QED
    BY <2>4, <2>5
<1>4. CASE ~Rewarding
  <2>1. UNCHANGED <<balance, issued>>
    BY <1>4 DEF FinishBlock
  <2>. QED
    BY <1>1, <1>2, <2>1 DEF MoneyInv
<1>. QED
  BY <1>3, <1>4

\* Every step keeps the supply and what explains it in step.
LEMMA MoneyNext ==
  ASSUME TypeInv, EjectingInv, MoneyInv, [Next]_vars
  PROVE  MoneyInv' /\ TotalSupply' = TotalSupply + (issued' - issued)
<1>0. /\ TotalSupply \in Int /\ issued \in Int
  BY SupplyParts DEF TotalSupply, MoneyInv
<1>1. ASSUME UNCHANGED <<balance, staked, pendingUnstakes, nonce, issued>>
      PROVE  MoneyInv' /\ TotalSupply' = TotalSupply + (issued' - issued)
  BY <1>0, <1>1 DEF MoneyInv, TotalSupply
<1>2. ASSUME NEW unavailable \in SUBSET Active, BeginRound(unavailable)
      PROVE  MoneyInv' /\ TotalSupply' = TotalSupply + (issued' - issued)
  BY <1>1, <1>2 DEF BeginRound, accounts
<1>3. ASSUME NEW v \in ValidatorIds, BeginCommit(v)
      PROVE  MoneyInv' /\ TotalSupply' = TotalSupply + (issued' - issued)
  BY <1>1, <1>3 DEF BeginCommit, accounts
<1>4. ASSUME NEW v \in ValidatorIds, EjectInactiveValidator(v)
      PROVE  MoneyInv' /\ TotalSupply' = TotalSupply + (issued' - issued)
  <2>1. v \in Registered
    BY <1>4 DEF EjectInactiveValidator, EjectingInv
  <2>. QED
    BY <1>4, <2>1, MoneyBurn, ParameterAssumption DEF EjectInactiveValidator
<1>5. CASE SettlePendingUnstakes
  BY <1>0, <1>5, MoneySettle
<1>6. ASSUME NEW tx \in Txs, ApplyTransaction(tx)
      PROVE  MoneyInv' /\ TotalSupply' = TotalSupply + (issued' - issued)
  <2>1. /\ MoneyInv' /\ TotalSupply' = TotalSupply - Fee(tx) /\ issued' = issued - Fee(tx)
    BY <1>6, MoneyTx
  <2>2. Fee(tx) \in Int
    BY <1>6, TxEffect, TxType
  <2>. QED
    BY <1>0, <2>1, <2>2
<1>7. CASE FinishBlock
  BY <1>7, MoneyFinish
<1>8. ASSUME NEW v \in ValidatorIds, SlashEquivocation(v)
      PROVE  MoneyInv' /\ TotalSupply' = TotalSupply + (issued' - issued)
  BY <1>8, MoneyBurn, ParameterAssumption DEF SlashEquivocation
<1>9. CASE UNCHANGED vars
  BY <1>1, <1>9 DEF vars, accounts
<1>. QED
  BY <1>2, <1>3, <1>4, <1>5, <1>6, <1>7, <1>8, <1>9 DEF Next

\* The seed's bootstrap: it moved its stake and burned two base fees.
LEMMA MoneyInit ==
  ASSUME Init
  PROVE  MoneyInv /\ TotalSupply = SumFunction(InitialBalance) + issued
<1>. DEFINE g == [a \in Addresses |-> IF a \in Users THEN InitialBalance[a] ELSE 0]
            z == [a \in Users |-> 0]
            paid == SeedStake + 2 * BaseFee
            v == g[Seed] - paid
<1>1. /\ g \in [Addresses -> Int] /\ z \in [Users -> Int]
      /\ Seed \in Users /\ Seed \in Addresses
      /\ g[Seed] \in Int /\ paid \in Int /\ v \in Int /\ SeedStake \in Int /\ BaseFee \in Int
      /\ z[Seed] = 0
  BY AccountAssumption, ParameterAssumption DEF Addresses
<1>2. balance = [g EXCEPT ![Seed] = v]
  <2>1. InitialBalance[Seed] - SeedStake - 2 * BaseFee = v
    BY AccountAssumption, ParameterAssumption DEF Addresses
  <2>. QED
    BY <1>1, <2>1 DEF Init, Addresses
<1>3. staked = [z EXCEPT ![Seed] = SeedStake]
  BY DEF Init
<1>4. pendingUnstakes = {} /\ issued = - 2 * BaseFee
  BY DEF Init
<1>5. SumFunction(g) = SumFunction(InitialBalance)
  <2>1. \A a \in Users : g[a] = InitialBalance[a] /\ g[a] \in Int
    BY AccountAssumption DEF Addresses
  <2>2. \A a \in Addresses \ Users : g[a] = 0
    OBVIOUS
  <2>3. SumFunction(g) = SumFunctionOnSet(g, Addresses)
        /\ SumFunction(InitialBalance) = SumFunctionOnSet(InitialBalance, Users)
    BY AccountAssumption DEF SumFunction
  <2>. HIDE DEF g
  <2>4. SumFunctionOnSet(g, Users) = SumFunctionOnSet(InitialBalance, Users)
        /\ SumFunctionOnSet(g, Users) \in Int
    BY <2>1, AccountsFinite, SumsAgree, SumIsInt
  <2>5. SumFunctionOnSet(g, Addresses \ Users) = 0
    <3>1. IsFiniteSet(Addresses \ Users)
      BY AccountsFinite, FS_Subset
    <3>2. 0 * Cardinality(Addresses \ Users) = 0
      BY <3>1, FS_CardinalityType
    <3>. QED
      BY <2>2, <3>1, <3>2, SumOfConstant
  <2>6. SumFunctionOnSet(g, Addresses)
          = SumFunctionOnSet(g, Users) + SumFunctionOnSet(g, Addresses \ Users)
    <3>1. Users \in SUBSET Addresses /\ \A a \in Addresses : g[a] \in Int
      BY <1>1 DEF Addresses
    <3>. QED
      BY <3>1, AccountsFinite, SumOfParts
  <2>. QED
    BY <2>3, <2>4, <2>5, <2>6
<1>. HIDE DEF g
<1>6. SumFunction(z) = 0
  <2>1. SumFunction(z) = SumFunctionOnSet(z, Users) /\ \A a \in Users : z[a] = 0
    BY DEF SumFunction
  <2>2. 0 * Cardinality(Users) = 0
    BY AccountsFinite, FS_CardinalityType
  <2>. HIDE DEF z
  <2>. QED
    BY <2>1, <2>2, AccountsFinite, SumOfConstant
<1>. HIDE DEF z
<1>7. /\ v = g[Seed] - (SeedStake + 2 * BaseFee)
  OBVIOUS
<1>. HIDE DEF v, paid
<1>8. /\ balance \in [Addresses -> Int]
      /\ SumFunction(balance) = SumFunction(g) + v - g[Seed]
      /\ SumFunction(g) \in Int
  BY <1>1, <1>2, BalanceSum
<1>9. SumFunction(staked) = SumFunction(z) + SeedStake - z[Seed]
  BY <1>1, <1>3, StakeSum
<1>10. SumFunction([e \in pendingUnstakes |-> e.amount]) = 0
  <2>1. {} \in SUBSET UnstakeRecord /\ IsFiniteSet({})
    BY FS_EmptySet
  <2>. QED
    BY <1>4, <2>1, LockedSum, SumOfNone
<1>11. MoneyInv
  BY <1>1, <1>4, <1>8, FS_EmptySet DEF MoneyInv
<1>12. TotalSupply = SumFunction(InitialBalance) + issued
  BY <1>1, <1>4, <1>5, <1>6, <1>7, <1>8, <1>9, <1>10 DEF TotalSupply
<1>. QED
  BY <1>11, <1>12

\* The types the sums need hold throughout.
LEMMA MoneyAlways == Spec => [](TypeInv /\ EjectingInv /\ MoneyInv)
<1>1. Init => MoneyInv
  BY MoneyInit
<1>2. TypeInv /\ EjectingInv /\ MoneyInv /\ [Next]_vars => MoneyInv'
  BY MoneyNext
<1>. QED
  BY <1>1, <1>2, TypeCorrect, PTL DEF Spec

\* Type correctness, as the runs state it: the accounts, with balances of
\* either sign, the validator records, the queues and the open block.
THEOREM Typed == Spec => []TypeOK
<1>1. TypeInv /\ MoneyInv => TypeOK
  BY DEF TypeInv, MoneyInv, TypeOK
<1>. QED
  BY <1>1, MoneyAlways, PTL

\* Money is conserved: in every reachable state balances, stakes and cooldowns
\* add up to the genesis balances plus what fees, rewards and burns account for.
THEOREM MoneyConserved == Spec => []Conservation
<1>. DEFINE Explained == TotalSupply = SumFunction(InitialBalance) + issued
            G == SumFunction(InitialBalance)
<1>0. G \in Int
  <2>1. InitialBalance \in [Users -> Int]
    BY AccountAssumption
  <2>. QED
    BY <2>1, StakeSum
<1>1. Init => MoneyInv /\ Explained
  BY MoneyInit
<1>2. TypeInv /\ EjectingInv /\ MoneyInv /\ Explained /\ [Next]_vars => (MoneyInv /\ Explained)'
  <2>. SUFFICES ASSUME TypeInv, EjectingInv, MoneyInv, Explained, [Next]_vars
                PROVE  MoneyInv' /\ Explained'
    OBVIOUS
  <2>1. MoneyInv' /\ TotalSupply' = TotalSupply + (issued' - issued)
    BY MoneyNext
  <2>2. issued \in Int /\ issued' \in Int
    BY <2>1 DEF MoneyInv
  <2>4. Explained' <=> TotalSupply' = G + issued'
    OBVIOUS
  <2>5. TotalSupply = G + issued
    OBVIOUS
  <2>. HIDE DEF G
  <2>. QED
    BY <1>0, <2>1, <2>2, <2>4, <2>5
<1>3. Explained => Conservation
  BY DEF Conservation
<1>. HIDE DEF Explained
<1>. QED
  BY <1>1, <1>2, <1>3, TypeCorrect, PTL DEF Spec

\* No account ends below zero unless it is no lower than before.
NoOverdraft(b, c) == \A a \in Addresses : c[a] < 0 => c[a] >= b[a]

\* A debit that is covered, and the credit after it, overdraw nobody.
LEMMA MovedIsCovered ==
  ASSUME NEW b \in [Addresses -> Int], NEW from \in Addresses, NEW to \in Addresses,
         NEW x \in Nat, NEW y \in Nat, b[from] >= x
  PROVE  NoOverdraft(b, Moved(b, from, x, to, y))
<1>. DEFINE c == [b EXCEPT ![from] = b[from] - x]
            d == [c EXCEPT ![to] = c[to] + y]
<1>1. c \in [Addresses -> Int] /\ \A a \in Addresses : c[a] = IF a = from THEN b[from] - x ELSE b[a]
  OBVIOUS
<1>2. d = Moved(b, from, x, to, y)
  BY DEF Moved
<1>. HIDE DEF c
<1>3. \A a \in Addresses : d[a] = IF a = to THEN c[to] + y ELSE c[a]
  BY <1>1
<1>. HIDE DEF d
<1>4. ASSUME NEW a \in Addresses, d[a] < 0
      PROVE  d[a] >= b[a]
  <2>1. c[a] \in Int /\ c[to] \in Int /\ b[a] \in Int /\ b[from] \in Int
    BY <1>1
  <2>2. d[a] >= c[a]
    BY <1>3, <2>1
  <2>3. c[a] < 0
    BY <1>3, <1>4, <2>1
  <2>4. a # from /\ c[a] = b[a]
    BY <1>1, <2>1, <2>3
  <2>. QED
    BY <2>2, <2>4
<1>. QED
  BY <1>2, <1>4 DEF NoOverdraft

\* Only a registration takes what the sender does not have.
LEMMA TxCovered ==
  ASSUME TypeInv, MoneyInv, NEW tx \in Txs, ApplyTransaction(tx), ~ValidatorRegister(tx)
  PROVE  NoOverdraft(balance, balance')
<1>1. balance \in [Addresses -> Int]
  BY DEF MoneyInv
<1>2. tx.from \in Users /\ tx.from \in Addresses /\ Fee(tx) \in Nat
  BY TxEffect, TxType DEF Addresses
<1>3. ASSUME NEW type, Admissible(tx, type), balance[tx.from] >= TotalDebit(tx), NEW to \in Addresses
      PROVE  NoOverdraft(balance, Moved(balance, tx.from, TotalDebit(tx), to, tx.amount))
  <2>1. TotalDebit(tx) \in Nat /\ tx.amount \in Nat
    BY <1>3, TxAmounts
  <2>. QED
    BY <1>1, <1>2, <1>3, <2>1, MovedIsCovered
<1>4. ASSUME NEW x \in Nat, balance[tx.from] >= x, balance' = [balance EXCEPT ![tx.from] = @ - x]
      PROVE  NoOverdraft(balance, balance')
  <2>1. balance[tx.from] - x >= 0
    BY <1>1, <1>2, <1>4
  <2>2. \A a \in Addresses : balance'[a] = IF a = tx.from THEN balance[tx.from] - x ELSE balance[a]
    BY <1>1, <1>4
  <2>. QED
    BY <1>1, <2>1, <2>2 DEF NoOverdraft
<1>5. CASE Transfer(tx)
  BY <1>3, <1>5, TxAmounts DEF Transfer
<1>6. CASE Stake(tx)
  BY <1>4, <1>6, TxAmounts DEF Stake
<1>7. CASE Unstake(tx)
  BY <1>2, <1>4, <1>7 DEF Unstake
<1>8. CASE ValidatorUnregister(tx)
  BY <1>2, <1>4, <1>8 DEF ValidatorUnregister
<1>9. CASE ContractDeploy(tx)
  BY <1>3, <1>9, TxAmounts DEF ContractDeploy
<1>10. CASE ContractCall(tx) \/ ContractCallFails(tx)
  <2>. DEFINE d == CallDebited(tx)
  <2>1. Callable(tx) /\ Admissible(tx, "contract_call") /\ balance[tx.from] >= TotalDebit(tx)
    BY <1>10 DEF ContractCall, ContractCallFails, Callable
  <2>2. /\ tx.contract \in Addresses /\ tx.to \in Addresses /\ tx.pay \in Nat
    BY <2>1, TxAmounts
  <2>3. NoOverdraft(balance, d)
    BY <1>3, <2>1, <2>2 DEF CallDebited
  <2>4. d \in [Addresses -> Int] /\ NativeTransfer(d, tx) \in [Addresses -> Int]
    BY <2>1, CallSums
  <2>5. balance' = NativeTransfer(d, tx) \/ balance' = d
    BY <1>10 DEF ContractCall, ContractCallFails
  <2>. HIDE DEF d
  <2>6. NoOverdraft(d, NativeTransfer(d, tx))
    <3>1. CASE 0 < tx.pay /\ tx.pay <= d[tx.contract]
      <4>1. d[tx.contract] >= tx.pay
        BY <2>2, <2>4, <3>1
      <4>. QED
        BY <2>2, <2>4, <3>1, <4>1, MovedIsCovered DEF NativeTransfer
    <3>2. CASE ~(0 < tx.pay /\ tx.pay <= d[tx.contract])
      BY <2>4, <3>2 DEF NativeTransfer, NoOverdraft
    <3>. QED
      BY <3>1, <3>2
  <2>. DEFINE n == NativeTransfer(d, tx)
  <2>7. NoOverdraft(balance, n)
    <3>1. NoOverdraft(d, n) /\ n \in [Addresses -> Int]
      BY <2>4, <2>6
    <3>. HIDE DEF n
    <3>2. ASSUME NEW a \in Addresses, n[a] < 0
          PROVE  n[a] >= balance[a]
      <4>1. n[a] \in Int /\ d[a] \in Int /\ balance[a] \in Int
        BY <1>1, <2>4, <3>1
      <4>2. n[a] >= d[a]
        BY <3>1, <3>2 DEF NoOverdraft
      <4>3. d[a] < 0
        BY <3>2, <4>1, <4>2
      <4>4. d[a] >= balance[a]
        BY <2>3, <4>3 DEF NoOverdraft
      <4>. QED
        BY <4>1, <4>2, <4>4
    <3>. QED
      BY <3>2 DEF NoOverdraft
  <2>. QED
    BY <2>3, <2>5, <2>7
<1>. QED
  BY <1>5, <1>6, <1>7, <1>8, <1>9, <1>10 DEF ApplyTransaction

\* Crediting every balance overdraws nobody.
LEMMA CreditIsCovered ==
  ASSUME NEW b \in [Addresses -> Int], NEW h, \A a \in Addresses : h[a] \in Nat,
         NEW c, c = [a \in Addresses |-> b[a] + h[a]]
  PROVE  NoOverdraft(b, c)
<1>. SUFFICES ASSUME NEW a \in Addresses PROVE c[a] >= b[a]
  BY DEF NoOverdraft
<1>1. c[a] = b[a] + h[a] /\ h[a] \in Nat /\ b[a] \in Int
  OBVIOUS
<1>. QED
  BY <1>1

\* An account below zero got there, and further below, by registering a
\* validator and by nothing else, not by a call, a reward or a settlement.
THEOREM OverdrawnByRegistration == Spec => OnlyRegistrationOverdraws
<1>. DEFINE A == \A a \in Addresses :
                   balance'[a] < 0 /\ balance'[a] < balance[a]
                     => \E tx \in Txs : tx.from = a /\ ValidatorRegister(tx)
<1>1. TypeInv /\ EjectingInv /\ MoneyInv /\ MoneyInv' /\ [Next]_vars => A
  <2>. SUFFICES ASSUME TypeInv, EjectingInv, MoneyInv, MoneyInv', [Next]_vars PROVE A
    OBVIOUS
  <2>0. balance \in [Addresses -> Int] /\ balance' \in [Addresses -> Int]
    BY DEF MoneyInv
  <2>1. ASSUME NoOverdraft(balance, balance')
        PROVE  A
    BY <2>0, <2>1 DEF NoOverdraft
  <2>2. ASSUME UNCHANGED balance
        PROVE  A
    BY <2>0, <2>2
  <2>. HIDE DEF A
  <2>3. ASSUME NEW tx \in Txs, ApplyTransaction(tx), ~ValidatorRegister(tx)
        PROVE  A
    BY <2>1, <2>3, TxCovered
  <2>4. ASSUME NEW tx \in Txs, ValidatorRegister(tx)
        PROVE  A
    <3>1. balance' = [balance EXCEPT ![tx.from] = @ - Fee(tx)]
      BY <2>4 DEF ValidatorRegister
    <3>2. \A a \in Addresses : a # tx.from => balance'[a] = balance[a]
      BY <2>0, <3>1
    <3>. QED
      BY <2>0, <2>4, <3>2 DEF A
  <2>5. CASE SettlePendingUnstakes
    <3>. DEFINE R == {e \in pendingUnstakes : e.unlockAt <= height}
                h == [a \in Addresses |-> Released(R, a)]
    <3>1. R \in SUBSET UnstakeRecord /\ IsFiniteSet(R)
      BY FS_Subset DEF TypeInv, MoneyInv
    <3>2. balance' = [a \in Addresses |-> balance[a] + h[a]]
      BY <2>5 DEF SettlePendingUnstakes
    <3>3. \A a \in Addresses : h[a] = Released(R, a)
      OBVIOUS
    <3>. HIDE DEF R, h
    <3>4. \A a \in Addresses : h[a] \in Nat
      BY <3>1, <3>3, ReleasedSum
    <3>. QED
      BY <2>0, <2>1, <3>2, <3>4, CreditIsCovered
  <2>6. CASE FinishBlock
    <3>1. CASE Rewarding
      <4>. DEFINE h == [a \in Addresses |-> Rewarded(a)]
      <4>1. balance' = [a \in Addresses |-> balance[a] + h[a]]
        BY <2>6, <3>1 DEF FinishBlock
      <4>2. \A a \in Addresses : h[a] \in Nat
        BY <3>1, RewardedSum
      <4>. HIDE DEF h
      <4>. QED
        BY <2>0, <2>1, <4>1, <4>2, CreditIsCovered
    <3>2. CASE ~Rewarding
      BY <2>2, <2>6, <3>2 DEF FinishBlock
    <3>. QED
      BY <3>1, <3>2
  <2>7. CASE (\E u \in SUBSET Active : BeginRound(u)) \/ (\E v \in ValidatorIds : BeginCommit(v))
             \/ (\E v \in ValidatorIds : EjectInactiveValidator(v))
             \/ (\E v \in ValidatorIds : SlashEquivocation(v)) \/ UNCHANGED vars
    BY <2>2, <2>7 DEF BeginRound, BeginCommit, EjectInactiveValidator, SlashEquivocation,
                      accounts, vars
  <2>. QED
    BY <2>3, <2>4, <2>5, <2>6, <2>7 DEF Next
<1>2. Spec => [](TypeInv /\ EjectingInv /\ MoneyInv)
  BY MoneyAlways
<1>. HIDE DEF A
<1>3. A => [A]_vars
  OBVIOUS
<1>. QED
  BY <1>1, <1>2, PTL DEF Spec, OnlyRegistrationOverdraws, A

=============================================================================
