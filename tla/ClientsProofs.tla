--------------------------- MODULE ClientsProofs ---------------------------
(***************************************************************************)
(* Theorems about Clients for every set of addresses and clients: the      *)
(* faucet pays an address once and can pay what it promised, the extension *)
(* sends in turn, and its log keeps what was sent.  A block executes any   *)
(* number of transactions; what it does to an account, and to what waits in *)
(* the mempool, are the lemmas of the first sections.                      *)
(***************************************************************************)
EXTENDS Clients, FiniteTheorems

\* What the ledger has of an address.
Account == [balance : Int, staked : Int, nonce : Int]

\* What the model has of the chain.
ChainState == [accounts : [Addresses -> Account], registered : SUBSET Addresses]

\* What may wait in a mempool.
Offer ==
  {tx \in [type : Types, from : Addresses, to : Addresses, amount : Int, nonce : Int, fee : Nat,
           by : Clients \cup {"node"}] : tx.type = "transfer" => tx.amount \in Nat \ {0}}

\* What a transaction does to the state when it is executed.
Executed(before, after, tx) ==
  /\ tx.nonce = before.accounts[tx.from].nonce + 1
  /\ after.accounts[tx.from].nonce = tx.nonce
  /\ \A a \in Addresses \ {tx.from} :
       /\ after.accounts[a].nonce = before.accounts[a].nonce
       /\ after.accounts[a].staked = before.accounts[a].staked
       /\ after.accounts[a].balance =
            before.accounts[a].balance + IF tx.type = "transfer" /\ a = tx.to THEN tx.amount ELSE 0

\* One account of a state is replaced.
LEMMA WithAccountIs ==
  ASSUME NEW state \in ChainState, NEW a \in Addresses, NEW account \in Account,
         NEW k, k = WithAccount(state, a, account)
  PROVE  /\ k \in ChainState
         /\ k.accounts[a] = account
         /\ \A b \in Addresses \ {a} : k.accounts[b] = state.accounts[b]
         /\ k.registered = state.registered
BY DEF WithAccount, ChainState

\* The account of a sender after it paid.
LEMMA SpentIs ==
  ASSUME NEW sender \in Account, NEW tx \in Offer, NEW amount \in Int, NEW k, k = Spent(sender, tx, amount)
  PROVE  /\ k \in Account
         /\ k.balance = sender.balance - amount - BaseFee - tx.fee
         /\ k.staked = sender.staked
         /\ k.nonce = tx.nonce
<1>. DEFINE v == sender.balance - amount - BaseFee - tx.fee
<1>1. v \in Int /\ tx.nonce \in Int
  BY ClientsAssumption DEF Account, Offer
<1>2. k = [sender EXCEPT !.balance = v, !.nonce = tx.nonce]
  BY DEF Spent
<1>. HIDE DEF v
<1>3. k = [[sender EXCEPT !.balance = v] EXCEPT !.nonce = tx.nonce]
  BY <1>2
<1>. QED
  BY <1>1, <1>3 DEF Account, v

\* A transaction is executed or changes nothing, and a transfer that comes in
\* turn and can be paid is executed.
LEMMA ApplyStep ==
  ASSUME NEW before \in ChainState, NEW tx \in Offer, NEW after, after = Apply(before, tx)
  PROVE  /\ after \in ChainState
         /\ after = before \/ Executed(before, after, tx)
         /\ /\ tx.type = "transfer"
            /\ tx.nonce = before.accounts[tx.from].nonce + 1
            /\ before.accounts[tx.from].balance >= tx.amount + BaseFee + tx.fee
            => Executed(before, after, tx)
<1>. DEFINE sender == before.accounts[tx.from]
            first == Spent(sender, tx, tx.amount)
<1>1. /\ tx.from \in Addresses /\ tx.to \in Addresses /\ tx.amount \in Int /\ tx.nonce \in Int
      /\ tx.fee \in Nat /\ tx.type \in Types /\ BaseFee \in Int
      /\ tx.type = "transfer" => tx.amount \in Nat \ {0}
  BY ClientsAssumption DEF Offer
<1>2. before.accounts \in [Addresses -> Account] /\ sender \in Account
  BY <1>1 DEF ChainState
<1>3. /\ first \in Account
      /\ first.balance = sender.balance - tx.amount - BaseFee - tx.fee
      /\ first.staked = sender.staked /\ first.nonce = tx.nonce
  BY SMTT(40), <1>1, <1>2, SpentIs
<1>. DEFINE sent == WithAccount(before, tx.from, first)
            got == [sent.accounts[tx.to] EXCEPT !.balance = @ + tx.amount]
            moved == WithAccount(sent, tx.to, got)
            staked == [first EXCEPT !.staked = @ + tx.amount]
            bound == WithAccount(before, tx.from, staked)
            fee == WithAccount(before, tx.from, Spent(sender, tx, 0))
            registered == [fee EXCEPT !.registered = @ \cup {tx.from}]
<1>4. /\ after = before
      \/ /\ tx.nonce = sender.nonce + 1
         /\ \/ tx.type = "transfer" /\ after = moved
            \/ tx.type = "stake" /\ after = bound
            \/ tx.type = "validator_register" /\ after = registered
  BY DEF Apply
<1>5. tx.type = "transfer" /\ tx.nonce = sender.nonce + 1 /\ Affords(sender, tx) => after = moved
  BY DEF Apply
<1>. HIDE DEF first
<1>6. /\ sent \in ChainState /\ sent.accounts[tx.from] = first
      /\ \A b \in Addresses \ {tx.from} : sent.accounts[b] = before.accounts[b]
  BY <1>1, <1>3, WithAccountIs
<1>. HIDE DEF sent
<1>7. tx.type = "transfer" => moved \in ChainState /\ (tx.nonce = sender.nonce + 1 => Executed(before, moved, tx))
  <2>. SUFFICES ASSUME tx.type = "transfer"
                PROVE  moved \in ChainState /\ (tx.nonce = sender.nonce + 1 => Executed(before, moved, tx))
    OBVIOUS
  <2>1. sent.accounts[tx.to] \in Account
    BY <1>1, <1>6 DEF ChainState
  <2>2. /\ got \in Account /\ got.balance = sent.accounts[tx.to].balance + tx.amount
        /\ got.staked = sent.accounts[tx.to].staked /\ got.nonce = sent.accounts[tx.to].nonce
    BY <1>1, <2>1 DEF Account
  <2>. HIDE DEF got
  <2>3. /\ moved \in ChainState /\ moved.accounts[tx.to] = got
        /\ \A b \in Addresses \ {tx.to} : moved.accounts[b] = sent.accounts[b]
    BY <1>1, <1>6, <2>2, WithAccountIs
  <2>. HIDE DEF moved
  <2>4. moved.accounts[tx.from].nonce = tx.nonce
    BY <1>1, <1>3, <1>6, <2>2, <2>3
  <2>5. ASSUME NEW a \in Addresses \ {tx.from}
        PROVE  /\ moved.accounts[a].nonce = before.accounts[a].nonce
               /\ moved.accounts[a].staked = before.accounts[a].staked
               /\ moved.accounts[a].balance = before.accounts[a].balance + IF a = tx.to THEN tx.amount ELSE 0
    <3>1. before.accounts[a] \in Account
      BY <1>2
    <3>2. CASE a = tx.to
      BY <1>6, <2>2, <2>3, <3>2
    <3>3. CASE a # tx.to
      BY <1>6, <2>3, <3>1, <3>3 DEF Account
    <3>. QED
      BY <3>2, <3>3
  <2>. QED
    BY <2>3, <2>4, <2>5 DEF Executed
<1>8. tx.type = "stake" => bound \in ChainState /\ (tx.nonce = sender.nonce + 1 => Executed(before, bound, tx))
  <2>1. staked \in Account /\ staked.nonce = tx.nonce
    BY <1>1, <1>3 DEF Account
  <2>. HIDE DEF staked
  <2>2. /\ bound \in ChainState /\ bound.accounts[tx.from] = staked
        /\ \A b \in Addresses \ {tx.from} : bound.accounts[b] = before.accounts[b]
    BY <1>1, <2>1, WithAccountIs
  <2>. HIDE DEF bound
  <2>. QED
    BY <1>2, <2>1, <2>2 DEF Executed, Account
<1>9. tx.type = "validator_register" =>
        registered \in ChainState /\ (tx.nonce = sender.nonce + 1 => Executed(before, registered, tx))
  <2>. DEFINE rest == Spent(sender, tx, 0)
  <2>1. rest \in Account /\ rest.nonce = tx.nonce
    BY SMTT(40), <1>1, <1>2, SpentIs
  <2>. HIDE DEF rest
  <2>2. fee = WithAccount(before, tx.from, rest)
    BY DEF rest
  <2>. HIDE DEF fee
  <2>3. /\ fee \in ChainState /\ fee.accounts[tx.from] = rest
        /\ \A b \in Addresses \ {tx.from} : fee.accounts[b] = before.accounts[b]
    BY <1>1, <2>1, <2>2, WithAccountIs
  <2>4. registered \in ChainState /\ registered.accounts = fee.accounts
    BY <1>1, <2>3 DEF ChainState
  <2>. HIDE DEF registered
  <2>. QED
    BY <1>2, <2>1, <2>3, <2>4 DEF Executed, Account
<1>. HIDE DEF moved, bound, registered
<1>10. Affords(sender, tx) <=> sender.balance >= tx.amount + BaseFee + tx.fee
  BY DEF Affords
<1>. QED
  BY <1>4, <1>5, <1>7, <1>8, <1>9, <1>10

-----------------------------------------------------------------------------
(* Blocks. *)

\* The faucet takes such an address for a new one.
UntouchedIn(state, a) ==
  state.accounts[a].balance = 0 /\ state.accounts[a].staked = 0 /\ state.accounts[a].nonce = 0

\* Nobody owes anything before its first transaction.
Sound(state) ==
  \A a \in Addresses :
    /\ state.accounts[a].nonce >= 0
    /\ state.accounts[a].nonce = 0 => state.accounts[a].balance >= 0

\* What blocks do to an account: its nonce grows, its balance falls only if its
\* nonce grows, and it is never untouched again.
Later(before, after) ==
  \A a \in Addresses :
    /\ after.accounts[a].nonce >= before.accounts[a].nonce
    /\ after.accounts[a].nonce = before.accounts[a].nonce
         => after.accounts[a].balance >= before.accounts[a].balance
    /\ UntouchedIn(after, a) => UntouchedIn(before, a)

\* A transfer that is the next of its sender, who can pay it.
InTurn(state, tx) ==
  /\ tx.type = "transfer"
  /\ tx.nonce = state.accounts[tx.from].nonce + 1
  /\ state.accounts[tx.from].balance >= tx.amount + BaseFee + tx.fee

\* One transaction.
LEMMA ExecutedLater ==
  ASSUME NEW before \in ChainState, NEW tx \in Offer, NEW after \in ChainState, Sound(before),
         Executed(before, after, tx)
  PROVE  /\ Sound(after) /\ Later(before, after)
         /\ tx.type = "transfer" => ~UntouchedIn(after, tx.to)
<1>1. /\ tx.from \in Addresses /\ tx.to \in Addresses /\ tx.amount \in Int /\ tx.nonce \in Int
      /\ tx.type = "transfer" => tx.amount \in Nat \ {0}
  BY DEF Offer
<1>2. \A a \in Addresses : before.accounts[a] \in Account /\ after.accounts[a] \in Account
  BY DEF ChainState
<1>3. /\ before.accounts[tx.from].nonce \in Nat
      /\ after.accounts[tx.from].nonce = before.accounts[tx.from].nonce + 1
  BY <1>1, <1>2 DEF Sound, Executed, Account
<1>4. ASSUME NEW a \in Addresses, a # tx.from
      PROVE  /\ after.accounts[a].nonce = before.accounts[a].nonce
             /\ after.accounts[a].staked = before.accounts[a].staked
             /\ after.accounts[a].balance >= before.accounts[a].balance
             /\ before.accounts[a].nonce \in Nat /\ before.accounts[a].balance \in Int
             /\ after.accounts[a].balance \in Int
             /\ before.accounts[a].nonce = 0 => before.accounts[a].balance >= 0
             /\ tx.type = "transfer" /\ a = tx.to => after.accounts[a].balance > before.accounts[a].balance
  BY <1>1, <1>2, <1>4 DEF Sound, Executed, Account
<1>5. Sound(after)
  BY <1>3, <1>4 DEF Sound
<1>6. ASSUME NEW a \in Addresses
      PROVE  /\ after.accounts[a].nonce >= before.accounts[a].nonce
             /\ after.accounts[a].nonce = before.accounts[a].nonce
                  => after.accounts[a].balance >= before.accounts[a].balance
             /\ UntouchedIn(after, a) => UntouchedIn(before, a)
  <2>1. CASE a = tx.from
    BY <1>3, <2>1 DEF UntouchedIn
  <2>2. CASE a # tx.from
    BY <1>4, <2>2 DEF UntouchedIn
  <2>. QED
    BY <2>1, <2>2
<1>7. tx.type = "transfer" => ~UntouchedIn(after, tx.to)
  <2>1. CASE tx.to = tx.from
    BY <1>3, <2>1 DEF UntouchedIn
  <2>2. CASE tx.to # tx.from
    BY <1>1, <1>4, <2>2 DEF UntouchedIn
  <2>. QED
    BY <2>1, <2>2
<1>. QED
  BY <1>5, <1>6, <1>7 DEF Later

\* Blocks after blocks do no more than blocks.
LEMMA LaterAgain ==
  ASSUME NEW s \in ChainState, NEW t \in ChainState, NEW u \in ChainState, Later(s, t), Later(t, u)
  PROVE  Later(s, u)
<1>1. \A a \in Addresses : s.accounts[a] \in Account /\ t.accounts[a] \in Account /\ u.accounts[a] \in Account
  BY DEF ChainState
<1>. QED
  BY <1>1 DEF Later, Account

\* No block does no more than blocks.
LEMMA LaterSelf ==
  ASSUME NEW s \in ChainState
  PROVE  Later(s, s)
<1>1. \A a \in Addresses : s.accounts[a] \in Account
  BY DEF ChainState
<1>. QED
  BY <1>1 DEF Later, Account

\* One transaction does no more than blocks do.
LEMMA ApplyLater ==
  ASSUME NEW before \in ChainState, NEW tx \in Offer, Sound(before), NEW after, after = Apply(before, tx)
  PROVE  /\ after \in ChainState /\ Sound(after) /\ Later(before, after)
         /\ after = before \/ Executed(before, after, tx)
         /\ InTurn(before, tx) => Executed(before, after, tx)
<1>1. /\ after \in ChainState
      /\ after = before \/ Executed(before, after, tx)
      /\ InTurn(before, tx) => Executed(before, after, tx)
  BY ApplyStep DEF InTurn
<1>2. CASE after = before
  BY <1>1, <1>2, LaterSelf
<1>3. CASE Executed(before, after, tx)
  BY <1>1, <1>3, ExecutedLater
<1>. QED
  BY <1>1, <1>2, <1>3

\* The course of applyBlock.
Execution(g, state, txs) ==
  g = [i \in 0 .. Len(txs) |-> IF i = 0 THEN state ELSE Apply(g[i - 1], txs[i])]

\* The execution of a block, named.
Executions(state, txs) == CHOOSE g : Execution(g, state, txs)

\* Applied ends it.
LEMMA AppliedIsLast ==
  ASSUME NEW state, NEW txs
  PROVE  Applied(state, txs) = Executions(state, txs)[Len(txs)]
BY Zenon DEF Applied, Executions, Execution

\* It goes from the state before, one transaction at a time.
LEMMA ExecutionExists ==
  ASSUME NEW state \in ChainState, NEW txs \in Seq(Offer), NEW n, n = Len(txs),
         NEW g, g = Executions(state, txs)
  PROVE  g[0] = state /\ \A i \in 1 .. n : g[i] = Apply(g[i - 1], txs[i])
<1>. DEFINE step == [x \in (1 .. n) \X ChainState |-> Apply(x[2], txs[x[1]])]
<1>1. n \in Nat /\ DOMAIN txs = 1 .. n /\ \A i \in 1 .. n : txs[i] \in Offer
  OBVIOUS
<1>2. \A x \in (1 .. n) \X ChainState : Apply(x[2], txs[x[1]]) \in ChainState
  <2>1. ASSUME NEW x \in (1 .. n) \X ChainState
        PROVE  Apply(x[2], txs[x[1]]) \in ChainState
    <3>1. x[2] \in ChainState /\ txs[x[1]] \in Offer
      BY <1>1
    <3>. QED
      BY <3>1, ApplyStep
  <2>. QED
    BY <2>1
<1>3. step \in Steps(n, ChainState)
  BY <1>2 DEF Steps
<1>4. \A k \in 1 .. n : \A q \in ChainState : step[<<k, q>>] = Apply(q, txs[k])
  OBVIOUS
<1>. HIDE DEF step
<1>5. PICK h \in Courses(n, ChainState) : Course(h, n, state, step)
  BY <1>1, <1>3, CourseExists
<1>6. h \in [0 .. n -> ChainState] /\ h[0] = state /\ \A i \in 1 .. n : h[i] = step[<<i, h[i - 1]>>]
  BY <1>5 DEF Courses, Course
<1>7. Execution(h, state, txs)
  <2>1. ASSUME NEW i \in 0 .. n
        PROVE  h[i] = IF i = 0 THEN state ELSE Apply(h[i - 1], txs[i])
    <3>1. CASE i = 0
      BY <1>6, <3>1
    <3>2. CASE i # 0
      <4>1. i \in 1 .. n /\ i - 1 \in 0 .. n
        BY <1>1, <3>2
      <4>2. h[i - 1] \in ChainState
        BY <1>6, <4>1
      <4>. QED
        BY <1>4, <1>6, <3>2, <4>1, <4>2
    <3>. QED
      BY <3>1, <3>2
  <2>2. h = [i \in 0 .. n |-> h[i]]
    BY <1>6
  <2>. QED
    BY <2>1, <2>2 DEF Execution
<1>8. Execution(g, state, txs)
  BY <1>7 DEF Executions
<1>9. \A i \in 0 .. n : g[i] = IF i = 0 THEN state ELSE Apply(g[i - 1], txs[i])
  BY <1>8 DEF Execution
<1>10. 0 \in 0 .. n /\ \A i \in 1 .. n : i \in 0 .. n /\ i # 0
  BY <1>1
<1>. QED
  BY <1>9, <1>10

\* A block: what it does to every account, and to a payment p that has no rival
\* among its transactions.
LEMMA AppliedLater ==
  ASSUME NEW state \in ChainState, Sound(state), NEW txs \in Seq(Offer), NEW after, after = Applied(state, txs)
  PROVE  after \in ChainState /\ Sound(after) /\ Later(state, after)
<1>. DEFINE n == Len(txs)
            g == Executions(state, txs)
<1>1. n \in Nat /\ \A i \in 1 .. n : txs[i] \in Offer
  OBVIOUS
<1>2. g[0] = state /\ \A i \in 1 .. n : g[i] = Apply(g[i - 1], txs[i])
  BY ExecutionExists
<1>3. after = g[n]
  BY AppliedIsLast
<1>. HIDE DEF g, n
<1>. DEFINE P == {k \in 0 .. n : g[k] \in ChainState /\ Sound(g[k]) /\ Later(state, g[k])}
<1>4. 0 \in P
  BY <1>1, <1>2, LaterSelf
<1>5. ASSUME NEW k \in 0 .. n, k < n, k \in P
      PROVE  k + 1 \in P
  <2>. DEFINE s == g[k]
              t == g[k + 1]
  <2>1. k + 1 \in 0 .. n /\ k + 1 \in 1 .. n /\ (k + 1) - 1 = k
    BY <1>1, <1>5
  <2>2. s \in ChainState /\ Sound(s) /\ Later(state, s)
    BY <1>5
  <2>3. txs[k + 1] \in Offer /\ t = Apply(s, txs[k + 1])
    BY <1>1, <1>2, <2>1
  <2>. HIDE DEF s, t
  <2>4. t \in ChainState /\ Sound(t) /\ Later(s, t)
    BY <2>2, <2>3, ApplyLater
  <2>5. Later(state, t)
    BY <2>2, <2>4, LaterAgain
  <2>. QED
    BY <2>1, <2>4, <2>5 DEF t
<1>6. P = 0 .. n
  <2>1. P \in SUBSET (0 .. n)
    OBVIOUS
  <2>. HIDE DEF P
  <2>. QED
    BY <1>1, <1>4, <1>5, <2>1, UpTo
<1>7. n \in P
  BY <1>1, <1>6
<1>. QED
  BY <1>3, <1>7

\* A block that has a payment which comes in turn pays it, and only a block that
\* pays it takes its nonce, if no rival of it is in the block.
LEMMA AppliedPays ==
  ASSUME NEW state \in ChainState, Sound(state), NEW txs \in Seq(Offer), NEW after, after = Applied(state, txs),
         NEW p \in Offer, InTurn(state, p),
         \A i \in 1 .. Len(txs) : txs[i].from = p.from /\ txs[i].nonce = p.nonce => txs[i] = p
  PROVE  /\ after.accounts[p.from].nonce > state.accounts[p.from].nonce => ~UntouchedIn(after, p.to)
         /\ (\E i \in 1 .. Len(txs) : txs[i] = p)
              => after.accounts[p.from].nonce > state.accounts[p.from].nonce
<1>. DEFINE n == Len(txs)
            g == Executions(state, txs)
            Grown(s) == s.accounts[p.from].nonce > state.accounts[p.from].nonce
<1>1. n \in Nat /\ (\A i \in 1 .. n : txs[i] \in Offer) /\ p.from \in Addresses /\ p.to \in Addresses
  BY DEF Offer
<1>2. g[0] = state /\ \A i \in 1 .. n : g[i] = Apply(g[i - 1], txs[i])
  BY ExecutionExists
<1>3. after = g[n]
  BY AppliedIsLast
<1>a. \A i \in 1 .. n : txs[i].from = p.from /\ txs[i].nonce = p.nonce => txs[i] = p
  OBVIOUS
<1>. HIDE DEF g, n
<1>. DEFINE P == {k \in 0 .. n : /\ g[k] \in ChainState /\ Sound(g[k]) /\ Later(state, g[k])
                                 /\ Grown(g[k]) => ~UntouchedIn(g[k], p.to)
                                 /\ (\E i \in 1 .. k : txs[i] = p) => Grown(g[k])}
<1>4. 0 \in P
  <2>1. ~Grown(state)
    <3>1. state.accounts[p.from] \in Account
      BY <1>1 DEF ChainState
    <3>. QED
      BY <3>1 DEF Account
  <2>. QED
    BY <1>1, <1>2, <2>1, LaterSelf
<1>5. ASSUME NEW k \in 0 .. n, k < n, k \in P
      PROVE  k + 1 \in P
  <2>. DEFINE s == g[k]
              t == g[k + 1]
              tx == txs[k + 1]
  <2>1. k + 1 \in 0 .. n /\ k + 1 \in 1 .. n /\ (k + 1) - 1 = k
    BY <1>1, <1>5
  <2>2. /\ s \in ChainState /\ Sound(s) /\ Later(state, s)
        /\ Grown(s) => ~UntouchedIn(s, p.to)
        /\ (\E i \in 1 .. k : txs[i] = p) => Grown(s)
    BY <1>5
  <2>3. tx \in Offer /\ t = Apply(s, tx)
    BY <1>1, <1>2, <2>1
  <2>3a. tx.from = p.from /\ tx.nonce = p.nonce => tx = p
    BY <1>a, <2>1
  <2>4. (\E i \in 1 .. k + 1 : txs[i] = p) => (\E i \in 1 .. k : txs[i] = p) \/ tx = p
    BY <1>1
  <2>. HIDE DEF s, t, tx
  <2>5. /\ t \in ChainState /\ Sound(t) /\ Later(s, t)
        /\ t = s \/ Executed(s, t, tx)
        /\ InTurn(s, tx) => Executed(s, t, tx)
    BY <2>2, <2>3, ApplyLater
  <2>6. Later(state, t)
    BY <2>2, <2>5, LaterAgain
  <2>7. /\ state.accounts[p.from] \in Account /\ s.accounts[p.from] \in Account
        /\ t.accounts[p.from] \in Account
        /\ tx.from \in Addresses /\ tx.nonce \in Int /\ tx.type \in Types
        /\ tx.amount \in Int /\ tx.fee \in Int /\ BaseFee \in Int
    BY <1>1, <2>2, <2>3, <2>5, ClientsAssumption DEF ChainState, Offer
  <2>7a. /\ state.accounts[p.from].nonce \in Int /\ s.accounts[p.from].nonce \in Int
         /\ t.accounts[p.from].nonce \in Int /\ s.accounts[p.from].nonce >= state.accounts[p.from].nonce
         /\ s.accounts[p.from].balance \in Int /\ state.accounts[p.from].balance \in Int
         /\ s.accounts[p.from].nonce = state.accounts[p.from].nonce
              => s.accounts[p.from].balance >= state.accounts[p.from].balance
    <3>1. Later(state, s)
      BY <2>2
    <3>2. /\ s.accounts[p.from].nonce >= state.accounts[p.from].nonce
          /\ s.accounts[p.from].nonce = state.accounts[p.from].nonce
               => s.accounts[p.from].balance >= state.accounts[p.from].balance
      BY <1>1, <3>1 DEF Later
    <3>. QED
      BY <2>7, <3>2 DEF Account
  <2>8. Grown(s) => Grown(t) /\ ~UntouchedIn(t, p.to)
    <3>1. t.accounts[p.from].nonce >= s.accounts[p.from].nonce
      BY <1>1, <2>5 DEF Later
    <3>2. UntouchedIn(t, p.to) => UntouchedIn(s, p.to)
      BY <1>1, <2>5 DEF Later
    <3>3. Grown(s) => Grown(t)
      BY <2>7a, <3>1
    <3>. HIDE DEF Grown
    <3>. QED
      BY <2>2, <3>2, <3>3
  <2>9. ASSUME ~Grown(s)
        PROVE  InTurn(s, p)
    <3>1. s.accounts[p.from].nonce = state.accounts[p.from].nonce
      BY <2>7a, <2>9
    <3>2. s.accounts[p.from].balance >= state.accounts[p.from].balance
      BY <2>7a, <3>1
    <3>3. p.amount \in Int /\ p.fee \in Int /\ BaseFee \in Int
      BY ClientsAssumption DEF Offer
    <3>. QED
      BY <2>7a, <3>1, <3>2, <3>3 DEF InTurn
  <2>10. ASSUME ~Grown(s), Grown(t)
         PROVE  ~UntouchedIn(t, p.to)
    <3>1. InTurn(s, p)
      BY <2>9, <2>10
    <3>2. Executed(s, t, tx)
      BY <2>5, <2>10
    <3>3. tx.from = p.from
      BY <1>1, <2>10, <3>2 DEF Executed
    <3>4. tx = p
      BY <2>3a, <3>1, <3>2, <3>3 DEF Executed, InTurn
    <3>. QED
      BY <2>2, <2>5, <3>1, <3>2, <3>4, ExecutedLater DEF InTurn
  <2>11. ASSUME ~Grown(s), tx = p
         PROVE  Grown(t)
    <3>1. InTurn(s, p)
      BY <2>9, <2>11
    <3>2. Executed(s, t, p)
      BY <2>5, <2>11, <3>1
    <3>3. s.accounts[p.from].nonce = state.accounts[p.from].nonce
      BY <2>7a, <2>11
    <3>. QED
      BY <2>7, <3>2, <3>3 DEF Executed, Account
  <2>12. Grown(t) => ~UntouchedIn(t, p.to)
    BY <2>8, <2>10
  <2>13. (\E i \in 1 .. k + 1 : txs[i] = p) => Grown(t)
    BY <2>2, <2>4, <2>8, <2>11
  <2>. HIDE DEF Grown
  <2>. QED
    BY <2>1, <2>5, <2>6, <2>12, <2>13 DEF t
<1>6. P = 0 .. n
  <2>1. P \in SUBSET (0 .. n)
    OBVIOUS
  <2>. HIDE DEF P
  <2>. QED
    BY <1>1, <1>4, <1>5, <2>1, UpTo
<1>7. n \in P
  BY <1>1, <1>6
<1>. QED
  BY <1>3, <1>7 DEF n

-----------------------------------------------------------------------------
(* The mempool. *)

\* What a block leaves of a mempool.
Rest(pool, txs, own, m) == Pruned(IF own THEN Taken(pool, txs) ELSE pool, m)

\* What waits after a block waited before it, is not of a nonce already used, and
\* misses nothing else but the transactions of the block.
LEMMA RestOfPool ==
  ASSUME NEW pool \in Seq(Offer), NEW txs \in Seq(Offer), NEW m \in [Addresses -> Int], NEW own \in BOOLEAN,
         Distinct(pool), NEW rest, rest = Rest(pool, txs, own, m)
  PROVE  /\ rest \in Seq(Offer)
         /\ Distinct(rest)
         /\ \A tx \in ToSet(rest) : tx \in ToSet(pool) /\ tx.nonce > m[tx.from]
         /\ \A tx \in ToSet(pool) : tx.nonce > m[tx.from] => tx \in ToSet(rest) \/ tx \in ToSet(txs)
<1>. DEFINE left == IF own THEN Taken(pool, txs) ELSE pool
<1>1. /\ left \in Seq(Offer) /\ Distinct(left)
      /\ ToSet(left) \subseteq ToSet(pool) /\ ToSet(pool) \ ToSet(txs) \subseteq ToSet(left)
  <2>1. CASE own
    BY <2>1, WithoutPool DEF Taken
  <2>2. CASE ~own
    BY <2>2
  <2>. QED
    BY <2>1, <2>2
<1>2. rest = Pruned(left, m)
  BY DEF Rest
<1>. HIDE DEF left
<1>3. /\ rest \in Seq(Offer) /\ Distinct(rest)
      /\ \A tx : tx \in ToSet(rest) <=> tx \in ToSet(left) /\ tx.nonce > m[tx.from]
  BY <1>1, <1>2, PrunedPool
<1>. QED
  BY <1>1, <1>3

-----------------------------------------------------------------------------
(* A block and the payments that wait. *)

\* What the faucet's requests submit.
Payment(tx) == tx.by \in Clients /\ Task[tx.by].kind = "faucet"

\* A payment that waits: its sender can make it, and makes it next.
Payable(state, tx) ==
  /\ tx.from = Task[tx.by].from
  /\ tx.fee = 0
  /\ InTurn(state, tx)

\* Every payment of the faucet that waits can be executed when it is its turn.
Promises(state, pool) == \A tx \in ToSet(pool) : Payment(tx) => Payable(state, tx)

\* What Pruned is given of the chain.
NoncesOf(state) == [a \in Addresses |-> state.accounts[a].nonce]

\* It stays so, or its recipient has got it.
LEMMA PaymentsKept ==
  ASSUME NEW state \in ChainState, Sound(state), NEW pool \in Seq(Offer), Distinct(pool),
         NEW txs \in Seq(Offer), ToSet(txs) \subseteq ToSet(pool),
         NEW after, after = Applied(state, txs),
         NEW own \in BOOLEAN, NEW m, m = NoncesOf(after), NEW rest, rest = Rest(pool, txs, own, m),
         Promises(state, pool)
  PROVE  /\ Promises(after, rest)
         /\ \A tx \in ToSet(pool) : Payment(tx) => tx \in ToSet(rest) \/ ~UntouchedIn(after, tx.to)
         /\ rest \in Seq(Offer) /\ Distinct(rest)
<1>1. after \in ChainState /\ Sound(after) /\ Later(state, after)
  BY AppliedLater
<1>2. m \in [Addresses -> Int]
  BY <1>1 DEF ChainState, Account, NoncesOf
<1>3. /\ rest \in Seq(Offer) /\ Distinct(rest)
      /\ \A tx \in ToSet(rest) : tx \in ToSet(pool) /\ tx.nonce > m[tx.from]
      /\ \A tx \in ToSet(pool) : tx.nonce > m[tx.from] => tx \in ToSet(rest) \/ tx \in ToSet(txs)
  BY ZenonT(30), <1>2, RestOfPool
<1>4. \A tx \in ToSet(pool) : tx \in Offer
  BY DEF ToSet
<1>5. ASSUME NEW p \in ToSet(pool), Payment(p)
      PROVE  /\ p \in ToSet(rest) => Payable(after, p)
             /\ p \in ToSet(rest) \/ ~UntouchedIn(after, p.to)
  <2>1. p \in Offer /\ Payable(state, p) /\ p.from \in Addresses
    BY <1>4, <1>5 DEF Offer, Promises
  <2>2. InTurn(state, p)
    BY <2>1 DEF Payable
  <2>3. \A i \in 1 .. Len(txs) : txs[i].from = p.from /\ txs[i].nonce = p.nonce => txs[i] = p
    <3>1. \A i \in 1 .. Len(txs) : txs[i] \in ToSet(pool)
      <4>1. DOMAIN txs = 1 .. Len(txs)
        OBVIOUS
      <4>. QED
        BY <4>1 DEF ToSet
    <3>. QED
      BY <3>1, <1>5 DEF ToSet, Distinct
  <2>4. /\ after.accounts[p.from].nonce > state.accounts[p.from].nonce => ~UntouchedIn(after, p.to)
        /\ (\E i \in 1 .. Len(txs) : txs[i] = p)
             => after.accounts[p.from].nonce > state.accounts[p.from].nonce
    BY <2>1, <2>2, <2>3, AppliedPays
  <2>5. p \in ToSet(txs) => \E i \in 1 .. Len(txs) : txs[i] = p
    <3>1. DOMAIN txs = 1 .. Len(txs)
      OBVIOUS
    <3>. QED
      BY <3>1 DEF ToSet
  <2>6. /\ after.accounts[p.from].nonce >= state.accounts[p.from].nonce
        /\ after.accounts[p.from].nonce = state.accounts[p.from].nonce
             => after.accounts[p.from].balance >= state.accounts[p.from].balance
    BY <1>1, <2>1 DEF Later
  <2>7. /\ after.accounts[p.from].nonce \in Int /\ state.accounts[p.from].nonce \in Int
        /\ after.accounts[p.from].balance \in Int /\ state.accounts[p.from].balance \in Int
        /\ p.nonce \in Int /\ p.amount \in Int /\ p.fee \in Int /\ BaseFee \in Int
    <3>1. after.accounts[p.from] \in Account /\ state.accounts[p.from] \in Account
      BY <1>1, <2>1 DEF ChainState
    <3>2. p.nonce \in Int /\ p.amount \in Int /\ p.fee \in Int /\ BaseFee \in Int
      BY <2>1, ClientsAssumption DEF Offer
    <3>. QED
      BY <3>1, <3>2 DEF Account
  <2>8. p.nonce = state.accounts[p.from].nonce + 1 /\ state.accounts[p.from].balance >= p.amount + BaseFee + p.fee
    BY <2>2 DEF InTurn
  <2>9. m[p.from] = after.accounts[p.from].nonce
    BY <2>1 DEF NoncesOf
  <2>10. p \in ToSet(rest) => Payable(after, p)
    <3>. SUFFICES ASSUME p \in ToSet(rest) PROVE Payable(after, p)
      OBVIOUS
    <3>1. p.nonce > after.accounts[p.from].nonce
      BY <1>3, <2>9
    <3>2. after.accounts[p.from].nonce = state.accounts[p.from].nonce
      BY <2>6, <2>7, <2>8, <3>1
    <3>3. after.accounts[p.from].balance >= p.amount + BaseFee + p.fee
      BY <2>6, <2>7, <2>8, <3>2
    <3>. QED
      BY <2>1, <2>8, <3>2, <3>3 DEF Payable, InTurn
  <2>11. p \in ToSet(rest) \/ ~UntouchedIn(after, p.to)
    <3>. SUFFICES ASSUME p \notin ToSet(rest) PROVE ~UntouchedIn(after, p.to)
      OBVIOUS
    <3>1. p \in ToSet(txs) \/ ~(p.nonce > after.accounts[p.from].nonce)
      BY <1>3, <2>9
    <3>2. after.accounts[p.from].nonce > state.accounts[p.from].nonce
      BY <2>4, <2>5, <2>7, <2>8, <3>1
    <3>. QED
      BY <2>4, <3>2
  <2>. QED
    BY <2>10, <2>11
<1>. QED
  BY <1>3, <1>5 DEF Promises

-----------------------------------------------------------------------------
(* What the clients know. *)

\* Where a client can be.
Stages == {"absent", "ready", "untouched", "chain", "shown", "signed", "sent", "logging",
           "stake", "register", "done", "failed"}

\* A try of a client, which the log of the extension knows by its transaction.
Entry == Clients \X Int

\* What a client keeps.
ClientRecord ==
  [stage : Stages, nonce : Int, stake : Int, shown : Int, log : Seq(Entry), pending : SUBSET Int,
   steady : BOOLEAN, tries : Int]

\* Waiting, of any mempool.
WaitingIn(pool, a) == {pool[i].nonce : i \in Pending(pool, a)}

\* The nonce the node offers next, of any chain and mempool.
Latest(nonce, waiting) == Max({nonce} \cup {w + 1 : w \in waiting})

\* A faucet request: until a block comes its recipient is as it read it, and its
\* nonce, if it is still the funder's next, says that the funder can pay.
FaucetReads(state, c, record) ==
  LET funder == state.accounts[Task[c].from]
  IN  Task[c].kind = "faucet" =>
        /\ record.stage = "signed" =>
             /\ record.nonce <= funder.nonce + 1
             /\ record.nonce = funder.nonce + 1 => funder.balance >= Task[c].amount + BaseFee
        /\ record.stage \in {"untouched", "signed"} /\ record.steady => UntouchedIn(state, Task[c].to)

\* An extension: until a block comes its nonce is the one after what waited
\* when it looked, and that was no less than before and is no more than now.
ExtensionReads(state, pool, c, record) ==
  LET next == state.accounts[Task[c].from].nonce + 1
      waiting == WaitingIn(pool, Task[c].from)
  IN  Task[c].kind = "extension" /\ record.steady =>
        /\ record.stage = "chain" => record.nonce = next /\ record.pending \subseteq waiting
        /\ record.stage = "signed" =>
             \E seen \in SUBSET waiting : record.pending \subseteq seen /\ record.nonce = Latest(next, seen)

\* What a client of either kind has read is true of the state and the mempool.
Reads(state, pool, c, record) == FaucetReads(state, c, record) /\ ExtensionReads(state, pool, c, record)

-----------------------------------------------------------------------------
(* The inductive invariant. *)

\* The types.
Typed ==
  /\ chain \in ChainState
  /\ mempool \in Seq(Offer)
  /\ batch \in [txs : Seq(Offer), open : BOOLEAN]
  /\ client \in [Clients -> ClientRecord]
  /\ activity \in Seq(Entry)
  /\ paid \in Seq([to : Addresses, steady : BOOLEAN])

\* While the votes are awaited nothing leaves the mempool.
InBatch == batch.open => ToSet(batch.txs) \subseteq ToSet(mempool)

\* Every payment that waits can be made, and is the funder's next.
Promised == Promises(chain, mempool)

\* What the clients have read is true of the chain and the mempool, as far as
\* Reads says.
Reading == \A c \in Clients : Reads(chain, mempool, c, client[c])

\* An address has got something, or a payment to it waits.
PaidFor(state, pool, to) == ~UntouchedIn(state, to) \/ \E tx \in ToSet(pool) : Payment(tx) /\ tx.to = to

\* That holds of everyone on the list of payments.
Accounted == \A i \in DOMAIN paid : PaidFor(chain, mempool, paid[i].to)

\* The inductive invariant.
IInv ==
  /\ Typed
  /\ Sound(chain)
  /\ Distinct(mempool)
  /\ InBatch
  /\ Promised
  /\ Reading
  /\ Accounted
  /\ FundedOnce

\* A finite nonempty set of integers has a greatest member.
LEMMA Greatest ==
  ASSUME NEW S \in SUBSET Int, IsFiniteSet(S), S # {}
  PROVE  Max(S) \in S /\ \A y \in S : Max(S) >= y
<1>. DEFINE Above(x) == {y \in S : y > x}
            C == {T \in SUBSET S : \E x \in S : T = Above(x)}
<1>1. PICK T \in C : \A U \in SUBSET T : U # T => U \notin C
  <2>1. C \in SUBSET SUBSET S /\ C # {}
    OBVIOUS
  <2>. HIDE DEF C
  <2>. QED
    BY <2>1, Minimal
<1>2. PICK x \in S : T = Above(x)
  BY <1>1
<1>3. ASSUME NEW y \in S, y > x
      PROVE  FALSE
  <2>1. Above(y) \in C
    OBVIOUS
  <2>2. y \in Above(x) /\ y \notin Above(y)
    BY <1>3
  <2>3. \A z \in Above(y) : z \in Above(x)
    BY <1>3
  <2>. HIDE DEF Above, C
  <2>4. Above(y) \in SUBSET T /\ Above(y) # T
    BY <1>2, <2>2, <2>3
  <2>. QED
    BY <1>1, <2>1, <2>4
<1>4. \A y \in S : x >= y
  BY <1>3
<1>. QED
  BY <1>4 DEF Max

\* The nonces that wait are as many as the transactions, if these are distinct.
LEMMA WaitingIs ==
  ASSUME NEW pool \in Seq(Offer), NEW a, NEW W, W = WaitingIn(pool, a), NEW P, P = Pending(pool, a)
  PROVE  /\ W \in SUBSET Int
         /\ IsFiniteSet(W) /\ IsFiniteSet(P)
         /\ Distinct(pool) => Cardinality(W) = Cardinality(P)
<1>. DEFINE f == [i \in P |-> pool[i].nonce]
<1>1. \A i \in DOMAIN pool : pool[i] \in Offer
  OBVIOUS
<1>2. P \in SUBSET (DOMAIN pool) /\ \A i \in P : pool[i].from = a
  BY DEF Pending
<1>3. W \in SUBSET Int /\ \A i \in P : pool[i].nonce \in W
  BY <1>1, <1>2 DEF WaitingIn, Offer
<1>4. IsFiniteSet(P)
  <2>1. DOMAIN pool = 1 .. Len(pool) /\ 1 \in Int /\ Len(pool) \in Int
    OBVIOUS
  <2>2. IsFiniteSet(1 .. Len(pool))
    BY <2>1, FS_Interval
  <2>. QED
    BY <1>2, <2>1, <2>2, FS_Subset
<1>5. f \in [P -> W] /\ \A w \in W : \E i \in P : f[i] = w
  BY <1>3 DEF WaitingIn
<1>6. f \in Surjection(P, W)
  BY <1>5 DEF Surjection
<1>7. Distinct(pool) => \A i, j \in P : f[i] = f[j] => i = j
  BY <1>2 DEF Distinct
<1>. HIDE DEF f
<1>8. IsFiniteSet(W)
  BY <1>4, <1>6, FS_Surjection
<1>9. Distinct(pool) => Cardinality(W) = Cardinality(P)
  <2>. SUFFICES ASSUME Distinct(pool) PROVE Cardinality(W) = Cardinality(P)
    OBVIOUS
  <2>1. f \in Bijection(P, W)
    BY <1>5, <1>6, <1>7 DEF Bijection, Injection, Surjection, IsInjective
  <2>. QED
    BY <1>4, <2>1, FS_Bijection DEF ExistsBijection
<1>. QED
  BY <1>3, <1>4, <1>8, <1>9

\* The nonce after all that wait.
LEMMA LatestIs ==
  ASSUME NEW nonce \in Int, NEW W \in SUBSET Int, IsFiniteSet(W), NEW n, n = Latest(nonce, W)
  PROVE  /\ n \in {nonce} \cup {w + 1 : w \in W}
         /\ n \in Int /\ n >= nonce
         /\ \A w \in W : n >= w + 1
<1>. DEFINE f == [w \in W |-> w + 1]
            V == {w + 1 : w \in W}
            S == {nonce} \cup V
<1>1. f \in Surjection(W, V)
  BY DEF Surjection
<1>2. IsFiniteSet(V)
  BY <1>1, FS_Surjection
<1>3. IsFiniteSet(S)
  <2>. HIDE DEF V
  <2>1. IsFiniteSet(V \cup {nonce})
    BY <1>2, FS_AddElement
  <2>2. V \cup {nonce} = S
    OBVIOUS
  <2>. QED
    BY <2>1, <2>2
<1>4. S \in SUBSET Int /\ nonce \in S /\ \A w \in W : w + 1 \in S
  OBVIOUS
<1>5. n = Max(S)
  BY DEF Latest
<1>. HIDE DEF S
<1>6. Max(S) \in S /\ \A y \in S : Max(S) >= y
  BY <1>3, <1>4, Greatest
<1>. QED
  BY <1>4, <1>5, <1>6 DEF S

-----------------------------------------------------------------------------
(* The three kinds of steps: a client moves, a transaction enters the mempool, *)
(* a block comes.                                                              *)

\* A client that read a nonce and the mempool.
Read(record, stage, nonce, pending, tries) ==
  [record EXCEPT !.stage = stage, !.nonce = nonce, !.pending = pending, !.tries = tries]

\* A client that starts anew.
Began(stage, nonce, tries) == [Ready EXCEPT !.stage = stage, !.nonce = nonce, !.tries = tries]

\* A record whose stage is set.
LEMMA StageIs ==
  ASSUME NEW r \in ClientRecord, NEW s \in Stages, NEW k, k = [r EXCEPT !.stage = s]
  PROVE  k \in ClientRecord /\ k.stage = s /\ k.nonce = r.nonce /\ k.steady = r.steady /\ k.pending = r.pending
BY DEF ClientRecord

\* A record of what was read.
LEMMA ReadIs ==
  ASSUME NEW r \in ClientRecord, NEW s \in Stages, NEW n \in Int, NEW p \in SUBSET Int, NEW t \in Int,
         NEW k, k = Read(r, s, n, p, t)
  PROVE  k \in ClientRecord /\ k.stage = s /\ k.nonce = n /\ k.steady = r.steady /\ k.pending = p
BY DEF ClientRecord, Read

\* A record of what a client starts with.
LEMMA BeganIs ==
  ASSUME NEW s \in Stages, NEW n \in Int, NEW t \in Int, NEW k, k = Began(s, n, t)
  PROVE  k \in ClientRecord /\ k.stage = s
<1>1. k = [stage |-> s, nonce |-> n, stake |-> 0, shown |-> 0, log |-> <<>>, pending |-> {},
           steady |-> TRUE, tries |-> t]
  BY DEF Ready, Began
<1>2. <<>> \in Seq(Entry) /\ {} \in SUBSET Int /\ 0 \in Int /\ TRUE \in BOOLEAN
  OBVIOUS
<1>3. k \in ClientRecord
  BY <1>1, <1>2 DEF ClientRecord
<1>. QED
  BY <1>1, <1>3

\* A faucet request that is tried again.
Anew(tries) == [Ready EXCEPT !.tries = tries]

\* The record of it.
LEMMA AnewIs ==
  ASSUME NEW t \in Int, NEW k, k = Anew(t)
  PROVE  k \in ClientRecord /\ k.stage = "ready"
<1>1. k = [stage |-> "ready", nonce |-> 0, stake |-> 0, shown |-> 0, log |-> <<>>, pending |-> {},
           steady |-> TRUE, tries |-> t]
  BY DEF Ready, Anew
<1>2. <<>> \in Seq(Entry) /\ {} \in SUBSET Int /\ 0 \in Int /\ TRUE \in BOOLEAN /\ "ready" \in Stages
  BY DEF Stages
<1>. QED
  BY <1>1, <1>2 DEF ClientRecord

\* Who has read nothing, or nothing that matters, is not wrong about it.
LEMMA ReadsNothing ==
  ASSUME NEW state, NEW pool, NEW c, NEW record,
         record.stage \notin {"untouched", "chain", "signed"} \/ Task[c].kind \notin {"faucet", "extension"}
  PROVE  Reads(state, pool, c, record)
BY DEF Reads, FaucetReads, ExtensionReads

\* A client moves.
LEMMA MoveKeeps ==
  ASSUME IInv, NEW c \in Clients, NEW record \in ClientRecord, Becomes(c, record),
         Reads(chain, mempool, c, record),
         UNCHANGED <<chain, mempool, batch, paid>>, activity' \in Seq(Entry)
  PROVE  IInv'
<1>1. Typed'
  BY DEF IInv, Typed, Becomes
<1>2. Sound(chain)' /\ Distinct(mempool)'
  BY DEF IInv, Sound, Distinct
<1>3. InBatch' /\ Promised'
  BY DEF IInv, InBatch, Promised
<1>4. Reading'
  <2>1. \A d \in Clients : client'[d] = IF d = c THEN record ELSE client[d]
    BY DEF IInv, Typed, Becomes
  <2>2. \A d \in Clients : Reads(chain, mempool, d, client[d])
    BY DEF IInv, Reading
  <2>3. \A d \in Clients : Reads(chain', mempool', d, client'[d])
    BY <2>1, <2>2
  <2>. QED
    BY <2>3 DEF Reading
<1>5. Accounted' /\ FundedOnce'
  BY DEF IInv, Accounted, FundedOnce
<1>. QED
  BY <1>1, <1>2, <1>3, <1>4, <1>5 DEF IInv

\* A transaction enters the mempool.
LEMMA EnqueueKeeps ==
  ASSUME IInv, NEW tx \in Offer, Admits(tx), Enqueue(tx), UNCHANGED <<chain, batch>>,
         Payment(tx) => Payable(chain, tx)
  PROVE  /\ mempool' \in Seq(Offer) /\ Distinct(mempool')
         /\ ToSet(mempool') = ToSet(mempool) \cup {tx}
         /\ InBatch' /\ Promised'
         /\ \A to : PaidFor(chain, mempool, to) => PaidFor(chain, mempool', to)
         /\ \A c, record : Reads(chain, mempool, c, record) => Reads(chain, mempool', c, record)
<1>1. mempool \in Seq(Offer) /\ Distinct(mempool)
  BY DEF IInv, Typed
<1>2. \A i \in DOMAIN mempool : mempool[i].from = tx.from => mempool[i].nonce # tx.nonce
  BY DEF Admits, Acceptable
<1>3. mempool' \in Seq(Offer) /\ Distinct(mempool') /\ ToSet(mempool') = ToSet(mempool) \cup {tx}
  <2>. DEFINE after == mempool'
  <2>1. after = Sort(Append(mempool, tx))
    BY DEF Enqueue
  <2>. HIDE DEF after
  <2>2. after \in Seq(Offer) /\ Distinct(after) /\ ToSet(after) = ToSet(mempool) \cup {tx}
    BY <1>1, <1>2, <2>1, EnqueuedPool
  <2>. QED
    BY <2>2 DEF after
<1>4. InBatch'
  BY <1>3 DEF IInv, InBatch
<1>5. Promised'
  BY <1>3 DEF IInv, Promised, Promises
<1>6. \A to : PaidFor(chain, mempool, to) => PaidFor(chain, mempool', to)
  BY <1>3 DEF PaidFor
<1>7. \A a : WaitingIn(mempool, a) \subseteq WaitingIn(mempool', a)
  <2>1. \A pool, a : WaitingIn(pool, a) = {x.nonce : x \in {y \in ToSet(pool) : y.from = a}}
    BY DEF WaitingIn, Pending, ToSet
  <2>. QED
    BY <1>3, <2>1
<1>8. ASSUME NEW c, NEW record, Reads(chain, mempool, c, record)
      PROVE  Reads(chain, mempool', c, record)
  BY <1>7, <1>8 DEF Reads, ExtensionReads
<1>. QED
  BY <1>3, <1>4, <1>5, <1>6, <1>8

\* It does and its client moves, or a node made it.
LEMMA SubmitKeeps ==
  ASSUME IInv, NEW tx \in Offer, Admits(tx), Enqueue(tx), UNCHANGED <<chain, batch, activity, paid>>, ~Payment(tx),
         \/ UNCHANGED client
         \/ \E c \in Clients : \E record \in ClientRecord : Becomes(c, record) /\ Reads(chain, mempool, c, record)
  PROVE  IInv'
<1>1. /\ mempool' \in Seq(Offer) /\ Distinct(mempool')
      /\ InBatch' /\ Promised'
      /\ \A to : PaidFor(chain, mempool, to) => PaidFor(chain, mempool', to)
      /\ \A c, record : Reads(chain, mempool, c, record) => Reads(chain, mempool', c, record)
  BY EnqueueKeeps
<1>2. /\ client' \in [Clients -> ClientRecord]
      /\ \A d \in Clients : Reads(chain, mempool, d, client'[d])
  <2>1. client \in [Clients -> ClientRecord] /\ \A d \in Clients : Reads(chain, mempool, d, client[d])
    BY DEF IInv, Typed, Reading
  <2>2. CASE UNCHANGED client
    BY <2>1, <2>2
  <2>3. CASE \E c \in Clients : \E record \in ClientRecord : Becomes(c, record) /\ Reads(chain, mempool, c, record)
    <3>1. PICK c \in Clients, record \in ClientRecord : Becomes(c, record) /\ Reads(chain, mempool, c, record)
      BY <2>3
    <3>2. \A d \in Clients : client'[d] = IF d = c THEN record ELSE client[d]
      BY <2>1, <3>1 DEF Becomes
    <3>3. client' \in [Clients -> ClientRecord]
      BY <2>1, <3>1 DEF Becomes
    <3>. QED
      BY <2>1, <3>1, <3>2, <3>3
  <2>. QED
    BY <2>2, <2>3
<1>3. Typed' /\ Sound(chain)'
  BY <1>1, <1>2 DEF IInv, Typed, Sound
<1>4. Reading'
  <2>1. \A d \in Clients : Reads(chain', mempool', d, client'[d])
    BY <1>1, <1>2
  <2>. QED
    BY <2>1 DEF Reading
<1>5. Accounted'
  BY <1>1 DEF IInv, Accounted
<1>6. FundedOnce' /\ Distinct(mempool)'
  BY <1>1 DEF IInv, FundedOnce, Distinct
<1>. QED
  BY <1>1, <1>3, <1>4, <1>5, <1>6 DEF IInv

\* A block comes, of some transactions of the mempool.
LEMMA BlockKeeps ==
  ASSUME IInv, NEW txs \in Seq(Offer), ToSet(txs) \subseteq ToSet(mempool), NEW own \in BOOLEAN,
         Block(txs, own), UNCHANGED <<activity, paid>>, batch' \in [txs : Seq(Offer), open : {FALSE}]
  PROVE  IInv'
<1>. DEFINE after == Applied(chain, txs)
            m == NoncesOf(after)
            rest == Rest(mempool, txs, own, m)
<1>1. chain \in ChainState /\ Sound(chain) /\ mempool \in Seq(Offer) /\ Distinct(mempool)
  BY DEF IInv, Typed
<1>2. chain' = after /\ mempool' = rest /\ client' = Unsettled
  BY DEF Block, Rest, NoncesOf
<1>3. Promises(chain, mempool)
  BY DEF IInv, Promised
<1>4. m = NoncesOf(after)
  OBVIOUS
<1>. HIDE DEF m
<1>5. rest = Rest(mempool, txs, own, m)
  OBVIOUS
<1>. HIDE DEF rest
<1>6. after \in ChainState /\ Sound(after) /\ Later(chain, after)
  BY <1>1, AppliedLater
<1>7. after = Applied(chain, txs)
  OBVIOUS
<1>. HIDE DEF after
<1>8. /\ Promises(after, rest)
      /\ \A tx \in ToSet(mempool) : Payment(tx) => tx \in ToSet(rest) \/ ~UntouchedIn(after, tx.to)
      /\ rest \in Seq(Offer) /\ Distinct(rest)
  BY <1>1, <1>3, <1>4, <1>5, <1>7, PaymentsKept
<1>9. ASSUME NEW c \in Clients
      PROVE  client'[c] \in ClientRecord /\ Reads(after, rest, c, client'[c])
  <2>. DEFINE r == client[c]
              k == client'[c]
              steady == r.steady /\ r.stage \notin {"untouched", "chain", "signed"}
  <2>1. r \in ClientRecord /\ Reads(chain, mempool, c, r)
    BY DEF IInv, Typed, Reading
  <2>2. k = [r EXCEPT !.steady = steady]
    BY <1>2 DEF Unsettled
  <2>2a. steady \in BOOLEAN /\ (r.stage \in {"untouched", "chain", "signed"} => ~steady)
    OBVIOUS
  <2>. HIDE DEF k, r, steady
  <2>3. k \in ClientRecord /\ k.stage = r.stage /\ k.nonce = r.nonce /\ k.steady = steady
    BY <2>1, <2>2, <2>2a DEF ClientRecord
  <2>4. k.stage \in {"untouched", "chain", "signed"} => ~k.steady
    BY <2>2a, <2>3
  <2>5. ExtensionReads(after, rest, c, k)
    BY <2>4 DEF ExtensionReads
  <2>6. FaucetReads(after, c, k)
    <3>. SUFFICES ASSUME Task[c].kind = "faucet"
                  PROVE  FaucetReads(after, c, k)
      BY DEF FaucetReads
    <3>1. ASSUME k.stage = "signed"
          PROVE  /\ k.nonce <= after.accounts[Task[c].from].nonce + 1
                 /\ k.nonce = after.accounts[Task[c].from].nonce + 1
                      => after.accounts[Task[c].from].balance >= Task[c].amount + BaseFee
      <4>. DEFINE a == Task[c].from
      <4>1. a \in Addresses /\ Task[c].amount \in Int /\ BaseFee \in Int
        BY ClientsAssumption
      <4>2. /\ r.nonce <= chain.accounts[a].nonce + 1
            /\ r.nonce = chain.accounts[a].nonce + 1 => chain.accounts[a].balance >= Task[c].amount + BaseFee
        BY <2>1, <2>3, <3>1 DEF Reads, FaucetReads
      <4>. HIDE DEF a
      <4>3. /\ after.accounts[a].nonce >= chain.accounts[a].nonce
            /\ after.accounts[a].nonce = chain.accounts[a].nonce
                 => after.accounts[a].balance >= chain.accounts[a].balance
        BY <1>6, <4>1 DEF Later
      <4>4. /\ after.accounts[a].nonce \in Int /\ chain.accounts[a].nonce \in Int
            /\ after.accounts[a].balance \in Int /\ chain.accounts[a].balance \in Int
            /\ r.nonce \in Int
        <5>1. after.accounts[a] \in Account /\ chain.accounts[a] \in Account
          BY <1>1, <1>6, <4>1 DEF ChainState
        <5>. QED
          BY <2>1, <5>1 DEF Account, ClientRecord
      <4>5. r.nonce <= after.accounts[a].nonce + 1
        BY <4>2, <4>3, <4>4
      <4>6. r.nonce = after.accounts[a].nonce + 1 => after.accounts[a].nonce = chain.accounts[a].nonce
        BY <4>2, <4>3, <4>4
      <4>7. r.nonce = after.accounts[a].nonce + 1 => after.accounts[a].balance >= Task[c].amount + BaseFee
        BY <4>1, <4>2, <4>3, <4>4, <4>6
      <4>. QED
        BY <2>3, <4>5, <4>7 DEF a
    <3>. QED
      BY <2>4, <3>1 DEF FaucetReads
  <2>. QED
    BY <2>3, <2>5, <2>6 DEF Reads, k
<1>10. Typed'
  <2>1. client' \in [Clients -> ClientRecord]
    <3>1. client' = [c \in Clients |-> client'[c]]
      BY <1>2 DEF Unsettled
    <3>. QED
      BY <1>9, <3>1
  <2>2. batch' \in [txs : Seq(Offer), open : BOOLEAN]
    OBVIOUS
  <2>. QED
    BY <1>2, <1>6, <1>8, <2>1, <2>2 DEF IInv, Typed
<1>11. Sound(chain)' /\ Distinct(mempool)'
  BY <1>2, <1>6, <1>8
<1>12. InBatch' /\ Promised'
  BY <1>2, <1>8 DEF InBatch, Promised
<1>13. Reading'
  BY <1>2, <1>9 DEF Reading
<1>14. Accounted'
  <2>1. ASSUME NEW i \in DOMAIN paid
        PROVE  PaidFor(after, rest, paid[i].to)
    <3>. DEFINE to == paid[i].to
    <3>1. PaidFor(chain, mempool, to)
      BY DEF IInv, Accounted
    <3>2. to \in Addresses
      <4>1. paid \in Seq([to : Addresses, steady : BOOLEAN])
        BY DEF IInv, Typed
      <4>. DEFINE R == [to : Addresses, steady : BOOLEAN]
      <4>2. paid[i] \in R
        <5>. HIDE DEF R
        <5>1. paid \in Seq(R)
          BY <4>1 DEF R
        <5>. QED
          BY <5>1
      <4>. QED
        BY <4>2
    <3>. HIDE DEF to
    <3>3. UntouchedIn(after, to) => UntouchedIn(chain, to)
      BY <1>6, <3>2 DEF Later
    <3>4. PaidFor(after, rest, to)
      BY <1>8, <3>1, <3>3 DEF PaidFor
    <3>. QED
      BY <3>4 DEF to
  <2>. QED
    BY <1>2, <2>1 DEF Accounted
<1>15. FundedOnce'
  BY DEF IInv, FundedOnce
<1>. QED
  BY <1>10, <1>11, <1>12, <1>13, <1>14, <1>15 DEF IInv

-----------------------------------------------------------------------------
(* The steps. *)

\* The first entries of a mempool.
LEMMA FrontOfPool ==
  ASSUME NEW pool \in Seq(Offer), NEW k \in 0 .. Len(pool), NEW txs, txs = SubSeq(pool, 1, k)
  PROVE  txs \in Seq(Offer) /\ ToSet(txs) \subseteq ToSet(pool)
<1>1. txs \in Seq(Offer) /\ Len(txs) = k /\ \A i \in 1 .. k : txs[i] = pool[i]
  OBVIOUS
<1>2. DOMAIN txs = 1 .. k /\ DOMAIN pool = 1 .. Len(pool)
  BY <1>1
<1>. QED
  BY <1>1, <1>2 DEF ToSet

\* At first nothing is waiting, read or paid.
LEMMA InitHolds == Init => IInv
<1>. SUFFICES ASSUME Init PROVE IInv
  OBVIOUS
<1>1. PICK party \in Parties :
        /\ chain = [accounts |-> [a \in Addresses |->
                       [balance |-> IF a # Node \/ Node \in party THEN Genesis[a] ELSE 0, staked |-> 0, nonce |-> 0]],
                    registered |-> {}]
        /\ client = [c \in Clients |-> [Ready EXCEPT !.stage = IF c \in party THEN "ready" ELSE "absent"]]
  BY DEF Init
<1>2. mempool = <<>> /\ batch = NoRound /\ activity = <<>> /\ paid = <<>>
  BY DEF Init
<1>3. ASSUME NEW a \in Addresses
      PROVE  /\ chain.accounts[a] \in Account
             /\ chain.accounts[a].nonce = 0 /\ chain.accounts[a].balance >= 0
  <2>. DEFINE b == IF a # Node \/ Node \in party THEN Genesis[a] ELSE 0
  <2>1. b \in Nat
    BY ClientsAssumption
  <2>2. chain.accounts[a] = [balance |-> b, staked |-> 0, nonce |-> 0]
    BY <1>1
  <2>. HIDE DEF b
  <2>. QED
    BY <2>1, <2>2 DEF Account
<1>4. chain \in ChainState /\ Sound(chain)
  <2>1. DOMAIN chain.accounts = Addresses /\ chain.accounts = [a \in Addresses |-> chain.accounts[a]]
    BY <1>1
  <2>2. chain = [accounts |-> chain.accounts, registered |-> {}]
    BY <1>1
  <2>3. chain.accounts \in [Addresses -> Account]
    BY <1>3, <2>1
  <2>4. chain \in ChainState
    BY <2>2, <2>3 DEF ChainState
  <2>. QED
    BY <1>3, <2>4 DEF Sound
<1>5. ASSUME NEW c \in Clients
      PROVE  client[c] \in ClientRecord /\ Reads(chain, mempool, c, client[c])
  <2>. DEFINE s == IF c \in party THEN "ready" ELSE "absent"
  <2>1. client[c] = [Ready EXCEPT !.stage = s]
    BY <1>1
  <2>2. s \in Stages /\ s \notin {"untouched", "chain", "signed"}
    BY DEF Stages
  <2>. HIDE DEF s
  <2>3. client[c] = Began(s, 0, 0)
    BY <2>1 DEF Began, Ready
  <2>. DEFINE k == client[c]
              z == 0
  <2>3a. k = Began(s, z, z) /\ z \in Int
    BY <2>3
  <2>. HIDE DEF k, z
  <2>3b. k \in ClientRecord /\ k.stage = s
    BY <2>2, <2>3a, BeganIs
  <2>4. client[c] \in ClientRecord /\ client[c].stage = s
    BY <2>3b DEF k
  <2>. QED
    BY <2>2, <2>4, ReadsNothing
<1>6. client \in [Clients -> ClientRecord]
  <2>1. client = [c \in Clients |-> client[c]]
    BY <1>1
  <2>. QED
    BY <1>5, <2>1
<1>7. Typed
  <2>1. <<>> \in Seq(Offer) /\ <<>> \in Seq([to : Addresses, steady : BOOLEAN])
    OBVIOUS
  <2>2. batch \in [txs : Seq(Offer), open : BOOLEAN]
    BY <1>2, <2>1 DEF NoRound
  <2>. QED
    BY <1>2, <1>4, <1>6, <2>1, <2>2 DEF Typed
<1>8. DOMAIN mempool = {} /\ DOMAIN paid = {} /\ ToSet(mempool) = {}
  BY <1>2 DEF ToSet
<1>9. Distinct(mempool) /\ Promised /\ Accounted /\ FundedOnce
  BY <1>8 DEF Distinct, Promised, Promises, Accounted, FundedOnce
<1>10. InBatch
  BY <1>2 DEF InBatch, NoRound
<1>11. Reading
  BY <1>5 DEF Reading
<1>. QED
  BY <1>4, <1>7, <1>9, <1>10, <1>11 DEF IInv

\* The node's blocks, and those of others.
LEMMA BlockSteps ==
  ASSUME IInv, StartBlock \/ FinishBlock \/ RoundFails \/ OthersBlock
  PROVE  IInv'
<1>0. /\ mempool \in Seq(Offer) /\ batch \in [txs : Seq(Offer), open : BOOLEAN]
      /\ Distinct(mempool) /\ Sound(chain) /\ Typed
  BY DEF IInv, Typed
<1>a. NoRound \in [txs : Seq(Offer), open : {FALSE}]
  <2>1. <<>> \in Seq(Offer)
    OBVIOUS
  <2>. QED
    BY <2>1 DEF NoRound
<1>b. ASSUME UNCHANGED <<chain, mempool, client, activity, paid>>,
             batch' \in [txs : Seq(Offer), open : BOOLEAN],
             batch'.open => ToSet(batch'.txs) \subseteq ToSet(mempool)
      PROVE  IInv'
  <2>1. Typed'
    BY <1>0, <1>b DEF Typed
  <2>2. InBatch'
    BY <1>b DEF InBatch
  <2>. QED
    BY <1>b, <2>1, <2>2 DEF IInv, Sound, Distinct, Promised, Reading, Accounted, FundedOnce
<1>1. CASE StartBlock
  <2>. DEFINE k == Min({MaxTxPerBlock, Len(mempool)})
              txs == SubSeq(mempool, 1, k)
  <2>1. k \in 0 .. Len(mempool)
    <3>. DEFINE n == Len(mempool)
                S == {MaxTxPerBlock, n}
    <3>1. n \in Nat /\ MaxTxPerBlock \in Nat
      BY <1>0, ClientsAssumption
    <3>2. k = CHOOSE x \in S : \A y \in S : x <= y
      BY DEF Min
    <3>. HIDE DEF n, k
    <3>3. \E x \in S : \A y \in S : x <= y
      BY <3>1
    <3>4. k \in S /\ \A y \in S : k <= y
      <4>. HIDE DEF S
      <4>. QED
        BY <3>2, <3>3
    <3>5. k \in 0 .. n
      BY <3>1, <3>4
    <3>. QED
      BY <3>5 DEF n
  <2>2. batch' = [txs |-> txs, open |-> TRUE] /\ UNCHANGED <<chain, mempool, client, activity, paid>>
    BY <1>1 DEF StartBlock
  <2>. HIDE DEF k
  <2>3. txs = SubSeq(mempool, 1, k)
    OBVIOUS
  <2>. HIDE DEF txs
  <2>4. txs \in Seq(Offer) /\ ToSet(txs) \subseteq ToSet(mempool)
    BY <1>0, <2>1, <2>3, FrontOfPool
  <2>5. batch' \in [txs : Seq(Offer), open : BOOLEAN] /\ batch'.txs = txs
    BY <2>2, <2>4
  <2>. QED
    BY <1>b, <2>2, <2>4, <2>5
<1>2. CASE FinishBlock
  <2>1. batch.open /\ Block(batch.txs, TRUE) /\ batch' = NoRound /\ UNCHANGED <<activity, paid>>
    BY <1>2 DEF FinishBlock
  <2>2. batch.txs \in Seq(Offer)
    BY <1>0
  <2>3. ToSet(batch.txs) \subseteq ToSet(mempool)
    BY <2>1 DEF IInv, InBatch
  <2>. QED
    BY <1>a, <2>1, <2>2, <2>3, BlockKeeps
<1>3. CASE RoundFails
  <2>1. batch' = NoRound /\ UNCHANGED <<chain, mempool, client, activity, paid>>
    BY <1>3 DEF RoundFails
  <2>2. batch' \in [txs : Seq(Offer), open : BOOLEAN] /\ ~batch'.open
    BY <1>a, <2>1 DEF NoRound
  <2>. QED
    BY <1>b, <2>1, <2>2
<1>4. CASE OthersBlock
  <2>1. PICK k \in 1 .. Len(mempool) : Block(SubSeq(mempool, 1, k), FALSE)
    BY <1>4 DEF OthersBlock
  <2>2. ~batch.open /\ batch' = batch /\ UNCHANGED <<activity, paid>>
    BY <1>4 DEF OthersBlock
  <2>3. k \in 0 .. Len(mempool)
    BY <1>0
  <2>. DEFINE txs == SubSeq(mempool, 1, k)
  <2>4. txs = SubSeq(mempool, 1, k) /\ Block(txs, FALSE)
    BY <2>1
  <2>. HIDE DEF txs
  <2>5. txs \in Seq(Offer) /\ ToSet(txs) \subseteq ToSet(mempool)
    BY <1>0, <2>3, <2>4, FrontOfPool
  <2>6. batch' \in [txs : Seq(Offer), open : {FALSE}]
    BY <1>0, <2>2
  <2>. QED
    BY <2>2, <2>4, <2>5, <2>6, BlockKeeps
<1>. QED
  BY <1>1, <1>2, <1>3, <1>4

\* What a node makes for itself.
LEMMA NodeSteps ==
  ASSUME IInv, AutoStake \/ AutoRegister
  PROVE  IInv'
<1>1. OwnNonce \in Int /\ chain.accounts[Node].staked \in Int
  <2>1. mempool \in Seq(Offer) /\ chain \in ChainState /\ Node \in Addresses
    BY ClientsAssumption DEF IInv, Typed
  <2>2. chain.accounts[Node] \in Account
    BY <2>1 DEF ChainState
  <2>3. Nonces[Node] \in Int
    BY <2>1, <2>2 DEF Nonces, Account
  <2>4. Cardinality(Pending(mempool, Node)) \in Nat
    <3>1. IsFiniteSet(Pending(mempool, Node))
      BY <2>1, WaitingIs
    <3>. QED
      BY <3>1, FS_CardinalityType
  <2>. QED
    BY <2>2, <2>3, <2>4 DEF OwnNonce, NextExpectedNonce, Account
<1>2. ASSUME NEW type \in {"stake", "validator_register"}, NEW amount \in Int
      PROVE  OwnTx(type, amount) \in Offer /\ ~Payment(OwnTx(type, amount))
  <2>1. 0 \in Nat
    OBVIOUS
  <2>. QED
    BY <1>1, <2>1, ClientsAssumption DEF OwnTx, Offer, Types, Payment
<1>3. CASE AutoStake
  <2>. DEFINE tx == OwnTx("stake", StakeAmount - chain.accounts[Node].staked)
  <2>1. tx \in Offer /\ ~Payment(tx)
    BY <1>1, <1>2, ClientsAssumption
  <2>2. Admits(tx) /\ Enqueue(tx) /\ UNCHANGED <<chain, batch, client, activity, paid>>
    BY <1>3 DEF AutoStake
  <2>. HIDE DEF tx
  <2>. QED
    BY <2>1, <2>2, SubmitKeeps
<1>4. CASE AutoRegister
  <2>. DEFINE tx == OwnTx("validator_register", 1)
  <2>1. tx \in Offer /\ ~Payment(tx)
    BY <1>2
  <2>2. Admits(tx) /\ Enqueue(tx) /\ UNCHANGED <<chain, batch, client, activity, paid>>
    BY <1>4 DEF AutoRegister
  <2>. HIDE DEF tx
  <2>. QED
    BY <2>1, <2>2, SubmitKeeps
<1>. QED
  BY <1>3, <1>4

\* What a client sends.
LEMMA SignedIs ==
  ASSUME IInv, NEW c \in Clients, NEW type \in Types, NEW amount \in Int, type = "transfer" => amount \in Nat \ {0},
         NEW tx, tx = Signed(c, type, amount)
  PROVE  /\ tx \in Offer
         /\ tx.by = c /\ tx.from = Task[c].from /\ tx.to = Task[c].to /\ tx.amount = amount /\ tx.type = type
         /\ tx.nonce = client[c].nonce
         /\ Task[c].kind = "faucet" => tx.fee = 0
<1>1. client[c] \in ClientRecord
  BY DEF IInv, Typed
<1>2. client[c].nonce \in Int
  BY <1>1 DEF ClientRecord
<1>3. Task[c].from \in Addresses /\ Task[c].to \in Addresses /\ Fee(c) \in Nat
  BY ClientsAssumption DEF Fee
<1>4. tx = [type |-> type, from |-> Task[c].from, to |-> Task[c].to, amount |-> amount,
            nonce |-> client[c].nonce, fee |-> Fee(c), by |-> c]
  BY DEF Signed
<1>5. tx \in Offer
  BY <1>2, <1>3, <1>4 DEF Offer
<1>6. Task[c].kind = "faucet" => Fee(c) = 0
  BY DEF Fee
<1>. QED
  BY <1>4, <1>5, <1>6

\* After an answer a client has nothing that it has read.
LEMMA EndsIs ==
  ASSUME IInv, NEW c \in Clients, NEW stage \in Stages, stage \notin {"untouched", "chain", "signed"},
         Ends(c, stage)
  PROVE  \E record \in ClientRecord :
           Becomes(c, record) /\ record.stage = stage /\ \A state, pool : Reads(state, pool, c, record)
<1>. DEFINE n == client[c].nonce
            t == client[c].tries
            k == Began(stage, n, t)
<1>1. n \in Int /\ t \in Int
  <2>1. client[c] \in ClientRecord
    BY DEF IInv, Typed
  <2>. QED
    BY <2>1 DEF ClientRecord
<1>2. Becomes(c, k)
  BY DEF Ends, Began
<1>3. k = Began(stage, n, t)
  OBVIOUS
<1>. HIDE DEF n, t, k
<1>4. k \in ClientRecord /\ k.stage = stage
  BY <1>1, <1>3, BeganIs
<1>5. \A state, pool : Reads(state, pool, c, k)
  BY <1>4, ReadsNothing
<1>. QED
  BY <1>2, <1>4, <1>5

\* What a client reads.
LEMMA ReadSteps ==
  ASSUME IInv, NEW c \in Clients,
         \/ ReadRecipient(c) \/ ReadFunder(c) \/ ReadBalance(c) \/ ReadMempool(c) \/ ReadMempoolFails(c)
         \/ Refresh(c) \/ UsePanel(c) \/ ReadStake(c) \/ ReadActivity(c) \/ Again(c)
  PROVE  IInv'
<1>. DEFINE r == client[c]
            from == Task[c].from
            account == chain.accounts[from]
<1>1. /\ r \in ClientRecord /\ Reads(chain, mempool, c, r) /\ activity \in Seq(Entry)
      /\ chain \in ChainState /\ mempool \in Seq(Offer)
  BY DEF IInv, Typed, Reading
<1>2. from \in Addresses /\ Task[c].to \in Addresses /\ Task[c].amount \in Int /\ BaseFee \in Int
  BY ClientsAssumption
<1>3. /\ r.stage \in Stages /\ r.nonce \in Int /\ r.stake \in Int /\ r.shown \in Int /\ r.tries \in Int
      /\ r.pending \in SUBSET Int /\ r.steady \in BOOLEAN
  BY <1>1 DEF ClientRecord
<1>4. account.balance \in Int /\ account.staked \in Int /\ account.nonce \in Int
      /\ chain.accounts[Task[c].from].balance \in Int
  <2>1. account \in Account
    BY <1>1, <1>2 DEF ChainState
  <2>. QED
    BY <2>1 DEF Account
<1>5. NextNonce(from) = account.nonce + 1 /\ NextNonce(from) \in Int
  BY <1>2, <1>4 DEF NextNonce, Nonces
<1>6. Waiting(from) = WaitingIn(mempool, from) /\ Waiting(from) \in SUBSET Int /\ IsFiniteSet(Waiting(from))
  <2>1. Waiting(from) = WaitingIn(mempool, from)
    BY DEF Waiting, WaitingIn
  <2>. HIDE DEF from
  <2>2. WaitingIn(mempool, from) \in SUBSET Int /\ IsFiniteSet(WaitingIn(mempool, from))
    BY <1>1, WaitingIs
  <2>. QED
    BY <2>1, <2>2
<1>7. ASSUME UNCHANGED <<chain, mempool, batch, activity, paid>>,
             NEW k \in ClientRecord, Becomes(c, k), Reads(chain, mempool, c, k)
      PROVE  IInv'
  BY <1>1, <1>7, MoveKeeps
<1>. HIDE DEF r, from, account
<1>8. CASE ReadRecipient(c)
  <2>. DEFINE s == IF Untouched(Task[c].to) THEN "untouched" ELSE "failed"
              k == [r EXCEPT !.stage = s]
  <2>1. Task[c].kind = "faucet" /\ Becomes(c, k) /\ UNCHANGED <<chain, mempool, batch, activity, paid>>
    BY <1>8 DEF ReadRecipient, At, Goes, r
  <2>2. s \in Stages /\ s # "signed" /\ s # "chain" /\ (s = "untouched" => UntouchedIn(chain, Task[c].to))
    BY DEF Stages, Untouched, UntouchedIn
  <2>. HIDE DEF s
  <2>3. k = [r EXCEPT !.stage = s]
    OBVIOUS
  <2>. HIDE DEF k
  <2>4. k \in ClientRecord /\ k.stage = s
    BY <1>1, <2>2, <2>3, StageIs
  <2>5. Reads(chain, mempool, c, k)
    BY <2>1, <2>2, <2>4 DEF Reads, FaucetReads, ExtensionReads
  <2>. QED
    BY <1>7, <2>1, <2>4, <2>5
<1>9. CASE ReadFunder(c)
  <2>1. /\ Task[c].kind = "faucet" /\ r.stage = "untouched" /\ UNCHANGED <<chain, mempool, batch, activity, paid>>
    BY <1>9 DEF ReadFunder, At, r
  <2>2. CASE account.balance < Task[c].amount + BaseFee
    <3>. DEFINE s == "failed"
                k == [r EXCEPT !.stage = s]
    <3>1. Becomes(c, k)
      BY <1>9, <2>2 DEF ReadFunder, Goes, r, account, from
    <3>2. s \in Stages /\ s \notin {"untouched", "chain", "signed"} /\ k = [r EXCEPT !.stage = s]
      BY DEF Stages
    <3>. HIDE DEF s, k
    <3>3. k \in ClientRecord /\ k.stage = s
      BY <1>1, <3>2, StageIs
    <3>. QED
      BY <1>7, <2>1, <3>1, <3>2, <3>3, ReadsNothing
  <2>3. CASE ~(account.balance < Task[c].amount + BaseFee)
    <3>. DEFINE n == NextNonce(from)
                k == [r EXCEPT !.stage = "signed", !.nonce = n]
    <3>1. Becomes(c, k)
      BY <1>9, <2>3 DEF ReadFunder, r, account, from
    <3>2. n \in Int /\ n = account.nonce + 1
      BY <1>5
    <3>. HIDE DEF n
    <3>3. k \in ClientRecord /\ k.stage = "signed" /\ k.nonce = n /\ k.steady = r.steady
      BY <1>1, <3>2 DEF ClientRecord, Stages
    <3>. HIDE DEF k
    <3>4. r.steady => UntouchedIn(chain, Task[c].to)
      BY <1>1, <2>1 DEF Reads, FaucetReads
    <3>5. n <= account.nonce + 1 /\ account.balance >= Task[c].amount + BaseFee
      BY <1>2, <1>4, <2>3, <3>2
    <3>6. Reads(chain, mempool, c, k)
      BY <2>1, <3>3, <3>4, <3>5 DEF Reads, FaucetReads, ExtensionReads, account, from
    <3>. QED
      BY <1>7, <2>1, <3>1, <3>3, <3>6
  <2>. QED
    BY <2>2, <2>3
<1>10. CASE ReadBalance(c)
  <2>. DEFINE s == IF Task[c].kind = "sdk" THEN "signed" ELSE "chain"
              n == NextNonce(from)
              p == Waiting(from)
              t == r.tries + 1
              k == Read(r, s, n, p, t)
  <2>1. /\ Task[c].kind \in {"sdk", "extension"} /\ Becomes(c, k)
        /\ UNCHANGED <<chain, mempool, batch, activity, paid>>
    BY <1>10 DEF ReadBalance, r, from, Read
  <2>2. /\ s \in Stages /\ n \in Int /\ p \in SUBSET Int /\ t \in Int /\ k = Read(r, s, n, p, t)
        /\ n = account.nonce + 1 /\ p = WaitingIn(mempool, from)
        /\ Task[c].kind = "extension" => s = "chain"
    BY <1>3, <1>5, <1>6 DEF Stages
  <2>. HIDE DEF s, n, p, t, k
  <2>3. k \in ClientRecord /\ k.stage = s /\ k.nonce = n /\ k.pending = p
    BY <1>1, <2>2, ReadIs
  <2>4. Reads(chain, mempool, c, k)
    <3>1. CASE Task[c].kind = "extension"
      BY <2>2, <2>3, <3>1 DEF Reads, FaucetReads, ExtensionReads, account, from
    <3>2. CASE Task[c].kind # "extension"
      BY <2>1, <3>2 DEF Reads, FaucetReads, ExtensionReads
    <3>. QED
      BY <3>1, <3>2
  <2>. QED
    BY <1>7, <2>1, <2>3, <2>4
<1>11. CASE ReadMempool(c)
  <2>. DEFINE n == AfterPending(r.nonce, from)
              k == [r EXCEPT !.stage = "signed", !.nonce = n]
  <2>1. /\ Task[c].kind = "extension" /\ r.stage = "chain" /\ Becomes(c, k)
        /\ UNCHANGED <<chain, mempool, batch, activity, paid>>
    BY <1>11 DEF ReadMempool, At, r, from
  <2>2. n = Latest(r.nonce, Waiting(from))
    BY DEF AfterPending, Latest
  <2>. HIDE DEF n
  <2>3. n \in Int
    <3>. DEFINE W == Waiting(from)
                m == r.nonce
    <3>1. W \in SUBSET Int /\ IsFiniteSet(W) /\ m \in Int /\ n = Latest(m, W)
      BY <1>3, <1>6, <2>2
    <3>. HIDE DEF W, m
    <3>. QED
      BY <3>1, LatestIs
  <2>4. k \in ClientRecord /\ k.stage = "signed" /\ k.nonce = n /\ k.steady = r.steady /\ k.pending = r.pending
    BY <1>1, <2>3 DEF ClientRecord, Stages
  <2>. HIDE DEF k
  <2>5. r.steady => r.nonce = account.nonce + 1 /\ r.pending \subseteq WaitingIn(mempool, from)
    BY <1>1, <2>1 DEF Reads, ExtensionReads, account, from
  <2>6. Reads(chain, mempool, c, k)
    <3>1. FaucetReads(chain, c, k)
      BY <2>1 DEF FaucetReads
    <3>2. ASSUME k.steady
          PROVE  \E seen \in SUBSET WaitingIn(mempool, from) :
                   k.pending \subseteq seen /\ k.nonce = Latest(account.nonce + 1, seen)
      <4>1. r.nonce = account.nonce + 1 /\ r.pending \subseteq WaitingIn(mempool, from)
        BY <2>4, <2>5, <3>2
      <4>2. k.nonce = Latest(account.nonce + 1, WaitingIn(mempool, from))
        BY <1>6, <2>2, <2>4, <4>1
      <4>. QED
        BY <2>4, <4>1, <4>2
    <3>3. ExtensionReads(chain, mempool, c, k)
      BY <2>4, <3>2 DEF ExtensionReads, account, from
    <3>. QED
      BY <3>1, <3>3 DEF Reads
  <2>. QED
    BY <1>7, <2>1, <2>4, <2>6
<1>12. CASE ReadMempoolFails(c)
  <2>. DEFINE k == [r EXCEPT !.stage = "signed", !.steady = FALSE]
  <2>1. Task[c].kind = "extension" /\ Becomes(c, k) /\ UNCHANGED <<chain, mempool, batch, activity, paid>>
    BY <1>12 DEF ReadMempoolFails, At, r
  <2>2. k \in ClientRecord /\ k.steady = FALSE
    BY <1>1 DEF ClientRecord, Stages
  <2>. HIDE DEF k
  <2>3. Reads(chain, mempool, c, k)
    BY <2>1, <2>2 DEF Reads, FaucetReads, ExtensionReads
  <2>. QED
    BY <1>7, <2>1, <2>2, <2>3
<1>13. CASE Refresh(c)
  <2>. DEFINE k == [r EXCEPT !.stage = "shown", !.shown = chain.accounts[Task[c].from].balance]
  <2>1. Task[c].kind = "web" /\ Becomes(c, k) /\ UNCHANGED <<chain, mempool, batch, activity, paid>>
    BY <1>13 DEF Refresh, r
  <2>2. k \in ClientRecord
    BY <1>1, <1>4 DEF ClientRecord, Stages
  <2>. HIDE DEF k
  <2>. QED
    BY <1>7, <2>1, <2>2, ReadsNothing
<1>14. CASE UsePanel(c)
  <2>. DEFINE short == Task[c].type = "transfer" /\ client[c].shown < Task[c].amount + Fee(c)
              s == IF short THEN "failed" ELSE "signed"
              n == NextNonce(from)
              t == r.tries + 1
              k == [r EXCEPT !.stage = s, !.nonce = n, !.tries = t]
  <2>1. Task[c].kind = "web" /\ Becomes(c, k) /\ UNCHANGED <<chain, mempool, batch, activity, paid>>
    BY <1>14 DEF UsePanel, At, r, from
  <2>2. s \in Stages /\ n \in Int /\ t \in Int
    BY <1>3, <1>5 DEF Stages
  <2>. HIDE DEF s, n, t
  <2>3. k \in ClientRecord
    BY <1>1, <2>2 DEF ClientRecord
  <2>. HIDE DEF k
  <2>. QED
    BY <1>7, <2>1, <2>3, ReadsNothing
<1>15. CASE ReadStake(c)
  <2>. DEFINE a == chain.accounts[Task[c].from]
              u == Max({0, Task[c].amount - a.staked})
              s == IF u > 0 THEN "stake" ELSE "register"
              n == a.nonce + 1
              t == r.tries + 1
              k == [r EXCEPT !.stage = s, !.nonce = n, !.stake = u, !.tries = t]
  <2>1. Task[c].kind = "validator" /\ Becomes(c, k) /\ UNCHANGED <<chain, mempool, batch, activity, paid>>
    BY <1>15 DEF ReadStake, At, r
  <2>2. a.staked \in Int /\ a.nonce \in Int
    BY <1>4 DEF account, from
  <2>3. u \in Int
    <3>. DEFINE d == Task[c].amount - a.staked
                S == {0, d}
    <3>1. d \in Int
      BY <1>2, <2>2
    <3>2. u = CHOOSE x \in S : \A y \in S : x >= y
      BY DEF Max
    <3>. HIDE DEF d, u
    <3>3. \E x \in S : \A y \in S : x >= y
      BY <3>1
    <3>4. u \in S
      <4>. HIDE DEF S
      <4>. QED
        BY <3>2, <3>3
    <3>. QED
      BY <3>1, <3>4
  <2>4. s \in Stages /\ n \in Int /\ t \in Int
    BY <1>3, <2>2 DEF Stages
  <2>. HIDE DEF s, n, t, u
  <2>5. k \in ClientRecord
    BY <1>1, <2>3, <2>4 DEF ClientRecord
  <2>. HIDE DEF k
  <2>. QED
    BY <1>7, <2>1, <2>5, ReadsNothing
<1>16. CASE ReadActivity(c)
  <2>. DEFINE k == [r EXCEPT !.stage = "logging", !.log = activity]
  <2>1. Becomes(c, k) /\ UNCHANGED <<chain, mempool, batch, activity, paid>>
    BY <1>16 DEF ReadActivity, r
  <2>2. k \in ClientRecord /\ k.stage = "logging"
    BY <1>1 DEF ClientRecord, Stages
  <2>. HIDE DEF k
  <2>. QED
    BY <1>7, <2>1, <2>2, ReadsNothing
<1>17. CASE Again(c)
  <2>. DEFINE t == r.tries
              k == Anew(t)
  <2>1. Becomes(c, k) /\ UNCHANGED <<chain, mempool, batch, activity, paid>>
    BY <1>17 DEF Again, Anew, r
  <2>2. t \in Int /\ k = Anew(t)
    BY <1>3
  <2>. HIDE DEF t, k
  <2>3. k \in ClientRecord /\ k.stage = "ready"
    BY <2>2, AnewIs
  <2>. QED
    BY <1>7, <2>1, <2>3, ReadsNothing
<1>. QED
  BY <1>8, <1>9, <1>10, <1>11, <1>12, <1>13, <1>14, <1>15, <1>16, <1>17

\* What appendActivity makes of a log: whatever was in it is in it still, unless
\* it was full and that was its oldest entry.
LEMMA LogIs ==
  ASSUME NEW log \in Seq(Entry), NEW item \in Entry
  PROVE  /\ WithItem(log, item) \in Seq(Entry)
         /\ Len(WithItem(log, item)) <= LogLimit
         /\ Len(log) <= LogLimit =>
              \A entry \in ToSet(log) \ ToSet(WithItem(log, item)) :
                Len(log) = LogLimit /\ log[LogLimit] = entry
<1>. DEFINE without == Without(log, <<item>>)
            deduped == IF Contains(log, item) THEN without ELSE log
            whole == <<item>> \o deduped
            kept == IF Len(whole) < LogLimit THEN Len(whole) ELSE LogLimit
            new == SubSeq(whole, 1, kept)
<1>0. LogLimit \in Nat \ {0}
  BY ClientsAssumption
<1>1. WithItem(log, item) = new
  BY DEF WithItem
<1>2. /\ without \in Seq(Entry) /\ ToSet(without) = ToSet(log) \ {item}
      /\ Contains(log, item) => Len(without) < Len(log)
  <2>. DEFINE I == {i \in DOMAIN log : log[i] # item}
  <2>1. I \in SUBSET (DOMAIN log) /\ DOMAIN log = 1 .. Len(log) /\ Len(log) \in Nat
    OBVIOUS
  <2>2. without = Selected(log, I)
    <3>1. \A i \in DOMAIN log : ~Contains(<<item>>, log[i]) <=> log[i] # item
      BY DEF Contains
    <3>2. {i \in DOMAIN log : ~Contains(<<item>>, log[i])} = I
      BY <3>1
    <3>. QED
      BY <3>2 DEF Without
  <2>3. \A e : e \in {log[i] : i \in I} <=> e \in ToSet(log) \ {item}
    BY DEF ToSet
  <2>4. Contains(log, item) => \E i \in DOMAIN log : i \notin I
    BY DEF Contains
  <2>. HIDE DEF I, without
  <2>5. without \in Seq(Entry) /\ TakenFrom(without, log, I)
    BY <2>1, <2>2, SelectedTakes
  <2>6. ToSet(without) = {log[i] : i \in I} /\ Len(without) = Cardinality(I)
    BY <2>1, <2>5, TakenEntries
  <2>7. IsFiniteSet(DOMAIN log) /\ Cardinality(DOMAIN log) = Len(log)
    <3>1. 1 \in Int /\ Len(log) \in Int /\ Len(log) >= 0
      BY <2>1
    <3>2. IsFiniteSet(1 .. Len(log)) /\ Cardinality(1 .. Len(log)) = IF 1 > Len(log) THEN 0 ELSE Len(log) - 1 + 1
      BY <3>1, FS_Interval
    <3>. QED
      BY <2>1, <3>1, <3>2
  <2>8. I # DOMAIN log => Cardinality(I) < Cardinality(DOMAIN log)
    <3>. DEFINE D == DOMAIN log
    <3>1. I \in SUBSET D /\ IsFiniteSet(D)
      BY <2>1, <2>7
    <3>. HIDE DEF D
    <3>2. Cardinality(I) \in Nat /\ Cardinality(D) \in Nat /\ Cardinality(I) <= Cardinality(D)
          /\ (Cardinality(I) = Cardinality(D) => I = D)
      BY <3>1, FS_Subset, FS_CardinalityType
    <3>3. I # D => Cardinality(I) < Cardinality(D)
      BY <3>2
    <3>. QED
      BY <3>3 DEF D
  <2>. QED
    BY <2>3, <2>4, <2>5, <2>6, <2>7, <2>8
<1>. HIDE DEF without
<1>3. /\ deduped \in Seq(Entry) /\ ToSet(log) \subseteq ToSet(deduped) \cup {item}
      /\ Len(deduped) <= Len(log)
      /\ Len(deduped) = Len(log) => deduped = log
  BY <1>2
<1>. HIDE DEF deduped
<1>4. /\ whole \in Seq(Entry) /\ Len(whole) = Len(deduped) + 1 /\ whole[1] = item
      /\ \A i \in 1 .. Len(deduped) : whole[i + 1] = deduped[i]
  BY <1>3
<1>. HIDE DEF whole
<1>5. kept \in 1 .. Len(whole) /\ kept <= LogLimit /\ (kept < Len(whole) => kept = LogLimit)
  BY <1>0, <1>3, <1>4
<1>. HIDE DEF kept
<1>6. /\ new \in Seq(Entry) /\ Len(new) = kept
      /\ \A i \in 1 .. kept : new[i] = whole[i]
  BY <1>4, <1>5
<1>. HIDE DEF new
<1>7. ASSUME Len(log) <= LogLimit, NEW entry \in ToSet(log), entry \notin ToSet(new)
      PROVE  Len(log) = LogLimit /\ log[LogLimit] = entry
  <2>1. \A i \in 1 .. kept : entry # whole[i]
    BY <1>5, <1>6, <1>7 DEF ToSet
  <2>2. entry # item
    BY <1>4, <1>5, <2>1
  <2>3. PICK i \in 1 .. Len(deduped) : entry = deduped[i]
    <3>1. entry \in ToSet(deduped)
      BY <1>3, <1>7, <2>2
    <3>2. DOMAIN deduped = 1 .. Len(deduped)
      BY <1>3
    <3>. QED
      BY <3>1, <3>2 DEF ToSet
  <2>4. kept < i + 1
    BY <1>3, <1>4, <1>5, <2>1, <2>3
  <2>5. i = LogLimit /\ Len(deduped) = LogLimit /\ Len(log) = LogLimit
    BY <1>0, <1>3, <1>4, <1>5, <1>7, <2>3, <2>4
  <2>. QED
    BY <1>3, <2>3, <2>5
<1>. QED
  BY <1>1, <1>5, <1>6, <1>7

\* What a client sends, and the extension's log.
LEMMA SendSteps ==
  ASSUME IInv, NEW c \in Clients, SubmitStake(c) \/ SubmitRegister(c) \/ WriteActivity(c)
  PROVE  IInv'
<1>. DEFINE r == client[c]
<1>1. /\ r \in ClientRecord /\ activity \in Seq(Entry)
  BY DEF IInv, Typed
<1>2. r.nonce \in Int /\ r.stake \in Int /\ r.log \in Seq(Entry) /\ r.tries \in Int
  BY <1>1 DEF ClientRecord
<1>3. {"failed", "done", "register"} \subseteq Stages
      /\ \A s \in {"failed", "done", "register"} : s \notin {"untouched", "chain", "signed"}
  BY DEF Stages
<1>4. ASSUME NEW s \in {"failed", "done"}, Ends(c, s), UNCHANGED <<chain, mempool, batch, paid>>,
             activity' \in Seq(Entry)
      PROVE  IInv'
  <2>1. PICK k \in ClientRecord : Becomes(c, k) /\ \A state, pool : Reads(state, pool, c, k)
    BY <1>3, <1>4, EndsIs
  <2>2. Reads(chain, mempool, c, k)
    BY <2>1
  <2>. QED
    BY <1>4, <2>1, <2>2, MoveKeeps
<1>5. CASE SubmitStake(c)
  <2>. DEFINE tx == Signed(c, "stake", r.stake)
  <2>1. Task[c].kind = "validator" /\ UNCHANGED <<chain, batch, activity, paid>>
    BY <1>5 DEF SubmitStake, At
  <2>2. tx \in Offer /\ tx.by = c
    <3>. DEFINE a == r.stake
                y == "stake"
    <3>1. a \in Int /\ y \in Types /\ y # "transfer" /\ tx = Signed(c, y, a)
      BY <1>2 DEF Types
    <3>. HIDE DEF a, y, tx
    <3>. QED
      BY <3>1, SignedIs
  <2>3. ~Payment(tx)
    BY <2>1, <2>2 DEF Payment
  <2>4. CASE Admits(tx)
    <3>. DEFINE s == "register"
                n == r.nonce + 1
                k == [r EXCEPT !.stage = s, !.nonce = n]
    <3>1. Enqueue(tx) /\ Becomes(c, k)
      BY <1>5, <2>4 DEF SubmitStake
    <3>2. s \in Stages /\ n \in Int
      BY <1>2, <1>3
    <3>. HIDE DEF n
    <3>3. k \in ClientRecord
      BY <1>1, <3>2 DEF ClientRecord
    <3>. HIDE DEF k, tx
    <3>4. Reads(chain, mempool, c, k)
      BY <2>1, ReadsNothing
    <3>. QED
      BY <2>1, <2>2, <2>3, <2>4, <3>1, <3>3, <3>4, SubmitKeeps
  <2>5. CASE ~Admits(tx)
    <3>1. Ends(c, "failed") /\ UNCHANGED mempool
      BY <1>5, <2>5 DEF SubmitStake
    <3>. HIDE DEF tx
    <3>. QED
      BY <1>1, <1>4, <2>1, <3>1
  <2>. QED
    BY <2>4, <2>5
<1>6. CASE SubmitRegister(c)
  <2>. DEFINE tx == Signed(c, "validator_register", 1)
  <2>1. Task[c].kind = "validator" /\ UNCHANGED <<chain, batch, activity, paid>>
    BY <1>6 DEF SubmitRegister, At
  <2>2. tx \in Offer /\ tx.by = c
    <3>. DEFINE a == 1
                y == "validator_register"
    <3>1. a \in Int /\ y \in Types /\ y # "transfer" /\ tx = Signed(c, y, a)
      BY DEF Types
    <3>. HIDE DEF a, y, tx
    <3>. QED
      BY <3>1, SignedIs
  <2>3. ~Payment(tx)
    BY <2>1, <2>2 DEF Payment
  <2>4. CASE Admits(tx)
    <3>1. Enqueue(tx) /\ Ends(c, "done")
      BY <1>6, <2>4 DEF SubmitRegister
    <3>. HIDE DEF tx
    <3>2. PICK k \in ClientRecord : Becomes(c, k) /\ \A state, pool : Reads(state, pool, c, k)
      BY <1>3, <3>1, EndsIs
    <3>3. Reads(chain, mempool, c, k)
      BY <3>2
    <3>. QED
      BY <2>1, <2>2, <2>3, <2>4, <3>1, <3>2, <3>3, SubmitKeeps
  <2>5. CASE ~Admits(tx)
    <3>1. Ends(c, "failed") /\ UNCHANGED mempool
      BY <1>6, <2>5 DEF SubmitRegister
    <3>. HIDE DEF tx
    <3>. QED
      BY <1>1, <1>4, <2>1, <3>1
  <2>. QED
    BY <2>4, <2>5
<1>7. CASE WriteActivity(c)
  <2>1. Ends(c, "done") /\ UNCHANGED <<chain, mempool, batch, paid>>
        /\ activity' = WithItem(r.log, <<c, r.tries>>)
    BY <1>7 DEF WriteActivity
  <2>2. activity' \in Seq(Entry)
    <3>. DEFINE log == r.log
                item == <<c, r.tries>>
    <3>1. log \in Seq(Entry) /\ item \in Entry
      BY <1>2 DEF Entry
    <3>. HIDE DEF log, item
    <3>2. WithItem(log, item) \in Seq(Entry)
      BY <3>1, LogIs
    <3>. QED
      BY <2>1, <3>2 DEF log, item
  <2>. QED
    BY <1>4, <2>1, <2>2
<1>. QED
  BY <1>5, <1>6, <1>7

\* qtx_submitTransaction of whoever has a signature.
LEMMA SubmitStep ==
  ASSUME IInv, NEW c \in Clients, Submit(c)
  PROVE  IInv'
<1>. DEFINE r == client[c]
            tx == Signed(c, Task[c].type, Task[c].amount)
<1>1. /\ r \in ClientRecord /\ activity \in Seq(Entry) /\ chain \in ChainState
      /\ mempool \in Seq(Offer) /\ Reads(chain, mempool, c, r)
  BY DEF IInv, Typed, Reading
<1>2. r.nonce \in Int /\ r.steady \in BOOLEAN
  BY <1>1 DEF ClientRecord
<1>3. /\ Task[c].from \in Addresses /\ Task[c].to \in Addresses /\ Task[c].amount \in Nat \ {0}
      /\ Task[c].type \in Types /\ BaseFee \in Int
  BY ClientsAssumption
<1>4. /\ tx \in Offer
      /\ tx.by = c /\ tx.from = Task[c].from /\ tx.to = Task[c].to /\ tx.amount = Task[c].amount
      /\ tx.type = Task[c].type /\ tx.nonce = r.nonce
      /\ Task[c].kind = "faucet" => tx.fee = 0
  <2>. DEFINE a == Task[c].amount
              y == Task[c].type
  <2>1. a \in Int /\ a \in Nat \ {0} /\ y \in Types /\ tx = Signed(c, y, a)
    BY <1>3
  <2>. HIDE DEF a, y, tx
  <2>2. /\ tx \in Offer
        /\ tx.by = c /\ tx.from = Task[c].from /\ tx.to = Task[c].to /\ tx.amount = a
        /\ tx.type = y /\ tx.nonce = r.nonce
        /\ Task[c].kind = "faucet" => tx.fee = 0
    BY <2>1, SignedIs
  <2>. QED
    BY <2>2 DEF a, y
<1>5. r.stage = "signed" /\ UNCHANGED <<chain, batch, activity>>
  BY DEF Submit
<1>6. CASE ~Admits(tx)
  <2>1. Ends(c, "failed") /\ UNCHANGED <<mempool, paid>>
    BY <1>6 DEF Submit
  <2>. HIDE DEF tx
  <2>2. "failed" \in Stages /\ "failed" \notin {"untouched", "chain", "signed"}
    BY DEF Stages
  <2>3. PICK k \in ClientRecord : Becomes(c, k) /\ \A state, pool : Reads(state, pool, c, k)
    BY <2>1, <2>2, EndsIs
  <2>4. Reads(chain, mempool, c, k)
    BY <2>3
  <2>5. activity' \in Seq(Entry)
    BY <1>1, <1>5
  <2>. QED
    BY <1>5, <2>1, <2>3, <2>4, <2>5, MoveKeeps
<1>7. CASE Admits(tx)
  <2>. DEFINE s == IF Task[c].kind = "extension" THEN "sent" ELSE "done"
              entry == [to |-> tx.to, steady |-> r.steady]
  <2>1. /\ Enqueue(tx) /\ Ends(c, s)
        /\ paid' = IF Task[c].kind = "faucet" THEN Append(paid, entry) ELSE paid
    BY <1>7 DEF Submit
  <2>2. s \in Stages /\ s \notin {"untouched", "chain", "signed"}
    BY DEF Stages
  <2>. HIDE DEF s, tx
  <2>3. PICK k \in ClientRecord : Becomes(c, k) /\ \A state, pool : Reads(state, pool, c, k)
    BY <2>1, <2>2, EndsIs
  <2>4. Reads(chain, mempool, c, k)
    BY <2>3
  <2>5. CASE Task[c].kind # "faucet"
    <3>1. ~Payment(tx)
      BY <1>4, <2>5 DEF Payment
    <3>2. paid' = paid
      BY <2>1, <2>5
    <3>. QED
      BY <1>4, <1>5, <1>7, <2>1, <2>3, <2>4, <3>1, <3>2, SubmitKeeps
  <2>6. CASE Task[c].kind = "faucet"
    <3>. DEFINE a == Task[c].from
    <3>1. /\ r.nonce <= chain.accounts[a].nonce + 1
          /\ r.nonce = chain.accounts[a].nonce + 1 => chain.accounts[a].balance >= Task[c].amount + BaseFee
          /\ r.steady => UntouchedIn(chain, Task[c].to)
      BY <1>1, <1>5, <2>6 DEF Reads, FaucetReads
    <3>2. chain.accounts[a].nonce \in Int /\ chain.accounts[a].balance \in Int
      <4>1. chain.accounts[a] \in Account
        BY <1>1, <1>3 DEF ChainState
      <4>. QED
        BY <4>1 DEF Account
    <3>3. /\ tx.nonce > chain.accounts[a].nonce
          /\ \A i \in DOMAIN mempool : mempool[i].from = a => mempool[i].nonce # tx.nonce
      <4>1. Nonces[a] = chain.accounts[a].nonce
        BY <1>3 DEF Nonces
      <4>. QED
        BY <1>4, <1>7, <4>1 DEF Admits, Acceptable
    <3>4. tx.nonce = chain.accounts[a].nonce + 1
      BY <1>2, <1>4, <3>1, <3>2, <3>3
    <3>5. chain.accounts[a].balance >= tx.amount + BaseFee + tx.fee
      <4>1. chain.accounts[a].balance >= Task[c].amount + BaseFee
        BY <1>4, <3>1, <3>4
      <4>2. tx.amount + BaseFee + tx.fee = Task[c].amount + BaseFee
        BY <1>3, <1>4, <2>6
      <4>. QED
        BY <4>1, <4>2
    <3>6. tx.type = "transfer"
      BY <1>4, <2>6, FaucetAssumption
    <3>7. Payment(tx) /\ Payable(chain, tx)
      BY <1>4, <2>6, <3>4, <3>5, <3>6 DEF Payment, Payable, InTurn
    <3>. HIDE DEF a
    <3>8. /\ mempool' \in Seq(Offer) /\ Distinct(mempool')
          /\ ToSet(mempool') = ToSet(mempool) \cup {tx}
          /\ InBatch' /\ Promised'
          /\ \A to : PaidFor(chain, mempool, to) => PaidFor(chain, mempool', to)
          /\ \A d, record : Reads(chain, mempool, d, record) => Reads(chain, mempool', d, record)
      BY <1>4, <1>5, <1>7, <2>1, <3>7, EnqueueKeeps
    <3>9. paid' = Append(paid, entry) /\ entry \in [to : Addresses, steady : BOOLEAN]
          /\ entry.to = Task[c].to /\ entry.steady = r.steady
      BY <1>2, <1>3, <1>4, <2>1, <2>6
    <3>. HIDE DEF entry
    <3>. DEFINE R == [to : Addresses, steady : BOOLEAN]
                n == Len(paid)
    <3>10. /\ paid' \in Seq(R) /\ n \in Nat /\ DOMAIN paid = 1 .. n /\ DOMAIN paid' = 1 .. n + 1
           /\ paid'[n + 1] = entry /\ \A i \in 1 .. n : paid'[i] = paid[i]
      <4>1. paid \in Seq(R) /\ entry \in R
        BY <3>9 DEF IInv, Typed
      <4>. HIDE DEF R
      <4>. QED
        BY <3>9, <4>1
    <3>11. Typed'
      <4>1. client' \in [Clients -> ClientRecord]
        BY <2>3 DEF IInv, Typed, Becomes
      <4>. QED
        BY <1>5, <3>8, <3>10, <4>1 DEF IInv, Typed
    <3>12. Reading'
      <4>1. \A d \in Clients : client'[d] = IF d = c THEN k ELSE client[d]
        BY <2>3 DEF IInv, Typed, Becomes
      <4>2. \A d \in Clients : Reads(chain, mempool, d, client'[d])
        BY <2>4, <4>1 DEF IInv, Reading
      <4>3. \A d \in Clients : Reads(chain', mempool', d, client'[d])
        BY <1>5, <3>8, <4>2
      <4>. QED
        BY <4>3 DEF Reading
    <3>13. PaidFor(chain, mempool', entry.to)
      BY <1>4, <3>7, <3>8, <3>9 DEF PaidFor
    <3>14. \A i \in 1 .. n : PaidFor(chain, mempool, paid[i].to)
      BY <3>10 DEF IInv, Accounted
    <3>15. Accounted'
      <4>1. \A i \in 1 .. n + 1 : PaidFor(chain, mempool', paid'[i].to)
        <5>1. \A i \in 1 .. n + 1 : i \in 1 .. n \/ i = n + 1
          BY <3>10
        <5>. HIDE DEF n
        <5>. QED
          BY <3>8, <3>10, <3>13, <3>14, <5>1
      <4>. QED
        BY <1>5, <3>10, <4>1 DEF Accounted
    <3>16. ASSUME NEW i \in 1 .. n, paid[i].to = entry.to, entry.steady
           PROVE  FALSE
      <4>1. UntouchedIn(chain, entry.to)
        BY <3>1, <3>9, <3>16
      <4>2. PICK p \in ToSet(mempool) : Payment(p) /\ p.to = entry.to
        <5>1. PaidFor(chain, mempool, entry.to)
          BY <3>14, <3>16
        <5>. QED
          BY <4>1, <5>1 DEF PaidFor
      <4>3. Payable(chain, p)
        BY <4>2 DEF IInv, Promised, Promises
      <4>4. p.from = a
        BY <2>6, <4>2, <4>3, FaucetAssumption DEF Payment, Payable, a
      <4>5. p.nonce = tx.nonce
        BY <3>4, <4>3, <4>4 DEF Payable, InTurn
      <4>. QED
        BY <3>3, <4>4, <4>5 DEF ToSet
    <3>17. FundedOnce'
      <4>1. ASSUME NEW i \in 1 .. n + 1, NEW j \in 1 .. n + 1, i < j, paid'[i].to = paid'[j].to
            PROVE  ~paid'[j].steady
        <5>1. CASE j = n + 1
          <6>1. i \in 1 .. n
            BY <3>10, <4>1, <5>1
          <6>. HIDE DEF n
          <6>. QED
            BY <3>10, <3>16, <4>1, <5>1, <6>1
        <5>2. CASE j # n + 1
          <6>1. i \in 1 .. n /\ j \in 1 .. n
            BY <3>10, <4>1, <5>2
          <6>2. \A x, y \in DOMAIN paid : x < y /\ paid[x].to = paid[y].to => ~paid[y].steady
            BY DEF IInv, FundedOnce
          <6>. HIDE DEF n
          <6>. QED
            BY <3>10, <4>1, <6>1, <6>2
        <5>. QED
          BY <5>1, <5>2
      <4>. QED
        BY <3>10, <4>1 DEF FundedOnce
    <3>18. Sound(chain)' /\ Distinct(mempool)'
      BY <1>5, <3>8 DEF IInv, Sound
    <3>. QED
      BY <3>8, <3>11, <3>12, <3>15, <3>17, <3>18 DEF IInv
  <2>. QED
    BY <2>5, <2>6
<1>. QED
  BY <1>6, <1>7

-----------------------------------------------------------------------------
(* Theorems. *)

\* The step lemmas together.
LEMMA NextKeeps == IInv /\ [Next]_vars => IInv'
<1>. SUFFICES ASSUME IInv, [Next]_vars PROVE IInv'
  OBVIOUS
<1>1. CASE StartBlock \/ FinishBlock \/ RoundFails \/ OthersBlock
  BY <1>1, BlockSteps
<1>2. CASE AutoStake \/ AutoRegister
  BY <1>2, NodeSteps
<1>3. CASE \E c \in Clients : Step(c) \/ ReadMempoolFails(c) \/ Again(c)
  <2>1. PICK c \in Clients : Step(c) \/ ReadMempoolFails(c) \/ Again(c)
    BY <1>3
  <2>2. CASE Submit(c)
    BY <2>2, SubmitStep
  <2>3. CASE SubmitStake(c) \/ SubmitRegister(c) \/ WriteActivity(c)
    BY <2>3, SendSteps
  <2>. QED
    BY <2>1, <2>2, <2>3, ReadSteps DEF Step
<1>4. CASE UNCHANGED vars
  BY <1>4 DEF vars, IInv, Typed, Sound, Distinct, InBatch, Promised, Reading, Accounted, FundedOnce
<1>. QED
  BY <1>1, <1>2, <1>3, <1>4 DEF Next

\* What the other theorems rest on: types, what the clients have read, and that
\* the faucet's payments are made or waiting (NextExpectedNonce and route.ts).
THEOREM Invariance == Spec => []IInv
BY InitHolds, NextKeeps, PTL DEF Spec

\* The faucet pays an address once, whatever requests overlap, unless a block
\* comes while one of them is under way (FundedOnce, route.ts).
THEOREM OnePaymentEach == Spec => []FundedOnce
<1>1. IInv => FundedOnce
  BY DEF IInv
<1>. QED
  BY <1>1, Invariance, PTL

\* What the faucet has promised can be paid for as long as it waits
\* (PromiseKept, route.ts).
THEOREM PaymentsAreCovered == Spec => []PromiseKept
<1>1. IInv => PromiseKept
  <2>. SUFFICES ASSUME IInv, NEW i \in DOMAIN mempool, mempool[i].by # "node", Task[mempool[i].by].kind = "faucet"
                PROVE  chain.accounts[mempool[i].from].balance >= mempool[i].amount + BaseFee
    BY DEF PromiseKept
  <2>. DEFINE tx == mempool[i]
  <2>1. mempool \in Seq(Offer) /\ chain \in ChainState
    BY DEF IInv, Typed
  <2>2. tx \in Offer /\ tx \in ToSet(mempool)
    BY <2>1 DEF ToSet
  <2>3. tx.by # "node" /\ Task[tx.by].kind = "faucet"
    OBVIOUS
  <2>. HIDE DEF tx
  <2>4. Payment(tx)
    BY <2>2, <2>3 DEF Payment, Offer
  <2>5. Payable(chain, tx)
    BY <2>2, <2>4 DEF IInv, Promised, Promises
  <2>6. tx.amount + BaseFee + tx.fee = tx.amount + BaseFee
    BY <2>2, <2>5, ClientsAssumption DEF Payable, Offer
  <2>7. chain.accounts[tx.from].balance >= tx.amount + BaseFee
    BY <2>5, <2>6 DEF Payable, InTurn
  <2>. QED
    BY <2>7 DEF tx
<1>. QED
  BY <1>1, Invariance, PTL

\* No log is longer than its limit, nor what a view has read of it.
LogsFit ==
  /\ Len(activity) <= LogLimit
  /\ \A c \in Clients : Len(client[c].log) <= LogLimit

\* What a step does to the log.
LogStep ==
  \A entry \in ToSet(activity) \ ToSet(activity') :
    \E c \in Clients :
      LET log == client[c].log
      IN  /\ At(c, "extension", "logging")
          /\ ~Contains(log, entry) \/ (Len(log) = LogLimit /\ log[LogLimit] = entry)

\* A view that logs puts its entry before those that it had read.
LEMMA LoggingStep ==
  ASSUME IInv, LogsFit, NEW c \in Clients, WriteActivity(c)
  PROVE  LogStep /\ Len(activity') <= LogLimit
<1>. DEFINE log == client[c].log
            item == <<c, client[c].tries>>
            new == WithItem(log, item)
<1>1. At(c, "extension", "logging") /\ activity' = new
  BY DEF WriteActivity
<1>2. log \in Seq(Entry) /\ item \in Entry
  BY DEF IInv, Typed, ClientRecord, Entry
<1>3. Len(log) <= LogLimit
  BY DEF LogsFit
<1>. HIDE DEF log, item
<1>4. /\ Len(new) <= LogLimit
      /\ \A entry \in ToSet(log) \ ToSet(new) : Len(log) = LogLimit /\ log[LogLimit] = entry
  BY <1>2, <1>3, LogIs
<1>. HIDE DEF new
<1>5. \A entry : Contains(log, entry) <=> entry \in ToSet(log)
  <2>1. DOMAIN log = 1 .. Len(log)
    BY <1>2
  <2>. QED
    BY <2>1 DEF Contains, ToSet
<1>6. ASSUME NEW entry \in ToSet(activity) \ ToSet(activity')
      PROVE  ~Contains(log, entry) \/ (Len(log) = LogLimit /\ log[LogLimit] = entry)
  BY <1>1, <1>4, <1>5, <1>6
<1>. QED
  BY <1>1, <1>4, <1>6 DEF LogStep, log

\* A view has read nothing, or what the log was when it read it.
LEMMA ClientLog ==
  ASSUME client \in [Clients -> ClientRecord], [Next]_vars, NEW c \in Clients
  PROVE  client'[c].log \in {client[c].log, <<>>, activity}
<1>1. ASSUME NEW d \in Clients, NEW k, Becomes(d, k), k.log \in {client[d].log, <<>>, activity}
      PROVE  client'[c].log \in {client[c].log, <<>>, activity}
  <2>1. client' = [client EXCEPT ![d] = k]
    BY <1>1 DEF Becomes
  <2>2. CASE c = d
    BY <1>1, <2>1, <2>2
  <2>3. CASE c # d
    BY <2>1, <2>3
  <2>. QED
    BY <2>2, <2>3
<1>2. ASSUME NEW d \in Clients, Step(d) \/ ReadMempoolFails(d) \/ Again(d)
      PROVE  \E k : Becomes(d, k) /\ k.log \in {client[d].log, <<>>, activity}
  <2>. DEFINE r == client[d]
  <2>0. r \in ClientRecord
    OBVIOUS
  <2>. HIDE DEF r
  <2>1. ASSUME NEW k, Becomes(d, k), k.log \in {r.log, <<>>, activity}
        PROVE  \E q : Becomes(d, q) /\ q.log \in {client[d].log, <<>>, activity}
    BY <2>1 DEF r
  <2>2. ASSUME NEW s, NEW n, NEW k,
               \/ k = [r EXCEPT !.stage = s]
               \/ k = [r EXCEPT !.stage = s, !.nonce = n]
               \/ k = [r EXCEPT !.stage = s, !.steady = n]
               \/ k = [r EXCEPT !.stage = s, !.shown = n]
        PROVE  k.log = r.log
    BY <2>0, <2>2 DEF ClientRecord
  <2>4. ASSUME NEW s, NEW n, NEW t, NEW k,
               k = [Ready EXCEPT !.stage = s, !.nonce = n, !.tries = t] \/ k = [Ready EXCEPT !.tries = t]
        PROVE  k.log = <<>>
    BY <2>4 DEF Ready
  <2>5. ASSUME NEW k, k = [r EXCEPT !.stage = "logging", !.log = activity]
        PROVE  k.log = activity
    BY <2>0, <2>5 DEF ClientRecord
  <2>6. CASE \E s : Ends(d, s)
    <3>1. PICK s : Ends(d, s)
      BY <2>6
    <3>. DEFINE k == [Ready EXCEPT !.stage = s, !.nonce = client[d].nonce, !.tries = client[d].tries]
    <3>2. Becomes(d, k)
      BY <3>1 DEF Ends
    <3>3. k.log = <<>>
      BY DEF Ready
    <3>. HIDE DEF k
    <3>. QED
      BY <2>1, <3>2, <3>3
  <2>7. CASE Submit(d) \/ WriteActivity(d) \/ SubmitRegister(d)
    BY <2>6, <2>7 DEF Submit, WriteActivity, SubmitRegister
  <2>8. CASE SubmitStake(d)
    <3>1. (\E s : Ends(d, s)) \/ Becomes(d, [r EXCEPT !.stage = "register", !.nonce = r.nonce + 1])
      BY <2>8 DEF SubmitStake, r
    <3>. DEFINE k == [r EXCEPT !.stage = "register", !.nonce = r.nonce + 1]
    <3>2. k.log = r.log
      BY <2>2
    <3>. HIDE DEF k
    <3>3. (\E s : Ends(d, s)) \/ Becomes(d, k)
      BY <3>1 DEF k
    <3>. QED
      BY <2>1, <2>6, <3>2, <3>3
  <2>9. CASE Again(d)
    BY <2>1, <2>4, <2>9 DEF Again
  <2>10. CASE ReadActivity(d)
    <3>1. Becomes(d, [r EXCEPT !.stage = "logging", !.log = activity])
      BY <2>10 DEF ReadActivity, r
    <3>. QED
      BY <2>1, <2>5, <3>1
  <2>11. CASE \E s : Goes(d, s)
    <3>1. PICK s : Becomes(d, [r EXCEPT !.stage = s])
      BY <2>11 DEF Goes, r
    <3>. DEFINE k == [r EXCEPT !.stage = s]
    <3>2. k.log = r.log
      BY <2>2
    <3>3. Becomes(d, k)
      BY <3>1
    <3>. HIDE DEF k
    <3>. QED
      BY <2>1, <3>2, <3>3
  <2>12. CASE \E s, n : \/ Becomes(d, [r EXCEPT !.stage = s, !.nonce = n])
                        \/ Becomes(d, [r EXCEPT !.stage = s, !.steady = n])
                        \/ Becomes(d, [r EXCEPT !.stage = s, !.shown = n])
    <3>1. PICK s, n : \/ Becomes(d, [r EXCEPT !.stage = s, !.nonce = n])
                      \/ Becomes(d, [r EXCEPT !.stage = s, !.steady = n])
                      \/ Becomes(d, [r EXCEPT !.stage = s, !.shown = n])
      BY <2>12
    <3>2. PICK k : /\ Becomes(d, k)
                   /\ \/ k = [r EXCEPT !.stage = s, !.nonce = n]
                      \/ k = [r EXCEPT !.stage = s, !.steady = n]
                      \/ k = [r EXCEPT !.stage = s, !.shown = n]
      BY <3>1
    <3>3. k.log = r.log
      BY <2>0, <3>2 DEF ClientRecord
    <3>. QED
      BY <2>1, <3>2, <3>3
  <2>13. CASE \E s, n, p, t : \/ Becomes(d, [r EXCEPT !.stage = s, !.nonce = n, !.pending = p, !.tries = t])
                              \/ Becomes(d, [r EXCEPT !.stage = s, !.nonce = n, !.stake = p, !.tries = t])
                              \/ Becomes(d, [r EXCEPT !.stage = s, !.nonce = n, !.tries = t])
    <3>1. PICK s, n, p, t : \/ Becomes(d, [r EXCEPT !.stage = s, !.nonce = n, !.pending = p, !.tries = t])
                            \/ Becomes(d, [r EXCEPT !.stage = s, !.nonce = n, !.stake = p, !.tries = t])
                            \/ Becomes(d, [r EXCEPT !.stage = s, !.nonce = n, !.tries = t])
      BY <2>13
    <3>2. PICK k : /\ Becomes(d, k)
                   /\ \/ k = [r EXCEPT !.stage = s, !.nonce = n, !.pending = p, !.tries = t]
                      \/ k = [r EXCEPT !.stage = s, !.nonce = n, !.stake = p, !.tries = t]
                      \/ k = [r EXCEPT !.stage = s, !.nonce = n, !.tries = t]
      BY <3>1
    <3>3. k.log = r.log
      BY <2>0, <3>2 DEF ClientRecord
    <3>. QED
      BY <2>1, <3>2, <3>3
  <2>14. CASE ReadRecipient(d)
    BY <2>11, <2>14 DEF ReadRecipient
  <2>15. CASE ReadFunder(d)
    <3>1. Goes(d, "failed") \/ Becomes(d, [r EXCEPT !.stage = "signed", !.nonce = NextNonce(Task[d].from)])
      BY <2>15 DEF ReadFunder, r
    <3>. QED
      BY <2>11, <2>12, <3>1
  <2>16. CASE ReadMempool(d)
    <3>1. Becomes(d, [r EXCEPT !.stage = "signed", !.nonce = AfterPending(r.nonce, Task[d].from)])
      BY <2>16 DEF ReadMempool, r
    <3>. QED
      BY <2>12, <3>1
  <2>17. CASE ReadMempoolFails(d)
    <3>1. Becomes(d, [r EXCEPT !.stage = "signed", !.steady = FALSE])
      BY <2>17 DEF ReadMempoolFails, r
    <3>. QED
      BY <2>12, <3>1
  <2>18. CASE Refresh(d)
    <3>1. Becomes(d, [r EXCEPT !.stage = "shown", !.shown = chain.accounts[Task[d].from].balance])
      BY <2>18 DEF Refresh, r
    <3>. QED
      BY <2>12, <3>1
  <2>19. CASE ReadBalance(d)
    <3>1. Becomes(d, [r EXCEPT !.stage = IF Task[d].kind = "sdk" THEN "signed" ELSE "chain",
                               !.nonce = NextNonce(Task[d].from), !.pending = Waiting(Task[d].from),
                               !.tries = r.tries + 1])
      BY <2>19 DEF ReadBalance, r
    <3>. QED
      BY <2>13, <3>1
  <2>20. CASE ReadStake(d)
    <3>. DEFINE account == chain.accounts[Task[d].from]
                additional == Max({0, Task[d].amount - account.staked})
    <3>1. Becomes(d, [r EXCEPT !.stage = IF additional > 0 THEN "stake" ELSE "register",
                               !.nonce = account.nonce + 1, !.stake = additional, !.tries = r.tries + 1])
      BY <2>20 DEF ReadStake, r
    <3>. QED
      BY <2>13, <3>1
  <2>21. CASE UsePanel(d)
    <3>. DEFINE short == Task[d].type = "transfer" /\ r.shown < Task[d].amount + Fee(d)
    <3>1. Becomes(d, [r EXCEPT !.stage = IF short THEN "failed" ELSE "signed",
                               !.nonce = NextNonce(Task[d].from), !.tries = r.tries + 1])
      BY <2>21 DEF UsePanel, r
    <3>. QED
      BY <2>13, <3>1
  <2>. QED
    BY <1>2, <2>7, <2>8, <2>9, <2>10, <2>14, <2>15, <2>16, <2>17, <2>18, <2>19, <2>20, <2>21 DEF Step
<1>3. ASSUME \E d \in Clients : Step(d) \/ ReadMempoolFails(d) \/ Again(d)
      PROVE  client'[c].log \in {client[c].log, <<>>, activity}
  <2>1. PICK d \in Clients : Step(d) \/ ReadMempoolFails(d) \/ Again(d)
    BY <1>3
  <2>2. PICK k : Becomes(d, k) /\ k.log \in {client[d].log, <<>>, activity}
    BY <1>2, <2>1
  <2>. QED
    BY <1>1, <2>2
<1>4. CASE FinishBlock \/ OthersBlock
  <2>1. client' = Unsettled
    BY <1>4 DEF FinishBlock, OthersBlock, Block
  <2>2. \A r \in ClientRecord : \A b : [r EXCEPT !.steady = b].log = r.log
    BY DEF ClientRecord
  <2>. QED
    BY <2>1, <2>2 DEF Unsettled
<1>5. CASE StartBlock \/ RoundFails \/ AutoStake \/ AutoRegister \/ UNCHANGED vars
  BY <1>5 DEF StartBlock, RoundFails, AutoStake, AutoRegister, vars
<1>. QED
  BY <1>3, <1>4, <1>5 DEF Next

\* Every other step leaves the log alone, and what a view reads of it is the log.
LEMMA LogNext ==
  ASSUME IInv, LogsFit, [Next]_vars
  PROVE  LogStep /\ LogsFit'
<1>0. client \in [Clients -> ClientRecord] /\ LogLimit \in Nat \ {0}
  BY ClientsAssumption DEF IInv, Typed
<1>1. \/ activity' = activity
      \/ \E c \in Clients : WriteActivity(c)
  BY DEF vars, Next, Step, StartBlock, FinishBlock, RoundFails, OthersBlock, AutoStake, AutoRegister,
         ReadRecipient, ReadFunder, ReadBalance, ReadMempool, ReadMempoolFails, Refresh, UsePanel, Submit,
         ReadActivity, ReadStake, SubmitStake, SubmitRegister, Again
<1>2. LogStep /\ Len(activity') <= LogLimit
  BY <1>1, LoggingStep DEF LogStep, LogsFit
<1>3. ASSUME NEW c \in Clients
      PROVE  Len(client'[c].log) <= LogLimit
  <2>1. client'[c].log \in {client[c].log, <<>>, activity}
    BY <1>0, ClientLog
  <2>2. Len(<<>>) = 0
    OBVIOUS
  <2>. QED
    BY <1>0, <2>1, <2>2 DEF LogsFit
<1>. QED
  BY <1>2, <1>3 DEF LogsFit

\* A view of the extension forgets only what was logged after it read the log,
\* or the oldest entry of a log that was full (ActivityKept, appendActivity).
THEOREM LogsAreMerged == Spec => ActivityKept
<1>1. Init => LogsFit
  <2>. SUFFICES ASSUME Init PROVE LogsFit
    OBVIOUS
  <2>1. PICK party \in Parties : client = [c \in Clients |-> [Ready EXCEPT !.stage = IF c \in party THEN "ready" ELSE "absent"]]
    BY DEF Init
  <2>2. \A c \in Clients : client[c].log = <<>>
    BY <2>1 DEF Ready
  <2>3. activity = <<>>
    BY DEF Init
  <2>4. Len(<<>>) = 0 /\ LogLimit \in Nat
    BY ClientsAssumption
  <2>. QED
    BY <2>2, <2>3, <2>4 DEF LogsFit
<1>2. IInv /\ LogsFit /\ [Next]_vars => LogsFit' /\ [LogStep]_vars
  BY LogNext
<1>. QED
  BY <1>1, <1>2, Invariance, PTL DEF Spec, ActivityKept, LogStep

\* After what waits without a gap comes the nonce that the node expects.
LEMMA NextAfterPending ==
  ASSUME NEW pool \in Seq(Offer), Distinct(pool), NEW a \in Addresses, NEW nonces \in [Addresses -> Int],
         NEW W, W = WaitingIn(pool, a), W = (nonces[a] + 1) .. (nonces[a] + Cardinality(W)),
         NEW tx \in Offer, tx.from = a, tx.nonce = Latest(nonces[a] + 1, W)
  PROVE  Acceptable(nonces, pool, tx)
<1>. DEFINE n == nonces[a]
            m == n + 1
            k == Cardinality(W)
            P == Pending(pool, a)
<1>1. W \in SUBSET Int /\ IsFiniteSet(W) /\ IsFiniteSet(P) /\ k = Cardinality(P)
  BY WaitingIs
<1>2. k \in Nat
  BY <1>1, FS_CardinalityType
<1>3. n \in Int /\ m \in Int /\ m = n + 1
  OBVIOUS
<1>4. W = m .. (n + k)
  OBVIOUS
<1>5. tx.nonce = Latest(m, W)
  OBVIOUS
<1>. HIDE DEF n, m, k, P
<1>. DEFINE latest == tx.nonce
<1>6. latest = Latest(m, W)
  BY <1>5
<1>. HIDE DEF latest
<1>7. latest \in {m} \cup {w + 1 : w \in W} /\ latest \in Int /\ latest >= m /\ \A w \in W : latest >= w + 1
  BY <1>1, <1>3, <1>6, LatestIs
<1>8. latest = n + k + 1
  <2>1. CASE k = 0
    <3>1. W = {}
      BY <1>2, <1>3, <1>4, <2>1
    <3>. QED
      BY <1>3, <1>7, <2>1, <3>1
  <2>2. CASE k # 0
    <3>1. n + k \in W
      BY <1>2, <1>3, <1>4, <2>2
    <3>2. \A w \in W : w <= n + k /\ w \in Int
      BY <1>2, <1>3, <1>4
    <3>3. latest >= n + k + 1
      BY <1>7, <3>1
    <3>4. latest <= n + k + 1
      BY <1>2, <1>3, <1>7, <2>2, <3>2
    <3>. QED
      BY <1>2, <1>3, <1>7, <3>3, <3>4
  <2>. QED
    BY <2>1, <2>2
<1>9. tx.nonce > nonces[a]
  BY <1>2, <1>3, <1>7, <1>8 DEF latest, n
<1>10. \A i \in DOMAIN pool : pool[i].from = a => pool[i].nonce # tx.nonce
  <2>1. \A i \in DOMAIN pool : pool[i].from = a => pool[i].nonce \in W
    BY DEF WaitingIn, Pending
  <2>2. \A w \in W : w # latest
    BY <1>1, <1>7
  <2>. QED
    BY <2>1, <2>2 DEF latest
<1>11. tx.nonce = NextExpectedNonce(nonces, pool, a)
  BY <1>1, <1>8 DEF NextExpectedNonce, latest, n, P
<1>. QED
  BY <1>9, <1>10, <1>11 DEF Acceptable

\* What the extension sends is refused only if a block came or the mempool
\* changed since it began, or what waits has a gap (SendsInTurn, sendTransferTx).
THEOREM ExtensionIsInTurn == Spec => SendsInTurn
<1>. DEFINE Excused(c) == ~client[c].steady \/ Waiting(Task[c].from) # client[c].pending \/ Gap(Task[c].from)
            Refused(c) == At(c, "extension", "signed") /\ client'[c].stage = "failed"
<1>1. ASSUME IInv, NEW c \in Clients, Submit(c), Task[c].kind = "extension", client'[c].stage = "failed"
      PROVE  Excused(c)
  <2>. DEFINE r == client[c]
              tx == Signed(c, Task[c].type, Task[c].amount)
              a == Task[c].from
  <2>. SUFFICES ASSUME r.steady, Waiting(a) = r.pending, ~Gap(a)
                PROVE  FALSE
    OBVIOUS
  <2>1. /\ r \in ClientRecord /\ chain \in ChainState /\ client \in [Clients -> ClientRecord]
        /\ mempool \in Seq(Offer) /\ Reads(chain, mempool, c, r) /\ Distinct(mempool)
    BY <1>1 DEF IInv, Typed, Reading
  <2>2. /\ Task[c].from \in Addresses /\ Task[c].amount \in Nat \ {0} /\ Task[c].type \in Types
    BY ClientsAssumption
  <2>3. tx \in Offer /\ tx.from = a /\ tx.nonce = r.nonce
    <3>. DEFINE m == Task[c].amount
                y == Task[c].type
    <3>1. m \in Int /\ m \in Nat \ {0} /\ y \in Types /\ tx = Signed(c, y, m)
      BY <2>2
    <3>. HIDE DEF m, y, tx
    <3>. QED
      BY <1>1, <3>1, SignedIs
  <2>4. r.stage = "signed"
    BY <1>1 DEF Submit
  <2>5. PICK seen \in SUBSET WaitingIn(mempool, a) :
          r.pending \subseteq seen /\ r.nonce = Latest(chain.accounts[a].nonce + 1, seen)
    BY <1>1, <2>1, <2>4 DEF Reads, ExtensionReads
  <2>6. Waiting(a) = WaitingIn(mempool, a)
    BY DEF Waiting, WaitingIn
  <2>7. seen = WaitingIn(mempool, a)
    BY <2>5, <2>6
  <2>8. Nonces \in [Addresses -> Int] /\ Nonces[a] = chain.accounts[a].nonce
    BY <2>1, <2>2 DEF Nonces, ChainState, Account
  <2>. DEFINE W == Waiting(a)
  <2>9. W = WaitingIn(mempool, a) /\ W = (Nonces[a] + 1) .. (Nonces[a] + Cardinality(W))
    BY <2>6 DEF Gap
  <2>10. tx.nonce = Latest(Nonces[a] + 1, W)
    BY <2>3, <2>5, <2>7, <2>8, <2>9
  <2>. HIDE DEF W
  <2>11. a \in Addresses
    BY <2>2
  <2>12. Admits(tx)
    <3>. HIDE DEF tx, a
    <3>1. Acceptable(Nonces, mempool, tx)
      BY <2>1, <2>3, <2>8, <2>9, <2>10, <2>11, NextAfterPending
    <3>. QED
      BY <3>1 DEF Admits
  <2>13. Ends(c, "sent")
    BY <1>1, <2>12 DEF Submit
  <2>14. "sent" \in Stages /\ "sent" \notin {"untouched", "chain", "signed"}
    BY DEF Stages
  <2>15. PICK k \in ClientRecord : Becomes(c, k) /\ k.stage = "sent"
    BY <1>1, <2>13, <2>14, EndsIs
  <2>16. client'[c].stage = "sent"
    BY <2>1, <2>15 DEF Becomes
  <2>. QED
    BY <1>1, <2>16
<1>2. ASSUME IInv, Next, NEW c \in Clients, Refused(c)
      PROVE  Excused(c)
  <2>. HIDE DEF Excused
  <2>1. client[c].stage = "signed" /\ Task[c].kind = "extension" /\ client'[c].stage = "failed"
    BY <1>2 DEF At
  <2>2. client \in [Clients -> ClientRecord]
    BY <1>2 DEF IInv, Typed
  <2>3. CASE client'[c] = client[c]
    BY <2>1, <2>3
  <2>4. CASE StartBlock \/ RoundFails \/ AutoStake \/ AutoRegister
    BY <2>3, <2>4 DEF StartBlock, RoundFails, AutoStake, AutoRegister
  <2>5. CASE FinishBlock \/ OthersBlock
    <3>1. client' = Unsettled
      BY <2>5 DEF FinishBlock, OthersBlock, Block
    <3>2. client'[c].stage = client[c].stage
      <4>. DEFINE steady == client[c].steady /\ client[c].stage \notin {"untouched", "chain", "signed"}
                  r == client[c]
      <4>1. client'[c] = [r EXCEPT !.steady = steady] /\ r \in ClientRecord
        BY <2>2, <3>1 DEF Unsettled
      <4>. HIDE DEF steady, r
      <4>2. [r EXCEPT !.steady = steady].stage = r.stage
        BY <4>1 DEF ClientRecord
      <4>. QED
        BY <4>1, <4>2 DEF r
    <3>. QED
      BY <2>1, <3>2
  <2>6. CASE \E d \in Clients : Step(d) \/ ReadMempoolFails(d) \/ Again(d)
    <3>1. PICK d \in Clients : Step(d) \/ ReadMempoolFails(d) \/ Again(d)
      BY <2>6
    <3>2. CASE d # c
      <4>1. \A record : Becomes(d, record) => client'[c] = client[c]
        BY <2>2, <3>2 DEF Becomes
      <4>2. (\E record : Becomes(d, record)) \/ client' = client
        BY <3>1 DEF Step, ReadMempoolFails, Again, ReadRecipient, ReadFunder, ReadBalance, ReadMempool, Refresh,
             UsePanel, Submit, ReadActivity, WriteActivity, ReadStake, SubmitStake, SubmitRegister, Goes, Ends
      <4>. QED
        BY <2>3, <4>1, <4>2
    <3>3. CASE d = c
      <4>1. Submit(c)
        BY <2>1, <3>1, <3>3
           DEF Step, ReadMempoolFails, Again, ReadRecipient, ReadFunder, ReadBalance, ReadMempool, Refresh,
               UsePanel, ReadActivity, WriteActivity, ReadStake, SubmitStake, SubmitRegister, At
      <4>. QED
        BY <1>1, <1>2, <2>1, <4>1
    <3>. QED
      BY <3>2, <3>3
  <2>. QED
    BY <1>2, <2>4, <2>5, <2>6 DEF Next
<1>3. IInv /\ [Next]_vars => [\A c \in Clients : Refused(c) => Excused(c)]_vars
  <2>. HIDE DEF Refused, Excused
  <2>. QED
    BY <1>2
<1>4. [][\A c \in Clients : Refused(c) => Excused(c)]_vars => SendsInTurn
  BY PTL DEF SendsInTurn
<1>. QED
  BY <1>3, <1>4, Invariance, PTL DEF Spec

=============================================================================
