-------------------------- MODULE ContractsProofs --------------------------
(***************************************************************************)
(* What holds of one contract's token and receipts for any users, codes,   *)
(* amounts and numbers of calls, and what a qtx-v1 program may cost and    *)
(* return whatever its instructions, arguments and storage are.            *)
(***************************************************************************)
EXTENDS Contracts, FiniteTheorems, TLAPS

\* A sum of balances is a number and changes by what one balance changes.
LEMMA BalancesSum ==
  ASSUME NEW bal \in [Users -> Int]
  PROVE  /\ SumFunction(bal) \in Int
         /\ \A a \in Users, v \in Int :
              /\ [bal EXCEPT ![a] = v] \in [Users -> Int]
              /\ SumFunction([bal EXCEPT ![a] = v]) = SumFunction(bal) + v - bal[a]
<1>1. SumFunction(bal) = SumFunctionOnSet(bal, Users)
  BY DEF SumFunction
<1>2. SumFunctionOnSet(bal, Users) \in Int
  BY UserAssumption, SumIsInt
<1>3. ASSUME NEW a \in Users, NEW v \in Int
      PROVE  /\ [bal EXCEPT ![a] = v] \in [Users -> Int]
             /\ SumFunction([bal EXCEPT ![a] = v]) = SumFunction(bal) + v - bal[a]
  BY ZenonT(30), UserAssumption, SumOfUpdated
<1>. QED
  BY <1>1, <1>2, <1>3

USE NobodyAssumption, CallAssumption

\* Who sent it, and its nonce.
Transactions == Users \X (1 .. MaxNonce)

\* The receipts, and the transactions they are about; a block can only contain
\* again what was applied.
Receipts ==
  /\ nonce \in [Users -> 0 .. MaxNonce]
  /\ receipts \in [Transactions -> Receipt]
  /\ completed \subseteq Transactions
  /\ reincluded \subseteq Transactions
  /\ \A u \in Users, n \in 1 .. MaxNonce : <<u, n>> \in reincluded => n <= nonce[u]
  /\ ReceiptTruth

\* The token, and what was approved and spent of it.
Allowances ==
  /\ token \in TokenRecord
  /\ approved \in [Users -> [Users -> Int]]
  /\ spent \in [Users -> [Users -> Int]]
  /\ AllowanceRespected

\* The inductive invariant of the receipts and the token; ProgramInv below is
\* that of the programs.
IInv == Receipts /\ Allowances

-----------------------------------------------------------------------------
(* The token's methods. *)

\* Nobody who has less than nothing has less than before.
NoDeeper(t, s) == \A a \in Users : s.bal[a] < 0 => s.bal[a] >= t.bal[a]

\* A method that neither initialises the token nor concerns its allowances.
Ordinary(t, s) ==
  /\ s \in TokenRecord
  /\ s.allow = t.allow
  /\ s.initialized = t.initialized
  /\ NoDeeper(t, s)

LEMMA SameIsOrdinary == ASSUME NEW t \in TokenRecord PROVE Ordinary(t, t)
  BY DEF Ordinary, NoDeeper, TokenRecord

LEMMA MovedIsOrdinary ==
  ASSUME NEW t \in TokenRecord, NEW from \in Users, NEW to \in Users, NEW amount \in Int,
         amount > 0, t.bal[from] >= amount
  PROVE  Ordinary(t, Moved(t, from, to, amount)) /\ Moved(t, from, to, amount).owner = t.owner
         /\ Moved(t, from, to, amount).supply = t.supply
<1> DEFINE bal == [t.bal EXCEPT ![from] = t.bal[from] - amount, ![to] = t.bal[to] + amount]
           s == Moved(t, from, to, amount)
<1>1. t.bal \in [Users -> Int]
  BY DEF TokenRecord
<1>2. bal \in [Users -> Int] /\ \A a \in Users : bal[a] < 0 => bal[a] >= t.bal[a]
  BY <1>1
<1>3. s = [t EXCEPT !.bal = bal]
  BY DEF Moved
<1> HIDE DEF bal, s
<1>4. /\ s \in TokenRecord /\ s.bal = bal /\ s.allow = t.allow /\ s.initialized = t.initialized
      /\ s.owner = t.owner /\ s.supply = t.supply
  BY <1>2, <1>3 DEF TokenRecord
<1> QED
  BY <1>2, <1>4 DEF Ordinary, NoDeeper, s

LEMMA TransferIsOrdinary ==
  ASSUME NEW t \in TokenRecord, NEW u \in Users, NEW to \in Users, NEW amount \in Int,
         NEW s, s = TokenTransfer(t, u, to, amount).token
  PROVE  Ordinary(t, s) /\ s.owner = t.owner /\ s.supply = t.supply
<1>1. CASE amount <= 0 \/ t.bal[u] < amount
  BY <1>1, SameIsOrdinary DEF TokenTransfer, Rejected, Outcome
<1>2. CASE ~(amount <= 0 \/ t.bal[u] < amount)
  <2>1. s = Moved(t, u, to, amount)
    BY <1>2 DEF TokenTransfer, Outcome
  <2>2. t.bal[u] \in Int
    BY DEF TokenRecord
  <2> QED
    BY <1>2, <2>1, <2>2, MovedIsOrdinary
<1> QED
  BY <1>1, <1>2

LEMMA MintIsOrdinary ==
  ASSUME NEW t \in TokenRecord, NEW deployer, NEW u \in Users, NEW to \in Users, NEW amount \in Int,
         NEW s, s = TokenMint(t, deployer, u, to, amount).token
  PROVE  /\ Ordinary(t, s) /\ s.owner = t.owner
         /\ s.supply <= t.supply \/ TokenOwner(t, deployer) = u
<1> DEFINE no == TokenOwner(t, deployer) # u \/ amount <= 0
           bal == [t.bal EXCEPT ![to] = t.bal[to] + amount]
           supply == t.supply + amount
<1>1. CASE no
  BY <1>1, SameIsOrdinary DEF TokenMint, Rejected, Outcome, TokenRecord
<1>2. CASE ~no
  <2>1. s = [t EXCEPT !.bal = bal, !.supply = supply]
    BY <1>2 DEF TokenMint, Outcome
  <2>2. t.bal \in [Users -> Int] /\ supply \in Int
    BY DEF TokenRecord
  <2>3. bal \in [Users -> Int] /\ \A a \in Users : bal[a] < 0 => bal[a] >= t.bal[a]
    BY <1>2, <2>2
  <2> HIDE DEF bal, supply, no
  <2>4. s \in TokenRecord /\ s.bal = bal /\ s.allow = t.allow /\ s.initialized = t.initialized /\ s.owner = t.owner
    BY <2>1, <2>2, <2>3 DEF TokenRecord
  <2> QED
    BY <1>2, <2>3, <2>4 DEF Ordinary, NoDeeper, no
<1> QED
  BY <1>1, <1>2

LEMMA BurnIsOrdinary ==
  ASSUME NEW t \in TokenRecord, NEW deployer, NEW u \in Users, NEW from \in Users, NEW named \in BOOLEAN,
         NEW amount \in Int, NEW s, s = TokenBurn(t, deployer, u, from, named, amount).token
  PROVE  Ordinary(t, s) /\ s.owner = t.owner /\ s.supply <= t.supply
<1> DEFINE no == \/ from # u /\ TokenOwner(t, deployer) # u
                 \/ named /\ from = u
                 \/ amount <= 0
                 \/ t.bal[from] < amount
           bal == [t.bal EXCEPT ![from] = t.bal[from] - amount]
           supply == t.supply - amount
<1>0. t.bal \in [Users -> Int] /\ t.supply \in Int
  BY DEF TokenRecord
<1>1. CASE no
  <2>1. s = t
    BY <1>1 DEF TokenBurn, Rejected, Outcome
  <2> QED
    BY <1>0, <2>1, SameIsOrdinary
<1>2. CASE ~no
  <2>1. s = [t EXCEPT !.bal = bal, !.supply = supply]
    BY <1>2 DEF TokenBurn, Outcome
  <2>3. bal \in [Users -> Int] /\ \A a \in Users : bal[a] < 0 => bal[a] >= t.bal[a]
    BY <1>0, <1>2
  <2>4. amount > 0
    BY <1>2
  <2>6. supply \in Int /\ supply < t.supply
    BY <1>0, <2>4
  <2> HIDE DEF bal, supply, no
  <2>5. /\ s \in TokenRecord /\ s.bal = bal /\ s.allow = t.allow /\ s.initialized = t.initialized
        /\ s.owner = t.owner /\ s.supply = supply
    BY <2>1, <2>3, <2>6 DEF TokenRecord
  <2> QED
    BY <1>0, <2>3, <2>5, <2>6 DEF Ordinary, NoDeeper
<1> QED
  BY <1>1, <1>2

LEMMA OwnershipIsOrdinary ==
  ASSUME NEW t \in TokenRecord, NEW deployer, NEW u \in Users, NEW newOwner \in Users,
         NEW s, s = TokenTransferOwnership(t, deployer, u, newOwner).token
  PROVE  /\ Ordinary(t, s) /\ s.supply = t.supply
         /\ s.owner # t.owner => TokenOwner(t, deployer) = u
<1>1. CASE TokenOwner(t, deployer) # u
  BY <1>1, SameIsOrdinary DEF TokenTransferOwnership, Rejected, Outcome
<1>2. CASE TokenOwner(t, deployer) = u
  <2>1. s = [t EXCEPT !.owner = newOwner]
    BY <1>2 DEF TokenTransferOwnership, Outcome
  <2>2. s \in TokenRecord /\ s.bal = t.bal /\ s.allow = t.allow /\ s.initialized = t.initialized /\ s.supply = t.supply
    BY <2>1 DEF TokenRecord
  <2> QED
    BY <1>2, <2>2 DEF Ordinary, NoDeeper, TokenRecord
<1> QED
  BY <1>1, <1>2

\* The allowances with another amount for b to spend of a's.
Allowed(allow, a, b, amount) == [allow EXCEPT ![a] = [allow[a] EXCEPT ![b] = amount]]

AllowanceTable == [Users -> [Users -> Int]]

LEMMA AllowedResult ==
  ASSUME NEW allow \in AllowanceTable, NEW u \in Users, NEW v \in Users, NEW amount \in Int
  PROVE  /\ Allowed(allow, u, v, amount) \in AllowanceTable
         /\ Allowed(allow, u, v, amount)[u][v] = amount
         /\ \A a, b \in Users :
              ~(a = u /\ b = v) => Allowed(allow, u, v, amount)[a][b] = allow[a][b]
<1> DEFINE row == [allow[u] EXCEPT ![v] = amount]
<1>1. row \in [Users -> Int] /\ \A b \in Users : row[b] = IF b = v THEN amount ELSE allow[u][b]
  BY DEF AllowanceTable
<1>2. Allowed(allow, u, v, amount) = [allow EXCEPT ![u] = row]
  BY DEF Allowed
<1> HIDE DEF row
<1> QED
  BY <1>1, <1>2 DEF AllowanceTable

LEMMA AllowedHere ==
  ASSUME NEW allow \in AllowanceTable, NEW u \in Users, NEW v \in Users, NEW amount \in Int,
         NEW a \in Users, NEW b \in Users, a = u, b = v
  PROVE  Allowed(allow, u, v, amount)[a][b] = amount
  BY AllowedResult

LEMMA AllowedElsewhere ==
  ASSUME NEW allow \in AllowanceTable, NEW u \in Users, NEW v \in Users, NEW amount \in Int,
         NEW a \in Users, NEW b \in Users, a # u \/ b # v
  PROVE  Allowed(allow, u, v, amount)[a][b] = allow[a][b]
  BY AllowedResult

\* An initialised token is left as it is; another gets its owner and supply.
LEMMA InitResult ==
  ASSUME NEW t \in TokenRecord, NEW owner \in Users, NEW supply \in Int,
         NEW s, s = TokenInit(t, owner, supply).token
  PROVE  /\ s \in TokenRecord /\ s.allow = t.allow
         /\ Initialized(t) => s = t
         /\ ~Initialized(t) => Initialized(s)
<1> DEFINE bal == [t.bal EXCEPT ![owner] = supply]
<1>1. CASE Initialized(t)
  <2>1. s = t
    BY <1>1 DEF TokenInit, Rejected, Outcome
  <2> QED
    BY <1>1, <2>1
<1>2. CASE ~Initialized(t)
  <2>1. s = [t EXCEPT !.initialized = 1, !.owner = owner, !.supply = supply, !.bal = bal]
    BY <1>2 DEF TokenInit, Outcome
  <2>2. bal \in [Users -> Int]
    BY DEF TokenRecord
  <2> HIDE DEF bal
  <2>3. /\ s = [initialized |-> 1, owner |-> owner, supply |-> supply, bal |-> bal, allow |-> t.allow]
        /\ t.allow \in [Users -> [Users -> Int]]
    BY <2>1 DEF TokenRecord
  <2>4. s \in TokenRecord /\ s.allow = t.allow /\ s.initialized = 1
    BY <2>2, <2>3 DEF TokenRecord
  <2> QED
    BY <1>2, <2>4 DEF Initialized
<1> QED
  BY <1>1, <1>2

\* The raw call that writes w names the key.
Names(w, key) == key \in DOMAIN w

\* What a raw write makes of the token: it stays a token, and a number whose key
\* was not written stays what it was.
LEMMA OverwrittenResult ==
  ASSUME NEW t \in TokenRecord, NEW w, NEW s, s = Overwritten(t, w)
  PROVE  /\ s \in TokenRecord
         /\ ~Names(w, <<"initialized">>) => s.initialized = t.initialized
         /\ ~Names(w, <<"owner">>) => s.owner = t.owner
         /\ ~Names(w, <<"supply">>) => s.supply = t.supply
         /\ \A a \in Users : ~Names(w, <<"bal", a>>) => s.bal[a] = t.bal[a]
         /\ \A a, b \in Users : ~Names(w, <<"allow", a, b>>) => s.allow[a][b] = t.allow[a][b]
<1> DEFINE number(key, old) == IF key \in DOMAIN w THEN Number(w[key]) ELSE old
           initialized == number(<<"initialized">>, t.initialized)
           owner == IF <<"owner">> \in DOMAIN w THEN OwnerNamed(w[<<"owner">>]) ELSE t.owner
           supply == number(<<"supply">>, t.supply)
           bal == [a \in Users |-> number(<<"bal", a>>, t.bal[a])]
           allow == [a \in Users |-> [b \in Users |-> number(<<"allow", a, b>>, t.allow[a][b])]]
<1>1. ASSUME NEW key, NEW old \in Int
      PROVE  number(key, old) \in Int /\ (key \notin DOMAIN w => number(key, old) = old)
  BY DEF Number
<1>2. /\ t.initialized \in Int /\ t.supply \in Int /\ t.owner \in Users \cup {Nobody, Stranger}
      /\ \A a \in Users : t.bal[a] \in Int
      /\ \A a, b \in Users : t.allow[a][b] \in Int
  BY DEF TokenRecord
<1>3. s = [initialized |-> initialized, owner |-> owner, supply |-> supply, bal |-> bal, allow |-> allow]
  BY DEF Overwritten
<1>4. owner \in Users \cup {Nobody, Stranger}
  BY <1>2 DEF OwnerNamed
<1> HIDE DEF number
<1>5. initialized \in Int /\ supply \in Int
  BY <1>1, <1>2
<1>6. bal \in [Users -> Int] /\ allow \in [Users -> [Users -> Int]]
  BY <1>1, <1>2
<1>7. /\ \A a \in Users : <<"bal", a>> \notin DOMAIN w => bal[a] = t.bal[a]
      /\ \A a, b \in Users : <<"allow", a, b>> \notin DOMAIN w => allow[a][b] = t.allow[a][b]
  BY <1>1, <1>2
<1>8. /\ <<"initialized">> \notin DOMAIN w => initialized = t.initialized
      /\ <<"owner">> \notin DOMAIN w => owner = t.owner
      /\ <<"supply">> \notin DOMAIN w => supply = t.supply
  BY <1>1, <1>2
<1> HIDE DEF initialized, owner, supply, bal, allow
<1> QED
  BY <1>3, <1>4, <1>5, <1>6, <1>7, <1>8 DEF TokenRecord, Names

\* What was approved to u is reduced by what u moves.
LEMMA TransferFromResult ==
  ASSUME NEW t \in TokenRecord, NEW u \in Users, NEW from \in Users, NEW to \in Users, NEW amount \in Int,
         NEW o, o = TokenTransferFrom(t, u, from, to, amount)
  PROVE  /\ o.token \in TokenRecord
         /\ o.token.initialized = t.initialized /\ o.token.owner = t.owner /\ o.token.supply = t.supply
         /\ NoDeeper(t, o.token)
         /\ ~o.done => o.token.allow = t.allow
         /\ o.done => /\ 0 < amount /\ amount <= t.allow[from][u]
                      /\ o.token.allow = Allowed(t.allow, from, u, t.allow[from][u] - amount)
<1> DEFINE no == amount <= 0 \/ t.allow[from][u] < amount \/ t.bal[from] < amount
           moved == Moved(t, from, to, amount)
           allow == Allowed(t.allow, from, u, t.allow[from][u] - amount)
<1>0. t.bal[from] \in Int /\ t.allow \in [Users -> [Users -> Int]] /\ t.allow[from][u] \in Int
  BY DEF TokenRecord
<1>1. CASE no
  <2>1. o.token = t /\ o.done = FALSE
    BY <1>1 DEF TokenTransferFrom, Rejected, Outcome
  <2> QED
    BY <2>1, SameIsOrdinary DEF Ordinary
<1>2. CASE ~no
  <2>1. o.token = [moved EXCEPT !.allow = allow] /\ o.done = TRUE
    BY <1>2 DEF TokenTransferFrom, Outcome, Allowed
  <2>2. 0 < amount /\ amount <= t.allow[from][u] /\ amount <= t.bal[from]
    BY <1>0, <1>2
  <2>3. allow \in [Users -> [Users -> Int]]
    <3>1. t.allow \in AllowanceTable /\ t.allow[from][u] - amount \in Int
      BY <1>0 DEF AllowanceTable
    <3>2. allow \in AllowanceTable
      BY <3>1, AllowedResult
    <3> QED
      BY <3>2 DEF AllowanceTable
  <2>4. Ordinary(t, moved) /\ moved.owner = t.owner /\ moved.supply = t.supply
    BY <1>0, <2>2, MovedIsOrdinary
  <2> HIDE DEF moved, no
  <2>5. /\ o.token \in TokenRecord /\ o.token.allow = allow /\ o.token.bal = moved.bal
        /\ o.token.initialized = moved.initialized /\ o.token.owner = moved.owner /\ o.token.supply = moved.supply
    <3> HIDE DEF allow
    <3> QED
      BY <2>1, <2>3, <2>4 DEF Ordinary, TokenRecord
  <2> QED
    BY <2>1, <2>2, <2>4, <2>5 DEF Ordinary, NoDeeper
<1> QED
  BY <1>1, <1>2

LEMMA ApproveResult ==
  ASSUME NEW t \in TokenRecord, NEW u \in Users, NEW spender \in Users, NEW amount \in Int,
         NEW o, o = TokenApprove(t, u, spender, amount)
  PROVE  /\ o.token \in TokenRecord
         /\ o.token.initialized = t.initialized /\ o.token.owner = t.owner /\ o.token.supply = t.supply
         /\ o.token.bal = t.bal
         /\ ~o.done => o.token.allow = t.allow
         /\ o.done => /\ 0 <= amount
                      /\ o.token.allow = Allowed(t.allow, u, spender, amount)
<1> DEFINE allow == Allowed(t.allow, u, spender, amount)
<1>1. CASE amount < 0
  BY <1>1 DEF TokenApprove, Rejected, Outcome
<1>2. CASE ~(amount < 0)
  <2>1. o.token = [t EXCEPT !.allow = allow] /\ o.done = TRUE
    BY <1>2 DEF TokenApprove, Outcome, Allowed
  <2>2. allow \in [Users -> [Users -> Int]]
    <3>1. t.allow \in AllowanceTable
      BY DEF AllowanceTable, TokenRecord
    <3>2. allow \in AllowanceTable
      BY <3>1, AllowedResult
    <3> QED
      BY <3>2 DEF AllowanceTable
  <2>3. o.token.allow = allow
    BY <2>1 DEF TokenRecord
  <2>4. /\ o.token \in TokenRecord /\ o.token.initialized = t.initialized /\ o.token.owner = t.owner
        /\ o.token.supply = t.supply /\ o.token.bal = t.bal
    <3> HIDE DEF allow
    <3> QED
      BY <2>1, <2>2 DEF TokenRecord
  <2> QED
    BY <1>2, <2>1, <2>3, <2>4
<1> QED
  BY <1>1, <1>2

-----------------------------------------------------------------------------
(* Receipts. *)

\* A transaction whose nonce was not taken yet has no receipt, did not run and
\* was in no block.
LEMMA NextIsNew ==
  ASSUME Receipts, NEW u \in Users, nonce[u] < MaxNonce
  PROVE  /\ Next1(u) \in Transactions /\ receipts[Next1(u)] = "none"
         /\ Next1(u) \notin completed \cup reincluded
<1>1. nonce[u] \in 0 .. MaxNonce /\ nonce[u] + 1 \in 1 .. MaxNonce /\ ~(nonce[u] + 1 <= nonce[u])
  BY DEF Receipts
<1>2. receipts[<<u, nonce[u] + 1>>] = "none" /\ <<u, nonce[u] + 1>> \notin reincluded
  <2>1. receipts[<<u, nonce[u] + 1>>] # "none" <=> nonce[u] + 1 <= nonce[u]
    BY <1>1 DEF Receipts, ReceiptTruth
  <2>2. <<u, nonce[u] + 1>> \in reincluded => nonce[u] + 1 <= nonce[u]
    BY <1>1 DEF Receipts
  <2> QED
    BY <1>1, <2>1, <2>2
<1>3. <<u, nonce[u] + 1>> \notin completed
  <2>1. <<u, nonce[u] + 1>> \in completed \ reincluded => receipts[<<u, nonce[u] + 1>>] = "success"
    BY <1>1 DEF Receipts, ReceiptTruth
  <2> QED
    BY <1>2, <2>1
<1> QED
  BY <1>1, <1>2, <1>3 DEF Next1, Transactions

\* The receipt of a transaction that takes its sender's next nonce.
LEMMA NewReceipt ==
  ASSUME Receipts, NEW u \in Users, nonce[u] < MaxNonce,
         NEW outcome \in {"success", "failed"},
         nonce' = [nonce EXCEPT ![u] = @ + 1],
         receipts' = [receipts EXCEPT ![Next1(u)] = outcome],
         completed' = IF outcome = "success" THEN completed \cup {Next1(u)} ELSE completed,
         UNCHANGED reincluded
  PROVE  Receipts'
<1>1. nonce \in [Users -> 0 .. MaxNonce] /\ receipts \in [Transactions -> Receipt]
  BY DEF Receipts
<1>2. /\ Next1(u) \in Transactions /\ receipts[Next1(u)] = "none"
      /\ Next1(u) \notin completed \cup reincluded
  BY NextIsNew
<1>3. nonce' \in [Users -> 0 .. MaxNonce] /\ \A a \in Users : nonce[a] <= nonce'[a]
  BY <1>1
<1>4. receipts' \in [Transactions -> Receipt]
  BY <1>1 DEF Receipt
<1>5. completed' \subseteq Transactions /\ reincluded' \subseteq Transactions
  BY <1>2 DEF Receipts
<1>6. ASSUME NEW a \in Users, NEW n \in 1 .. MaxNonce, <<a, n>> \in reincluded'
      PROVE  n <= nonce'[a]
  BY <1>1, <1>3, <1>6 DEF Receipts
<1>7. ASSUME NEW a \in Users, NEW n \in 1 .. MaxNonce
      PROVE  /\ receipts'[<<a, n>>] = "success" <=> <<a, n>> \in completed' \ reincluded'
             /\ receipts'[<<a, n>>] # "none" <=> n <= nonce'[a]
  <2>1. <<a, n>> \in Transactions
    BY DEF Transactions
  <2>2. CASE a = u /\ n = nonce[u] + 1
    <3>1. <<a, n>> = Next1(u) /\ receipts'[<<a, n>>] = outcome
      BY <1>1, <2>1, <2>2 DEF Next1
    <3>2. nonce'[a] = n
      BY <1>1, <2>2
    <3>3. <<a, n>> \in completed' \ reincluded' <=> outcome = "success"
      BY <1>2, <3>1
    <3> QED
      BY <3>1, <3>2, <3>3
  <2>3. CASE ~(a = u /\ n = nonce[u] + 1)
    <3>1. <<a, n>> # Next1(u)
      BY <2>3 DEF Next1
    <3>2. receipts'[<<a, n>>] = receipts[<<a, n>>]
      BY <1>1, <2>1, <3>1
    <3>3. <<a, n>> \in completed' \ reincluded' <=> <<a, n>> \in completed \ reincluded
      BY <3>1
    <3>4. n <= nonce'[a] <=> n <= nonce[a]
      BY <1>1, <2>3
    <3> QED
      BY <3>2, <3>3, <3>4 DEF Receipts, ReceiptTruth
  <2> QED
    BY <2>2, <2>3
<1>8. ReceiptTruth'
  BY <1>7 DEF ReceiptTruth
<1> QED
  BY <1>3, <1>4, <1>5, <1>6, <1>8 DEF Receipts

LEMMA SucceedKeepsReceipts ==
  ASSUME Receipts, NEW u \in Users, Succeed(u) PROVE Receipts' /\ nonce'[u] = nonce[u] + 1
  BY NewReceipt DEF Succeed, Receipts

LEMMA FailKeepsReceipts ==
  ASSUME Receipts, NEW u \in Users, Fail(u) PROVE Receipts'
  BY NewReceipt DEF Fail

\* Whatever receipt the transaction had, the refusal replaces it.
LEMMA ReincludeKeepsReceipts ==
  ASSUME Receipts, NEW u \in Users, NEW n \in 1 .. MaxNonce, Reinclude(u, n) PROVE Receipts'
<1>1. /\ n <= nonce[u] /\ nonce' = nonce /\ completed' = completed
      /\ receipts' = [receipts EXCEPT ![<<u, n>>] = "failed"]
      /\ reincluded' = reincluded \cup {<<u, n>>}
  <2>1. nonce[u] \in Int
    BY DEF Receipts
  <2> QED
    BY <2>1 DEF Reinclude
<1>2. receipts \in [Transactions -> Receipt] /\ <<u, n>> \in Transactions
  BY DEF Receipts, Transactions
<1>3. receipts' \in [Transactions -> Receipt] /\ reincluded' \subseteq Transactions
  BY <1>1, <1>2 DEF Receipts, Receipt
<1>4. ASSUME NEW a \in Users, NEW m \in 1 .. MaxNonce
      PROVE  /\ <<a, m>> \in reincluded' => m <= nonce'[a]
             /\ receipts'[<<a, m>>] = "success" <=> <<a, m>> \in completed' \ reincluded'
             /\ receipts'[<<a, m>>] # "none" <=> m <= nonce'[a]
  <2>1. <<a, m>> \in Transactions
    BY DEF Transactions
  <2>2. CASE <<a, m>> = <<u, n>>
    <3>1. a = u /\ m = n /\ receipts'[<<a, m>>] = "failed"
      BY <1>1, <1>2, <2>2
    <3> QED
      BY <1>1, <3>1
  <2>3. CASE <<a, m>> # <<u, n>>
    <3>1. receipts'[<<a, m>>] = receipts[<<a, m>>]
      BY <1>1, <1>2, <2>1, <2>3
    <3>2. <<a, m>> \in reincluded' <=> <<a, m>> \in reincluded
      BY <1>1, <2>3
    <3> QED
      BY <1>1, <3>1, <3>2 DEF Receipts, ReceiptTruth
  <2> QED
    BY <2>2, <2>3
<1>5. ReceiptTruth'
  BY <1>4 DEF ReceiptTruth
<1> QED
  BY <1>1, <1>3, <1>4, <1>5 DEF Receipts

-----------------------------------------------------------------------------
(* The token. *)

LEMMA SameAllowances ==
  ASSUME Allowances, token' \in TokenRecord, token'.allow = token.allow, UNCHANGED <<approved, spent>>
  PROVE  Allowances'
  BY DEF Allowances, AllowanceRespected

LEMMA ApproveKeepsAllowances ==
  ASSUME Allowances, NEW u \in Users, NEW spender \in Users, NEW amount \in Int,
         CallApprove(u, spender, amount)
  PROVE  Allowances'
<1> DEFINE o == TokenApprove(token, u, spender, amount)
<1>1. /\ token' = o.token
      /\ approved' = IF o.done THEN Allowed(approved, u, spender, amount) ELSE approved
      /\ spent' = IF o.done THEN Allowed(spent, u, spender, 0) ELSE spent
  <2>1. approved \in [Users -> [Users -> Int]] /\ spent \in [Users -> [Users -> Int]]
    BY DEF Allowances
  <2> QED
    BY <2>1 DEF CallApprove, CallToken, Allowed
<1>o. o = TokenApprove(token, u, spender, amount)
  OBVIOUS
<1> HIDE DEF o
<1>2. /\ o.token \in TokenRecord
      /\ ~o.done => o.token.allow = token.allow
      /\ o.done => /\ 0 <= amount
                   /\ o.token.allow = Allowed(token.allow, u, spender, amount)
  BY <1>o, ApproveResult DEF Allowances
<1>3. CASE ~o.done
  BY <1>1, <1>2, <1>3, SameAllowances
<1>4. CASE o.done
  <2>1. token.allow \in AllowanceTable /\ approved \in AllowanceTable /\ spent \in AllowanceTable
    BY DEF Allowances, TokenRecord, AllowanceTable
  <2>2. approved' \in AllowanceTable /\ spent' \in AllowanceTable
    BY <1>1, <1>4, <2>1, AllowedResult
  <2>3. ASSUME NEW a \in Users, NEW b \in Users
        PROVE  /\ spent'[a][b] + token'.allow[a][b] = approved'[a][b]
               /\ 0 <= spent'[a][b] /\ (spent'[a][b] <= approved'[a][b] \/ spent'[a][b] = 0)
    <3>1. CASE a = u /\ b = spender
      <4>1. spent'[a][b] = 0 /\ approved'[a][b] = amount /\ token'.allow[a][b] = amount
        BY <1>1, <1>2, <1>4, <2>1, <3>1, AllowedResult
      <4> QED
        BY <1>2, <1>4, <4>1
    <3>2. CASE ~(a = u /\ b = spender)
      <4>1. spent'[a][b] = spent[a][b]
        BY <1>1, <1>4, <2>1, <3>2, AllowedElsewhere
      <4>2. approved'[a][b] = approved[a][b]
        BY <1>1, <1>4, <2>1, <3>2, AllowedElsewhere
      <4>3. token'.allow[a][b] = token.allow[a][b]
        BY <1>1, <1>2, <1>4, <2>1, <3>2, AllowedElsewhere
      <4> QED
        BY <4>1, <4>2, <4>3 DEF Allowances, AllowanceRespected
    <3> QED
      BY <3>1, <3>2
  <2> QED
    BY <1>1, <1>2, <2>2, <2>3 DEF Allowances, AllowanceRespected, AllowanceTable
<1> QED
  BY <1>3, <1>4

LEMMA TransferFromKeepsAllowances ==
  ASSUME Allowances, NEW u \in Users, NEW from \in Users, NEW to \in Users, NEW amount \in Int,
         CallTransferFrom(u, from, to, amount)
  PROVE  Allowances'
<1> DEFINE o == TokenTransferFrom(token, u, from, to, amount)
<1>1. /\ token' = o.token /\ approved' = approved
      /\ spent' = IF o.done THEN Allowed(spent, from, u, spent[from][u] + amount) ELSE spent
  <2>1. spent \in [Users -> [Users -> Int]]
    BY DEF Allowances
  <2>2. Allowed(spent, from, u, spent[from][u] + amount) = [spent EXCEPT ![from] = [@ EXCEPT ![u] = spent[from][u] + amount]]
    BY <2>1 DEF Allowed
  <2> QED
    BY <2>2 DEF CallTransferFrom, CallToken
<1>o. o = TokenTransferFrom(token, u, from, to, amount)
  OBVIOUS
<1> HIDE DEF o
<1>2. /\ o.token \in TokenRecord
      /\ ~o.done => o.token.allow = token.allow
      /\ o.done => /\ 0 < amount /\ amount <= token.allow[from][u]
                   /\ o.token.allow = Allowed(token.allow, from, u, token.allow[from][u] - amount)
  <2>1. token \in TokenRecord
    BY DEF Allowances
  <2> QED
    BY <1>o, <2>1, TransferFromResult
<1>3. CASE ~o.done
  BY <1>1, <1>2, <1>3, SameAllowances
<1>4. CASE o.done
  <2>1. token.allow \in AllowanceTable /\ approved \in AllowanceTable /\ spent \in AllowanceTable
    BY DEF Allowances, TokenRecord, AllowanceTable
  <2>0. spent[from][u] + amount \in Int /\ token.allow[from][u] - amount \in Int
    BY <2>1 DEF AllowanceTable
  <2>2. spent' \in AllowanceTable
    BY <1>1, <1>4, <2>0, <2>1, AllowedResult
  <2>3. ASSUME NEW a \in Users, NEW b \in Users
        PROVE  /\ spent'[a][b] + token'.allow[a][b] = approved'[a][b]
               /\ 0 <= spent'[a][b] /\ (spent'[a][b] <= approved'[a][b] \/ spent'[a][b] = 0)
    <3>0. /\ spent[a][b] + token.allow[a][b] = approved[a][b]
          /\ 0 <= spent[a][b] /\ (spent[a][b] <= approved[a][b] \/ spent[a][b] = 0)
          /\ spent[a][b] \in Int /\ token.allow[a][b] \in Int /\ approved[a][b] \in Int
      BY <2>1 DEF Allowances, AllowanceRespected, AllowanceTable
    <3>1. CASE a = from /\ b = u
      <4>1. spent'[a][b] = spent[a][b] + amount
        BY <1>1, <1>4, <2>0, <2>1, <3>1, AllowedHere
      <4>2. token'.allow[a][b] = token.allow[a][b] - amount
        BY <1>1, <1>2, <1>4, <2>0, <2>1, <3>1, AllowedHere
      <4> QED
        BY <1>1, <1>2, <1>4, <3>0, <3>1, <4>1, <4>2
    <3>2. CASE ~(a = from /\ b = u)
      <4>1. spent'[a][b] = spent[a][b]
        BY <1>1, <1>4, <2>0, <2>1, <3>2, AllowedElsewhere
      <4>2. token'.allow[a][b] = token.allow[a][b]
        BY <1>1, <1>2, <1>4, <2>0, <2>1, <3>2, AllowedElsewhere
      <4> QED
        BY <1>1, <3>0, <4>1, <4>2
    <3> QED
      BY <3>1, <3>2
  <2> QED
    BY <1>1, <1>2, <2>1, <2>2, <2>3 DEF Allowances, AllowanceRespected, AllowanceTable
<1> QED
  BY <1>3, <1>4

\* What a step may do to the token: what NoOverdraft and OwnerKept say of it.
Overdraws ==
  \A a \in Users :
    token'.bal[a] < 0 => \/ token'.bal[a] >= token.bal[a]
                         \/ Initialises
                         \/ <<"bal", a>> \in raw'

KeepsOwner ==
  Initialized(token) =>
    /\ Initialized(token') \/ <<"initialized">> \in raw'
    /\ \/ token'.owner = token.owner
       \/ <<"owner">> \in raw'
       \/ \E newOwner \in Users :
            CallTransferOwnership(TokenOwner(token, contract.owner), newOwner)
    /\ \/ token'.supply <= token.supply
       \/ <<"supply">> \in raw'
       \/ LET owner == TokenOwner(token, contract.owner)
          IN  raw' = {} /\ nonce'[owner] > nonce[owner]

TokenStep == Allowances' /\ Overdraws /\ KeepsOwner

LEMMA UntouchedTokenStep ==
  ASSUME Allowances, UNCHANGED <<token, approved, spent>>
  PROVE  TokenStep
<1>1. \A a \in Users : token.bal[a] \in Int
  BY DEF Allowances, TokenRecord
<1>2. token.supply \in Int
  BY DEF Allowances, TokenRecord
<1>3. Allowances'
  BY SameAllowances DEF Allowances
<1>4. Overdraws
  BY <1>1 DEF Overdraws
<1>5. KeepsOwner
  BY <1>2 DEF KeepsOwner, Initialized
<1> QED
  BY <1>3, <1>4, <1>5 DEF TokenStep

LEMMA OrdinaryTokenStep ==
  ASSUME Allowances, Ordinary(token, token'), UNCHANGED <<approved, spent>>, KeepsOwner
  PROVE  TokenStep
<1>1. \A a \in Users : token.bal[a] \in Int /\ token'.bal[a] \in Int
  BY DEF Allowances, Ordinary, TokenRecord
<1>2. Allowances'
  BY SameAllowances DEF Ordinary
<1>3. Overdraws
  BY <1>1 DEF Overdraws, Ordinary, NoDeeper
<1> QED
  BY <1>2, <1>3 DEF TokenStep

LEMMA TokenCallKeeps ==
  ASSUME IInv, NEW u \in Users, TokenCall(u)
  PROVE  TokenStep
<1>0. token \in TokenRecord /\ token.supply \in Int /\ Allowances /\ Receipts
  BY DEF IInv, Allowances, TokenRecord
<1>1. ASSUME NEW owner \in Users, NEW supply \in InitialSupplies, CallInit(u, owner, supply)
      PROVE  TokenStep
  <2>1. token' = TokenInit(token, owner, supply).token /\ UNCHANGED <<approved, spent>> /\ raw' = {}
    BY <1>1 DEF CallInit, CallToken
  <2>2. /\ token' \in TokenRecord /\ token'.allow = token.allow
        /\ Initialized(token) => token' = token
        /\ ~Initialized(token) => Initialized(token')
    BY <1>0, <2>1, InitResult DEF CallAssumption
  <2>3. CASE Initialized(token)
    BY <1>0, <2>1, <2>2, <2>3, UntouchedTokenStep
  <2>4. CASE ~Initialized(token)
    BY <1>0, <2>1, <2>2, <2>4, SameAllowances DEF TokenStep, Overdraws, Initialises, KeepsOwner
  <2> QED
    BY <2>3, <2>4
<1>2. ASSUME NEW newOwner \in Users, CallTransferOwnership(u, newOwner)
      PROVE  TokenStep
  <2>1. token' = TokenTransferOwnership(token, contract.owner, u, newOwner).token /\ UNCHANGED <<approved, spent>>
    BY <1>2 DEF CallTransferOwnership, CallToken
  <2>2. /\ Ordinary(token, token') /\ token'.supply = token.supply
        /\ token'.owner # token.owner => TokenOwner(token, contract.owner) = u
    BY <1>0, <2>1, OwnershipIsOrdinary
  <2>3. KeepsOwner
    BY <1>0, <1>2, <2>2 DEF KeepsOwner, Initialized, Ordinary, TokenRecord
  <2> QED
    BY <1>0, <2>1, <2>2, <2>3, OrdinaryTokenStep
<1>3. ASSUME NEW to \in Users, NEW amount \in Amounts, CallMint(u, to, amount)
      PROVE  TokenStep
  <2>1. /\ token' = TokenMint(token, contract.owner, u, to, amount).token /\ UNCHANGED <<approved, spent>>
        /\ Succeed(u) /\ raw' = {}
    BY <1>3 DEF CallMint, CallToken, Native
  <2>2. /\ Ordinary(token, token') /\ token'.owner = token.owner
        /\ token'.supply <= token.supply \/ TokenOwner(token, contract.owner) = u
    BY <1>0, <2>1, MintIsOrdinary DEF CallAssumption
  <2>3. nonce'[u] > nonce[u]
    <3>1. nonce[u] \in Int
      BY <1>0 DEF Receipts
    <3> QED
      BY <1>0, <2>1, <3>1, SucceedKeepsReceipts
  <2>4. KeepsOwner
    BY <1>0, <2>1, <2>2, <2>3 DEF KeepsOwner, Initialized, Ordinary, TokenRecord
  <2> QED
    BY <1>0, <2>1, <2>2, <2>4, OrdinaryTokenStep
<1>4. ASSUME NEW from \in Users, NEW named \in BOOLEAN, NEW amount \in Amounts, CallBurn(u, from, named, amount)
      PROVE  TokenStep
  <2>1. token' = TokenBurn(token, contract.owner, u, from, named, amount).token /\ UNCHANGED <<approved, spent>>
    BY <1>4 DEF CallBurn, CallToken
  <2>2. Ordinary(token, token') /\ token'.owner = token.owner /\ token'.supply <= token.supply
    BY <1>0, <2>1, BurnIsOrdinary DEF CallAssumption
  <2>3. ~(token'.supply > token.supply)
    BY <1>0, <2>2 DEF Ordinary, TokenRecord
  <2>4. KeepsOwner
    BY <2>2, <2>3 DEF KeepsOwner, Initialized, Ordinary, TokenRecord
  <2> QED
    BY <1>0, <2>1, <2>2, <2>4, OrdinaryTokenStep
<1>5. ASSUME NEW to \in Users, NEW amount \in Amounts, CallTransfer(u, to, amount)
      PROVE  TokenStep
  <2>1. token' = TokenTransfer(token, u, to, amount).token /\ UNCHANGED <<approved, spent>>
    BY <1>5 DEF CallTransfer, CallToken
  <2>2. Ordinary(token, token') /\ token'.owner = token.owner /\ token'.supply = token.supply
    BY <1>0, <2>1, TransferIsOrdinary DEF CallAssumption
  <2>3. KeepsOwner
    BY <1>0, <2>2 DEF KeepsOwner, Initialized, Ordinary, TokenRecord
  <2> QED
    BY <1>0, <2>1, <2>2, <2>3, OrdinaryTokenStep
<1>6. ASSUME NEW spender \in Users, NEW amount \in Amounts, CallApprove(u, spender, amount)
      PROVE  TokenStep
  <2> DEFINE o == TokenApprove(token, u, spender, amount)
  <2>o. o = TokenApprove(token, u, spender, amount)
    OBVIOUS
  <2>1. token' = o.token /\ amount \in Int
    BY <1>6 DEF CallApprove, CallToken, CallAssumption
  <2> HIDE DEF o
  <2>2. /\ token'.initialized = token.initialized /\ token'.owner = token.owner
        /\ token'.supply = token.supply /\ token'.bal = token.bal
    BY <1>0, <2>o, <2>1, ApproveResult
  <2>3. Allowances'
    BY <1>0, <1>6, <2>1, ApproveKeepsAllowances
  <2>4. KeepsOwner
    BY <1>0, <2>2 DEF KeepsOwner, Initialized
  <2>5. \A a \in Users : token.bal[a] \in Int
    BY <1>0 DEF TokenRecord
  <2> QED
    BY <2>2, <2>3, <2>4, <2>5 DEF TokenStep, Overdraws
<1>7. ASSUME NEW from \in Users, NEW to \in Users, NEW amount \in Amounts, CallTransferFrom(u, from, to, amount)
      PROVE  TokenStep
  <2> DEFINE o == TokenTransferFrom(token, u, from, to, amount)
  <2>o. o = TokenTransferFrom(token, u, from, to, amount)
    OBVIOUS
  <2>1. token' = o.token /\ amount \in Int
    BY <1>7 DEF CallTransferFrom, CallToken, CallAssumption
  <2> HIDE DEF o
  <2>2. /\ token' \in TokenRecord
        /\ token'.initialized = token.initialized /\ token'.owner = token.owner
        /\ token'.supply = token.supply /\ NoDeeper(token, token')
    BY <1>0, <2>o, <2>1, TransferFromResult
  <2>3. Allowances'
    BY <1>0, <1>7, <2>1, TransferFromKeepsAllowances
  <2>4. KeepsOwner
    BY <1>0, <2>2 DEF KeepsOwner, Initialized
  <2> QED
    BY <2>2, <2>3, <2>4 DEF TokenStep, Overdraws, NoDeeper
<1> QED
  BY <1>1, <1>2, <1>3, <1>4, <1>5, <1>6, <1>7 DEF TokenCall

\* A raw write of any keys: what it does to the token, it does to the keys it
\* names, and an allowance it writes counts as set anew.
LEMMA WriteKeeps ==
  ASSUME IInv, NEW u \in Users, NEW w, Write(u, w)
  PROVE  TokenStep
<1>0. /\ token \in TokenRecord
      /\ \A a, b \in Users : approved[a][b] \in Int /\ spent[a][b] \in Int /\ token.allow[a][b] \in Int
      /\ AllowanceRespected
  BY DEF IInv, Allowances, TokenRecord
<1> DEFINE set(a, b) == <<"allow", a, b>> \in DOMAIN w
<1>1. /\ token' = Overwritten(token, w) /\ raw' = DOMAIN w \cap TokenKeys
      /\ approved' = [a \in Users |-> [b \in Users |->
                        IF set(a, b) THEN token'.allow[a][b] ELSE approved[a][b]]]
      /\ spent' = [a \in Users |-> [b \in Users |-> IF set(a, b) THEN 0 ELSE spent[a][b]]]
  BY DEF Write
<1>2. /\ token' \in TokenRecord
      /\ ~Names(w, <<"initialized">>) => token'.initialized = token.initialized
      /\ ~Names(w, <<"owner">>) => token'.owner = token.owner
      /\ ~Names(w, <<"supply">>) => token'.supply = token.supply
      /\ \A a \in Users : ~Names(w, <<"bal", a>>) => token'.bal[a] = token.bal[a]
      /\ \A a, b \in Users : ~Names(w, <<"allow", a, b>>) => token'.allow[a][b] = token.allow[a][b]
  <2> DEFINE s == Overwritten(token, w)
  <2>1. s = Overwritten(token, w)
    OBVIOUS
  <2> HIDE DEF s
  <2>2. /\ s \in TokenRecord
        /\ ~Names(w, <<"initialized">>) => s.initialized = token.initialized
        /\ ~Names(w, <<"owner">>) => s.owner = token.owner
        /\ ~Names(w, <<"supply">>) => s.supply = token.supply
        /\ \A a \in Users : ~Names(w, <<"bal", a>>) => s.bal[a] = token.bal[a]
        /\ \A a, b \in Users : ~Names(w, <<"allow", a, b>>) => s.allow[a][b] = token.allow[a][b]
    BY <1>0, <2>1, OverwrittenResult
  <2> QED
    BY <1>1, <2>1, <2>2
<1>3. /\ \A a, b \in Users : token'.allow[a][b] \in Int
      /\ \A a \in Users : token.bal[a] \in Int
      /\ token.supply \in Int
  BY <1>0, <1>2 DEF TokenRecord
<1>4. /\ <<"initialized">> \in TokenKeys /\ <<"owner">> \in TokenKeys /\ <<"supply">> \in TokenKeys
      /\ \A a \in Users : <<"bal", a>> \in TokenKeys
  BY DEF TokenKeys
<1>5. Allowances'
  <2>1. approved' \in [Users -> [Users -> Int]] /\ spent' \in [Users -> [Users -> Int]]
    BY <1>0, <1>1, <1>3
  <2>2. ASSUME NEW a \in Users, NEW b \in Users
        PROVE  /\ spent'[a][b] + token'.allow[a][b] = approved'[a][b]
               /\ 0 <= spent'[a][b] /\ (spent'[a][b] <= approved'[a][b] \/ spent'[a][b] = 0)
    <3>1. CASE set(a, b)
      <4>1. spent'[a][b] = 0 /\ approved'[a][b] = token'.allow[a][b]
        BY <1>1, <3>1
      <4> QED
        BY <1>3, <4>1
    <3>2. CASE ~set(a, b)
      <4>1. spent'[a][b] = spent[a][b] /\ approved'[a][b] = approved[a][b]
        BY <1>1, <3>2
      <4>2. token'.allow[a][b] = token.allow[a][b]
        BY <1>2, <3>2 DEF Names
      <4> QED
        BY <1>0, <4>1, <4>2 DEF AllowanceRespected
    <3> QED
      BY <3>1, <3>2
  <2> QED
    BY <1>2, <2>1, <2>2 DEF Allowances, AllowanceRespected
<1>6. Overdraws
  BY <1>1, <1>2, <1>3, <1>4 DEF Overdraws, Names
<1>7. KeepsOwner
  BY <1>1, <1>2, <1>3, <1>4 DEF KeepsOwner, Initialized, Names
<1> QED
  BY <1>5, <1>6, <1>7 DEF TokenStep

\* Every native call outside the token's methods writes raw or only reads.
LEMMA StorageCallWrites ==
  ASSUME NEW u \in Users, StorageCall(u)
  PROVE  (\E w : Write(u, w)) \/ CallRead(u)
<1>1. ASSUME NEW key, NEW v, CallSet(u, key, v) PROVE \E w : Write(u, w)
  BY <1>1 DEF CallSet
<1>2. ASSUME NEW key, CallDelete(u, key) PROVE \E w : Write(u, w)
  BY <1>2 DEF CallDelete
<1>3. ASSUME NEW key, NEW by, CallIncrement(u, key, by) PROVE \E w : Write(u, w)
  BY <1>3 DEF CallIncrement
<1>4. ASSUME NEW entries, CallBatchSet(u, entries) PROVE \E w : Write(u, w)
  BY <1>4 DEF CallBatchSet
<1> QED
  BY <1>1, <1>2, <1>3, <1>4 DEF StorageCall

-----------------------------------------------------------------------------
(* The specification. *)

LEMMA Initially == Init => IInv
<1> SUFFICES ASSUME Init PROVE IInv
  OBVIOUS
<1>1. nonce \in [Users -> 0 .. MaxNonce] /\ \A u \in Users : nonce[u] = 0
  BY DEF Init, CallAssumption
<1>2. receipts \in [Transactions -> Receipt] /\ \A u \in Users, n \in 1 .. MaxNonce : receipts[<<u, n>>] = "none"
  BY DEF Init, Transactions, Receipt
<1>3. ReceiptTruth
  <2>1. completed = {} /\ reincluded = {}
    BY DEF Init
  <2>2. ASSUME NEW u \in Users, NEW n \in 1 .. MaxNonce
        PROVE  receipts[<<u, n>>] = "none" /\ ~(n <= nonce[u])
    BY <1>1, <1>2 DEF CallAssumption
  <2> QED
    BY <2>1, <2>2 DEF ReceiptTruth
<1>4. Receipts
  BY <1>1, <1>2, <1>3 DEF Init, Receipts
<1>5. /\ token \in TokenRecord /\ approved \in [Users -> [Users -> Int]] /\ spent \in [Users -> [Users -> Int]]
      /\ \A a, b \in Users : token.allow[a][b] = 0 /\ approved[a][b] = 0 /\ spent[a][b] = 0
  BY DEF Init, NewToken, NoAmounts, TokenRecord
<1> QED
  BY <1>4, <1>5 DEF IInv, Allowances, AllowanceRespected

\* Every step keeps the receipts right and does to the token what it may.
LEMMA EveryStep == IInv /\ [Next]_vars => Receipts' /\ TokenStep
<1> SUFFICES ASSUME IInv, [Next]_vars PROVE Receipts' /\ TokenStep
  OBVIOUS
<1>0. Receipts /\ Allowances
  BY DEF IInv
<1>1. ASSUME NEW u \in Users, NEW code \in Codes, Deploy(u, code)
      PROVE  Receipts' /\ TokenStep
  BY <1>0, <1>1, SucceedKeepsReceipts, UntouchedTokenStep DEF Deploy
<1>2. ASSUME NEW u \in Users, NEW method \in Methods, NEW args \in ArgLists, CallProgram(u, method, args)
      PROVE  Receipts' /\ TokenStep
  <2>1. (Succeed(u) \/ Fail(u)) /\ UNCHANGED <<token, approved, spent>>
    BY <1>2 DEF CallProgram
  <2> QED
    BY <1>0, <2>1, SucceedKeepsReceipts, FailKeepsReceipts, UntouchedTokenStep
<1>3. ASSUME NEW u \in Users, TokenCall(u)
      PROVE  Receipts' /\ TokenStep
  <2>1. Succeed(u)
    BY <1>3 DEF TokenCall, CallInit, CallTransferOwnership, CallMint, CallBurn, CallTransfer, CallApprove,
                CallTransferFrom, CallToken, Native
  <2> QED
    BY <1>0, <1>3, <2>1, SucceedKeepsReceipts, TokenCallKeeps
<1>4. ASSUME NEW u \in Users, StorageCall(u)
      PROVE  Receipts' /\ TokenStep
  <2>1. CASE \E w : Write(u, w)
    <3>1. PICK w : Write(u, w)
      BY <2>1
    <3>2. Succeed(u)
      BY <3>1 DEF Write, Native
    <3> QED
      BY <1>0, <3>1, <3>2, SucceedKeepsReceipts, WriteKeeps DEF IInv
  <2>2. CASE CallRead(u)
    <3>1. Succeed(u) /\ UNCHANGED <<token, approved, spent>>
      BY <2>2 DEF CallRead, Native
    <3> QED
      BY <1>0, <3>1, SucceedKeepsReceipts, UntouchedTokenStep
  <2> QED
    BY <1>4, <2>1, <2>2, StorageCallWrites
<1>5. ASSUME NEW u \in Users, NEW n \in 1 .. MaxNonce, Reinclude(u, n)
      PROVE  Receipts' /\ TokenStep
  <2>1. UNCHANGED <<token, approved, spent>>
    BY <1>5 DEF Reinclude
  <2> QED
    BY <1>0, <1>5, <2>1, ReincludeKeepsReceipts, UntouchedTokenStep
<1>6. CASE UNCHANGED vars
  <2>1. UNCHANGED <<nonce, receipts, completed, reincluded>> /\ UNCHANGED <<token, approved, spent>>
    BY <1>6 DEF vars, histories
  <2>2. Receipts'
    BY <1>0, <2>1 DEF Receipts, ReceiptTruth
  <2> QED
    BY <1>0, <2>1, <2>2, UntouchedTokenStep
<1> QED
  BY <1>1, <1>2, <1>3, <1>4, <1>5, <1>6 DEF Next

\* The receipts and the allowances of the token stay right in every state.
THEOREM ContractInvariant == Spec => []IInv
<1>1. IInv /\ [Next]_vars => IInv'
  BY EveryStep DEF IInv, TokenStep
<1> QED
  BY <1>1, Initially, PTL DEF Spec

\* Whatever is called in whatever order, and whatever applied transactions come
\* again, a receipt of success is one of a call that ran, and a call that ran
\* keeps its receipt unless a later block contained it again.
THEOREM ReceiptsTellTheTruth == Spec => []ReceiptTruth
<1>1. IInv => ReceiptTruth
  BY DEF IInv, Receipts
<1> QED
  BY <1>1, ContractInvariant, PTL

\* For any users, amounts and raw writes, what a spender moved since its
\* allowance was last set and what it may still move add up to what was set.
THEOREM AllowancesAreRespected == Spec => []AllowanceRespected
<1>1. IInv => AllowanceRespected
  BY DEF IInv, Allowances
<1> QED
  BY <1>1, ContractInvariant, PTL

\* No method of the token but its initialisation takes a balance below zero: the
\* other causes are raw writes of that balance.
THEOREM NobodyOverdraws == Spec => NoOverdraft
<1>1. IInv /\ [Next]_vars => [Overdraws]_vars
  BY EveryStep DEF TokenStep
<1> QED
  BY <1>1, ContractInvariant, PTL DEF Spec, NoOverdraft, Overdraws

\* Where raw writes leave its keys alone, an initialised token changes hands by
\* its owner's call alone, stays initialised, and its supply grows by its owner's
\* mint alone.
THEOREM OwnersKeepTheirToken == Spec => OwnerKept
<1>1. IInv /\ [Next]_vars => [KeepsOwner]_vars
  BY EveryStep DEF TokenStep
<1> QED
  BY <1>1, ContractInvariant, PTL DEF Spec, OwnerKept, KeepsOwner

-----------------------------------------------------------------------------
(* The supply. *)

TokenUnbacked(t) == SumFunction(t.bal) - t.supply

\* The supply a token does not back is a number.
LEMMA UnbackedType ==
  ASSUME NEW t \in TokenRecord
  PROVE  TokenUnbacked(t) \in Int /\ SumFunction(t.bal) \in Int /\ t.supply \in Int
<1>1. t.bal \in [Users -> Int] /\ t.supply \in Int
  BY DEF TokenRecord
<1>. QED
  BY <1>1, BalancesSum DEF TokenUnbacked

\* A token moved to another holder stays in the sum; one moved to its own
\* holder is added to it, for the second write is of the sum read before.
LEMMA MovedUnbacked ==
  ASSUME NEW t \in TokenRecord, NEW from \in Users, NEW to \in Users, NEW amount \in Int,
         NEW s, s.bal = Moved(t, from, to, amount).bal,
         s.supply = t.supply
  PROVE  TokenUnbacked(s) = TokenUnbacked(t) + IF from = to THEN amount ELSE 0
<1>. DEFINE bal == t.bal
            c == [bal EXCEPT ![from] = bal[from] - amount]
            d == [c EXCEPT ![to] = bal[to] + amount]
<1>1. bal \in [Users -> Int] /\ t.supply \in Int
  BY DEF TokenRecord
<1>2. s.bal = d
  <2>1. Moved(t, from, to, amount).bal
          = [bal EXCEPT ![from] = bal[from] - amount, ![to] = bal[to] + amount]
    BY DEF Moved, TokenRecord
  <2>2. d = [bal EXCEPT ![from] = bal[from] - amount, ![to] = bal[to] + amount]
    BY <1>1
  <2>. QED
    BY <2>1, <2>2
<1>3. bal[from] \in Int /\ bal[to] \in Int /\ bal[from] - amount \in Int /\ bal[to] + amount \in Int
  BY <1>1
<1>. HIDE DEF bal
<1>4. c \in [Users -> Int] /\ SumFunction(c) = SumFunction(bal) + (bal[from] - amount) - bal[from]
  BY <1>1, <1>3, BalancesSum
<1>5. c[to] = IF from = to THEN bal[from] - amount ELSE bal[to]
  BY <1>1
<1>. HIDE DEF c
<1>6. SumFunction(d) = SumFunction(c) + (bal[to] + amount) - c[to]
  BY <1>3, <1>4, BalancesSum
<1>7. SumFunction(bal) \in Int
  BY <1>1, BalancesSum
<1>8. TokenUnbacked(s) = SumFunction(d) - t.supply /\ TokenUnbacked(t) = SumFunction(bal) - t.supply
  BY <1>2 DEF TokenUnbacked, bal
<1>. HIDE DEF d
<1>9. CASE from = to
  BY <1>1, <1>3, <1>4, <1>5, <1>6, <1>7, <1>8, <1>9
<1>10. CASE from # to
  BY <1>1, <1>3, <1>4, <1>5, <1>6, <1>7, <1>8, <1>10
<1>. QED
  BY <1>9, <1>10

\* What is minted is supplied.
LEMMA MintUnbacked ==
  ASSUME NEW t \in TokenRecord, NEW deployer, NEW u \in Users, NEW to \in Users, NEW amount \in Int,
         NEW s, s = TokenMint(t, deployer, u, to, amount).token
  PROVE  TokenUnbacked(s) = TokenUnbacked(t)
<1>. DEFINE no == TokenOwner(t, deployer) # u \/ amount <= 0
            v == t.bal[to] + amount
            bal == [t.bal EXCEPT ![to] = v]
            supply == t.supply + amount
<1>1. CASE no
  BY <1>1 DEF TokenMint, Rejected, Outcome
<1>2. CASE ~no
  <2>1. s = [t EXCEPT !.bal = bal, !.supply = supply]
    BY <1>2 DEF TokenMint, Outcome
  <2>2. t.bal \in [Users -> Int] /\ t.bal[to] \in Int /\ v \in Int /\ v = t.bal[to] + amount
        /\ supply = t.supply + amount /\ t.supply \in Int /\ SumFunction(t.bal) \in Int
    BY UnbackedType DEF TokenRecord
  <2>. HIDE DEF v
  <2>3. SumFunction(bal) = SumFunction(t.bal) + v - t.bal[to]
    BY <2>2, BalancesSum
  <2>. HIDE DEF bal, supply
  <2>4. s.bal = bal /\ s.supply = supply
    BY <2>1 DEF TokenRecord
  <2>. QED
    BY <2>2, <2>3, <2>4 DEF TokenUnbacked
<1>. QED
  BY <1>1, <1>2

\* What is burned leaves the supply.
LEMMA BurnUnbacked ==
  ASSUME NEW t \in TokenRecord, NEW deployer, NEW u \in Users, NEW from \in Users, NEW named \in BOOLEAN,
         NEW amount \in Int, NEW s, s = TokenBurn(t, deployer, u, from, named, amount).token
  PROVE  TokenUnbacked(s) = TokenUnbacked(t)
<1>. DEFINE no == \/ from # u /\ TokenOwner(t, deployer) # u
                  \/ named /\ from = u
                  \/ amount <= 0
                  \/ t.bal[from] < amount
            v == t.bal[from] - amount
            bal == [t.bal EXCEPT ![from] = v]
            supply == t.supply - amount
<1>1. CASE no
  <2>1. s = t
    BY <1>1 DEF TokenBurn, Rejected, Outcome
  <2>. QED
    BY <2>1
<1>2. CASE ~no
  <2>1. s = [t EXCEPT !.bal = bal, !.supply = supply]
    BY <1>2 DEF TokenBurn, Outcome
  <2>2. t.bal \in [Users -> Int] /\ t.bal[from] \in Int /\ v \in Int /\ v = t.bal[from] - amount
        /\ supply = t.supply - amount /\ t.supply \in Int /\ SumFunction(t.bal) \in Int
    BY UnbackedType DEF TokenRecord
  <2>. HIDE DEF v
  <2>3. SumFunction(bal) = SumFunction(t.bal) + v - t.bal[from]
    BY <2>2, BalancesSum
  <2>. HIDE DEF bal, supply
  <2>4. s.bal = bal /\ s.supply = supply
    BY <2>1 DEF TokenRecord
  <2>. QED
    BY <2>2, <2>3, <2>4 DEF TokenUnbacked
<1>. QED
  BY <1>1, <1>2

\* A transfer, refused or done.
LEMMA TransferUnbacked ==
  ASSUME NEW t \in TokenRecord, NEW u \in Users, NEW to \in Users, NEW amount \in Int,
         NEW s, s = TokenTransfer(t, u, to, amount).token
  PROVE  \/ TokenUnbacked(s) = TokenUnbacked(t)
         \/ u = to /\ TokenUnbacked(s) = TokenUnbacked(t) + amount
<1>1. CASE amount <= 0 \/ t.bal[u] < amount
  BY <1>1 DEF TokenTransfer, Rejected, Outcome
<1>2. CASE ~(amount <= 0 \/ t.bal[u] < amount)
  <2>1. s = Moved(t, u, to, amount)
    BY <1>2 DEF TokenTransfer, Outcome
  <2>2. s.supply = t.supply
    BY <2>1 DEF Moved, TokenRecord
  <2>3. TokenUnbacked(s) = TokenUnbacked(t) + IF u = to THEN amount ELSE 0
    BY <2>1, <2>2, MovedUnbacked
  <2>. QED
    BY <2>3, UnbackedType
<1>. QED
  BY <1>1, <1>2

\* A transfer under an allowance, refused or done.
LEMMA TransferFromUnbacked ==
  ASSUME NEW t \in TokenRecord, NEW u \in Users, NEW from \in Users, NEW to \in Users,
         NEW amount \in Int, NEW s, s = TokenTransferFrom(t, u, from, to, amount).token
  PROVE  \/ TokenUnbacked(s) = TokenUnbacked(t)
         \/ from = to /\ TokenUnbacked(s) = TokenUnbacked(t) + amount
<1>. DEFINE no == amount <= 0 \/ t.allow[from][u] < amount \/ t.bal[from] < amount
            moved == Moved(t, from, to, amount)
            allow == [t.allow EXCEPT ![from] =
                        [t.allow[from] EXCEPT ![u] = t.allow[from][u] - amount]]
<1>1. CASE no
  BY <1>1 DEF TokenTransferFrom, Rejected, Outcome
<1>2. CASE ~no
  <2>1. s = [moved EXCEPT !.allow = allow]
    BY <1>2 DEF TokenTransferFrom, Outcome
  <2>2. moved.supply = t.supply /\ moved \in [{"initialized", "owner", "supply", "bal", "allow"} -> {moved[x] : x \in {"initialized", "owner", "supply", "bal", "allow"}}]
    BY DEF Moved, TokenRecord
  <2>. HIDE DEF moved, allow
  <2>3. s.bal = moved.bal /\ s.supply = moved.supply
    BY <2>1, <2>2
  <2>4. TokenUnbacked(s) = TokenUnbacked(t) + IF from = to THEN amount ELSE 0
    BY <2>2, <2>3, MovedUnbacked DEF moved
  <2>. QED
    BY <2>4, UnbackedType
<1>. QED
  BY <1>1, <1>2

\* What the property allows of one step.
Accounted ==
  \/ Unbacked' = Unbacked
  \/ \E u, from \in Users, amount \in Amounts :
       SelfMove(u, from, amount) /\ Unbacked' = Unbacked + amount
  \/ Initialises
  \/ raw' \cap ({<<"supply">>} \cup ({"bal"} \X Users)) # {}

\* No call of the token creates or destroys tokens otherwise.
LEMMA TokenCallAccounted ==
  ASSUME token \in TokenRecord, NEW u \in Users, TokenCall(u)
  PROVE  Accounted
<1>0. Unbacked = TokenUnbacked(token) /\ Unbacked' = TokenUnbacked(token')
  BY DEF Unbacked, TokenSum, TokenUnbacked
<1>a. \A amount \in Amounts : amount \in Int
  BY DEF CallAssumption
<1>1. ASSUME NEW owner \in Users, NEW supply \in InitialSupplies, CallInit(u, owner, supply)
      PROVE  Accounted
  <2>1. token' = TokenInit(token, owner, supply).token /\ supply \in Int /\ raw' = {}
    BY <1>1 DEF CallInit, CallToken, CallAssumption
  <2>2. (Initialized(token) => token' = token) /\ (~Initialized(token) => Initialized(token'))
    BY <2>1, InitResult
  <2>. QED
    BY <1>0, <2>1, <2>2 DEF Accounted, Initialises
<1>2. ASSUME NEW newOwner \in Users, CallTransferOwnership(u, newOwner)
      PROVE  Accounted
  <2>1. token' = TokenTransferOwnership(token, contract.owner, u, newOwner).token
    BY <1>2 DEF CallTransferOwnership, CallToken
  <2>2. token'.bal = token.bal /\ token'.supply = token.supply
    <3>1. CASE TokenOwner(token, contract.owner) # u
      BY <2>1, <3>1 DEF TokenTransferOwnership, Rejected, Outcome
    <3>2. CASE TokenOwner(token, contract.owner) = u
      BY <2>1, <3>2 DEF TokenTransferOwnership, Outcome, TokenRecord
    <3>. QED
      BY <3>1, <3>2
  <2>. QED
    BY <1>0, <2>2 DEF Accounted, TokenUnbacked
<1>3. ASSUME NEW to \in Users, NEW amount \in Amounts, CallMint(u, to, amount)
      PROVE  Accounted
  <2>1. token' = TokenMint(token, contract.owner, u, to, amount).token
    BY <1>3 DEF CallMint, CallToken
  <2>. QED
    BY <1>0, <1>a, <2>1, MintUnbacked DEF Accounted
<1>4. ASSUME NEW from \in Users, NEW named \in BOOLEAN, NEW amount \in Amounts,
             CallBurn(u, from, named, amount)
      PROVE  Accounted
  <2>1. token' = TokenBurn(token, contract.owner, u, from, named, amount).token
    BY <1>4 DEF CallBurn, CallToken
  <2>. QED
    BY <1>0, <1>a, <2>1, BurnUnbacked DEF Accounted
<1>5. ASSUME NEW to \in Users, NEW amount \in Amounts, CallTransfer(u, to, amount)
      PROVE  Accounted
  <2>1. token' = TokenTransfer(token, u, to, amount).token
    BY <1>5 DEF CallTransfer, CallToken
  <2>2. \/ Unbacked' = Unbacked
        \/ u = to /\ Unbacked' = Unbacked + amount
    BY <1>0, <1>a, <2>1, TransferUnbacked
  <2>. QED
    BY <1>5, <2>2 DEF Accounted, SelfMove
<1>6. ASSUME NEW spender \in Users, NEW amount \in Amounts, CallApprove(u, spender, amount)
      PROVE  Accounted
  <2>. DEFINE o == TokenApprove(token, u, spender, amount)
  <2>1. token' = o.token /\ o = TokenApprove(token, u, spender, amount)
    BY <1>6 DEF CallApprove, CallToken
  <2>. HIDE DEF o
  <2>2. token'.bal = token.bal /\ token'.supply = token.supply
    BY <1>a, <2>1, ApproveResult
  <2>. QED
    BY <1>0, <2>2 DEF Accounted, TokenUnbacked
<1>7. ASSUME NEW from \in Users, NEW to \in Users, NEW amount \in Amounts,
             CallTransferFrom(u, from, to, amount)
      PROVE  Accounted
  <2>1. token' = TokenTransferFrom(token, u, from, to, amount).token
    BY <1>7 DEF CallTransferFrom, CallToken
  <2>2. \/ Unbacked' = Unbacked
        \/ from = to /\ Unbacked' = Unbacked + amount
    BY <1>0, <1>a, <2>1, TransferFromUnbacked
  <2>. QED
    BY <1>7, <2>2 DEF Accounted, SelfMove
<1>. QED
  BY <1>1, <1>2, <1>3, <1>4, <1>5, <1>6, <1>7 DEF TokenCall

\* Nor does a raw write that leaves the supply and the balances alone.
LEMMA WriteAccounted ==
  ASSUME token \in TokenRecord, NEW u \in Users, NEW w, Write(u, w)
  PROVE  Accounted
<1>1. token' = Overwritten(token, w) /\ raw' = DOMAIN w \cap TokenKeys
  BY DEF Write
<1>2. /\ token' \in TokenRecord
      /\ ~Names(w, <<"supply">>) => token'.supply = token.supply
      /\ \A a \in Users : ~Names(w, <<"bal", a>>) => token'.bal[a] = token.bal[a]
  <2> DEFINE s == Overwritten(token, w)
  <2>1. s = Overwritten(token, w)
    OBVIOUS
  <2> HIDE DEF s
  <2>2. /\ s \in TokenRecord
        /\ ~Names(w, <<"supply">>) => s.supply = token.supply
        /\ \A a \in Users : ~Names(w, <<"bal", a>>) => s.bal[a] = token.bal[a]
    BY <2>1, OverwrittenResult
  <2> QED
    BY <1>1, <2>1, <2>2
<1>3. SUFFICES ASSUME raw' \cap ({<<"supply">>} \cup ({"bal"} \X Users)) = {}
               PROVE  Accounted
  BY DEF Accounted
<1>4. <<"supply">> \notin DOMAIN w
  <2>1. <<"supply">> \in TokenKeys
    BY DEF TokenKeys
  <2> QED
    BY <1>1, <1>3, <2>1
<1>5. ASSUME NEW a \in Users PROVE <<"bal", a>> \notin DOMAIN w
  <2>1. <<"bal", a>> \in TokenKeys /\ <<"bal", a>> \in {"bal"} \X Users
    BY DEF TokenKeys
  <2> QED
    BY <1>1, <1>3, <2>1
<1>6. token'.supply = token.supply /\ \A a \in Users : token'.bal[a] = token.bal[a]
  BY <1>2, <1>4, <1>5 DEF Names
<1>7. token'.bal = token.bal
  <2>1. token.bal \in [Users -> Int] /\ token'.bal \in [Users -> Int]
    BY <1>2 DEF TokenRecord
  <2> QED
    BY <1>6, <2>1
<1>. QED
  BY <1>6, <1>7 DEF Accounted, Unbacked, TokenSum

\* Tokens appear and vanish with the supply and otherwise by a move to oneself,
\* an initialisation or a raw write of the supply or a balance alone, for any
\* users, amounts and calls.
THEOREM SupplyIsAccounted == Spec => SupplyAccounted
<1>1. IInv /\ [Next]_vars => [Accounted]_vars
  <2>. SUFFICES ASSUME IInv, [Next]_vars PROVE Accounted
    OBVIOUS
  <2>1. token \in TokenRecord
    BY DEF IInv, Allowances
  <2>2. ASSUME UNCHANGED token
        PROVE  Accounted
    BY <2>2 DEF Accounted, Unbacked, TokenSum
  <2>3. CASE UNCHANGED vars
    BY <2>2, <2>3 DEF vars
  <2>4. ASSUME NEW u \in Users, NEW code \in Codes, Deploy(u, code)
        PROVE  Accounted
    BY <2>2, <2>4 DEF Deploy
  <2>5. ASSUME NEW u \in Users, NEW method \in Methods, NEW args \in ArgLists,
               CallProgram(u, method, args)
        PROVE  Accounted
    BY <2>2, <2>5 DEF CallProgram
  <2>6. ASSUME NEW u \in Users, StorageCall(u)
        PROVE  Accounted
    <3>1. CASE \E w : Write(u, w)
      BY <2>1, <3>1, WriteAccounted
    <3>2. CASE CallRead(u)
      BY <2>2, <3>2 DEF CallRead
    <3>. QED
      BY <2>6, <3>1, <3>2, StorageCallWrites
  <2>7. ASSUME NEW u \in Users, NEW n \in 1 .. MaxNonce, Reinclude(u, n)
        PROVE  Accounted
    BY <2>2, <2>7 DEF Reinclude
  <2>. QED
    BY <2>1, <2>3, <2>4, <2>5, <2>6, <2>7, TokenCallAccounted DEF Next
<1>. QED
  BY <1>1, ContractInvariant, PTL DEF Spec, SupplyAccounted, Accounted

-----------------------------------------------------------------------------
(* Programs. *)

\* A run that the program's first k instructions can have made of a call: it
\* was not refused, and used no more gas than these instructions cost.
GoodRun(run, gas) ==
  /\ run = [storage |-> run.storage, status |-> run.status, ret |-> run.ret, work |-> run.work]
  /\ run.status \in {"running", "returned", "failed"}
  /\ run.work \in Nat
  /\ run.work <= gas

LEMMA GasType ==
  ASSUME NEW step
  PROVE  InstructionGas(step) \in Nat
BY DEF InstructionGas

\* One instruction of an accepted program keeps a run good.
LEMMA StepIsGood ==
  ASSUME NEW run, NEW gas \in Nat, GoodRun(run, gas), NEW step, step.op \in AllowedOps, NEW args
  PROVE  GoodRun(Step(run, step, args), gas + InstructionGas(step))
<1>. DEFINE g == InstructionGas(step)
<1>0. g \in Nat /\ run.work \in Nat /\ run.work <= gas
  BY GasType DEF GoodRun
<1>. HIDE DEF g
<1>1. CASE run.status # "running"
  <2>1. Step(run, step, args) = run
    BY <1>1 DEF Step
  <2>. QED
    BY <1>0, <2>1 DEF GoodRun, g
<1>2. CASE run.status = "running"
  <2>. DEFINE a == run.storage
              b == run.ret
              w == run.work
              next == [run EXCEPT !.work = @ + g]
  <2>1. run = [storage |-> a, status |-> "running", ret |-> b, work |-> w] /\ w \in Nat /\ w <= gas
    BY <1>2 DEF GoodRun
  <2>. HIDE DEF a, b, w
  <2>2. next = [storage |-> a, status |-> "running", ret |-> b, work |-> w + g]
    BY <2>1
  <2>. HIDE DEF next
  <2>3. ASSUME NEW s, NEW st \in {"running", "returned", "failed"}, NEW r, NEW n \in {w, w + g}
        PROVE  GoodRun([storage |-> s, status |-> st, ret |-> r, work |-> n], gas + g)
    BY <1>0, <2>1 DEF GoodRun
  <2>4. [run EXCEPT !.status = "failed"] = [storage |-> a, status |-> "failed", ret |-> b, work |-> w]
    BY <2>1
  <2>. DEFINE write(v) == IF step.key = NoKey THEN [run EXCEPT !.status = "failed"]
                          ELSE [next EXCEPT !.storage[step.key] = v]
  <2>5. ASSUME NEW v
        PROVE  GoodRun(write(v), gas + g)
    <3>1. CASE step.key = NoKey
      BY ZenonT(30), <2>3, <2>4, <3>1
    <3>2. CASE step.key # NoKey
      <4>1. [next EXCEPT !.storage[step.key] = v]
              = [storage |-> [a EXCEPT ![step.key] = v], status |-> "running", ret |-> b, work |-> w + g]
        BY <2>2
      <4>2. write(v) = [storage |-> [a EXCEPT ![step.key] = v], status |-> "running", ret |-> b,
                        work |-> w + g]
        BY <3>2, <4>1
      <4>. HIDE DEF write
      <4>3. GoodRun([storage |-> [a EXCEPT ![step.key] = v], status |-> "running", ret |-> b,
                     work |-> w + g], gas + g)
        BY <2>3
      <4>. QED
        BY <4>2, <4>3
    <3>. QED
      BY <3>1, <3>2
  <2>6. ASSUME NEW r
        PROVE  GoodRun([next EXCEPT !.status = "returned", !.ret = r], gas + g)
    <3>. DEFINE m == [next EXCEPT !.status = "returned"]
    <3>1. m = [storage |-> a, status |-> "returned", ret |-> b, work |-> w + g]
      BY <2>2
    <3>2. [next EXCEPT !.status = "returned", !.ret = r] = [m EXCEPT !.ret = r]
      OBVIOUS
    <3>. HIDE DEF m
    <3>3. [m EXCEPT !.ret = r] = [storage |-> a, status |-> "returned", ret |-> r, work |-> w + g]
      BY <3>1
    <3>4. [next EXCEPT !.status = "returned", !.ret = r]
            = [storage |-> a, status |-> "returned", ret |-> r, work |-> w + g]
      BY <3>2, <3>3
    <3>5. GoodRun([storage |-> a, status |-> "returned", ret |-> r, work |-> w + g], gas + g)
      BY <2>3
    <3>. QED
      BY <3>4, <3>5
  <2>7. GoodRun(next, gas + g)
    BY <2>2, <2>3
  <2>. HIDE DEF write
  <2>8. Step(run, step, args)
          = CASE step.op = "set" -> write(Resolve(step, args))
              [] step.op = "add" ->
                   write(BigInt(run.storage[step.key], 0) + BigInt(Resolve(step, args), 1))
              [] step.op = "delete" -> write(Missing)
              [] step.op = "emit" -> next
              [] step.op = "return" ->
                   [next EXCEPT !.status = "returned",
                                !.ret = IF step.key = NoKey THEN Resolve(step, args)
                                        ELSE run.storage[step.key]]
              [] OTHER -> [run EXCEPT !.status = "unsupported"]
    BY <1>2 DEF Step, write, next, g
  <2>9. GoodRun(Step(run, step, args), gas + g)
    <3>1. CASE step.op = "set"
      BY <2>5, <2>8, <3>1
    <3>2. CASE step.op = "add"
      BY <2>5, <2>8, <3>2
    <3>3. CASE step.op = "delete"
      BY <2>5, <2>8, <3>3
    <3>4. CASE step.op = "emit"
      BY <2>7, <2>8, <3>4
    <3>5. CASE step.op = "return"
      BY <2>6, <2>8, <3>5
    <3>. QED
      BY <3>1, <3>2, <3>3, <3>4, <3>5 DEF AllowedOps
  <2>. QED
    BY <2>9 DEF g
<1>. QED
  BY <1>1, <1>2

-----------------------------------------------------------------------------

\* How RunProgram tabulates a run: the equation of its recursive function.
RunTable(ran, program, started, args) ==
  ran = [i \in 0 .. Len(program) |-> IF i = 0 THEN started
                                     ELSE Step(ran[i - 1], program[i], args)]

RunsTo(program, started, args) == CHOOSE ran : RunTable(ran, program, started, args)

LEMMA RunIsTable ==
  ASSUME NEW program, NEW started, NEW args
  PROVE  RunProgram(program, started, args) = RunsTo(program, started, args)[Len(program)]
BY Zenon DEF RunProgram, RunsTo, RunTable

\* The part of a table up to k.
PartTable(ran, k, program, started, args) ==
  ran = [i \in 0 .. k |-> IF i = 0 THEN started ELSE Step(ran[i - 1], program[i], args)]

\* There is a table: one of the first k instructions can be extended by one.
LEMMA TableExtends ==
  ASSUME NEW program, NEW started, NEW args, NEW k \in Nat,
         NEW ran, PartTable(ran, k, program, started, args)
  PROVE  \E longer : PartTable(longer, k + 1, program, started, args)
<1>. DEFINE next == Step(ran[k], program[k + 1], args)
            longer == [i \in 0 .. k + 1 |-> IF i = k + 1 THEN next ELSE ran[i]]
<1>1. \A i \in 0 .. k : longer[i] = ran[i]
  OBVIOUS
<1>2. longer[k + 1] = next
  OBVIOUS
<1>3. \A i \in 0 .. k : ran[i] = IF i = 0 THEN started ELSE Step(ran[i - 1], program[i], args)
  BY DEF PartTable
<1>4. ASSUME NEW i \in 0 .. k + 1
      PROVE  longer[i] = IF i = 0 THEN started ELSE Step(longer[i - 1], program[i], args)
  <2>1. CASE i = k + 1
    <3>1. k \in 0 .. k /\ i - 1 = k /\ i # 0
      BY <2>1
    <3>. QED
      BY <1>1, <1>2, <2>1, <3>1
  <2>2. CASE i \in 0 .. k /\ i # 0
    <3>1. i - 1 \in 0 .. k
      BY <2>2
    <3>. HIDE DEF longer
    <3>. QED
      BY <1>1, <1>3, <2>2, <3>1
  <2>3. CASE i = 0
    <3>1. 0 \in 0 .. k
      OBVIOUS
    <3>. HIDE DEF longer
    <3>. QED
      BY <1>1, <1>3, <2>3, <3>1
  <2>. QED
    BY <2>1, <2>2, <2>3
<1>5. longer = [i \in 0 .. k + 1 |-> longer[i]]
  OBVIOUS
<1>. HIDE DEF longer
<1>6. longer = [i \in 0 .. k + 1 |-> IF i = 0 THEN started
                                     ELSE Step(longer[i - 1], program[i], args)]
  BY <1>4, <1>5
<1>. QED
  BY <1>6 DEF PartTable

LEMMA TableOfRun ==
  ASSUME NEW program, NEW started, NEW args, Len(program) \in Nat
  PROVE  RunTable(RunsTo(program, started, args), program, started, args)
<1>. DEFINE n == Len(program)
            Has(k) == \E ran : PartTable(ran, k, program, started, args)
            Bad == {k \in 0 .. n : ~Has(k)}
<1>1. Has(0)
  <2>. DEFINE ran == [i \in 0 .. 0 |-> started]
  <2>1. \A i \in 0 .. 0 : i = 0
    OBVIOUS
  <2>2. ran = [i \in 0 .. 0 |-> IF i = 0 THEN started ELSE Step(ran[i - 1], program[i], args)]
    BY <2>1
  <2>. QED
    BY <2>2 DEF PartTable
<1>2. \A k \in Nat : Has(k) => Has(k + 1)
  BY TableExtends
<1>. HIDE DEF Has
<1>3. Has(n)
  <2>. SUFFICES ASSUME ~Has(n) PROVE FALSE
    OBVIOUS
  <2>1. Bad \in SUBSET Nat /\ Bad # {}
    <3>1. n \in Bad
      OBVIOUS
    <3>. QED
      BY <3>1
  <2>2. PICK k \in Bad : \A j \in Bad : ~(j < k)
    <3>. HIDE DEF Bad
    <3>. QED
      BY <2>1, LeastNumber
  <2>3. k \in 0 .. n /\ ~Has(k) /\ k # 0
    BY <1>1
  <2>4. k - 1 \in 0 .. n /\ k - 1 \in Nat /\ (k - 1) + 1 = k /\ k - 1 < k
    BY <2>3
  <2>5. ~Has(k - 1)
    BY <1>2, <2>3, <2>4
  <2>. QED
    BY <2>2, <2>4, <2>5
<1>4. \E ran : RunTable(ran, program, started, args)
  BY <1>3 DEF Has, PartTable, RunTable
<1>. QED
  BY <1>4 DEF RunsTo

\* What the first k instructions cost, the base charge included.
CostOf(program, k) ==
  10000 + SumFunctionOnSet([i \in DOMAIN program |-> InstructionGas(program[i])], 1 .. k)

LEMMA CostGrows ==
  ASSUME NEW program, Len(program) \in Nat, DOMAIN program = 1 .. Len(program)
  PROVE  /\ CostOf(program, 0) = 10000
         /\ \A k \in 0 .. Len(program) : CostOf(program, k) \in Nat
         /\ \A k \in 1 .. Len(program) :
              CostOf(program, k) = CostOf(program, k - 1) + InstructionGas(program[k])
         /\ ProgramGas(program) = CostOf(program, Len(program))
<1>. DEFINE f == [i \in DOMAIN program |-> InstructionGas(program[i])]
            n == Len(program)
<1>1. \A i \in 1 .. n : f[i] = InstructionGas(program[i]) /\ f[i] \in Nat
  BY GasType
<1>2. DOMAIN f = 1 .. n
  OBVIOUS
<1>. HIDE DEF f, n
<1>3. \A k \in 0 .. n : CostOf(program, k) = 10000 + SumFunctionOnSet(f, 1 .. k)
                      /\ 1 .. k \subseteq 1 .. n /\ IsFiniteSet(1 .. k)
  <2>1. n \in Nat
    BY DEF n
  <2>. QED
    BY <2>1, FS_Interval DEF CostOf, f
<1>4. CostOf(program, 0) = 10000
  <2>1. 1 .. 0 = {} /\ 0 \in 0 .. n
    BY DEF n
  <2>. QED
    BY <1>3, <2>1, SumOfNone
<1>5. ASSUME NEW k \in 0 .. n
      PROVE  SumFunctionOnSet(f, 1 .. k) \in Nat
  BY <1>1, <1>3, SumIsNat
<1>6. ASSUME NEW k \in 1 .. n
      PROVE  SumFunctionOnSet(f, 1 .. k) = f[k] + SumFunctionOnSet(f, 1 .. (k - 1))
  <2>1. k \in 1 .. k /\ (1 .. k) \ {k} = 1 .. (k - 1) /\ k \in 0 .. n
    BY DEF n
  <2>2. IsFiniteSet(1 .. k) /\ \A i \in 1 .. k : f[i] \in Int
    BY <1>1, <1>3, <2>1
  <2>3. SumFunctionOnSet(f, 1 .. k) = f[k] + SumFunctionOnSet(f, (1 .. k) \ {k})
    BY <2>1, <2>2, SumWithout
  <2>. QED
    BY <2>1, <2>3
<1>7. ASSUME NEW k \in 1 .. n
      PROVE  CostOf(program, k) = CostOf(program, k - 1) + InstructionGas(program[k])
  <2>1. k \in 0 .. n /\ k - 1 \in 0 .. n
    BY DEF n
  <2>2. f[k] \in Nat /\ f[k] = InstructionGas(program[k])
    BY <1>1
  <2>3. SumFunctionOnSet(f, 1 .. (k - 1)) \in Nat
    BY <1>5, <2>1
  <2>. QED
    BY <1>3, <1>6, <2>1, <2>2, <2>3
<1>8. ProgramGas(program) = CostOf(program, n)
  <2>1. n \in 0 .. n
    BY DEF n
  <2>2. ProgramGas(program) = 10000 + SumFunction(f)
    BY DEF ProgramGas, f
  <2>. QED
    BY <1>2, <1>3, <2>1, <2>2 DEF SumFunction
<1>9. ASSUME NEW k \in 0 .. n
      PROVE  CostOf(program, k) \in Nat
  BY <1>3, <1>5
<1>. QED
  BY <1>4, <1>7, <1>8, <1>9 DEF n

\* A whole run of an accepted program is good for the gas the program costs.
LEMMA ProgramIsGood ==
  ASSUME NEW program, Len(program) \in Nat, DOMAIN program = 1 .. Len(program),
         \A i \in DOMAIN program : program[i].op \in AllowedOps,
         NEW started, GoodRun(started, 10000), NEW args
  PROVE  GoodRun(RunProgram(program, started, args), ProgramGas(program))
<1>. DEFINE n == Len(program)
            ran == RunsTo(program, started, args)
            Bad == {k \in 0 .. n : ~GoodRun(ran[k], CostOf(program, k))}
<1>1. \A i \in 0 .. n : ran[i] = IF i = 0 THEN started ELSE Step(ran[i - 1], program[i], args)
  BY TableOfRun DEF RunTable
<1>2. GoodRun(ran[0], CostOf(program, 0))
  BY <1>1, CostGrows
<1>3. ASSUME NEW k \in 1 .. n, GoodRun(ran[k - 1], CostOf(program, k - 1))
      PROVE  GoodRun(ran[k], CostOf(program, k))
  <2>. HIDE DEF ran
  <2>1. k \in 0 .. n /\ k # 0 /\ k - 1 \in 0 .. n /\ k \in DOMAIN program
    OBVIOUS
  <2>2. ran[k] = Step(ran[k - 1], program[k], args)
    BY <1>1, <2>1
  <2>3. /\ CostOf(program, k - 1) \in Nat
        /\ CostOf(program, k) = CostOf(program, k - 1) + InstructionGas(program[k])
    BY <2>1, CostGrows
  <2>. QED
    BY <1>3, <2>1, <2>2, <2>3, StepIsGood
<1>. HIDE DEF ran
<1>4. Bad = {}
  <2>. SUFFICES ASSUME Bad # {} PROVE FALSE
    OBVIOUS
  <2>1. Bad \in SUBSET Nat
    OBVIOUS
  <2>2. PICK k \in Bad : \A j \in Bad : ~(j < k)
    <3>. HIDE DEF Bad
    <3>. QED
      BY <2>1, LeastNumber
  <2>3. k \in 0 .. n /\ ~GoodRun(ran[k], CostOf(program, k))
    OBVIOUS
  <2>4. k \in 1 .. n /\ k - 1 \in 0 .. n /\ k - 1 < k
    BY <1>2, <2>3
  <2>5. ~GoodRun(ran[k - 1], CostOf(program, k - 1))
    BY <1>3, <2>3, <2>4
  <2>. QED
    BY <2>2, <2>4, <2>5
<1>5. GoodRun(ran[n], CostOf(program, n))
  BY <1>4
<1>. QED
  BY <1>5, RunIsTable, CostGrows DEF ran

\* Any call of a deployed program: it is not refused for its code, and what it
\* ran is paid for.
LEMMA ExecuteIsGood ==
  ASSUME NEW c \in Codes, c.vm, ValidCode(c), NEW storage, NEW method, NEW args
  PROVE  /\ Execute(c, storage, method, args).status # "unsupported"
         /\ Runs(Execute(c, storage, method, args)) =>
              Execute(c, storage, method, args).work <= VmInstructionGas(c, method)
<1>. DEFINE started == [storage |-> storage, status |-> "running", ret |-> Missing, work |-> 10000]
            program == c.methods[method]
<1>1. CASE method \notin DOMAIN c.methods
  <2>1. Execute(c, storage, method, args) = [started EXCEPT !.status = "failed"]
    BY <1>1 DEF Execute
  <2>2. Execute(c, storage, method, args).status = "failed"
    BY <2>1
  <2>. QED
    BY <2>2 DEF Runs
<1>2. CASE method \in DOMAIN c.methods
  <2>1. /\ Len(program) \in Nat /\ DOMAIN program = 1 .. Len(program)
    BY <1>2, CodeAssumption
  <2>2. ~(Len(program) > MaxInstructions) /\ \A i \in DOMAIN program : program[i].op \in AllowedOps
    <3>1. Len(program) <= MaxInstructions /\ \A i \in DOMAIN program : program[i].op \in AllowedOps
      BY <1>2 DEF ValidCode
    <3>2. MaxInstructions \in Int
      BY LimitAssumption
    <3>. HIDE DEF program
    <3>. QED
      BY <2>1, <3>1, <3>2
  <2>3. Execute(c, storage, method, args) = RunProgram(program, started, args)
    BY <1>2, <2>2 DEF Execute
  <2>4. VmInstructionGas(c, method) = ProgramGas(program)
    BY <1>2 DEF VmInstructionGas
  <2>5. GoodRun(started, 10000)
    BY DEF GoodRun
  <2>. HIDE DEF program, started
  <2>6. GoodRun(RunProgram(program, started, args), ProgramGas(program))
    BY <2>1, <2>2, <2>5, ProgramIsGood
  <2>. QED
    BY <2>3, <2>4, <2>6 DEF GoodRun
<1>. QED
  BY <1>1, <1>2

\* What was deployed was accepted, and the last program was paid for.
ProgramInv ==
  /\ contract # NotDeployed => contract.code \in Codes /\ ValidCode(contract.code)
  /\ GasCoversWork

\* Every step keeps both.
LEMMA ProgramNext ==
  ASSUME ProgramInv, [Next]_vars
  PROVE  ProgramInv'
<1>1. ASSUME UNCHANGED <<contract, charged, worked>>
      PROVE  ProgramInv'
  BY <1>1 DEF ProgramInv, GasCoversWork
<1>2. CASE UNCHANGED vars
  BY <1>1, <1>2 DEF vars, histories
<1>3. ASSUME NEW u \in Users, NEW code \in Codes, Deploy(u, code)
      PROVE  ProgramInv'
  BY <1>3 DEF Deploy, ProgramInv, GasCoversWork
<1>4. ASSUME NEW u \in Users, NEW method \in Methods, NEW args \in ArgLists,
             CallProgram(u, method, args)
      PROVE  ProgramInv'
  <2>. DEFINE code == contract.code
              run == Execute(code, plain, method, args)
  <2>1. /\ contract # NotDeployed /\ code.vm /\ UNCHANGED contract
        /\ charged' = IF Runs(run) THEN RequiredGas(method) - BaseCallGas ELSE 0
        /\ worked' = IF Runs(run) THEN run.work ELSE 0
    BY <1>4 DEF CallProgram
  <2>2. code \in Codes /\ ValidCode(code)
    BY <2>1 DEF ProgramInv
  <2>3. Runs(run) => run.work <= VmInstructionGas(code, method)
    BY <2>1, <2>2, ExecuteIsGood
  <2>4. RequiredGas(method) - BaseCallGas = VmInstructionGas(code, method)
    <3>1. VmInstructionGas(code, method) \in Int
      <4>1. CASE method \in DOMAIN code.methods
        <5>1. VmInstructionGas(code, method) = ProgramGas(code.methods[method])
          BY <2>1, <4>1 DEF VmInstructionGas
        <5>. DEFINE program == code.methods[method]
        <5>2. Len(program) \in Nat /\ DOMAIN program = 1 .. Len(program)
          BY <2>1, <2>2, <4>1, CodeAssumption
        <5>. HIDE DEF program
        <5>3. ProgramGas(program) \in Nat
          <6>1. Len(program) \in 0 .. Len(program)
            BY <5>2
          <6>. QED
            BY <5>2, <6>1, CostGrows
        <5>. QED
          BY <5>1, <5>3 DEF program
      <4>2. CASE method \notin DOMAIN code.methods
        BY <4>2 DEF VmInstructionGas
      <4>. QED
        BY <4>1, <4>2
    <3>. QED
      BY <3>1, CallAssumption DEF CallAssumption, RequiredGas
  <2>. HIDE DEF run, code
  <2>5. worked' <= charged'
    BY <2>1, <2>3, <2>4
  <2>. QED
    BY <2>1, <2>2, <2>5 DEF ProgramInv, GasCoversWork, code
<1>5. ASSUME NEW u \in Users, TokenCall(u) \/ StorageCall(u)
      PROVE  ProgramInv'
  <2>1. CASE TokenCall(u)
    <3>1. UNCHANGED <<contract, charged, worked>>
      BY <2>1 DEF TokenCall, CallInit, CallTransferOwnership, CallMint, CallBurn,
         CallTransfer, CallApprove, CallTransferFrom, CallToken, Native
    <3>. QED
      BY <1>1, <3>1
  <2>2. CASE StorageCall(u)
    <3>1. UNCHANGED <<contract, charged, worked>>
      BY <2>2, StorageCallWrites DEF Write, CallRead, Native
    <3>. QED
      BY <1>1, <3>1
  <2>. QED
    BY <1>5, <2>1, <2>2
<1>6. ASSUME NEW u \in Users, NEW n \in 1 .. MaxNonce, Reinclude(u, n)
      PROVE  ProgramInv'
  BY <1>1, <1>6 DEF Reinclude
<1>. QED
  BY <1>2, <1>3, <1>4, <1>5, <1>6 DEF Next

LEMMA ProgramAlways == Spec => []ProgramInv
<1>1. Init => ProgramInv
  BY DEF Init, ProgramInv, GasCoversWork
<1>2. ProgramInv /\ [Next]_vars => ProgramInv'
  BY ProgramNext
<1>. QED
  BY <1>1, <1>2, PTL DEF Spec

\* Whatever a deployed program does, its call was charged for at least the gas
\* its instructions used.
THEOREM GasIsCovered == Spec => []GasCoversWork
<1>1. ProgramInv => GasCoversWork
  BY DEF ProgramInv
<1>. QED
  BY <1>1, ProgramAlways, PTL

\* No call of a deployed program finds code that the runtime refuses.
THEOREM DeployedCodeRuns == Spec => []DeployedRuns
<1>1. ProgramInv => DeployedRuns
  <2>. SUFFICES ASSUME ProgramInv, contract # NotDeployed, NEW method \in Methods,
                       NEW args \in ArgLists, contract.code.vm
                PROVE  Execute(contract.code, plain, method, args).status # "unsupported"
    BY DEF DeployedRuns
  <2>1. contract.code \in Codes /\ ValidCode(contract.code)
    BY DEF ProgramInv
  <2>. QED
    BY <2>1, ExecuteIsGood
<1>. QED
  BY <1>1, ProgramAlways, PTL

=============================================================================
