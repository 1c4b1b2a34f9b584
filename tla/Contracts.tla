----------------------------- MODULE Contracts -----------------------------
(***************************************************************************)
(* One contract address from its deployment on: the contract_deploy and    *)
(* contract_call cases of applyTransaction and the receipts applyBlock     *)
(* writes.  Ledger keeps the coins these transactions move and treats the  *)
(* runtime as an oracle (its tx.vm); this module is that oracle's inside.  *)
(*                                                                         *)
(* A call of a contract with a qtx-v1 program runs the program; any other  *)
(* contract answers with the native methods: the token's and the raw       *)
(* storage methods, which may name any key, the token's included.          *)
(***************************************************************************)
EXTENDS Token, QtxVm

CONSTANTS
  Codes,          \* contract codes that clients deploy
  Methods,        \* method names that clients call
  ArgLists,       \* argument lists of calls of qtx-v1 methods
  PlainKeys,      \* storage keys outside the token's
  RawValues,      \* what clients give the raw storage methods to write
  Amounts,        \* amounts that clients name, possibly not positive
  InitialSupplies,
  BatchLimit,     \* 64 in the code
  Batches,        \* entry lists of batch_set, as <<key, value>> pairs
  NotDeployed,
  BaseCallGas,    \* estimateContractGasUsage of a call
  MaxNonce,       \* bound: contract transactions of one user
  MaxReincluded   \* bound: transactions that come in a second block

ASSUME CallAssumption ==
  /\ Amounts \subseteq Int
  /\ InitialSupplies \subseteq Int
  /\ MaxNonce \in Nat
  /\ MaxReincluded \in Nat
  /\ BaseCallGas \in Nat
  /\ NotDeployed \notin [owner : Users, code : Codes]
  /\ RawValues \subseteq Value \cup Users

ASSUME UserAssumption == IsFiniteSet(Users)

\* A method's program is a list of instructions.
ASSUME CodeAssumption ==
  \A c \in Codes : c.vm => \A m \in DOMAIN c.methods :
    /\ Len(c.methods[m]) \in Nat
    /\ DOMAIN c.methods[m] = 1 .. Len(c.methods[m])

VARIABLES
  contract,     \* NotDeployed, or the record of state.contracts
  token,        \* the token's keys of its storage
  plain,        \* the other keys of its storage
  nonce,        \* the users' nonces
  receipts,     \* receipt of the transaction that took each nonce
  completed,    \* history: the transactions that ran to their end
  reincluded,   \* history: the transactions a later block contained again
  approved, spent,   \* history: what each allowance was last set to, and what was
                     \* moved under it since
  raw,               \* history: the token's keys the last native call wrote raw
  charged, worked    \* history: gas charged for, and used by, the last program

histories == <<completed, reincluded, approved, spent, raw, charged, worked>>
vars == <<contract, token, plain, nonce, receipts, histories>>

\* The keys of a token's storage, whatever is in them.
TokenKeys == {<<"initialized">>, <<"owner">>, <<"supply">>}
             \cup ({"bal"} \X Users) \cup ({"allow"} \X Users \X Users)

Receipt == {"none", "success", "failed"}
NoAmounts == [a \in Users |-> [b \in Users |-> 0]]

TypeOK ==
  /\ contract \in [owner : Users, code : Codes] \cup {NotDeployed}
  /\ token \in TokenRecord
  /\ plain \in [PlainKeys -> Value]
  /\ nonce \in [Users -> 0 .. MaxNonce]
  /\ receipts \in [Users \X (1 .. MaxNonce) -> Receipt]
  /\ completed \subseteq Users \X (1 .. MaxNonce)
  /\ reincluded \subseteq Users \X (1 .. MaxNonce)
  /\ approved \in [Users -> [Users -> Int]]
  /\ spent \in [Users -> [Users -> Int]]
  /\ raw \subseteq TokenKeys

Init ==
  /\ contract = NotDeployed
  /\ token = NewToken
  /\ plain = [k \in PlainKeys |-> Missing]
  /\ nonce = [u \in Users |-> 0]
  /\ receipts = [p \in Users \X (1 .. MaxNonce) |-> "none"]
  /\ completed = {}
  /\ reincluded = {}
  /\ approved = NoAmounts
  /\ spent = NoAmounts
  /\ raw = {}
  /\ charged = 0
  /\ worked = 0

-----------------------------------------------------------------------------
(* The part every contract transaction shares: the nonce moves on before   *)
(* the runtime is entered, and the transaction gets its receipt.           *)

\* The transaction that takes the user's next nonce, which its hash covers.
Next1(u) == <<u, nonce[u] + 1>>

Succeed(u) ==
  /\ nonce[u] < MaxNonce
  /\ nonce' = [nonce EXCEPT ![u] = @ + 1]
  /\ receipts' = [receipts EXCEPT ![Next1(u)] = "success"]
  /\ completed' = completed \cup {Next1(u)}
  /\ UNCHANGED reincluded

\* applyBlock's receipt of a call whose runtime stopped with an error.
Fail(u) ==
  /\ nonce[u] < MaxNonce
  /\ nonce' = [nonce EXCEPT ![u] = @ + 1]
  /\ receipts' = [receipts EXCEPT ![Next1(u)] = "failed"]
  /\ UNCHANGED <<completed, reincluded>>

Deploy(u, code) ==
  /\ contract = NotDeployed
  /\ ValidCode(code)
  /\ contract' = [owner |-> u, code |-> code]
  /\ Succeed(u)
  /\ UNCHANGED <<token, plain, approved, spent, raw, charged, worked>>

\* Mutant: a transaction that is applied already is not told from a new one.
ReincludeRuns(u, n) ==
  /\ n \in 1 .. nonce[u]
  /\ Cardinality(reincluded) < MaxReincluded
  /\ receipts' = [receipts EXCEPT ![<<u, n>>] = "success"]
  /\ reincluded' = reincluded \cup {<<u, n>>}
  /\ UNCHANGED <<contract, token, plain, nonce, completed, approved, spent, raw, charged, worked>>

\* A block contains an applied transaction once more: it is refused for its
\* nonce, and the refusal's receipt replaces the one it had.
Reinclude(u, n) ==
  /\ n \in 1 .. nonce[u]
  /\ Cardinality(reincluded) < MaxReincluded
  /\ receipts' = [receipts EXCEPT ![<<u, n>>] = "failed"]
  /\ reincluded' = reincluded \cup {<<u, n>>}
  /\ UNCHANGED <<contract, token, plain, nonce, completed, approved, spent, raw, charged, worked>>

\* What contract_call requires.
RequiredGas(method) == BaseCallGas + VmInstructionGas(contract.code, method)

\* A call of a qtx-v1 method with a gas limit that suffices.
CallProgram(u, method, args) ==
  LET run == Execute(contract.code, plain, method, args)
  IN  /\ contract # NotDeployed
      /\ contract.code.vm
      /\ plain' = run.storage
      /\ IF Runs(run) THEN Succeed(u) ELSE Fail(u)
      /\ charged' = IF Runs(run) THEN RequiredGas(method) - BaseCallGas ELSE 0
      /\ worked' = IF Runs(run) THEN run.work ELSE 0
      /\ UNCHANGED <<contract, token, approved, spent, raw>>

-----------------------------------------------------------------------------
(* Native methods.  A call the token refuses succeeds as a transaction.    *)

Native(u) ==
  /\ contract # NotDeployed
  /\ ~contract.code.vm
  /\ Succeed(u)
  /\ UNCHANGED <<contract, charged, worked>>

CallToken(u, outcome) ==
  /\ Native(u)
  /\ token' = outcome.token
  /\ raw' = {}
  /\ UNCHANGED plain

CallInit(u, owner, supply) ==
  /\ CallToken(u, TokenInit(token, owner, supply))
  /\ UNCHANGED <<approved, spent>>

CallTransferOwnership(u, newOwner) ==
  /\ CallToken(u, TokenTransferOwnership(token, contract.owner, u, newOwner))
  /\ UNCHANGED <<approved, spent>>

CallMint(u, to, amount) ==
  /\ CallToken(u, TokenMint(token, contract.owner, u, to, amount))
  /\ UNCHANGED <<approved, spent>>

CallBurn(u, from, named, amount) ==
  /\ CallToken(u, TokenBurn(token, contract.owner, u, from, named, amount))
  /\ UNCHANGED <<approved, spent>>

CallTransfer(u, to, amount) ==
  /\ CallToken(u, TokenTransfer(token, u, to, amount))
  /\ UNCHANGED <<approved, spent>>

CallApprove(u, spender, amount) ==
  LET outcome == TokenApprove(token, u, spender, amount)
  IN  /\ CallToken(u, outcome)
      /\ approved' = IF outcome.done
                     THEN [approved EXCEPT ![u] = [@ EXCEPT ![spender] = amount]] ELSE approved
      /\ spent' = IF outcome.done
                  THEN [spent EXCEPT ![u] = [@ EXCEPT ![spender] = 0]] ELSE spent

CallTransferFrom(u, from, to, amount) ==
  LET outcome == TokenTransferFrom(token, u, from, to, amount)
  IN  /\ CallToken(u, outcome)
      /\ spent' = IF outcome.done
                  THEN [spent EXCEPT ![from] = [@ EXCEPT ![u] = spent[from][u] + amount]] ELSE spent
      /\ UNCHANGED approved

\* set, delete, increment and batch_set take any key, the token's as well, from
\* any caller.  w is what the call writes: a function from keys to values.

\* toBigIntSafe(v, 0) of any value, and the owner that a value names.
Number(v) == IF v \in Int THEN v ELSE 0
OwnerNamed(v) == IF v = Missing THEN Nobody ELSE IF v \in Users THEN v ELSE Stranger

\* What the token's methods read after w.
Overwritten(t, w) ==
  LET number(key, old) == IF key \in DOMAIN w THEN Number(w[key]) ELSE old
  IN  [initialized |-> number(<<"initialized">>, t.initialized),
       owner |-> IF <<"owner">> \in DOMAIN w THEN OwnerNamed(w[<<"owner">>]) ELSE t.owner,
       supply |-> number(<<"supply">>, t.supply),
       bal |-> [a \in Users |-> number(<<"bal", a>>, t.bal[a])],
       allow |-> [a \in Users |-> [b \in Users |-> number(<<"allow", a, b>>, t.allow[a][b])]]]

\* What increment adds to: an owner is no number.
Held(key) ==
  IF key \in PlainKeys THEN Number(plain[key])
  ELSE CASE key[1] = "initialized" -> token.initialized
         [] key[1] = "owner"  -> 0
         [] key[1] = "supply" -> token.supply
         [] key[1] = "bal"    -> token.bal[key[2]]
         [] key[1] = "allow"  -> token.allow[key[2]][key[3]]

\* An allowance counts as set anew, whoever wrote it.
Write(u, w) ==
  LET set(a, b) == <<"allow", a, b>> \in DOMAIN w
  IN  /\ Native(u)
      /\ token' = Overwritten(token, w)
      /\ plain' = [key \in PlainKeys |->
                     IF key \notin DOMAIN w THEN plain[key]
                     ELSE IF w[key] \in Users THEN Text ELSE w[key]]
      /\ raw' = DOMAIN w \cap TokenKeys
      /\ approved' = [a \in Users |-> [b \in Users |->
                        IF set(a, b) THEN token'.allow[a][b] ELSE approved[a][b]]]
      /\ spent' = [a \in Users |-> [b \in Users |-> IF set(a, b) THEN 0 ELSE spent[a][b]]]

CallSet(u, key, v) == Write(u, key :> v)
CallDelete(u, key) == Write(u, key :> Missing)
CallIncrement(u, key, by) == Write(u, key :> (Held(key) + by))

\* The last entry of a key is the one that stays.
CallBatchSet(u, entries) ==
  LET taken == 1 .. (IF Len(entries) < BatchLimit THEN Len(entries) ELSE BatchLimit)
      last(key) == CHOOSE i \in taken :
                     entries[i][1] = key /\ \A j \in taken : entries[j][1] = key => j <= i
  IN  Write(u, [key \in {entries[i][1] : i \in taken} |-> entries[last(key)][2]])

\* get, token_config, token_balance_of, token_allowance, token_total_supply and
\* unknown methods write nothing the others read.
CallRead(u) ==
  /\ Native(u)
  /\ raw' = {}
  /\ UNCHANGED <<token, plain, approved, spent>>

-----------------------------------------------------------------------------

TokenCall(u) ==
  \/ \E owner \in Users, supply \in InitialSupplies : CallInit(u, owner, supply)
  \/ \E newOwner \in Users : CallTransferOwnership(u, newOwner)
  \/ \E to \in Users, amount \in Amounts : CallMint(u, to, amount)
  \/ \E from \in Users, named \in BOOLEAN, amount \in Amounts :
       /\ named \/ from = u
       /\ CallBurn(u, from, named, amount)
  \/ \E to \in Users, amount \in Amounts : CallTransfer(u, to, amount)
  \/ \E spender \in Users, amount \in Amounts : CallApprove(u, spender, amount)
  \/ \E from, to \in Users, amount \in Amounts : CallTransferFrom(u, from, to, amount)

StorageCall(u) ==
  \/ \E key \in PlainKeys \cup TokenKeys :
       \/ \E v \in RawValues : CallSet(u, key, v)
       \/ CallDelete(u, key)
       \/ \E by \in Amounts : CallIncrement(u, key, by)
  \/ \E entries \in Batches : CallBatchSet(u, entries)
  \/ CallRead(u)

Next ==
  \E u \in Users :
    \/ \E code \in Codes : Deploy(u, code)
    \/ \E method \in Methods, args \in ArgLists : CallProgram(u, method, args)
    \/ TokenCall(u)
    \/ StorageCall(u)
    \/ \E n \in 1 .. MaxNonce : Reinclude(u, n)

Spec == Init /\ [][Next]_vars

-----------------------------------------------------------------------------
(* Properties *)

TokenSum == SumFunction(token.bal)
Unbacked == TokenSum - token.supply

\* A token moved to its own holder is written twice and grows.
SelfMove(u, from, amount) ==
  \/ from = u /\ CallTransfer(u, u, amount)
  \/ CallTransferFrom(u, from, from, amount)

\* The call that turns a set of token keys into a token.
Initialises == raw' = {} /\ ~Initialized(token) /\ Initialized(token')

\* Whatever the sequence of mints, burns, transfers and approvals, and whatever
\* the raw methods have made of the token before, no tokens appear or vanish
\* outside the supply, except the amount of a move to oneself
\* (moveTokenBalance), at an initialisation (token_init after token_mint) and
\* by a raw write of the supply or of a balance.
SupplyAccounted ==
  [][\/ Unbacked' = Unbacked
     \/ \E u, from \in Users, amount \in Amounts :
          SelfMove(u, from, amount) /\ Unbacked' = Unbacked + amount
     \/ Initialises
     \/ raw' \cap ({<<"supply">>} \cup ({"bal"} \X Users)) # {}]_vars

\* However approvals, transfers, spends and raw writes interleave, what a
\* spender has moved since its allowance was last set, by the owner's
\* token_approve or by anybody's raw write of that key, and what it may still
\* move add up to what was set, and it never moves more.
AllowanceRespected ==
  \A a, b \in Users :
    /\ spent[a][b] + token.allow[a][b] = approved[a][b]
    /\ 0 <= spent[a][b]
    /\ spent[a][b] <= approved[a][b] \/ spent[a][b] = 0

\* Nobody's balance is taken below zero by a mint, a burn or a transfer: only
\* token_init with a negative initial supply and a raw write of that balance
\* can leave a negative one.
NoOverdraft ==
  [][\A a \in Users :
       token'.bal[a] < 0 => \/ token'.bal[a] >= token.bal[a]
                            \/ Initialises
                            \/ <<"bal", a>> \in raw']_vars

\* Where the raw methods leave a key alone, the token's methods guard it: an
\* initialised token stays initialised, changes owner only by its owner's own
\* call, and its supply grows only by its owner's.  Later initialisations, by
\* whomever, take nothing away.
OwnerKept ==
  [][Initialized(token) =>
       /\ Initialized(token') \/ <<"initialized">> \in raw'
       /\ \/ token'.owner = token.owner
          \/ <<"owner">> \in raw'
          \/ \E newOwner \in Users :
               CallTransferOwnership(TokenOwner(token, contract.owner), newOwner)
       /\ \/ token'.supply <= token.supply
          \/ <<"supply">> \in raw'
          \/ LET owner == TokenOwner(token, contract.owner)
             IN  raw' = {} /\ nonce'[owner] > nonce[owner]]_vars

\* A receipt of success belongs to a transaction that ran to its end, and such
\* a transaction has one unless a later block contained it again (applyBlock
\* writes the refusal of the second copy over the receipt of the first).
ReceiptTruth ==
  \A u \in Users, n \in 1 .. MaxNonce :
    /\ receipts[<<u, n>>] = "success" => <<u, n>> \in completed \ reincluded
    /\ <<u, n>> \in completed \ reincluded => receipts[<<u, n>>] = "success"
    /\ receipts[<<u, n>>] # "none" <=> n <= nonce[u]

\* A program that ran used no more gas than the call was charged for: what the
\* estimate adds up before the run covers what the run does, whichever branch
\* of its instructions returns first (estimateVmInstructionGas).
GasCoversWork == worked <= charged

\* What a deployment let through, a call can run: no program of a deployed
\* contract meets an instruction or a length the runtime refuses.
DeployedRuns ==
  contract # NotDeployed =>
    \A method \in Methods, args \in ArgLists :
      contract.code.vm => Execute(contract.code, plain, method, args).status # "unsupported"

=============================================================================
