------------------------------- MODULE Token -------------------------------
(***************************************************************************)
(* The native token every contract without a program of its own offers:    *)
(* executeNativeContractMethod's token_* methods (transactions.ts).  The   *)
(* code keeps the token in string keys of the contract's storage; here it  *)
(* is a record of the numbers toBigIntSafe reads from them (an absent key  *)
(* reads 0, and so does a text).  Every method is an operator from the     *)
(* token and the call's arguments to an outcome; a refusal changes nothing *)
(* and is still a successful call.  Contracts adds the raw storage methods *)
(* that write the same keys.                                               *)
(***************************************************************************)
EXTENDS Integers

CONSTANTS
  Users,     \* account addresses
  Nobody,    \* the owner key is absent or empty
  Stranger   \* the owner key holds a text that is no user's address

ASSUME NobodyAssumption == Nobody \notin Users /\ Stranger \notin Users

TokenRecord == [initialized : Int, owner : Users \cup {Nobody, Stranger}, supply : Int,
                bal : [Users -> Int], allow : [Users -> [Users -> Int]]]

NewToken == [initialized |-> 0, owner |-> Nobody, supply |-> 0,
             bal |-> [a \in Users |-> 0], allow |-> [a \in Users |-> [b \in Users |-> 0]]]

\* token_init asks for exactly the "1" that it writes.
Initialized(t) == t.initialized = 1

Outcome(t, done) == [token |-> t, done |-> done]
Rejected(t) == Outcome(t, FALSE)

\* The deployer owns a token that names no owner.
TokenOwner(t, deployer) == IF t.owner = Nobody THEN deployer ELSE t.owner

\* moveTokenBalance: both balances are read before either is written.
Moved(t, from, to, amount) ==
  [t EXCEPT !.bal = [t.bal EXCEPT ![from] = t.bal[from] - amount, ![to] = t.bal[to] + amount]]

\* Mutant: a second initialisation is not refused.
TokenInitAgain(t, owner, initialSupply) ==
  Outcome([t EXCEPT !.initialized = 1, !.owner = owner, !.supply = initialSupply,
                    !.bal = [t.bal EXCEPT ![owner] = initialSupply]], TRUE)

\* Anyone may initialise; what was minted before stays in the balances.
TokenInit(t, owner, initialSupply) ==
  IF Initialized(t) THEN Rejected(t)
  ELSE Outcome([t EXCEPT !.initialized = 1, !.owner = owner, !.supply = initialSupply,
                         !.bal = [t.bal EXCEPT ![owner] = initialSupply]], TRUE)

TokenTransferOwnership(t, deployer, caller, newOwner) ==
  IF TokenOwner(t, deployer) # caller THEN Rejected(t)
  ELSE Outcome([t EXCEPT !.owner = newOwner], TRUE)

TokenMint(t, deployer, caller, to, amount) ==
  IF TokenOwner(t, deployer) # caller \/ amount <= 0 THEN Rejected(t)
  ELSE Outcome([t EXCEPT !.bal = [t.bal EXCEPT ![to] = t.bal[to] + amount],
                         !.supply = t.supply + amount], TRUE)

\* Mutant: the supply is not reduced.
TokenBurnKeepsSupply(t, deployer, caller, from, named, amount) ==
  IF \/ from # caller /\ TokenOwner(t, deployer) # caller
     \/ named /\ from = caller
     \/ amount <= 0
     \/ t.bal[from] < amount
  THEN Rejected(t)
  ELSE Outcome([t EXCEPT !.bal = [t.bal EXCEPT ![from] = t.bal[from] - amount]], TRUE)

\* A caller who names itself gives its address as the amount, which is none.
TokenBurn(t, deployer, caller, from, named, amount) ==
  IF \/ from # caller /\ TokenOwner(t, deployer) # caller
     \/ named /\ from = caller
     \/ amount <= 0
     \/ t.bal[from] < amount
  THEN Rejected(t)
  ELSE Outcome([t EXCEPT !.bal = [t.bal EXCEPT ![from] = t.bal[from] - amount],
                         !.supply = t.supply - amount], TRUE)

TokenTransfer(t, caller, to, amount) ==
  IF amount <= 0 \/ t.bal[caller] < amount THEN Rejected(t)
  ELSE Outcome(Moved(t, caller, to, amount), TRUE)

TokenApprove(t, caller, spender, amount) ==
  IF amount < 0 THEN Rejected(t)
  ELSE Outcome([t EXCEPT !.allow = [t.allow EXCEPT
                  ![caller] = [t.allow[caller] EXCEPT ![spender] = amount]]], TRUE)

\* Mutant: what was spent stays allowed.
TokenSpendAgain(t, caller, from, to, amount) ==
  IF amount <= 0 \/ t.allow[from][caller] < amount \/ t.bal[from] < amount
  THEN Rejected(t)
  ELSE Outcome(Moved(t, from, to, amount), TRUE)

TokenTransferFrom(t, caller, from, to, amount) ==
  IF amount <= 0 \/ t.allow[from][caller] < amount \/ t.bal[from] < amount
  THEN Rejected(t)
  ELSE Outcome([Moved(t, from, to, amount) EXCEPT
                  !.allow = [t.allow EXCEPT ![from] =
                     [t.allow[from] EXCEPT ![caller] = t.allow[from][caller] - amount]]], TRUE)
=============================================================================
