------------------------------ MODULE MCLedger ------------------------------
(***************************************************************************)
(* Small instances of Ledger: three users, one contract, and for each run  *)
(* the transactions its question needs.                                    *)
(***************************************************************************)
EXTENDS Ledger

Alice == "alice"
Bob == "bob"
SeedUser == "seed"

AllUsers == {SeedUser, Alice, Bob}
TwoUsers == {SeedUser, Alice}
OneContract == {"c1"}
ThreeIds == 1 .. 3

Funds == [a \in Users |-> IF a = SeedUser THEN 12 ELSE 9]
TightFunds == [a \in Users |-> IF a = SeedUser THEN 12 ELSE 5]

\* The validator id a user registers.
IdOf(a) == CASE a = SeedUser -> 1 [] a = Alice -> 2 [] a = Bob -> 3

Blank == [type |-> "transfer", from |-> SeedUser, nonce |-> 1, amount |-> 1, fee |-> 0,
          to |-> SeedUser, id |-> 1, contract |-> "c1", vm |-> "ok", pay |-> 0]

Tx(type, from, n, amount) ==
  [Blank EXCEPT !.type = type, !.from = from, !.nonce = n, !.amount = amount, !.id = IdOf(from)]

\* Registrations, unstakes that undercut the minimum, and exits.
EpochTxs ==
  UNION {{Tx("stake", a, 1, 2), Tx("stake", a, 1, 3),
          Tx("validator_register", a, 2, 1),
          Tx("unstake", a, 3, 1), Tx("unstake", a, 3, 2),
          Tx("validator_unregister", a, 3, 1), Tx("validator_register", a, 4, 1)}
         : a \in {Alice, Bob}}
  \cup {Tx("validator_unregister", SeedUser, 3, 1)}

\* The first payments, stakes and unstakes of a user, with and without a tip, a
\* payment to oneself, and registrations the account cannot pay for.
MoneyTxs ==
  UNION {{[Tx("transfer", Alice, n, 1) EXCEPT !.fee = 1],
          [Tx("transfer", Alice, n, 2) EXCEPT !.to = Alice],
          Tx("unstake", Alice, n, 1),
          Tx("validator_register", Alice, n, 1)} : n \in 1 .. 3}
  \cup {Tx("stake", Alice, 1, 2)}

\* A contract that is deployed with or without value, called with success,
\* with a payout it can or cannot afford, and with a failing program.
ContractTxs ==
  {[Tx("contract_deploy", Alice, n, 1) EXCEPT !.fee = 1] : n \in 1 .. 2}
  \cup {[Tx("contract_deploy", Alice, n, 0) EXCEPT !.vm = "invalid"] : n \in 1 .. 2}
  \cup UNION {{[Tx("contract_call", Alice, n, 1) EXCEPT !.vm = "fails"],
               [Tx("contract_call", Alice, n, 1) EXCEPT !.pay = 2, !.to = SeedUser],
               [Tx("contract_call", Alice, n, 0) EXCEPT !.pay = 1, !.to = "c1"],
               [Tx("transfer", Alice, n, 1) EXCEPT !.to = "c1"]} : n \in 1 .. 3}

\* The seed node's account registers up to three more validators; one of them
\* may leave and come back.
DowntimeTxs ==
  {[Tx("validator_register", SeedUser, 3, 1) EXCEPT !.id = 2],
   [Tx("validator_register", SeedUser, 4, 1) EXCEPT !.id = 3],
   [Tx("validator_register", SeedUser, 5, 1) EXCEPT !.id = 4],
   [Tx("validator_unregister", SeedUser, 5, 1) EXCEPT !.id = 2],
   [Tx("validator_register", SeedUser, 6, 1) EXCEPT !.id = 2]}

\* Payments and contracts of one user while another's validators come and go.
AllTxs == MoneyTxs \cup ContractTxs \cup DowntimeTxs
FourIds == 1 .. 4

=============================================================================
