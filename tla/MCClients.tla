----------------------------- MODULE MCClients -----------------------------
(* An instance of Clients for TLC. *)
EXTENDS Clients

CONSTANTS Funder, User, Owner, f1, f2, f3, e1, e2, s, v, k, w, r

Do(kind, type, from, to, amount) ==
  [kind |-> kind, type |-> type, from |-> from, to |-> to, amount |-> amount]

\* Three faucet requests for one user, who sends from two views of the extension
\* and from the web wallet; an owner who registers a validator from the command
\* line and from the web wallet; and an operator who does so with the key of a node that does it itself.
Tasks ==
  f1 :> Do("faucet", "transfer", Funder, User, 3) @@ f2 :> Do("faucet", "transfer", Funder, User, 3)
  @@ f3 :> Do("faucet", "transfer", Funder, User, 3)
  @@ e1 :> Do("extension", "transfer", User, Funder, 1) @@ e2 :> Do("extension", "transfer", User, Funder, 1)
  @@ s :> Do("sdk", "stake", User, User, 1)
  @@ v :> Do("validator", "stake", Owner, Owner, 2)
  @@ w :> Do("web", "transfer", User, Funder, 1)
  @@ r :> Do("web", "validator_register", Owner, Owner, 2)
  @@ k :> Do("validator", "stake", Node, Node, 2)

Tries == [c \in Clients |-> IF c \in {e1, s} THEN 2 ELSE 1]

Balances == Funder :> 8 @@ User :> 0 @@ Owner :> 4 @@ Node :> 4

Together == {{f1, f2, e1}, {f1, e1, e2}, {f1, s}, {v, Node}, {k, Node}, {f1, Node}, {f1, f2, f3}, {f1, e1, w}, {v, r}}

=============================================================================
