---------------------------- MODULE MCContracts ----------------------------
(***************************************************************************)
(* Instances of Contracts for TLC: native code and qtx-v1 programs that    *)
(* cover each instruction, a failing one, and code a deployment refuses.   *)
(***************************************************************************)
EXTENDS Contracts

CONSTANTS k, counter   \* keys outside the token's

I(op, key, arg, value) == [op |-> op, key |-> key, arg |-> arg, value |-> value]

NativeCode == [vm |-> FALSE, methods |-> <<>>]

GoodCode ==
  [vm |-> TRUE,
   methods |-> [put |-> <<I("set", k, 1, 2), I("emit", NoKey, NoArg, Missing),
                          I("return", k, NoArg, Missing)>>,
                inc |-> <<I("add", k, 1, Missing), I("return", NoKey, NoArg, 1),
                          I("delete", k, NoArg, Missing)>>,
                bad |-> <<I("delete", k, NoArg, Missing), I("set", NoKey, 1, 1)>>]]

\* Refused: an unknown instruction behind a good one, and a program too long.
JumpCode ==
  [vm |-> TRUE, methods |-> [put |-> <<I("set", k, NoArg, 1), I("jump", NoKey, 1, 1)>>]]
LongCode == [vm |-> TRUE, methods |-> [inc |-> [i \in 1 .. 4 |-> I("add", k, NoArg, 1)]]]

MCCodes == {NativeCode, GoodCode, JumpCode, LongCode}
MCMethods == {"put", "inc", "bad", "other"}
MCArgLists == {<<>>, <<1>>, <<Text>>}
MCKeys == {k, counter}
MCAmounts == {1, 2}
MCSupplies == {-1, 1}
Interchangeable == Permutations(Users)
MCRawValues == {-1, 1, Text} \cup Users
MCBatches ==
  {<<>>, << <<k, 1>>, <<counter, 1>>, <<k, 2>> >>}
  \cup {<< <<<<"supply">>, 2>>, <<<<"bal", u>>, 2>> >> : u \in Users}
  \cup {<< <<<<"owner">>, u>>, <<<<"initialized">>, 1>>, <<k, 2>> >> : u \in Users}
=============================================================================
