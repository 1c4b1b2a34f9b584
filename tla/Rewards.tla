------------------------------ MODULE Rewards ------------------------------
(***************************************************************************)
(* How the reward of one committed block is split among the active         *)
(* validators: the four modes of distributeValidatorRewards.  Amounts are  *)
(* integers and every division rounds down, as BigInt division does on     *)
(* non-negative operands.                                                  *)
(***************************************************************************)
EXTENDS Integers, FiniteSets, FiniteSetsExt, Functions

RewardModes == {"hybrid", "proposer-only", "all-equal", "weighted-by-stake"}

Percent(amount, percent) == (amount * percent) \div 100

\* Everyone gets the same floor; the proposer also gets the rounding
\* remainder and whatever is reserved for it.
EqualShares(active, proposer, pool, reserved) ==
  LET n == Cardinality(active)
      each == pool \div n
      remainder == pool - each * n
  IN  [v \in active |-> each + IF v = proposer THEN remainder + reserved ELSE 0]

ProposerShares(active, proposer, amount) ==
  [v \in active |-> IF v = proposer THEN amount ELSE 0]

\* A share proportional to the stake of each validator's owner; with no stake
\* at all the proposer takes everything.
WeightedShares(active, proposer, pool, reserved, stakeOf) ==
  LET total == SumFunction(stakeOf)
      floor == [v \in active |-> (pool * stakeOf[v]) \div total]
      remainder == pool - SumFunction(floor)
  IN  IF total > 0
      THEN [v \in active |-> floor[v] + IF v = proposer THEN remainder + reserved ELSE 0]
      ELSE ProposerShares(active, proposer, pool + reserved)

\* mode: the configured rewardMode; pool: the validators' part of the fees;
\* blockReward: minted for the proposer; bonus: proposerBonusPercent.
Shares(mode, active, proposer, pool, blockReward, bonus, stakeOf) ==
  CASE mode = "proposer-only" ->
         ProposerShares(active, proposer, pool + blockReward)
    [] mode = "all-equal" ->
         EqualShares(active, proposer, pool, blockReward)
    [] mode = "weighted-by-stake" ->
         WeightedShares(active, proposer, pool, blockReward, stakeOf)
    [] OTHER ->
         LET bonusPool == Percent(pool, bonus)
         IN  EqualShares(active, proposer, pool - bonusPool, bonusPool + blockReward)

=============================================================================
