SPECIFICATION Spec
CONSTANTS
  s1 = s1  s2 = s2
  Stakers = {s1, s2}
  PRECISION = 6
  Fees = {0, 3}
  Amounts = {1, 2}
  deregistrationOpensAt = 1
  providerMinimumStake = 2
  MaxTime = 1
  MaxStaked = 3
  MaxRewards = 3
  Shares = 6
SYMMETRY MCSymmetry
INVARIANTS TypeOK BalanceCoversLast RewardsBacked FairShares
CHECK_DEADLOCK FALSE
