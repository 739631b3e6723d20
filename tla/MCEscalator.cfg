SPECIFICATION FairSpec
CONSTANTS
  c1 = c1  c2 = c2
  Calls = {c1, c2}
  NoCall = NoCall
  MaxAttempts = 2
  MaxNonceRefreshes = 1
  MaxLag = 1
  MaxNonce = 5
INVARIANTS TypeOK NoGap NoMinedOverlooked TxBudget
PROPERTIES EveryCallReturns
CHECK_DEADLOCK FALSE
