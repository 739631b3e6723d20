SPECIFICATION Spec
CONSTANTS
  u1 = u1  u2 = u2  p1 = p1  p2 = p2  m1 = m1  m2 = m2
  owner = owner  diamond = diamond  funding = funding  fees = fees
  Users = {}
  Providers = {p1, p2}
  ModelIds = {m1}
  ModelOwner <- MCModelOwner
  Diamond = diamond
  FundingAccount = funding
  FeeRecipient = fees
  InitialBalance <- MCRegistryBalances
  DAY = 3
  MIN_SESSION_DURATION = 1
  SIGNATURE_TTL = 0
  PROVIDER_REWARD_LIMITER_PERIOD = 4
  BUDGET_DIVISOR = 100
  Genesis = 3
  MaxTime = 3
  MaxBidNonce = 2
  MaxSessions = 0
  ProviderStakes = {0, 2}
  ProviderMinStakes = {0, 2}
  ModelStakes = {0, 2}
  OpenStake = 3
  ModelMinStakes = {0, 2}
  Prices = {1, 3}
  BidFees = {0, 1}
  PriceBounds <- MCTwoPriceBounds
  FeeWithdrawals = {1, 3}
  StakeAmounts = {3}
  Iterations = {1, 2}
  SessionDurations = {4}
  ComputeSchedules <- MCCompute
  OtherSchedules <- MCOther
INVARIANTS
  ActiveBidsBacked OneActiveBid
SYMMETRY MCSymmetry
CHECK_DEADLOCK FALSE
