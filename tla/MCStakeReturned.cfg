SPECIFICATION FairOpenSpec
CONSTANTS
  u1 = u1  u2 = u2  p1 = p1  p2 = p2  m1 = m1  m2 = m2
  owner = owner  diamond = diamond  funding = funding  fees = fees
  Users = {u1}
  Providers = {p1}
  ModelIds = {m1}
  ModelOwner <- MCModelOwner
  Diamond = diamond
  FundingAccount = funding
  FeeRecipient = fees
  InitialBalance <- MCBalances
  DAY = 3
  MIN_SESSION_DURATION = 1
  SIGNATURE_TTL = 0
  PROVIDER_REWARD_LIMITER_PERIOD = 20
  BUDGET_DIVISOR = 100
  Genesis = 3
  MaxTime = 9
  MaxBidNonce = 1
  MaxSessions = 1
  ProviderStakes = {3}
  ProviderMinStakes = {0}
  ModelStakes = {0}
  OpenStake = 3
  ModelMinStakes = {0}
  Prices = {1}
  BidFees = {0}
  PriceBounds <- MCPriceBounds
  FeeWithdrawals = {1}
  StakeAmounts = {3}
  Iterations = {1, 2}
  SessionDurations = {2, 4}
  ComputeSchedules <- MCTwoComputes
  OtherSchedules <- MCTwoOthers
PROPERTIES
  StakeReturned
CHECK_DEADLOCK FALSE
