----------------------- MODULE LumerinDiamondProofs -----------------------
(***************************************************************************)
(* Theorems about the diamond contract, for every set of users, providers  *)
(* and models, every schedule of the pools and every bound.                *)
(***************************************************************************)
EXTENDS LumerinDiamond, TLAPS

\* A product of naturals is a natural (hidden from the other obligations, so
\* that the provers need not reason about multiplication again).
LEMMA ProductNat ==
  ASSUME NEW a \in Nat, NEW b \in Nat
  PROVE  a * b \in Nat
OBVIOUS

LEMMA ProductInt ==
  ASSUME NEW a \in Int, NEW b \in Int
  PROVE  a * b \in Int
OBVIOUS

LEMMA QuotientInt ==
  ASSUME NEW a \in Int, NEW b \in Nat \ {0}
  PROVE  a \div b \in Int
OBVIOUS

LEMMA QuotientNat ==
  ASSUME NEW a \in Nat, NEW b \in Nat \ {0}
  PROVE  a \div b \in Nat
OBVIOUS

\* A day starts at or before each of its timestamps, and less than a day
\* before.
LEMMA DayStart ==
  ASSUME NEW t \in Nat
  PROVE  /\ StartOfTheDay(t) \in Nat
         /\ StartOfTheDay(t) <= t
         /\ t < StartOfTheDay(t) + DAY
BY TimeAssumption DEF StartOfTheDay

\* Every timestamp of the model falls on one of its days.
LEMMA DayInDays ==
  ASSUME NEW t \in Nat, t <= MaxTime
  PROVE  DayOf(t) \in Days
BY TimeAssumption DEF DayOf, Days
-----------------------------------------------------------------------------
(* Types of what the transactions compute *)

LEMMA MinInt ==
  ASSUME NEW a \in Int, NEW b \in Int
  PROVE  /\ MinOf(a, b) \in Int
         /\ MinOf(a, b) <= a
         /\ MinOf(a, b) <= b
         /\ MinOf(a, b) = a \/ MinOf(a, b) = b
BY DEF MinOf

LEMMA MaxInt ==
  ASSUME NEW a \in Int, NEW b \in Int
  PROVE  /\ MaxOf(a, b) \in Int
         /\ MaxOf(a, b) >= a
         /\ MaxOf(a, b) >= b
         /\ MaxOf(a, b) = a \/ MaxOf(a, b) = b
BY DEF MaxOf

LEMMA BudgetTypes ==
  ASSUME SessionTypeOK, NEW t \in Nat, t <= MaxTime
  PROVE  GetComputeBalance(t) \in Int /\ TotalMORSupply(t) \in Nat
<1>1. DayOf(t) \in Days
  BY DayInDays
<1>2. pools.compute[DayOf(t)] \in Nat /\ pools.others[DayOf(t)] \in Nat
  BY <1>1 DEF SessionTypeOK, Schedules
<1>3. QED
  BY <1>2 DEF SessionTypeOK, GetComputeBalance, TotalMORSupply

LEMMA StipendType ==
  ASSUME SessionTypeOK, NEW t \in Nat, t <= MaxTime, NEW amount \in Nat
  PROVE  StakeToStipend(amount, t) \in Int
<1> DEFINE supply == TotalMORSupply(t)
           balanceAt == GetComputeBalance(t)
<1>1. balanceAt \in Int /\ supply \in Nat
  BY BudgetTypes
<1>2. amount * balanceAt \in Int
  BY <1>1, ProductInt
<1>3. CASE supply = 0
  BY <1>3 DEF StakeToStipend
<1>4. CASE supply # 0
  <2>1. supply * BUDGET_DIVISOR \in Nat \ {0}
    BY <1>1, <1>4, BoundAssumption
  <2>2. (amount * balanceAt) \div (supply * BUDGET_DIVISOR) \in Int
    <3> HIDE DEF supply, balanceAt
    <3> QED BY <1>2, <2>1, QuotientInt
  <2>3. QED
    BY <1>4, <2>2 DEF StakeToStipend
<1>5. QED
  BY <1>3, <1>4

LEMMA SessionEndType ==
  ASSUME SessionTypeOK, NEW amount \in Nat, NEW price \in Nat \ {0}
  PROVE  GetSessionEnd(amount, price, now) \in Int
<1>1. now \in Nat /\ now <= MaxTime /\ maxSessionDuration \in Int
  BY TimeAssumption DEF SessionTypeOK, Times
<1>2. StakeToStipend(amount, now) \in Int
  BY <1>1, StipendType
<1>3. StakeToStipend(amount, now) \div price \in Int
  BY <1>2, QuotientInt
<1> DEFINE duration == StakeToStipend(amount, now) \div price
<1>4. GetSessionEnd(amount, price, now) = now + MinOf(duration, maxSessionDuration)
  BY DEF GetSessionEnd
<1>5. MinOf(duration, maxSessionDuration) \in Int
  <2> HIDE DEF duration
  <2> QED BY <1>1, <1>3, MinInt DEF duration
<1>6. QED
  BY <1>1, <1>4, <1>5

\* Rewards and holds of a session are integers (natural numbers once the
\* session has ended after it was opened, but the guards only need this).
LEMMA RewardTypes ==
  ASSUME BidTypeOK, SessionTypeOK, NEW session \in SessionRecords
  PROVE  /\ SessionEnd(session) \in Nat
         /\ GetProviderRewards(session) \in Int
         /\ GetUnpaidProviderRewards(session) \in Int
         /\ GetProviderOnHoldAmount(session) \in Int
         /\ UserStake(session) \in Int
<1>1. /\ session.openedAt \in Nat /\ session.endsAt \in Nat
      /\ session.closedAt \in Nat /\ session.bidId \in BidIds
      /\ session.stake \in Nat /\ session.providerWithdrawnAmount \in Nat
  BY DEF SessionRecords
<1>2. PricePerSecond(session.bidId) \in Nat
  BY <1>1 DEF BidTypeOK, PricePerSecond
<1>3. SessionEnd(session) \in Nat
  BY <1>1 DEF SessionEnd, MinOf
<1>4. (SessionEnd(session) - session.openedAt) * PricePerSecond(session.bidId)
        \in Int
  BY <1>1, <1>2, <1>3, ProductInt
<1>5. GetProviderRewards(session) \in Int
  BY <1>4 DEF GetProviderRewards
<1>6. GetUnpaidProviderRewards(session) \in Int
  BY <1>1, <1>5 DEF GetUnpaidProviderRewards
<1>7. StartOfTheDay(session.closedAt) \in Nat
  BY <1>1, DayStart
<1>8. MaxOf(StartOfTheDay(session.closedAt), session.openedAt) \in Int
  BY <1>1, <1>7 DEF MaxOf
<1>9. (session.closedAt - MaxOf(StartOfTheDay(session.closedAt), session.openedAt))
        * PricePerSecond(session.bidId) \in Int
  BY <1>1, <1>2, <1>8, ProductInt
<1>10. GetProviderOnHoldAmount(session) \in Int
  BY <1>9 DEF GetProviderOnHoldAmount
<1>11. UserStake(session) \in Int
  BY <1>1, <1>5 DEF UserStake
<1>12. QED
  BY <1>3, <1>5, <1>6, <1>10, <1>11

\* The part of the stake that closing puts on hold, unless it reverts.
LEMMA LockType ==
  ASSUME BidTypeOK, SessionTypeOK,
         NEW session \in SessionRecords, SessionEnd(session) <= now,
         now < ReleaseAt(session) => GetComputeBalance(StartOfEndDay(session)) >= 0
  PROVE  UserStakeToLock(session) \in Int /\ ReleaseAt(session) \in Nat
<1>1. /\ SessionEnd(session) \in Nat /\ UserStake(session) \in Int
      /\ session.openedAt \in Nat /\ session.bidId \in BidIds
  BY RewardTypes DEF SessionRecords
<1>2. /\ StartOfEndDay(session) \in Nat
      /\ StartOfEndDay(session) <= SessionEnd(session)
  BY <1>1, DayStart DEF StartOfEndDay
<1>3. StartOfEndDay(session) <= MaxTime
  BY <1>1, <1>2, TimeAssumption DEF SessionTypeOK, Times
<1>4. ReleaseAt(session) \in Nat
  BY <1>2, TimeAssumption DEF ReleaseAt
<1> DEFINE day == StartOfEndDay(session)
           duration == SessionEnd(session) - MaxOf(session.openedAt, day)
           cost == duration * PricePerSecond(session.bidId)
<1>5. cost \in Int
  <2>1. duration \in Int
    BY <1>1, <1>2 DEF MaxOf
  <2>2. PricePerSecond(session.bidId) \in Int
    BY <1>1 DEF BidTypeOK, PricePerSecond
  <2>3. QED
    <3> HIDE DEF duration
    <3> QED BY <2>1, <2>2, ProductInt
<1>6. CASE now >= ReleaseAt(session)
  BY <1>4, <1>6 DEF UserStakeToLock
<1>7. CASE ~(now >= ReleaseAt(session))
  <2>1. /\ GetComputeBalance(day) \in Nat
        /\ TotalMORSupply(day) \in Nat
    <3>1. now < ReleaseAt(session)
      BY <1>4, <1>7 DEF SessionTypeOK, Times
    <3>2. QED
      BY <3>1, <1>2, <1>3, BudgetTypes
  <2>2. StipendToStake(cost, day) \in Int
    <3> HIDE DEF cost, day
    <3>1. CASE GetComputeBalance(day) = 0
      BY <3>1 DEF StipendToStake
    <3>2. CASE GetComputeBalance(day) # 0
      <4>1. cost * TotalMORSupply(day) \in Int
        BY <1>5, <2>1, ProductInt
      <4>2. cost * TotalMORSupply(day) * BUDGET_DIVISOR \in Int
        BY <4>1, BoundAssumption, ProductInt
      <4>3. (cost * TotalMORSupply(day) * BUDGET_DIVISOR)
              \div GetComputeBalance(day) \in Int
        BY <4>2, <2>1, <3>2, QuotientInt
      <4>4. QED
        BY <3>2, <4>3 DEF StipendToStake
    <3>3. QED
      BY <3>1, <3>2
  <2>3. UserStakeToLock(session) = MinOf(UserStake(session), StipendToStake(cost, day))
    BY <1>7 DEF UserStakeToLock
  <2>4. QED
    BY <1>1, <1>4, <2>2, <2>3, MinInt
<1>8. QED
  BY <1>6, <1>7
-----------------------------------------------------------------------------
(* The limiter invariant *)

\* _claimForProvider keeps the books of the session and of the provider, from
\* whatever ledger it pays.
LEMMA PayProviderKeeps ==
  ASSUME LimiterInv, now' = now,
         NEW s \in SessionIds, NEW session \in SessionRecords,
         NEW due \in Int, due >= 0, NEW ledger,
         PayProvider(s, session, due, ledger)
  PROVE  /\ providers' \in [Providers -> ProviderRecords]
         /\ sessions' \in [SessionIds -> SessionRecords]
         /\ providersTotalClaimed' \in Nat
         /\ UnregisteredBlank'
         /\ RewardLimiter'
<1> DEFINE p == BidProvider(session.bidId)
           limiter == LimiterAt(p)
           amount == LimitedAmount(p, due)
<1>1. p \in Providers
  BY DEF SessionRecords, BidIds, BidProvider
<1>2. now \in Nat
  BY TimeAssumption DEF LimiterInv, StorageTypeOK, SessionTypeOK, Times
<1>3. /\ providers \in [Providers -> ProviderRecords]
      /\ sessions \in [SessionIds -> SessionRecords]
      /\ providersTotalClaimed \in Nat
  BY DEF LimiterInv, StorageTypeOK, RegistryTypeOK, SessionTypeOK
<1>4. /\ limiter \in ProviderRecords
      /\ limiter.stake = providers[p].stake
      /\ limiter.status = providers[p].status
      /\ limiter.limitPeriodEarned \in {0, providers[p].limitPeriodEarned}
  <2>1. providers[p] \in ProviderRecords
    BY <1>1, <1>3
  <2>2. now + PROVIDER_REWARD_LIMITER_PERIOD \in Nat
    BY <1>2, TimeAssumption
  <2>3. QED
    BY <2>1, <2>2 DEF LimiterAt, ProviderRecords
<1>5. /\ amount \in Nat
      /\ limiter.limitPeriodEarned + amount <= limiter.stake
  <2>1. ClaimLimit(p) >= 0 /\ ClaimLimit(p) = limiter.stake - limiter.limitPeriodEarned
    BY DEF PayProvider, ClaimLimit
  <2>2. limiter.stake \in Nat /\ limiter.limitPeriodEarned \in Nat
    BY <1>4 DEF ProviderRecords
  <2>3. QED
    BY <2>1, <2>2 DEF LimitedAmount, MinOf
<1>6. /\ providers' = [providers EXCEPT ![p] =
           [limiter EXCEPT !.limitPeriodEarned = @ + amount]]
      /\ sessions' = [sessions EXCEPT ![s] =
           [session EXCEPT !.providerWithdrawnAmount = @ + amount]]
      /\ providersTotalClaimed' = providersTotalClaimed + amount
  BY DEF PayProvider
<1> HIDE DEF p, limiter, amount
<1>7. [limiter EXCEPT !.limitPeriodEarned = @ + amount] \in ProviderRecords
  BY <1>4, <1>5 DEF ProviderRecords
<1>8. providers' \in [Providers -> ProviderRecords]
  BY <1>1, <1>3, <1>6, <1>7
<1>9. sessions' \in [SessionIds -> SessionRecords]
  <2>1. [session EXCEPT !.providerWithdrawnAmount = @ + amount] \in SessionRecords
    BY <1>5 DEF SessionRecords
  <2>2. QED
    BY <1>3, <1>6, <2>1
<1>10. providersTotalClaimed' \in Nat
  BY <1>3, <1>5, <1>6
<1>11. UnregisteredBlank'
  <2> SUFFICES ASSUME NEW q \in Providers, providers'[q].status = "none"
               PROVE  providers'[q].stake = 0 /\ providers'[q].limitPeriodEarned = 0
    BY DEF UnregisteredBlank
  <2>1. CASE q # p
    BY <1>1, <1>3, <1>6, <2>1 DEF LimiterInv, UnregisteredBlank
  <2>2. CASE q = p
    <3>1. /\ providers'[q].stake = limiter.stake
          /\ providers'[q].status = limiter.status
          /\ providers'[q].limitPeriodEarned = limiter.limitPeriodEarned + amount
      BY <1>1, <1>3, <1>4, <1>6, <2>2 DEF ProviderRecords
    <3>2. providers[p].stake = 0 /\ providers[p].limitPeriodEarned = 0
      BY <1>1, <1>4, <2>2, <3>1 DEF LimiterInv, UnregisteredBlank
    <3>3. limiter.limitPeriodEarned = 0 /\ amount = 0
      BY <1>4, <1>5, <3>2
    <3>4. QED
      BY <1>4, <3>1, <3>2, <3>3
  <2>3. QED
    BY <2>1, <2>2
<1>12. RewardLimiter'
  <2> SUFFICES ASSUME NEW q \in Providers, now <= providers'[q].limitPeriodEnd
               PROVE  providers'[q].limitPeriodEarned <= providers'[q].stake
    BY DEF RewardLimiter
  <2>1. CASE q # p
    BY <1>1, <1>3, <1>6, <2>1 DEF LimiterInv, RewardLimiter
  <2>2. CASE q = p
    BY <1>1, <1>3, <1>4, <1>5, <1>6, <2>2 DEF ProviderRecords
  <2>3. QED
    BY <2>1, <2>2
<1>13. QED
  BY <1>8, <1>9, <1>10, <1>11, <1>12

\* What an action does not touch keeps its part of the invariant.
LEMMA BidsKept ==
  ASSUME BidTypeOK, ActiveBidsPriced, UNCHANGED <<bidVars, market>>
  PROVE  BidTypeOK' /\ ActiveBidsPriced'
BY DEF BidTypeOK, ActiveBidsPriced, bidVars, IsBidActive, PricePerSecond

LEMMA RegistryKept ==
  ASSUME RegistryTypeOK, UnregisteredBlank, RewardLimiter,
         UNCHANGED <<now, providerVars, modelVars>>
  PROVE  RegistryTypeOK' /\ UnregisteredBlank' /\ RewardLimiter'
BY DEF RegistryTypeOK, UnregisteredBlank, RewardLimiter, providerVars, modelVars

LEMMA SessionsKept ==
  ASSUME SessionTypeOK, UNCHANGED <<now, configVars, sessionVars>>
  PROVE  SessionTypeOK'
BY DEF SessionTypeOK, configVars, sessionVars, SessionIds

\* Providers registering and leaving.
LEMMA ProviderRegistryKeeps ==
  ASSUME LimiterInv, ProviderRegistryNext
  PROVE  LimiterInv'
<1> USE DEF LimiterInv, StorageTypeOK
<1>1. /\ providers \in [Providers -> ProviderRecords]
      /\ activeProviders \subseteq Providers
      /\ now \in Nat
  BY TimeAssumption DEF RegistryTypeOK, SessionTypeOK, Times
<1>2. CASE \E minStake \in ProviderMinStakes : ProviderSetMinStake(minStake)
  <2>1. /\ RegistryTypeOK' /\ UnregisteredBlank' /\ RewardLimiter'
    BY <1>2, ProviderInputAssumption
    DEF ProviderSetMinStake, RegistryTypeOK, UnregisteredBlank, RewardLimiter,
        modelVars
  <2>2. UNCHANGED <<now, bidVars, market, configVars, sessionVars>>
    BY <1>2 DEF ProviderSetMinStake
  <2>3. QED
    BY <2>1, <2>2, BidsKept, SessionsKept
<1>3. ASSUME NEW p \in Providers, NEW amount \in ProviderStakes,
             ProviderRegister(p, amount)
      PROVE  LimiterInv'
  <2> DEFINE new ==
        [status |-> "active", stake |-> providers[p].stake + amount,
         limitPeriodEnd |-> IF providers[p].status = "none"
                            THEN now + PROVIDER_REWARD_LIMITER_PERIOD
                            ELSE providers[p].limitPeriodEnd,
         limitPeriodEarned |-> providers[p].limitPeriodEarned]
  <2>1. /\ providers' = [providers EXCEPT ![p] = new]
        /\ activeProviders' = activeProviders \union {p}
        /\ UNCHANGED <<now, providerMinimumStake, modelVars, bidVars, market,
                       configVars, sessionVars>>
    BY <1>3 DEF ProviderRegister
  <2>2. amount \in Nat
    BY ProviderInputAssumption
  <2>3. providers[p] \in ProviderRecords
    BY <1>1
  <2>4. new \in ProviderRecords
    BY <1>1, <2>2, <2>3, TimeAssumption DEF ProviderRecords
  <2>5. /\ new.status = "active"
        /\ now <= new.limitPeriodEnd => new.limitPeriodEarned <= new.stake
    BY <1>1, <2>2, <2>3 DEF ProviderRecords, UnregisteredBlank, RewardLimiter
  <2> HIDE DEF new
  <2>6. RegistryTypeOK'
    BY <1>1, <2>1, <2>4 DEF RegistryTypeOK, modelVars
  <2>7. UnregisteredBlank' /\ RewardLimiter'
    BY <1>1, <2>1, <2>5 DEF UnregisteredBlank, RewardLimiter
  <2>8. QED
    BY <2>1, <2>6, <2>7, BidsKept, SessionsKept
<1>4. ASSUME NEW p \in Providers, ProviderDeregister(p)
      PROVE  LimiterInv'
  <2> DEFINE withdraw == GetWithdrawAmount(p)
             new == [providers[p] EXCEPT !.stake = @ - withdraw,
                                         !.status = "deleted"]
  <2>1. /\ providers' = [providers EXCEPT ![p] = new]
        /\ activeProviders' = activeProviders \ {p}
        /\ UNCHANGED <<now, providerMinimumStake, modelVars, bidVars, market,
                       configVars, sessionVars>>
    BY <1>1, <1>4 DEF ProviderDeregister
  <2>2. providers[p] \in ProviderRecords
    BY <1>1
  <2>3. /\ new \in ProviderRecords
        /\ new.status = "deleted"
        /\ now <= new.limitPeriodEnd => new.limitPeriodEarned <= new.stake
    <3> DEFINE stake == providers[p].stake
               earned == providers[p].limitPeriodEarned
    <3>1. stake \in Nat /\ earned \in Nat /\ providers[p].limitPeriodEnd \in Nat
      BY <2>2 DEF ProviderRecords
    <3>2. \/ withdraw = stake /\ now > providers[p].limitPeriodEnd
          \/ withdraw = stake - earned
      BY DEF GetWithdrawAmount
    <3>3. /\ stake - withdraw \in Nat
          /\ now <= providers[p].limitPeriodEnd => earned <= stake - withdraw
      <4> HIDE DEF withdraw, stake, earned
      <4> QED BY <1>1, <3>1, <3>2
    <3>4. new = [providers[p] EXCEPT !.stake = stake - withdraw,
                                     !.status = "deleted"]
      BY <2>2 DEF ProviderRecords
    <3> HIDE DEF withdraw
    <3>5. QED
      BY <2>2, <3>3, <3>4 DEF ProviderRecords
  <2> HIDE DEF new
  <2>4. RegistryTypeOK'
    BY <1>1, <2>1, <2>3 DEF RegistryTypeOK, modelVars
  <2>5. UnregisteredBlank' /\ RewardLimiter'
    BY <1>1, <2>1, <2>3 DEF UnregisteredBlank, RewardLimiter
  <2>6. QED
    BY <2>1, <2>4, <2>5, BidsKept, SessionsKept
<1>5. QED
  BY <1>2, <1>3, <1>4 DEF ProviderRegistryNext

\* Models registering and leaving.
LEMMA ModelRegistryKeeps ==
  ASSUME LimiterInv, ModelRegistryNext
  PROVE  LimiterInv'
<1> USE DEF LimiterInv, StorageTypeOK
<1>1. UNCHANGED <<now, providerVars, bidVars, market, configVars, sessionVars>>
  BY DEF ModelRegistryNext, ModelSetMinStake, ModelRegister, ModelDeregister
<1>2. UnregisteredBlank' /\ RewardLimiter'
  BY <1>1 DEF UnregisteredBlank, RewardLimiter, providerVars
<1>3. RegistryTypeOK'
  <2>1. ASSUME NEW minStake \in ModelMinStakes, ModelSetMinStake(minStake)
        PROVE  RegistryTypeOK'
    BY <2>1, ModelInputAssumption DEF ModelSetMinStake, RegistryTypeOK, providerVars
  <2>2. ASSUME NEW m \in ModelIds, NEW amount \in ModelStakes,
               ModelRegister(m, amount)
        PROVE  RegistryTypeOK'
    <3>1. amount \in Nat /\ models[m].stake \in Nat
      BY ModelInputAssumption DEF RegistryTypeOK
    <3>2. QED
      BY <2>2, <3>1 DEF ModelRegister, RegistryTypeOK, providerVars
  <2>3. ASSUME NEW m \in ModelIds, ModelDeregister(m)
        PROVE  RegistryTypeOK'
    BY <2>3 DEF ModelDeregister, RegistryTypeOK, providerVars
  <2>4. QED
    BY <2>1, <2>2, <2>3 DEF ModelRegistryNext
<1>4. QED
  BY <1>1, <1>2, <1>3, BidsKept, SessionsKept

\* Bids posted, replaced and deleted, fees and price bounds.
LEMMA MarketplaceKeeps ==
  ASSUME LimiterInv, MarketplaceNext
  PROVE  LimiterInv'
<1> USE DEF LimiterInv, StorageTypeOK
<1>1. UNCHANGED <<now, providerVars, modelVars, configVars, sessionVars>>
  BY DEF MarketplaceNext, SetMarketplaceBidFee, SetMinMaxBidPricePerSecond,
         PostModelBid, DeleteModelBid, WithdrawFee
<1>2. /\ market \in [feeBalance : Nat, bidFee : Nat,
                     bidMinPricePerSecond : Nat \ {0}, bidMaxPricePerSecond : Nat]
      /\ bids \in [BidIds -> [status : {"none", "active", "deleted"},
                              pricePerSecond : Nat]]
  BY DEF BidTypeOK
<1>3. BidTypeOK' /\ ActiveBidsPriced'
  <2>1. ASSUME NEW fee \in BidFees, SetMarketplaceBidFee(fee)
        PROVE  BidTypeOK' /\ ActiveBidsPriced'
    <3>1. market' \in [feeBalance : Nat, bidFee : Nat,
                       bidMinPricePerSecond : Nat \ {0},
                       bidMaxPricePerSecond : Nat]
      BY <1>2, <2>1, MarketInputAssumption DEF SetMarketplaceBidFee
    <3>2. QED
      BY <2>1, <3>1 DEF SetMarketplaceBidFee, BidTypeOK, ActiveBidsPriced,
                        bidVars, IsBidActive, PricePerSecond
  <2>2. ASSUME NEW bounds \in PriceBounds,
               SetMinMaxBidPricePerSecond(bounds[1], bounds[2])
        PROVE  BidTypeOK' /\ ActiveBidsPriced'
    <3>1. bounds[1] \in Nat \ {0} /\ bounds[2] \in Nat
      BY <2>2, MarketInputAssumption DEF SetMinMaxBidPricePerSecond, ValidPriceBounds
    <3>2. market' \in [feeBalance : Nat, bidFee : Nat,
                       bidMinPricePerSecond : Nat \ {0},
                       bidMaxPricePerSecond : Nat]
      BY <1>2, <2>2, <3>1 DEF SetMinMaxBidPricePerSecond
    <3>3. QED
      BY <2>2, <3>2 DEF SetMinMaxBidPricePerSecond, BidTypeOK, ActiveBidsPriced,
                        bidVars, IsBidActive, PricePerSecond
  <2>3. ASSUME NEW p \in Providers, NEW m \in ModelIds, NEW price \in Prices,
               PostModelBid(p, m, price)
        PROVE  BidTypeOK' /\ ActiveBidsPriced'
    <3> DEFINE nonce == providerModelNonce[<<p, m>>]
               bid == <<p, m, nonce>>
               old == ReplacedBids(p, m)
    <3>1. nonce \in 0 .. MaxBidNonce - 1 /\ MaxBidNonce \in Nat
      BY <2>3, BoundAssumption DEF PostModelBid, BidTypeOK
    <3>2. bid \in BidIds /\ old \subseteq BidIds
      BY <3>1 DEF BidIds, ReplacedBids
    <3>3. price \in Nat \ {0}
      BY <1>2, <2>3, MarketInputAssumption DEF PostModelBid
    <3>4. /\ bids' = [b \in BidIds |->
                IF b = bid THEN [status |-> "active", pricePerSecond |-> price]
                ELSE IF b \in old THEN [bids[b] EXCEPT !.status = "deleted"]
                ELSE bids[b]]
          /\ market' = [market EXCEPT !.feeBalance = @ + market.bidFee]
          /\ providerModelNonce' = [providerModelNonce EXCEPT ![<<p, m>>] = @ + 1]
          /\ providerActiveBids' =
               [providerActiveBids EXCEPT ![p] = (@ \ old) \union {bid}]
          /\ modelActiveBids' =
               [modelActiveBids EXCEPT ![m] = (@ \ old) \union {bid}]
      BY <2>3 DEF PostModelBid
    <3>5. providerModelNonce' \in [Providers \X ModelIds -> 0 .. MaxBidNonce]
      BY <3>1, <3>4 DEF BidTypeOK
    <3> HIDE DEF bid, old
    <3>6. bids' \in [BidIds -> [status : {"none", "active", "deleted"},
                               pricePerSecond : Nat]]
      BY <1>2, <3>2, <3>3, <3>4
    <3>7. market' \in [feeBalance : Nat, bidFee : Nat,
                       bidMinPricePerSecond : Nat \ {0},
                       bidMaxPricePerSecond : Nat]
      BY <1>2, <3>4
    <3>8. /\ providerActiveBids' \in [Providers -> SUBSET BidIds]
          /\ modelActiveBids' \in [ModelIds -> SUBSET BidIds]
      BY <3>2, <3>4 DEF BidTypeOK
    <3>9. ActiveBidsPriced'
      BY <1>2, <3>3, <3>4 DEF ActiveBidsPriced, IsBidActive, PricePerSecond
    <3>10. QED
      BY <3>5, <3>6, <3>7, <3>8, <3>9 DEF BidTypeOK
  <2>4. ASSUME NEW b \in BidIds, DeleteModelBid(b)
        PROVE  BidTypeOK' /\ ActiveBidsPriced'
    <3>1. /\ bids' = [bids EXCEPT ![b].status = "deleted"]
          /\ UNCHANGED <<providerModelNonce, market>>
      BY <2>4 DEF DeleteModelBid
    <3>2. bids' \in [BidIds -> [status : {"none", "active", "deleted"},
                               pricePerSecond : Nat]]
      BY <1>2, <3>1
    <3>3. /\ providerActiveBids' \in [Providers -> SUBSET BidIds]
          /\ modelActiveBids' \in [ModelIds -> SUBSET BidIds]
      BY <2>4 DEF DeleteModelBid, BidTypeOK
    <3>4. ActiveBidsPriced'
      BY <1>2, <3>1 DEF ActiveBidsPriced, IsBidActive, PricePerSecond
    <3>5. QED
      BY <3>1, <3>2, <3>3, <3>4 DEF BidTypeOK
  <2>5. ASSUME NEW asked \in FeeWithdrawals, WithdrawFee(asked)
        PROVE  BidTypeOK' /\ ActiveBidsPriced'
    <3>1. market.feeBalance - FeeToWithdraw(asked) \in Nat
      BY <1>2, MarketInputAssumption DEF FeeToWithdraw, MinOf
    <3>2. market' = [market EXCEPT !.feeBalance = @ - FeeToWithdraw(asked)]
      BY <2>5 DEF WithdrawFee, RemainingFee
    <3>3. market' \in [feeBalance : Nat, bidFee : Nat,
                       bidMinPricePerSecond : Nat \ {0},
                       bidMaxPricePerSecond : Nat]
      BY <1>2, <3>1, <3>2
    <3>4. QED
      BY <2>5, <3>3 DEF WithdrawFee, BidTypeOK, ActiveBidsPriced, bidVars,
                        IsBidActive, PricePerSecond
  <2>6. QED
    BY <2>1, <2>2, <2>3, <2>4, <2>5 DEF MarketplaceNext
<1>4. QED
  BY <1>1, <1>3, RegistryKept, SessionsKept

\* Sessions opened.
LEMMA OpenSessionKeeps ==
  ASSUME LimiterInv,
         NEW user \in Users, NEW amount \in StakeAmounts,
         NEW isDirect \in BOOLEAN, NEW approval \in SignedApprovals,
         OpenSession(user, amount, isDirect, approval)
  PROVE  LimiterInv'
<1> USE DEF LimiterInv, StorageTypeOK
<1> DEFINE b == approval.bid
           endsAt == GetSessionEnd(amount, PricePerSecond(b), now)
           record == [user |-> user, bidId |-> b, stake |-> amount,
                      isDirectPaymentFromUser |-> isDirect,
                      openedAt |-> now, endsAt |-> endsAt, closedAt |-> 0,
                      closeoutType |-> 0, providerWithdrawnAmount |-> 0]
<1>1. approval \in Approvals /\ b \in BidIds /\ amount \in Nat
  BY SessionInputAssumption DEF SignedApprovals, Approvals
<1>2. PricePerSecond(b) \in Nat \ {0}
  BY <1>1 DEF OpenSession, ActiveBidsPriced, BidTypeOK, PricePerSecond
<1>3. now \in Nat /\ sessionNonce \in Nat /\ sessionNonce < MaxSessions
  BY TimeAssumption DEF SessionTypeOK, Times, OpenSession
<1>4. endsAt \in Nat
  <2>1. endsAt \in Int
    BY <1>1, <1>2, SessionEndType
  <2>2. endsAt - now >= MIN_SESSION_DURATION
    BY DEF OpenSession
  <2> HIDE DEF endsAt
  <2>3. QED
    BY <1>3, <2>1, <2>2, TimeAssumption
<1>5. record \in SessionRecords
  <2> HIDE DEF endsAt
  <2>1. QED
    BY <1>1, <1>3, <1>4 DEF SessionRecords
<1>6. /\ sessionNonce' = sessionNonce + 1
      /\ sessions' = [s \in 0 .. sessionNonce |->
                        IF s \in SessionIds THEN sessions[s] ELSE record]
      /\ isProviderApprovalUsed' = isProviderApprovalUsed \union {approval}
  BY DEF OpenSession
<1> HIDE DEF record
<1>7. SessionIds' = 0 .. sessionNonce /\ SessionIds \subseteq SessionIds'
  BY <1>3, <1>6 DEF SessionIds
<1>8. sessions' \in [SessionIds' -> SessionRecords]
  BY <1>5, <1>6, <1>7 DEF SessionTypeOK
<1>9. sessionNonce' \in 0 .. MaxSessions
  BY <1>3, <1>6, BoundAssumption
<1>10. SessionTypeOK'
  <2>1. UNCHANGED <<now, pools, maxSessionDuration, userStakesOnHold,
                    providersTotalClaimed>>
    BY DEF OpenSession, configVars
  <2>2. isProviderApprovalUsed' \subseteq Approvals
    BY <1>1, <1>6 DEF SessionTypeOK
  <2>3. userStakesOnHold' \subseteq
          [user : Users, session : SessionIds', amount : Nat, releaseAt : Nat]
    BY <1>7, <2>1 DEF SessionTypeOK
  <2>4. QED
    BY <1>8, <1>9, <2>1, <2>2, <2>3 DEF SessionTypeOK
<1>11. UNCHANGED <<now, providerVars, modelVars, bidVars, market>>
  BY DEF OpenSession
<1>12. QED
  BY <1>10, <1>11, BidsKept, RegistryKept

\* Sessions closed.
LEMMA CloseSessionKeeps ==
  ASSUME LimiterInv,
         NEW s \in SessionIds, NEW noDispute \in BOOLEAN,
         CloseSession(s, noDispute)
  PROVE  LimiterInv'
<1> USE DEF LimiterInv, StorageTypeOK
<1> DEFINE session == Closed(s, noDispute)
           lock == UserStakeToLock(session)
           due == DueAtClose(session, noDispute)
           hold == [user |-> session.user, session |-> s, amount |-> lock,
                    releaseAt |-> ReleaseAt(session)]
<1>1. now \in Nat /\ now >= Genesis /\ now <= MaxTime
  BY TimeAssumption DEF SessionTypeOK, Times
<1>2. sessions[s] \in SessionRecords
  BY DEF SessionTypeOK
<1>3. session \in SessionRecords /\ session.closedAt = now
  BY <1>1, <1>2 DEF Closed, SessionRecords
<1>4. SessionEnd(session) <= now
  BY <1>1, <1>3, TimeAssumption DEF SessionEnd, MinOf, SessionRecords
<1>5. UNCHANGED <<now, providerMinimumStake, activeProviders, modelVars,
                  bidVars, market, configVars, sessionNonce,
                  isProviderApprovalUsed>>
  BY DEF CloseSession
<1>6. /\ now < ReleaseAt(session) => GetComputeBalance(StartOfEndDay(session)) >= 0
      /\ due >= 0
      /\ userStakesOnHold' = userStakesOnHold \union {h \in {hold} : lock > 0}
      /\ \E ledger : PayProvider(s, session, due, ledger)
  BY DEF CloseSession
<1> HIDE DEF session
<1>7. lock \in Int /\ ReleaseAt(session) \in Nat
  BY <1>3, <1>4, <1>6, LockType
<1>8. due \in Int
  BY <1>3, RewardTypes DEF DueAtClose
<1> HIDE DEF due
<1>9. /\ providers' \in [Providers -> ProviderRecords]
      /\ sessions' \in [SessionIds -> SessionRecords]
      /\ providersTotalClaimed' \in Nat
      /\ UnregisteredBlank'
      /\ RewardLimiter'
  BY <1>3, <1>5, <1>6, <1>8, PayProviderKeeps
<1>10. RegistryTypeOK'
  BY <1>5, <1>9 DEF RegistryTypeOK, modelVars
<1>11. SessionTypeOK'
  <2>1. SessionIds' = SessionIds
    BY <1>5 DEF SessionIds
  <2>2. lock > 0 => hold \in [user : Users, session : SessionIds, amount : Nat,
                              releaseAt : Nat]
    <3> HIDE DEF lock
    <3> QED BY <1>3, <1>7 DEF SessionRecords
  <2>3. userStakesOnHold' \subseteq
          [user : Users, session : SessionIds', amount : Nat, releaseAt : Nat]
    <3> HIDE DEF hold, lock
    <3> QED BY <1>6, <2>1, <2>2 DEF SessionTypeOK
  <2>4. QED
    BY <1>5, <1>9, <2>1, <2>3 DEF SessionTypeOK, configVars
<1>12. QED
  BY <1>5, <1>9, <1>10, <1>11, BidsKept

\* Rewards claimed before or after a session was closed.
LEMMA ClaimForProviderKeeps ==
  ASSUME LimiterInv, NEW s \in SessionIds, ClaimForProvider(s)
  PROVE  LimiterInv'
<1> USE DEF LimiterInv, StorageTypeOK
<1> DEFINE session == sessions[s]
           due == GetUnpaidProviderRewards(session)
                    - GetProviderOnHoldAmount(session)
<1>1. session \in SessionRecords
  BY DEF SessionTypeOK
<1>2. due \in Int
  BY <1>1, RewardTypes
<1>3. /\ UNCHANGED <<now, providerMinimumStake, activeProviders, modelVars,
                     bidVars, market, configVars, sessionNonce,
                     userStakesOnHold, isProviderApprovalUsed>>
      /\ due >= 0
      /\ PayProvider(s, session, due, balance)
  BY DEF ClaimForProvider
<1> HIDE DEF session, due
<1>4. /\ providers' \in [Providers -> ProviderRecords]
      /\ sessions' \in [SessionIds -> SessionRecords]
      /\ providersTotalClaimed' \in Nat
      /\ UnregisteredBlank'
      /\ RewardLimiter'
  BY <1>1, <1>2, <1>3, PayProviderKeeps
<1>5. RegistryTypeOK'
  BY <1>3, <1>4 DEF RegistryTypeOK, modelVars
<1>6. SessionTypeOK'
  BY <1>3, <1>4 DEF SessionTypeOK, SessionIds, configVars
<1>7. QED
  BY <1>3, <1>4, <1>5, <1>6, BidsKept

\* All of the session router.
LEMMA SessionRouterKeeps ==
  ASSUME LimiterInv, SessionRouterNext
  PROVE  LimiterInv'
<1> USE DEF LimiterInv, StorageTypeOK
<1>1. ASSUME NEW user \in Users, NEW iterations \in Iterations,
             WithdrawUserStakes(user, iterations)
      PROVE  LimiterInv'
  <2>1. UNCHANGED <<now, providerVars, modelVars, bidVars, market, configVars,
                    sessionNonce, sessions, isProviderApprovalUsed,
                    providersTotalClaimed>>
    BY <1>1 DEF WithdrawUserStakes
  <2>2. userStakesOnHold' \subseteq userStakesOnHold
    BY <1>1 DEF WithdrawUserStakes
  <2>3. SessionTypeOK'
    BY <2>1, <2>2 DEF SessionTypeOK, SessionIds, configVars
  <2>4. QED
    BY <2>1, <2>3, BidsKept, RegistryKept
<1>2. ASSUME NEW duration \in SessionDurations, SetMaxSessionDuration(duration)
      PROVE  LimiterInv'
  <2>1. /\ UNCHANGED <<now, providerVars, modelVars, bidVars, market, pools,
                       sessionVars>>
        /\ maxSessionDuration' \in Nat
    BY <1>2, SessionInputAssumption DEF SetMaxSessionDuration
  <2>2. SessionTypeOK'
    BY <2>1 DEF SessionTypeOK, SessionIds, sessionVars
  <2>3. QED
    BY <2>1, <2>2, BidsKept, RegistryKept
<1>3. ASSUME NEW which \in {"compute", "others"}, NEW schedule \in Schedules,
             SetPoolConfig(which, schedule)
      PROVE  LimiterInv'
  <2>1. /\ UNCHANGED <<now, providerVars, modelVars, bidVars, market,
                       maxSessionDuration, sessionVars>>
        /\ pools' = [pools EXCEPT ![which] = schedule]
    BY <1>3 DEF SetPoolConfig
  <2>2. pools' \in [compute : Schedules, others : Schedules]
    BY <2>1 DEF SessionTypeOK
  <2>3. SessionTypeOK'
    BY <2>1, <2>2 DEF SessionTypeOK, SessionIds, sessionVars
  <2>4. QED
    BY <2>1, <2>3, BidsKept, RegistryKept
<1>4. ComputeSchedules \subseteq Schedules /\ OtherSchedules \subseteq Schedules
  BY SessionInputAssumption
<1> HIDE DEF LimiterInv
<1>5. QED
  BY <1>1, <1>2, <1>3, <1>4, OpenSessionKeeps, CloseSessionKeeps,
     ClaimForProviderKeeps
  DEF SessionRouterNext

\* The clock: a later time only ends limiter periods.
LEMMA TickKeeps ==
  ASSUME LimiterInv, Tick
  PROVE  LimiterInv'
<1> USE DEF LimiterInv, StorageTypeOK
<1>1. /\ now' \in Times /\ now' = now + 1 /\ now \in Nat
      /\ UNCHANGED <<balance, providerVars, modelVars, bidVars, market,
                     configVars, sessionVars>>
  BY TimeAssumption DEF Tick, SessionTypeOK, Times
<1>2. SessionTypeOK'
  BY <1>1 DEF SessionTypeOK, SessionIds, configVars, sessionVars
<1>3. RegistryTypeOK' /\ UnregisteredBlank'
  BY <1>1 DEF RegistryTypeOK, UnregisteredBlank, providerVars, modelVars
<1>4. RewardLimiter'
  <2> SUFFICES ASSUME NEW p \in Providers, now' <= providers[p].limitPeriodEnd
               PROVE  providers[p].limitPeriodEarned <= providers[p].stake
    BY <1>1 DEF RewardLimiter, providerVars
  <2>1. providers[p].limitPeriodEnd \in Nat
    BY DEF RegistryTypeOK, ProviderRecords
  <2>2. now <= providers[p].limitPeriodEnd
    BY <1>1, <2>1
  <2>3. QED
    BY <2>2 DEF RewardLimiter
<1>5. QED
  BY <1>1, <1>2, <1>3, <1>4, BidsKept

\* The state after deployment.
LEMMA InitLimiterInv ==
  ASSUME Init
  PROVE  LimiterInv
<1>1. RegistryTypeOK /\ UnregisteredBlank /\ RewardLimiter
  BY DEF Init, RegistriesInit, RegistryTypeOK, UnregisteredBlank, RewardLimiter,
         NoProvider, ProviderRecords
<1>2. BidTypeOK /\ ActiveBidsPriced
  <2>1. PICK bounds \in PriceBounds :
          /\ ValidPriceBounds(bounds[1], bounds[2])
          /\ market = [feeBalance |-> 0, bidFee |-> 0,
                       bidMinPricePerSecond |-> bounds[1],
                       bidMaxPricePerSecond |-> bounds[2]]
    BY DEF Init, MarketplaceInit
  <2>2. bounds[1] \in Nat \ {0} /\ bounds[2] \in Nat
    BY <2>1, MarketInputAssumption DEF ValidPriceBounds
  <2>3. 0 \in 0 .. MaxBidNonce
    BY BoundAssumption
  <2>4. QED
    BY <2>1, <2>2, <2>3
    DEF Init, MarketplaceInit, BidTypeOK, ActiveBidsPriced, NoBid, IsBidActive
<1>3. SessionTypeOK
  <2>1. pools \in [compute : Schedules, others : Schedules]
    BY SessionInputAssumption DEF Init, SessionRouterInit
  <2>2. SessionIds = {}
    BY DEF Init, SessionRouterInit, SessionIds
  <2>3. sessions \in [SessionIds -> SessionRecords]
    BY <2>2 DEF Init, SessionRouterInit
  <2>4. now \in Times /\ 0 \in 0 .. MaxSessions
    BY TimeAssumption, BoundAssumption DEF Init, Times
  <2>5. maxSessionDuration \in Nat
    BY SessionInputAssumption DEF Init, SessionRouterInit
  <2>6. QED
    BY <2>1, <2>3, <2>4, <2>5 DEF Init, SessionRouterInit, SessionTypeOK
<1>4. QED
  BY <1>1, <1>2, <1>3 DEF LimiterInv, StorageTypeOK

\* Every transaction, and the clock, keeps the invariant.
LEMMA NextLimiterInv ==
  ASSUME LimiterInv, [Next]_vars
  PROVE  LimiterInv'
<1>1. CASE UNCHANGED vars
  BY <1>1, BidsKept, RegistryKept, SessionsKept
  DEF vars, LimiterInv, StorageTypeOK
<1>2. QED
  BY <1>1, TickKeeps, ProviderRegistryKeeps, ModelRegistryKeeps,
     MarketplaceKeeps, SessionRouterKeeps
  DEF Next

\* The inductive invariant holds throughout.
THEOREM LimiterInvariant == Spec => []LimiterInv
<1>1. Init => LimiterInv
  BY InitLimiterInv
<1>2. LimiterInv /\ [Next]_vars => LimiterInv'
  BY NextLimiterInv
<1>3. QED
  BY <1>1, <1>2, PTL DEF Spec

\* Type correctness: whatever the facets are called with, in any order, every
\* record in the storage stays well formed and no stake, reward, price or
\* on-hold amount ever goes below zero.
THEOREM StorageTypes == Spec => []StorageTypeOK
<1>1. LimiterInv => StorageTypeOK
  BY DEF LimiterInv
<1>2. QED
  BY <1>1, LimiterInvariant, PTL

\* The provider's stake caps what it earned in the running limiter period
\* (ProviderRegistry._getWithdrawAmount and SessionRouter._claimForProvider
\* subtract one from the other).
THEOREM RewardsLimited == Spec => []RewardLimiter
<1>1. LimiterInv => RewardLimiter
  BY DEF LimiterInv
<1>2. QED
  BY <1>1, LimiterInvariant, PTL
-----------------------------------------------------------------------------
(* Bids, their providers and their models *)

\* What moves no bid and makes nobody leave keeps the books of the bids.
LEMMA BookedKept ==
  ASSUME BidsBooked, UNCHANGED <<bidVars, modelVars, activeProviders>>,
         \A p \in Providers : providers'[p].status = providers[p].status
  PROVE  BidsBooked'
<1>1. /\ UNCHANGED <<bids, providerActiveBids, modelActiveBids,
                     providerModelNonce, models, activeModels>>
      /\ activeProviders' = activeProviders
  BY DEF bidVars, modelVars
<1>2. \A b \in BidIds : BidProvider(b) \in Providers
  BY DEF BidIds, BidProvider
<1>3. ActiveBidsBacked'
  BY <1>1, <1>2
  DEF BidsBooked, ActiveBidsBacked, IsBidActive, GetIsProviderActive,
      GetIsModelActive
<1>4. OneActiveBid' /\ BidsNumbered'
  BY <1>1 DEF BidsBooked, OneActiveBid, BidsNumbered, IsBidActive
<1>5. QED
  BY <1>3, <1>4 DEF BidsBooked

\* A payment to a provider does not change who is registered.
LEMMA PayProviderStatus ==
  ASSUME RegistryTypeOK, NEW s, NEW session \in SessionRecords,
         NEW due, NEW ledger, PayProvider(s, session, due, ledger)
  PROVE  \A p \in Providers : providers'[p].status = providers[p].status
<1> DEFINE p == BidProvider(session.bidId)
           amount == LimitedAmount(p, due)
           record == [LimiterAt(p) EXCEPT !.limitPeriodEarned = @ + amount]
<1>1. p \in Providers
  BY DEF SessionRecords, BidIds, BidProvider
<1>2. providers' = [providers EXCEPT ![p] = record]
  BY DEF PayProvider
<1>3. providers \in [Providers -> ProviderRecords]
  BY DEF RegistryTypeOK
<1>4. providers[p] \in ProviderRecords
  BY <1>1, <1>3
<1>5. record.status = providers[p].status
  <2> HIDE DEF p, amount
  <2>1. QED
    BY <1>4 DEF LimiterAt, ProviderRecords
<1> HIDE DEF p, record
<1>6. QED
  BY <1>1, <1>2, <1>3, <1>5

LEMMA ProviderRegistryBooked ==
  ASSUME LimiterInv, BidsBooked, ProviderRegistryNext
  PROVE  BidsBooked'
<1>1. /\ providers \in [Providers -> ProviderRecords]
      /\ \A b \in BidIds : BidProvider(b) \in Providers
  BY DEF LimiterInv, StorageTypeOK, RegistryTypeOK, BidIds, BidProvider
<1>2. ASSUME NEW minStake, ProviderSetMinStake(minStake)
      PROVE  BidsBooked'
  BY <1>2, BookedKept DEF ProviderSetMinStake
<1>3. ASSUME NEW p \in Providers, NEW amount \in ProviderStakes,
             ProviderRegister(p, amount)
      PROVE  BidsBooked'
  <2>1. /\ \A q \in Providers \ {p} : providers'[q] = providers[q]
        /\ providers'[p].status = "active"
        /\ activeProviders' = activeProviders \union {p}
        /\ UNCHANGED <<modelVars, bidVars>>
    BY <1>1, <1>3 DEF ProviderRegister
  <2>2. ActiveBidsBacked'
    BY <1>1, <2>1
    DEF BidsBooked, ActiveBidsBacked, IsBidActive, GetIsProviderActive,
        GetIsModelActive, bidVars, modelVars
  <2>3. QED
    BY <2>1, <2>2
    DEF BidsBooked, OneActiveBid, BidsNumbered, IsBidActive, bidVars
<1>4. ASSUME NEW p \in Providers, ProviderDeregister(p)
      PROVE  BidsBooked'
  <2>1. /\ \A q \in Providers \ {p} : providers'[q] = providers[q]
        /\ providers'[p].status = "deleted"
        /\ activeProviders' = activeProviders \ {p}
        /\ providerActiveBids[p] = {}
        /\ UNCHANGED <<modelVars, bidVars>>
    BY <1>1, <1>4
    DEF ProviderDeregister, IsProviderActiveBidsEmpty, ProviderRecords
  <2>2. \A b \in BidIds : IsBidActive(b) => BidProvider(b) # p
    BY <2>1 DEF BidsBooked, ActiveBidsBacked
  <2>3. ActiveBidsBacked'
    BY <1>1, <2>1, <2>2
    DEF BidsBooked, ActiveBidsBacked, IsBidActive, GetIsProviderActive,
        GetIsModelActive, bidVars, modelVars
  <2>4. QED
    BY <2>1, <2>3
    DEF BidsBooked, OneActiveBid, BidsNumbered, IsBidActive, bidVars
<1>5. QED
  BY <1>2, <1>3, <1>4 DEF ProviderRegistryNext

LEMMA ModelRegistryBooked ==
  ASSUME LimiterInv, BidsBooked, ModelRegistryNext
  PROVE  BidsBooked'
<1>1. /\ models \in [ModelIds -> [status : {"none", "active", "deleted"},
                                  stake : Nat]]
      /\ \A b \in BidIds : BidModel(b) \in ModelIds
  BY DEF LimiterInv, StorageTypeOK, RegistryTypeOK, BidIds, BidModel
<1>2. ASSUME NEW minStake, ModelSetMinStake(minStake)
      PROVE  BidsBooked'
  BY <1>2
  DEF ModelSetMinStake, providerVars, bidVars, BidsBooked, ActiveBidsBacked,
      OneActiveBid, BidsNumbered, IsBidActive, GetIsProviderActive,
      GetIsModelActive
<1>3. ASSUME NEW m \in ModelIds, NEW amount \in ModelStakes,
             ModelRegister(m, amount)
      PROVE  BidsBooked'
  <2>1. /\ \A n \in ModelIds \ {m} : models'[n] = models[n]
        /\ models'[m].status = "active"
        /\ activeModels' = activeModels \union {m}
        /\ UNCHANGED <<providerVars, bidVars>>
    BY <1>1, <1>3 DEF ModelRegister
  <2>2. ActiveBidsBacked'
    BY <1>1, <2>1
    DEF BidsBooked, ActiveBidsBacked, IsBidActive, GetIsProviderActive,
        GetIsModelActive, bidVars, providerVars
  <2>3. QED
    BY <2>1, <2>2
    DEF BidsBooked, OneActiveBid, BidsNumbered, IsBidActive, bidVars
<1>4. ASSUME NEW m \in ModelIds, ModelDeregister(m)
      PROVE  BidsBooked'
  <2>1. /\ \A n \in ModelIds \ {m} : models'[n] = models[n]
        /\ models'[m].status = "deleted"
        /\ activeModels' = activeModels \ {m}
        /\ modelActiveBids[m] = {}
        /\ UNCHANGED <<providerVars, bidVars>>
    BY <1>1, <1>4 DEF ModelDeregister, IsModelActiveBidsEmpty
  <2>2. \A b \in BidIds : IsBidActive(b) => BidModel(b) # m
    BY <2>1 DEF BidsBooked, ActiveBidsBacked
  <2>3. ActiveBidsBacked'
    BY <1>1, <2>1, <2>2
    DEF BidsBooked, ActiveBidsBacked, IsBidActive, GetIsProviderActive,
        GetIsModelActive, bidVars, providerVars
  <2>4. QED
    BY <2>1, <2>3
    DEF BidsBooked, OneActiveBid, BidsNumbered, IsBidActive, bidVars
<1>5. QED
  BY <1>2, <1>3, <1>4 DEF ModelRegistryNext

\* A bid is its provider, model and number.
LEMMA BidParts ==
  ASSUME NEW b \in BidIds
  PROVE  /\ BidProvider(b) \in Providers /\ BidModel(b) \in ModelIds
         /\ BidNonce(b) \in Nat
         /\ b = <<BidProvider(b), BidModel(b), BidNonce(b)>>
         /\ <<BidProvider(b), BidModel(b)>> \in Providers \X ModelIds
BY BoundAssumption DEF BidIds, BidProvider, BidModel, BidNonce

\* A posted bid replaces the only active one of its provider and model.
LEMMA PostModelBidBooked ==
  ASSUME LimiterInv, BidsBooked,
         NEW p \in Providers, NEW m \in ModelIds, NEW price \in Prices,
         PostModelBid(p, m, price)
  PROVE  BidsBooked'
<1> DEFINE pm == <<p, m>>
           nonce == providerModelNonce[pm]
           bid == <<p, m, nonce>>
           old == ReplacedBids(p, m)
<1>1. /\ providerModelNonce \in [Providers \X ModelIds -> 0 .. MaxBidNonce]
      /\ bids \in [BidIds -> [status : {"none", "active", "deleted"},
                              pricePerSecond : Nat]]
      /\ providerActiveBids \in [Providers -> SUBSET BidIds]
      /\ modelActiveBids \in [ModelIds -> SUBSET BidIds]
  BY DEF LimiterInv, StorageTypeOK, BidTypeOK
<1>2. /\ GetIsProviderActive(p) /\ GetIsModelActive(m)
      /\ nonce < MaxBidNonce
      /\ providerModelNonce' = [providerModelNonce EXCEPT ![pm] = @ + 1]
      /\ bids' = [b \in BidIds |->
           IF b = bid THEN [status |-> "active", pricePerSecond |-> price]
           ELSE IF b \in old THEN [bids[b] EXCEPT !.status = "deleted"]
           ELSE bids[b]]
      /\ providerActiveBids' =
           [providerActiveBids EXCEPT ![p] = (@ \ old) \union {bid}]
      /\ modelActiveBids' =
           [modelActiveBids EXCEPT ![m] = (@ \ old) \union {bid}]
      /\ UNCHANGED <<providers, activeProviders, models, activeModels>>
  BY DEF PostModelBid, providerVars, modelVars
<1>3. /\ pm \in Providers \X ModelIds /\ nonce \in Nat /\ bid \in BidIds
      /\ BidProvider(bid) = p /\ BidModel(bid) = m /\ BidNonce(bid) = nonce
  BY <1>1, <1>2, BoundAssumption
  DEF BidIds, BidProvider, BidModel, BidNonce
<1>4. \A b \in BidIds :
        b \in old <=> BidProvider(b) = p /\ BidModel(b) = m /\ IsBidActive(b)
  <2> SUFFICES ASSUME NEW b \in BidIds, BidProvider(b) = p, BidModel(b) = m,
                      IsBidActive(b)
               PROVE  BidNonce(b) = nonce - 1
    BY DEF ReplacedBids
  <2>1. BidNonce(b) + 1 = nonce
    BY DEF BidsBooked, OneActiveBid
  <2> HIDE DEF nonce
  <2>2. QED
    BY <1>3, <2>1, BidParts
<1> HIDE DEF old, bid, nonce, pm
<1>5. \A b \in BidIds :
        /\ bids'[b].status = IF b = bid THEN "active"
                             ELSE IF b \in old THEN "deleted"
                             ELSE bids[b].status
        /\ IsBidActive(b)' <=> b = bid \/ (IsBidActive(b) /\ b \notin old)
  BY <1>1, <1>2 DEF IsBidActive
<1>6. \A b \in BidIds : IsBidActive(b)' =>
        GetIsProviderActive(BidProvider(b))' /\ GetIsModelActive(BidModel(b))'
  BY <1>2, <1>3, <1>5
  DEF BidsBooked, ActiveBidsBacked, GetIsProviderActive, GetIsModelActive
<1>7. \A q \in Providers : providerActiveBids'[q] =
        {b \in BidIds : BidProvider(b) = q /\ IsBidActive(b)'}
  <2> SUFFICES ASSUME NEW q \in Providers
               PROVE  providerActiveBids'[q] =
                        {b \in BidIds : BidProvider(b) = q /\ IsBidActive(b)'}
    OBVIOUS
  <2>1. providerActiveBids[q] =
          {b \in BidIds : BidProvider(b) = q /\ IsBidActive(b)}
    BY DEF BidsBooked, ActiveBidsBacked
  <2>2. CASE q = p
    BY <1>1, <1>2, <1>3, <1>5, <2>1, <2>2
  <2>3. CASE q # p
    <3>1. providerActiveBids'[q] = providerActiveBids[q]
      BY <1>1, <1>2, <2>3
    <3>2. QED
      BY <1>3, <1>4, <1>5, <2>1, <2>3, <3>1
  <2>4. QED
    BY <2>2, <2>3
<1>8. \A q \in ModelIds : modelActiveBids'[q] =
        {b \in BidIds : BidModel(b) = q /\ IsBidActive(b)'}
  <2> SUFFICES ASSUME NEW q \in ModelIds
               PROVE  modelActiveBids'[q] =
                        {b \in BidIds : BidModel(b) = q /\ IsBidActive(b)'}
    OBVIOUS
  <2>1. modelActiveBids[q] =
          {b \in BidIds : BidModel(b) = q /\ IsBidActive(b)}
    BY DEF BidsBooked, ActiveBidsBacked
  <2>2. CASE q = m
    BY <1>1, <1>2, <1>3, <1>5, <2>1, <2>2
  <2>3. CASE q # m
    <3>1. modelActiveBids'[q] = modelActiveBids[q]
      BY <1>1, <1>2, <2>3
    <3>2. QED
      BY <1>3, <1>4, <1>5, <2>1, <2>3, <3>1
  <2>4. QED
    BY <2>2, <2>3
<1>9. ActiveBidsBacked'
  <2>1. /\ activeProviders' = {q \in Providers : GetIsProviderActive(q)'}
        /\ activeModels' = {q \in ModelIds : GetIsModelActive(q)'}
    BY <1>2
    DEF BidsBooked, ActiveBidsBacked, GetIsProviderActive, GetIsModelActive
  <2>2. QED
    BY <1>6, <1>7, <1>8, <2>1 DEF ActiveBidsBacked
<1>10. \A b \in BidIds :
         providerModelNonce'[<<BidProvider(b), BidModel(b)>>] =
           IF BidProvider(b) = p /\ BidModel(b) = m THEN nonce + 1
           ELSE providerModelNonce[<<BidProvider(b), BidModel(b)>>]
  <2> SUFFICES ASSUME NEW b \in BidIds
               PROVE  providerModelNonce'[<<BidProvider(b), BidModel(b)>>] =
                        IF BidProvider(b) = p /\ BidModel(b) = m THEN nonce + 1
                        ELSE providerModelNonce[<<BidProvider(b), BidModel(b)>>]
    OBVIOUS
  <2>1. <<BidProvider(b), BidModel(b)>> \in Providers \X ModelIds
    BY BidParts
  <2>2. <<BidProvider(b), BidModel(b)>> = pm
          <=> BidProvider(b) = p /\ BidModel(b) = m
    BY DEF pm
  <2>3. QED
    BY <1>1, <1>2, <1>3, <2>1, <2>2 DEF nonce
<1>11. OneActiveBid'
  <2> SUFFICES ASSUME NEW b \in BidIds, IsBidActive(b)'
               PROVE  BidNonce(b) + 1 =
                        providerModelNonce'[<<BidProvider(b), BidModel(b)>>]
    BY DEF OneActiveBid
  <2>1. CASE b = bid
    BY <1>3, <1>10, <2>1
  <2>2. CASE b # bid
    BY <1>4, <1>5, <1>10, <2>2 DEF BidsBooked, OneActiveBid
  <2>3. QED
    BY <2>1, <2>2
<1>12. BidsNumbered'
  <2> SUFFICES ASSUME NEW b \in BidIds
               PROVE  bids'[b].status # "none" <=>
                        BidNonce(b) <
                          providerModelNonce'[<<BidProvider(b), BidModel(b)>>]
    BY DEF BidsNumbered
  <2>1. bids[b].status # "none" <=>
          BidNonce(b) < providerModelNonce[<<BidProvider(b), BidModel(b)>>]
    BY DEF BidsBooked, BidsNumbered
  <2>2. BidNonce(b) \in Nat
    BY BidParts
  <2>3. CASE b = bid
    BY <1>3, <1>5, <1>10, <2>3
  <2>4. CASE b # bid
    <3>1. b \in old => bids[b].status # "none"
      BY <1>4 DEF IsBidActive
    <3>2. bids'[b].status # "none" <=> bids[b].status # "none"
      BY <1>5, <2>4, <3>1
    <3>3. CASE BidProvider(b) = p /\ BidModel(b) = m
      <4>1. BidNonce(b) # nonce
        BY <2>4, <3>3, BidParts DEF bid
      <4>2. providerModelNonce[<<BidProvider(b), BidModel(b)>>] = nonce
        BY <3>3 DEF nonce, pm
      <4>3. QED
        BY <1>3, <1>10, <2>1, <2>2, <3>2, <3>3, <4>1, <4>2
    <3>4. CASE ~(BidProvider(b) = p /\ BidModel(b) = m)
      BY <1>10, <2>1, <3>2, <3>4
    <3>5. QED
      BY <3>3, <3>4
  <2>5. QED
    BY <2>3, <2>4
<1>13. QED
  BY <1>9, <1>11, <1>12 DEF BidsBooked

LEMMA DeleteModelBidBooked ==
  ASSUME LimiterInv, BidsBooked, NEW bid \in BidIds, DeleteModelBid(bid)
  PROVE  BidsBooked'
<1>1. /\ bids \in [BidIds -> [status : {"none", "active", "deleted"},
                              pricePerSecond : Nat]]
      /\ providerActiveBids \in [Providers -> SUBSET BidIds]
      /\ modelActiveBids \in [ModelIds -> SUBSET BidIds]
  BY DEF LimiterInv, StorageTypeOK, BidTypeOK
<1>2. /\ IsBidActive(bid)
      /\ bids' = [bids EXCEPT ![bid].status = "deleted"]
      /\ providerActiveBids' =
           [providerActiveBids EXCEPT ![BidProvider(bid)] = @ \ {bid}]
      /\ modelActiveBids' =
           [modelActiveBids EXCEPT ![BidModel(bid)] = @ \ {bid}]
      /\ UNCHANGED <<providers, activeProviders, models, activeModels,
                     providerModelNonce>>
  BY DEF DeleteModelBid, providerVars, modelVars
<1>3. \A b \in BidIds :
        /\ bids'[b].status = IF b = bid THEN "deleted" ELSE bids[b].status
        /\ IsBidActive(b)' <=> IsBidActive(b) /\ b # bid
  BY <1>1, <1>2 DEF IsBidActive
<1>4. /\ \A q \in Providers : providerActiveBids'[q] =
           {b \in BidIds : BidProvider(b) = q /\ IsBidActive(b)'}
      /\ \A q \in ModelIds : modelActiveBids'[q] =
           {b \in BidIds : BidModel(b) = q /\ IsBidActive(b)'}
  <2>1. /\ \A q \in Providers : providerActiveBids[q] =
             {b \in BidIds : BidProvider(b) = q /\ IsBidActive(b)}
        /\ \A q \in ModelIds : modelActiveBids[q] =
             {b \in BidIds : BidModel(b) = q /\ IsBidActive(b)}
    BY DEF BidsBooked, ActiveBidsBacked
  <2>2. /\ \A q \in Providers : providerActiveBids'[q] =
             IF q = BidProvider(bid) THEN providerActiveBids[q] \ {bid}
             ELSE providerActiveBids[q]
        /\ \A q \in ModelIds : modelActiveBids'[q] =
             IF q = BidModel(bid) THEN modelActiveBids[q] \ {bid}
             ELSE modelActiveBids[q]
    BY <1>1, <1>2
  <2>3. ASSUME NEW q \in Providers
        PROVE  providerActiveBids'[q] =
                 {b \in BidIds : BidProvider(b) = q /\ IsBidActive(b)'}
    <3>1. CASE q = BidProvider(bid)
      BY <1>3, <2>1, <2>2, <3>1
    <3>2. CASE q # BidProvider(bid)
      <4>1. providerActiveBids'[q] = providerActiveBids[q]
        BY <2>2, <3>2
      <4>2. QED
        BY <1>3, <2>1, <3>2, <4>1
    <3>3. QED
      BY <3>1, <3>2
  <2>4. ASSUME NEW q \in ModelIds
        PROVE  modelActiveBids'[q] =
                 {b \in BidIds : BidModel(b) = q /\ IsBidActive(b)'}
    <3>1. CASE q = BidModel(bid)
      BY <1>3, <2>1, <2>2, <3>1
    <3>2. CASE q # BidModel(bid)
      <4>1. modelActiveBids'[q] = modelActiveBids[q]
        BY <2>2, <3>2
      <4>2. QED
        BY <1>3, <2>1, <3>2, <4>1
    <3>3. QED
      BY <3>1, <3>2
  <2>5. QED
    BY <2>3, <2>4
<1>5. ActiveBidsBacked'
  <2>1. /\ activeProviders' = {q \in Providers : GetIsProviderActive(q)'}
        /\ activeModels' = {q \in ModelIds : GetIsModelActive(q)'}
        /\ \A b \in BidIds : IsBidActive(b)' =>
             GetIsProviderActive(BidProvider(b))' /\ GetIsModelActive(BidModel(b))'
    BY <1>2, <1>3
    DEF BidsBooked, ActiveBidsBacked, GetIsProviderActive, GetIsModelActive
  <2>2. QED
    BY <1>4, <2>1 DEF ActiveBidsBacked
<1>6. OneActiveBid' /\ BidsNumbered'
  BY <1>2, <1>3 DEF BidsBooked, OneActiveBid, BidsNumbered, IsBidActive
<1>7. QED
  BY <1>5, <1>6 DEF BidsBooked

\* All of the other facets leave bids, models and registrations alone.
LEMMA SessionRouterBooked ==
  ASSUME LimiterInv, BidsBooked, SessionRouterNext
  PROVE  BidsBooked'
<1> USE DEF LimiterInv, StorageTypeOK
<1>1. ASSUME NEW s \in SessionIds, NEW noDispute \in BOOLEAN,
             CloseSession(s, noDispute)
      PROVE  BidsBooked'
  <2> DEFINE session == Closed(s, noDispute)
  <2>1. sessions[s] \in SessionRecords /\ now \in Nat
    BY TimeAssumption DEF SessionTypeOK, Times
  <2>2. session \in SessionRecords
    BY <2>1 DEF Closed, SessionRecords
  <2>3. \A p \in Providers : providers'[p].status = providers[p].status
    <3> HIDE DEF session
    <3>1. \E due, ledger : PayProvider(s, session, due, ledger)
      BY <1>1 DEF CloseSession, session
    <3>2. QED
      BY <2>2, <3>1, PayProviderStatus
  <2>4. QED
    BY <1>1, <2>3, BookedKept DEF CloseSession
<1>2. ASSUME NEW s \in SessionIds, ClaimForProvider(s)
      PROVE  BidsBooked'
  <2>1. sessions[s] \in SessionRecords
    BY DEF SessionTypeOK
  <2>2. \E due : PayProvider(s, sessions[s], due, balance)
    BY <1>2 DEF ClaimForProvider
  <2>3. QED
    BY <1>2, <2>1, <2>2, PayProviderStatus, BookedKept DEF ClaimForProvider
<1>3. ASSUME NEW user, NEW amount, NEW isDirect, NEW approval,
             OpenSession(user, amount, isDirect, approval)
      PROVE  BidsBooked'
  BY <1>3, BookedKept DEF OpenSession, providerVars
<1>4. ASSUME NEW user, NEW iterations, WithdrawUserStakes(user, iterations)
      PROVE  BidsBooked'
  BY <1>4, BookedKept DEF WithdrawUserStakes, providerVars
<1>5. ASSUME NEW duration, SetMaxSessionDuration(duration)
      PROVE  BidsBooked'
  BY <1>5, BookedKept DEF SetMaxSessionDuration, providerVars
<1>6. ASSUME NEW which, NEW schedule, SetPoolConfig(which, schedule)
      PROVE  BidsBooked'
  BY <1>6, BookedKept DEF SetPoolConfig, providerVars
<1>7. QED
  BY <1>1, <1>2, <1>3, <1>4, <1>5, <1>6 DEF SessionRouterNext

LEMMA MarketplaceBooked ==
  ASSUME LimiterInv, BidsBooked, MarketplaceNext
  PROVE  BidsBooked'
<1>1. ASSUME NEW fee, SetMarketplaceBidFee(fee)
      PROVE  BidsBooked'
  BY <1>1, BookedKept DEF SetMarketplaceBidFee, providerVars
<1>2. ASSUME NEW min, NEW max, SetMinMaxBidPricePerSecond(min, max)
      PROVE  BidsBooked'
  BY <1>2, BookedKept DEF SetMinMaxBidPricePerSecond, providerVars
<1>3. ASSUME NEW amount, WithdrawFee(amount)
      PROVE  BidsBooked'
  BY <1>3, BookedKept DEF WithdrawFee, providerVars
<1>4. QED
  BY <1>1, <1>2, <1>3, PostModelBidBooked, DeleteModelBidBooked
  DEF MarketplaceNext

LEMMA InitBooked ==
  ASSUME Init
  PROVE  BidsBooked
<1>1. \A b \in BidIds : ~IsBidActive(b) /\ bids[b].status = "none"
  BY DEF Init, MarketplaceInit, NoBid, IsBidActive
<1>2. ActiveBidsBacked
  BY <1>1
  DEF Init, RegistriesInit, MarketplaceInit, ActiveBidsBacked, NoProvider,
      GetIsProviderActive, GetIsModelActive
<1>3. OneActiveBid
  BY <1>1 DEF OneActiveBid
<1>4. BidsNumbered
  <2> SUFFICES ASSUME NEW b \in BidIds
               PROVE  ~(BidNonce(b) <
                          providerModelNonce[<<BidProvider(b), BidModel(b)>>])
    BY <1>1 DEF BidsNumbered
  <2>1. /\ BidNonce(b) \in Nat
        /\ <<BidProvider(b), BidModel(b)>> \in Providers \X ModelIds
    BY BidParts
  <2>2. providerModelNonce[<<BidProvider(b), BidModel(b)>>] = 0
    BY <2>1 DEF Init, MarketplaceInit
  <2>3. QED
    BY <2>1, <2>2
<1>5. QED
  BY <1>2, <1>3, <1>4 DEF BidsBooked

LEMMA NextBidsInv ==
  ASSUME BidsInv, [Next]_vars
  PROVE  BidsInv'
<1>1. LimiterInv /\ BidsBooked
  BY DEF BidsInv, BidsBooked
<1>2. LimiterInv'
  BY <1>1, NextLimiterInv
<1>3. CASE UNCHANGED vars
  <2>1. BidsBooked'
    BY <1>1, <1>3, BookedKept DEF vars, providerVars
  <2>2. QED
    BY <1>2, <2>1 DEF BidsInv, BidsBooked
<1>4. CASE Tick
  <2>1. BidsBooked'
    BY <1>1, <1>4, BookedKept DEF Tick, providerVars
  <2>2. QED
    BY <1>2, <2>1 DEF BidsInv, BidsBooked
<1>5. CASE Next /\ ~Tick
  <2>1. BidsBooked'
    BY <1>1, <1>5, ProviderRegistryBooked, ModelRegistryBooked,
       MarketplaceBooked, SessionRouterBooked
    DEF Next
  <2>2. QED
    BY <1>2, <2>1 DEF BidsInv, BidsBooked
<1>6. QED
  BY <1>3, <1>4, <1>5

\* The books of the bids, with the types and the limiter, are inductive.
THEOREM BidsInvariant == Spec => []BidsInv
<1>1. Init => BidsInv
  BY InitLimiterInv, InitBooked DEF BidsInv, BidsBooked
<1>2. BidsInv /\ [Next]_vars => BidsInv'
  BY NextBidsInv
<1>3. QED
  BY <1>1, <1>2, PTL DEF Spec

\* Neither a provider nor a model is deregistered, and given its stake back,
\* while one of its bids is active: the sets of active bids that
\* providerDeregister and modelDeregister look at are exact in every reachable
\* state.
THEOREM BidsBacked == Spec => []ActiveBidsBacked
<1>1. BidsInv => ActiveBidsBacked
  BY DEF BidsInv, BidsBooked
<1>2. QED
  BY <1>1, BidsInvariant, PTL

\* A provider offers a model at one price at a time, that of its last bid:
\* postModelBid replaces the bid before it.
THEOREM BidsReplaced == Spec => []OneActiveBid
<1>1. BidsInv => OneActiveBid
  BY DEF BidsInv, BidsBooked
<1>2. QED
  BY <1>1, BidsInvariant, PTL
=============================================================================
