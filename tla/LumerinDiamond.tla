-------------------------- MODULE LumerinDiamond --------------------------
(***************************************************************************)
(* The diamond contract: its facets over their common storage, the clock   *)
(* of the chain, and what must hold of all of it together.                 *)
(***************************************************************************)
EXTENDS ProviderRegistry, ModelRegistry, Marketplace, SessionRouter

NoProvider == [status |-> "none", stake |-> 0, limitPeriodEnd |-> 0,
               limitPeriodEarned |-> 0]
NoBid == [status |-> "none", pricePerSecond |-> 0]

\* The state that the facets' initializers leave behind: nobody is registered,
RegistriesInit ==
  /\ providerMinimumStake = 0
  /\ providers = [p \in Providers |-> NoProvider]
  /\ activeProviders = {}
  /\ modelMinimumStake = 0
  /\ models = [m \in ModelIds |-> [status |-> "none", stake |-> 0]]
  /\ activeModels = {}

\* ... nothing is offered,
MarketplaceInit ==
  /\ bids = [b \in BidIds |-> NoBid]
  /\ providerActiveBids = [p \in Providers |-> {}]
  /\ modelActiveBids = [m \in ModelIds |-> {}]
  /\ providerModelNonce = [pm \in Providers \X ModelIds |-> 0]
  /\ \E bounds \in PriceBounds :
       /\ ValidPriceBounds(bounds[1], bounds[2])
       /\ market = [feeBalance |-> 0, bidFee |-> 0,
                    bidMinPricePerSecond |-> bounds[1],
                    bidMaxPricePerSecond |-> bounds[2]]

\* ... and no session was opened.
SessionRouterInit ==
  /\ \E compute \in ComputeSchedules, others \in OtherSchedules :
       pools = [compute |-> compute, others |-> others]
  /\ maxSessionDuration \in {d \in SessionDurations : d >= MIN_SESSION_DURATION}
  /\ sessionNonce = 0
  /\ sessions = <<>>
  /\ userStakesOnHold = {}
  /\ isProviderApprovalUsed = {}
  /\ providersTotalClaimed = 0

Init ==
  /\ now = Genesis
  /\ balance = InitialBalance
  /\ RegistriesInit
  /\ MarketplaceInit
  /\ SessionRouterInit

\* The chain's clock: any number of transactions share a timestamp.
Tick ==
  /\ now < MaxTime                      \* bound
  /\ now' = now + 1
  /\ UNCHANGED <<balance, providerVars, modelVars, bidVars, market,
                 configVars, sessionVars>>

ProviderRegistryNext ==
  \/ \E minStake \in ProviderMinStakes : ProviderSetMinStake(minStake)
  \/ \E p \in Providers, amount \in ProviderStakes : ProviderRegister(p, amount)
  \/ \E p \in Providers : ProviderDeregister(p)

ModelRegistryNext ==
  \/ \E minStake \in ModelMinStakes : ModelSetMinStake(minStake)
  \/ \E m \in ModelIds, amount \in ModelStakes : ModelRegister(m, amount)
  \/ \E m \in ModelIds : ModelDeregister(m)

MarketplaceNext ==
  \/ \E fee \in BidFees : SetMarketplaceBidFee(fee)
  \/ \E bounds \in PriceBounds :
       SetMinMaxBidPricePerSecond(bounds[1], bounds[2])
  \/ \E p \in Providers, m \in ModelIds, price \in Prices :
       PostModelBid(p, m, price)
  \/ \E b \in BidIds : DeleteModelBid(b)
  \/ \E amount \in FeeWithdrawals : WithdrawFee(amount)

\* A provider signs approvals with the time of signing.
SignedApprovals == {approval \in Approvals : approval.timestamp <= now}

SessionRouterNext ==
  \/ \E user \in Users, amount \in StakeAmounts, isDirect \in BOOLEAN,
        approval \in SignedApprovals :
       OpenSession(user, amount, isDirect, approval)
  \/ \E s \in SessionIds, noDispute \in BOOLEAN : CloseSession(s, noDispute)
  \/ \E s \in SessionIds : ClaimForProvider(s)
  \/ \E user \in Users, iterations \in Iterations :
       WithdrawUserStakes(user, iterations)
  \/ \E duration \in SessionDurations : SetMaxSessionDuration(duration)
  \/ \E schedule \in ComputeSchedules : SetPoolConfig("compute", schedule)
  \/ \E schedule \in OtherSchedules : SetPoolConfig("others", schedule)

Next ==
  \/ Tick
  \/ ProviderRegistryNext
  \/ ModelRegistryNext
  \/ MarketplaceNext
  \/ SessionRouterNext

Spec == Init /\ [][Next]_vars
-----------------------------------------------------------------------------
(* Types *)

ProviderRecords ==
  [status : {"none", "active", "deleted"}, stake : Nat,
   limitPeriodEnd : Nat, limitPeriodEarned : Nat]
SessionRecords ==
  [user : Users, bidId : BidIds, stake : Nat,
   isDirectPaymentFromUser : BOOLEAN, openedAt : Nat, endsAt : Nat,
   closedAt : Nat, closeoutType : {0, 1}, providerWithdrawnAmount : Nat]

RegistryTypeOK ==
  /\ providerMinimumStake \in Nat
  /\ providers \in [Providers -> ProviderRecords]
  /\ activeProviders \subseteq Providers
  /\ modelMinimumStake \in Nat
  /\ models \in [ModelIds -> [status : {"none", "active", "deleted"},
                              stake : Nat]]
  /\ activeModels \subseteq ModelIds
BidTypeOK ==
  /\ bids \in [BidIds -> [status : {"none", "active", "deleted"},
                          pricePerSecond : Nat]]
  /\ providerActiveBids \in [Providers -> SUBSET BidIds]
  /\ modelActiveBids \in [ModelIds -> SUBSET BidIds]
  /\ providerModelNonce \in [Providers \X ModelIds -> 0 .. MaxBidNonce]
  /\ market \in [feeBalance : Nat, bidFee : Nat,
                 bidMinPricePerSecond : Nat \ {0}, bidMaxPricePerSecond : Nat]
SessionTypeOK ==
  /\ now \in Times
  /\ pools \in [compute : Schedules, others : Schedules]
  /\ maxSessionDuration \in Nat
  /\ sessionNonce \in 0 .. MaxSessions
  /\ sessions \in [SessionIds -> SessionRecords]
  /\ isProviderApprovalUsed \subseteq Approvals
  /\ providersTotalClaimed \in Nat
  /\ userStakesOnHold \subseteq
       [user : Users, session : SessionIds, amount : Nat, releaseAt : Nat]

StorageTypeOK == RegistryTypeOK /\ BidTypeOK /\ SessionTypeOK

\* Every variable keeps its type: in particular no stake, reward or balance
\* is ever negative.
TypeOK == StorageTypeOK /\ balance \in [Accounts -> Nat]
-----------------------------------------------------------------------------
(* Who owns the contract's MOR *)

\* Everything a session can still pay its provider or has paid it.
FinalRewards(session) ==
  (SessionEnd(session) - session.openedAt) * PricePerSecond(session.bidId)

\* What the contract holds on account of a session, apart from on-hold stake.
Escrow(session) ==
  IF session.closedAt = 0
  THEN session.stake - (IF session.isDirectPaymentFromUser
                        THEN session.providerWithdrawnAmount ELSE 0)
  ELSE IF session.isDirectPaymentFromUser
       THEN FinalRewards(session) - session.providerWithdrawnAmount
       ELSE 0

StakedByProviders == SumFunction([p \in Providers |-> providers[p].stake])
StakedOnModels == SumFunction([m \in ModelIds |-> models[m].stake])
Escrowed == SumFunction([s \in SessionIds |-> Escrow(sessions[s])])

\* The contract holds exactly what it owes: stakes of providers and models,
\* uncollected fees, stakes of open sessions, unpaid direct rewards and stake
\* on hold.  Every facet moves tokens and its own books separately
\* (closeSession in two transfers and a push), so that a slip in any of them
\* leaves the contract short or MOR stranded.
Solvency ==
  balance[Diamond] =
    StakedByProviders + StakedOnModels + market.feeBalance
      + Escrowed + TotalAmount(userStakesOnHold)

\* A user who is nothing else has at any time its initial MOR in its account,
\* staked in open sessions, on hold, or spent on direct payment for the time
\* its closed sessions lasted: closing, claiming and withdrawing in any order
\* neither cost a user more nor pay it what is another's.
OnlyUsers ==
  Users \ (Providers \union {ModelOwner[m] : m \in ModelIds}
             \union {FeeRecipient})
UserShare(session) ==
  IF session.closedAt = 0 THEN session.stake
  ELSE IF session.isDirectPaymentFromUser THEN FinalRewards(session) ELSE 0
SessionsOf(u) == {s \in SessionIds : sessions[s].user = u}
HoldsOf(u) == {hold \in userStakesOnHold : hold.user = u}
StakedOrSpentBy(u) ==
  SumFunction([s \in SessionsOf(u) |-> UserShare(sessions[s])])
UserWholeness ==
  \A u \in OnlyUsers :
    InitialBalance[u] =
      balance[u] + StakedOrSpentBy(u) + TotalAmount(HoldsOf(u))

\* The books of the compute budget agree with the sessions: what providers
\* claimed in total is what the sessions paid, and the funding account paid
\* exactly the stipend sessions' part of it.
PaidToProvider(s) == sessions[s].providerWithdrawnAmount
StipendSessions ==
  {s \in SessionIds : ~sessions[s].isDirectPaymentFromUser}
PaidInAll == SumFunction([s \in SessionIds |-> PaidToProvider(s)])
PaidByFund == SumFunction([s \in StipendSessions |-> PaidToProvider(s)])
ClaimsAddUp ==
  /\ providersTotalClaimed = PaidInAll
  /\ InitialBalance[FundingAccount] - balance[FundingAccount] = PaidByFund
-----------------------------------------------------------------------------
(* Rewards *)

\* Within a limiter period a provider has earned at most what it has staked,
\* through top-ups, deregistrations and registrations: the subtractions in
\* _claimForProvider and _getWithdrawAmount never revert.
RewardLimiter ==
  \A p \in Providers :
    now <= providers[p].limitPeriodEnd
      => providers[p].limitPeriodEarned <= providers[p].stake

\* The inductive form of TypeOK and RewardLimiter: quotients need the price of
\* an offer to be positive, and the first limiter period of a provider has to
\* start with nothing earned.
ActiveBidsPriced == \A b \in BidIds : IsBidActive(b) => PricePerSecond(b) # 0
UnregisteredBlank ==
  \A p \in Providers : providers[p].status = "none" =>
    providers[p].stake = 0 /\ providers[p].limitPeriodEarned = 0
LimiterInv ==
  StorageTypeOK /\ ActiveBidsPriced /\ UnregisteredBlank /\ RewardLimiter

\* A session pays its provider nothing while it runs, and over its life never
\* more than the price of the time it ran, however closing and claims mix.
PaidForTime(session) ==
  /\ now < SessionEnd(session) => session.providerWithdrawnAmount = 0
  /\ session.providerWithdrawnAmount <= FinalRewards(session)
PaidForTimeServed == \A s \in SessionIds : PaidForTime(sessions[s])

\* When the user closes early without the provider's signature, the rewards
\* for the day of the closing stay unpaid until that day is over, also when
\* the provider claims in between.
IsDisputed(session) ==
  session.closeoutType = 1 /\ session.closedAt < session.endsAt
DayHeld(session) ==
  /\ IsDisputed(session)
  /\ StartOfTheDay(now) = StartOfTheDay(session.closedAt)
  => session.providerWithdrawnAmount
       <= (MaxOf(StartOfTheDay(session.closedAt), session.openedAt)
             - session.openedAt) * PricePerSecond(session.bidId)
DisputedDayHeld == \A s \in SessionIds : DayHeld(sessions[s])

\* The user of an open session (or its delegatee) can close it at any time,
\* with or without the provider's receipt, as far as the diamond's own books
\* go: no subtraction in the division of the stake and in the provider's limit
\* reverts, and the contract holds both the user's part, now or on hold, and
\* what it pays the provider itself.  The closing may still revert on what is
\* others': the funding account's transfer of a stipend session's rewards, and
\* the subtraction in getComputeBalance when the owner has lowered the pool.
ClosingNeverReverts ==
  \A s \in SessionIds, noDispute \in BOOLEAN :
    LET session == Closed(s, noDispute)
        provider == BidProvider(session.bidId)
        due == DueAtClose(session, noDispute)
        paidByDiamond == IF session.isDirectPaymentFromUser
                         THEN LimitedAmount(provider, due) ELSE 0
    IN
    sessions[s].closedAt = 0
    => /\ UserStake(session) >= 0
       /\ due >= 0
       /\ ClaimLimit(provider) >= 0
       /\ balance[Diamond] >= UserStake(session) + paidByDiamond

\* The comment in _getProviderOnHoldAmount (SessionRouter.sol:273): closedAt is
\* the latest timestamp, because endsAt is bigger, and what is locked is the
\* provider's reward for the current day.  It does not hold of a session that
\* was closed late, whose hold counts time the session did not run.
HeldIsEarnedToday ==
  \A s \in SessionIds :
    LET session == sessions[s]
        startOfClosedAt == StartOfTheDay(session.closedAt)
        ranToday == SessionEnd(session)
                      - MaxOf(startOfClosedAt, session.openedAt)
    IN
    /\ session.closedAt # 0
    /\ now < startOfClosedAt + DAY
    => GetProviderOnHoldAmount(session)
         <= MaxOf(0, ranToday) * PricePerSecond(session.bidId)
-----------------------------------------------------------------------------
(* Bids and approvals *)

\* An active bid is backed by a provider and a model that are both active,
\* and the active sets the deregistrations look at hold exactly the active
\* bids: neither party leaves, with its stake, while it has an offer open.
ActiveBidsBacked ==
  /\ \A b \in BidIds : IsBidActive(b) =>
       GetIsProviderActive(BidProvider(b)) /\ GetIsModelActive(BidModel(b))
  /\ \A p \in Providers : providerActiveBids[p] =
       {b \in BidIds : BidProvider(b) = p /\ IsBidActive(b)}
  /\ \A m \in ModelIds : modelActiveBids[m] =
       {b \in BidIds : BidModel(b) = m /\ IsBidActive(b)}
  /\ activeProviders = {p \in Providers : GetIsProviderActive(p)}
  /\ activeModels = {m \in ModelIds : GetIsModelActive(m)}

\* A provider has at most one active bid for a model, and it is the last one
\* it posted.
OneActiveBid ==
  \A b \in BidIds : IsBidActive(b) =>
    BidNonce(b) + 1 = providerModelNonce[<<BidProvider(b), BidModel(b)>>]

\* A provider's approval opens one session and no more.
ApprovalsUsedOnce == Cardinality(isProviderApprovalUsed) = sessionNonce
-----------------------------------------------------------------------------
(* The inductive forms of these invariants, each on top of the previous *)

\* The bids of a provider for a model are numbered in the order they were
\* posted, so that a posted bid is never overwritten and the active one is the
\* one that the next will replace.
BidsNumbered ==
  \A b \in BidIds : bids[b].status # "none" <=>
    BidNonce(b) < providerModelNonce[<<BidProvider(b), BidModel(b)>>]
BidsBooked == ActiveBidsBacked /\ OneActiveBid /\ BidsNumbered
BidsInv == LimiterInv /\ BidsBooked

\* A session was opened on a posted bid and lasts a while; it is closed after
\* it was opened; a direct payment is covered by its stake to the end.
SessionSound(session) ==
  /\ bids[session.bidId].status # "none"
  /\ Genesis <= session.openedAt
  /\ session.openedAt <= now
  /\ session.openedAt < session.endsAt
  /\ session.closedAt # 0 =>
       session.openedAt <= session.closedAt /\ session.closedAt <= now
  /\ session.closedAt = 0 => session.closeoutType = 0
  /\ session.isDirectPaymentFromUser =>
       (session.endsAt - session.openedAt) * PricePerSecond(session.bidId)
         <= session.stake

\* Only a closed session has stake on hold, until the day after its end.
HoldSound(hold) ==
  /\ IsClosed(hold.session)
  /\ hold.releaseAt = ReleaseAt(sessions[hold.session])

SessionsBooked ==
  /\ \A s \in SessionIds : SessionSound(sessions[s])
  /\ PaidForTimeServed /\ DisputedDayHeld
HoldsBooked ==
  /\ IsFiniteSet(userStakesOnHold)
  /\ \A hold \in userStakesOnHold : HoldSound(hold)
ApprovalsCounted == IsFiniteSet(isProviderApprovalUsed) /\ ApprovalsUsedOnce
SessionInv == BidsInv /\ SessionsBooked /\ HoldsBooked /\ ApprovalsCounted

MoneyInv ==
  SessionInv /\ TypeOK /\ Solvency /\ UserWholeness /\ ClaimsAddUp
-----------------------------------------------------------------------------
(* What no step may do *)

\* The terms of a session never change: neither replacing or deleting its bid
\* nor the owner's parameters touch its price, its parties, its stake or its
\* end; it closes once, and from then on only its payments grow.
SessionTermsFixed ==
  [][\A s \in SessionIds :
       LET old == sessions[s]
           new == sessions'[s]
       IN
       /\ PricePerSecond(old.bidId) = bids'[new.bidId].pricePerSecond
       /\ new = [old EXCEPT
            !.closedAt = IF @ = 0 THEN new.closedAt ELSE @,
            !.closeoutType = IF old.closedAt = 0 THEN new.closeoutType ELSE @,
            !.providerWithdrawnAmount = new.providerWithdrawnAmount]
       /\ new.providerWithdrawnAmount >= old.providerWithdrawnAmount]_vars

\* Stake put on hold leaves the contract only on a later day than the one the
\* session ended on, so it cannot back another session on the same day's
\* budget.
HeldPastTheDay ==
  [][\A hold \in userStakesOnHold : hold \notin userStakesOnHold' =>
       StartOfTheDay(now) > StartOfTheDay(SessionEnd(sessions[hold.session]))]_vars
-----------------------------------------------------------------------------
(* What must happen *)

\* Consumer nodes close the sessions that expired (the proxy-router's
\* SessionExpiryHandler) and collect matured stake on a timer
\* (StakeClaimer); the chain's clock advances.
Fairness ==
  /\ WF_vars(Tick)
  /\ \A s \in 0 .. MaxSessions - 1 :
       WF_vars(/\ s \in SessionIds
               /\ now >= sessions[s].endsAt
               /\ CloseSession(s, FALSE))
  /\ \A user \in Users, iterations \in Iterations :
       WF_vars(WithdrawUserStakes(user, iterations))
FairSpec == Spec /\ Fairness

\* Every staked token comes back to its user or pays a provider: a session
\* that was opened is closed in the end and its stake does not stay on hold,
\* whatever the provider does.  (A session that ends within a day of the last
\* timestamp of the model is out of its reach.)
StakeReturned ==
  \A s \in 0 .. MaxSessions - 1 :
    (s \in SessionIds /\ sessions[s].endsAt + DAY <= MaxTime) ~>
      /\ s \in SessionIds
      /\ IsClosed(s)
      /\ \A hold \in userStakesOnHold : hold.session # s
=============================================================================
