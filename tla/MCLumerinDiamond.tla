------------------------- MODULE MCLumerinDiamond -------------------------
(* Values of the constants for the model-checking runs. *)
EXTENDS LumerinDiamond, TLC

CONSTANTS u1, u2, p1, p2, m1, m2, owner, diamond, funding, fees

MCModelOwner == [m \in ModelIds |-> owner]

Balances(user, provider, modelOwner, fund) ==
  [a \in Accounts |-> IF a \in Users THEN user
                      ELSE IF a \in Providers THEN provider
                      ELSE IF a = owner THEN modelOwner
                      ELSE IF a = funding THEN fund ELSE 0]
MCBalances == Balances(6, 6, 0, 20)
MCPoorBalances == Balances(6, 6, 0, 4)
MCRegistryBalances == Balances(0, 4, 4, 0)

\* A compute supply that doubles with the second day, so that the same stake
\* buys a longer session on a later day.
MCCompute == {[d \in Days |-> IF d = 1 THEN 400 ELSE 800]}
MCOther == {[d \in Days |-> 4]}
MCOneCompute == {[d \in Days |-> 400]}
MCTwoComputes == {[d \in Days |-> 400], [d \in Days |-> 800]}
MCTwoOthers == {[d \in Days |-> 4], [d \in Days |-> 2]}
MCTwoPriceBounds == {<<1, 2>>, <<2, 3>>}
MCPriceBounds == {<<1, 2>>}

\* The providers of an instance are interchangeable (for invariants only).
MCSymmetry == Permutations(Providers)
-----------------------------------------------------------------------------
\* The state in which every provider of the instance has registered with the
\* stake OpenStake, the model is registered without one, and every provider
\* has posted a bid for it: Init, ProviderRegister, ModelRegister and
\* PostModelBid, all at Genesis.
CONSTANT OpenStake
OpenBids == {b \in BidIds : BidNonce(b) = 0}
OpenInit ==
  /\ now = Genesis
  /\ balance = [a \in Accounts |->
       IF a = Diamond THEN OpenStake * Cardinality(Providers)
       ELSE IF a \in Providers THEN InitialBalance[a] - OpenStake
       ELSE InitialBalance[a]]
  /\ providerMinimumStake = 0
  /\ providers = [p \in Providers |->
       [status |-> "active", stake |-> OpenStake,
        limitPeriodEnd |-> Genesis + PROVIDER_REWARD_LIMITER_PERIOD,
        limitPeriodEarned |-> 0]]
  /\ activeProviders = Providers
  /\ modelMinimumStake = 0
  /\ models = [m \in ModelIds |-> [status |-> "active", stake |-> 0]]
  /\ activeModels = ModelIds
  /\ bids = [b \in BidIds |->
       IF b \in OpenBids THEN [status |-> "active", pricePerSecond |-> 1]
       ELSE NoBid]
  /\ providerActiveBids = [p \in Providers |-> {b \in OpenBids : BidProvider(b) = p}]
  /\ modelActiveBids = [m \in ModelIds |-> {b \in OpenBids : BidModel(b) = m}]
  /\ providerModelNonce = [pm \in Providers \X ModelIds |-> 1]
  /\ market = [feeBalance |-> 0, bidFee |-> 0, bidMinPricePerSecond |-> 1,
               bidMaxPricePerSecond |-> 2]
  /\ pools = [compute |-> CHOOSE f \in ComputeSchedules : TRUE,
              others |-> CHOOSE f \in OtherSchedules : TRUE]
  /\ maxSessionDuration \in SessionDurations
  /\ sessionNonce = 0
  /\ sessions = <<>>
  /\ userStakesOnHold = {}
  /\ isProviderApprovalUsed = {}
  /\ providersTotalClaimed = 0
OpenSpec == OpenInit /\ [][Next]_vars
FairOpenSpec == OpenSpec /\ Fairness
=============================================================================
