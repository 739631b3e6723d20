---------------------- MODULE ProvidersDelegateProofs ----------------------
(***************************************************************************)
(* For every set of stakers, precision, fee and bound: the subtraction in  *)
(* getCurrentRate never reverts, the rate never falls and no staker has a  *)
(* negative reward (PoolInv); the pool holds what its stakers may claim,   *)
(* and each has its share of every reward, up to rounding (ShareInv).      *)
(* ShareInv speaks of the rate before its rounding to whole tokens: what   *)
(* the stakers had earned by the last call is backed by the balance of the *)
(* last call, and what came in since is shared by the stakes since then.   *)
(***************************************************************************)
EXTENDS ProvidersDelegate, SumTheorems

\* A staker's rate is one the pool has had, and the rate only grows.
RatesReached == \A s \in Stakers : stakers[s].rate <= totalRate

\* Deregistration returns what the limiter leaves of the stake.
LimiterOnStake == provider.limitPeriodEarned <= provider.stake

PoolInv == TypeOK /\ BalanceCoversLast /\ RatesReached /\ LimiterOnStake

StakerRecords ==
  [staked : Nat, claimed : Nat, rate : Nat, pendingRewards : Nat]

ProviderRecords ==
  [status : {"none", "active", "deleted"}, stake : Nat,
   limitPeriodEarned : Nat]
-----------------------------------------------------------------------------
LEMMA QuotientNat ==
  ASSUME NEW a \in Nat, NEW b \in Nat \ {0}
  PROVE  a \div b \in Nat
OBVIOUS

LEMMA ProductNat ==
  ASSUME NEW a \in Nat, NEW b \in Nat
  PROVE  a * b \in Nat
OBVIOUS

LEMMA MinOfThree ==
  ASSUME NEW a \in Nat, NEW b \in Nat, NEW c \in Nat
  PROVE  LET m == Min({a, b, c})
         IN  m \in Nat /\ m <= a /\ m <= b /\ m <= c
<1>1. \E x \in {a, b, c} : \A y \in {a, b, c} : x <= y
  OBVIOUS
<1> QED
  BY <1>1 DEF Min

\* The rate is brought up to date upwards.
LEMMA RateGrows ==
  ASSUME PoolInv
  PROVE  GetCurrentRate \in Nat /\ GetCurrentRate >= totalRate
<1> USE PoolAssumption DEF PoolInv, TypeOK, BalanceCoversLast
<1>1. CASE totalStaked = 0
  BY <1>1 DEF GetCurrentRate
<1>2. CASE totalStaked # 0
  <2> DEFINE reward == balance - lastContractBalance
  <2>1. reward \in Nat /\ totalStaked \in Nat \ {0}
    BY <1>2
  <2>2. reward * PRECISION \in Nat
    BY <2>1, ProductNat
  <2>3. (reward * PRECISION) \div totalStaked \in Nat
    BY <2>1, <2>2, QuotientNat
  <2> QED
    BY <1>2, <2>3 DEF GetCurrentRate
<1> QED
  BY <1>1, <1>2

LEMMA RewardsNat ==
  ASSUME PoolInv, NEW s \in Stakers
  PROVE  GetCurrentStakerRewards(s) \in Nat
<1> USE PoolAssumption DEF PoolInv, TypeOK, RatesReached
<1> DEFINE grown == GetCurrentRate - stakers[s].rate
<1>1. grown \in Nat
  BY RateGrows
<1>2. grown * stakers[s].staked \in Nat
  BY <1>1, ProductNat
<1>3. (grown * stakers[s].staked) \div PRECISION \in Nat
  BY <1>2, QuotientNat
<1> QED
  BY <1>3 DEF GetCurrentStakerRewards

\* What a claim takes is at most the staker's rewards and the balance.
LEMMA ClaimBounded ==
  ASSUME PoolInv, NEW s \in Stakers, NEW amount \in Amounts
  PROVE  /\ Claimable(s, amount) \in Nat
         /\ Claimable(s, amount) <= balance
         /\ Claimable(s, amount) <= GetCurrentStakerRewards(s)
<1>1. amount \in Nat /\ balance \in Nat
  BY PoolAssumption DEF PoolInv, TypeOK
<1> QED
  BY <1>1, RewardsNat, MinOfThree DEF Claimable

LEMMA ClaimedType ==
  ASSUME PoolInv, NEW s \in Stakers, NEW amount \in Nat,
         amount <= GetCurrentStakerRewards(s)
  PROVE  /\ ClaimedRecord(s, amount) \in
              [staked : Nat, claimed : Nat, rate : Nat, pendingRewards : Nat]
         /\ ClaimedRecord(s, amount).rate = GetCurrentRate
<1>1. stakers[s] \in StakerRecords
  BY DEF PoolInv, TypeOK, StakerRecords
<1>2. GetCurrentRate \in Nat /\ GetCurrentStakerRewards(s) - amount \in Nat
  BY RateGrows, RewardsNat
<1> DEFINE claimed == stakers[s].claimed + amount
<1>3. claimed \in Nat
  BY <1>1 DEF StakerRecords
<1> DEFINE rated == [stakers[s] EXCEPT !.rate = GetCurrentRate]
           settled == [rated EXCEPT
             !.pendingRewards = GetCurrentStakerRewards(s) - amount]
<1>4. rated \in StakerRecords /\ rated.rate = GetCurrentRate
  BY <1>1, <1>2 DEF StakerRecords
<1>5. settled \in StakerRecords /\ settled.rate = GetCurrentRate
  BY <1>2, <1>4 DEF StakerRecords
<1>6. ClaimedRecord(s, amount) = [settled EXCEPT !.claimed = claimed]
  BY <1>1 DEF ClaimedRecord, StakerRecords
<1> HIDE DEF settled, claimed
<1> QED
  BY <1>3, <1>5, <1>6 DEF StakerRecords

\* What a claim pays out never exceeds what it takes from the staker.
LEMMA FeeBounded ==
  ASSUME PoolInv, NEW amount \in Nat
  PROVE  FeeAmount(amount) \in Nat /\ FeeAmount(amount) <= amount
<1>1. fee \in 0 .. PRECISION /\ PRECISION \in Nat \ {0}
  BY PoolAssumption DEF PoolInv, TypeOK
<1>2. amount * fee \in Nat /\ amount * fee <= amount * PRECISION
  BY <1>1
<1> QED
  BY <1>1, <1>2 DEF FeeAmount

\* The diamond's record of the pool, when its status and stake change.
LEMMA ProviderStep ==
  ASSUME PoolInv, NEW status \in {"active", "deleted"}, NEW stake \in Nat
  PROVE  LET new == [provider EXCEPT !.status = status, !.stake = stake] IN
         /\ new \in ProviderRecords
         /\ new.stake = stake
         /\ new.limitPeriodEarned = provider.limitPeriodEarned
<1> DEFINE marked == [provider EXCEPT !.status = status]
           new == [provider EXCEPT !.status = status, !.stake = stake]
<1>1. provider \in ProviderRecords
  BY DEF PoolInv, TypeOK, ProviderRecords
<1>2. /\ marked \in ProviderRecords
      /\ marked.limitPeriodEarned = provider.limitPeriodEarned
  BY <1>1 DEF ProviderRecords
<1>3. new = [marked EXCEPT !.stake = stake]
  BY <1>1 DEF ProviderRecords
<1> HIDE DEF marked, new
<1>4. /\ new \in ProviderRecords /\ new.stake = stake
      /\ new.limitPeriodEarned = provider.limitPeriodEarned
  BY <1>2, <1>3 DEF ProviderRecords
<1> QED
  BY <1>4 DEF new
-----------------------------------------------------------------------------
LEMMA InitPoolInv == Init => PoolInv
<1> SUFFICES ASSUME Init PROVE PoolInv
  OBVIOUS
<1> USE PoolAssumption DEF Init
<1>1. stakers \in [Stakers -> StakerRecords]
  BY DEF StakerRecords
<1>2. provider \in ProviderRecords /\ LimiterOnStake
  BY DEF ProviderRecords, LimiterOnStake
<1>3. now \in 0 .. MaxTime /\ totalStaked \in 0 .. MaxStaked
      /\ received \in 0 .. MaxRewards
  OBVIOUS
<1>5. balance \in Nat /\ fee \in Fees \union {0} /\ isStakeClosed \in BOOLEAN
      /\ totalRate \in Nat /\ lastContractBalance \in Nat
  OBVIOUS
<1>6. isRestakeDisabled \in [Stakers -> BOOLEAN] /\ due \in [Stakers -> Nat]
      /\ calls \in [Stakers -> Nat]
  OBVIOUS
<1>4. BalanceCoversLast /\ RatesReached
  BY DEF BalanceCoversLast, RatesReached
<1> QED
  BY <1>1, <1>2, <1>3, <1>4, <1>5, <1>6, Zenon
     DEF PoolInv, TypeOK, StakerRecords, ProviderRecords

\* The staking half of stake and restake, for a record and balance of theirs.
LEMMA StakeFromStep ==
  ASSUME PoolInv, NEW s \in Stakers, NEW amount \in Nat,
         NEW record \in StakerRecords, NEW held \in Nat,
         StakeFrom(s, amount, record, held)
  PROVE  /\ totalStaked' \in 0 .. MaxStaked
         /\ totalRate' = GetCurrentRate
         /\ balance' \in Nat /\ lastContractBalance' = balance'
         /\ stakers' \in [Stakers -> StakerRecords]
         /\ RatesReached'
         /\ provider' \in ProviderRecords /\ LimiterOnStake'
<1> USE PoolAssumption DEF PoolInv, TypeOK, StakerRecords
<1>1. /\ totalStaked' = totalStaked + amount
      /\ totalStaked + amount <= MaxStaked
      /\ totalRate' = GetCurrentRate
      /\ lastContractBalance' = held /\ balance' = held
      /\ stakers' = [stakers EXCEPT ![s] =
           [record EXCEPT !.staked = @ + amount, !.rate = GetCurrentRate]]
      /\ provider' = [provider EXCEPT !.status = "active", !.stake = @ + amount]
  BY DEF StakeFrom, RateAfterStake
<1>2. GetCurrentRate \in Nat /\ GetCurrentRate >= totalRate
  BY RateGrows
<1> DEFINE new == [record EXCEPT !.staked = @ + amount, !.rate = GetCurrentRate]
<1>3. new \in StakerRecords /\ new.rate = GetCurrentRate
  <2> DEFINE raised == [record EXCEPT !.staked = record.staked + amount]
  <2>1. raised \in StakerRecords
    OBVIOUS
  <2>2. new = [raised EXCEPT !.rate = GetCurrentRate]
    OBVIOUS
  <2> HIDE DEF raised, new
  <2> QED
    BY <1>2, <2>1, <2>2
<1>4. stakers' = [stakers EXCEPT ![s] = new]
  BY <1>1
<1> HIDE DEF new
<1>5. stakers' \in [Stakers -> StakerRecords]
  BY <1>3, <1>4
<1>6. RatesReached'
  BY <1>1, <1>2, <1>3, <1>4 DEF RatesReached
<1>7. provider' \in ProviderRecords /\ LimiterOnStake'
  <2> DEFINE stake == provider.stake + amount
             next == [provider EXCEPT !.status = "active", !.stake = stake]
  <2>1. stake \in Nat
    OBVIOUS
  <2>2. /\ next \in ProviderRecords /\ next.stake = stake
        /\ next.limitPeriodEarned = provider.limitPeriodEarned
    BY <2>1, ProviderStep
  <2>3. provider' = next
    BY <1>1
  <2> HIDE DEF next
  <2> QED
    BY <2>2, <2>3 DEF LimiterOnStake
<1>8. totalStaked' \in 0 .. MaxStaked
  BY <1>1
<1> QED
  BY <1>1, <1>2, <1>5, <1>6, <1>7, <1>8

LEMMA NextPoolInv ==
  ASSUME PoolInv, [Next]_vars
  PROVE  PoolInv' /\ totalRate' >= totalRate
<1> USE PoolAssumption DEF PoolInv, TypeOK, BalanceCoversLast
<1>1. ASSUME NEW s \in Stakers, NEW amount \in Amounts, Stake(s, amount)
      PROVE  PoolInv' /\ totalRate' >= totalRate
  <2> DEFINE record ==
        [stakers[s] EXCEPT !.pendingRewards = GetCurrentStakerRewards(s)]
  <2>1. record \in StakerRecords
    BY RewardsNat DEF StakerRecords
  <2>2. StakeFrom(s, amount, record, balance)
    BY <1>1 DEF Stake
  <2> HIDE DEF record
  <2>3. amount \in Nat
    OBVIOUS
  <2> QED
    BY <1>1, <2>1, <2>2, <2>3, StakeFromStep, RateGrows
       DEF Stake, settingVars, StakerRecords, ProviderRecords
<1>2. ASSUME NEW s \in Stakers, NEW asked \in Amounts, Claim(s, asked)
      PROVE  PoolInv' /\ totalRate' >= totalRate
  <2> DEFINE amount == Claimable(s, asked)
             record == ClaimedRecord(s, amount)
  <2>1. /\ amount \in Nat /\ amount <= balance
        /\ record \in StakerRecords /\ record.rate = GetCurrentRate
    BY ClaimBounded, ClaimedType DEF StakerRecords
  <2>2. /\ totalRate' = GetCurrentRate
        /\ lastContractBalance' = balance - amount
        /\ balance' = balance - amount
        /\ stakers' = [stakers EXCEPT ![s] = record]
    BY <1>2 DEF Claim, BalanceAfter
  <2> HIDE DEF record, amount
  <2>3. RatesReached'
    BY <2>1, <2>2, RateGrows DEF RatesReached
  <2> QED
    BY <1>2, <2>1, <2>2, <2>3, RateGrows
       DEF Claim, settingVars, StakerRecords, LimiterOnStake
<1>3. ASSUME NEW s \in Stakers, NEW asked \in Amounts, NEW byOwner \in BOOLEAN,
             Restake(s, asked, byOwner)
      PROVE  PoolInv' /\ totalRate' >= totalRate
  <2> DEFINE amount == Claimable(s, asked)
             record == ClaimedRecord(s, amount)
             restaked == amount - FeeAmount(amount)
  <2>1. /\ amount \in Nat /\ amount <= balance
        /\ record \in StakerRecords
        /\ restaked \in Nat
    BY ClaimBounded, ClaimedType, FeeBounded DEF StakerRecords
  <2>2. StakeFrom(s, restaked, record, balance - amount)
    BY <1>3 DEF Restake
  <2>3. UNCHANGED <<now, settingVars, due, received>>
        /\ calls' = [calls EXCEPT ![s] = @ + 1]
    BY <1>3 DEF Restake
  <2> HIDE DEF restaked, record, amount
  <2>4. balance - amount \in Nat
    BY <2>1
  <2> QED
    BY <2>1, <2>2, <2>3, <2>4, StakeFromStep, RateGrows
       DEF settingVars, StakerRecords, ProviderRecords
<1>4. ASSUME NEW amount \in Nat, Receive(amount),
             fee' \in Fees \union {0}, received' \in 0 .. MaxRewards,
             provider' \in ProviderRecords, LimiterOnStake'
      PROVE  PoolInv' /\ totalRate' >= totalRate
  <2>1. due' \in [Stakers -> Nat]
    <3> SUFFICES ASSUME NEW s \in Stakers, totalStaked # 0
                 PROVE  amount * stakers[s].staked * (Shares \div totalStaked)
                          \in Nat
      BY <1>4 DEF Receive
    <3>1. Shares \div totalStaked \in Nat
      <4>1. Shares \in Nat /\ totalStaked \in Nat \ {0}
        OBVIOUS
      <4> QED
        BY <4>1, QuotientNat, Zenon
    <3>2. amount * stakers[s].staked \in Nat
      BY ProductNat
    <3> QED
      BY <3>1, <3>2, ProductNat
  <2>2. /\ balance' = balance + amount
        /\ UNCHANGED <<now, poolVars, isStakeClosed, isRestakeDisabled, calls>>
    BY <1>4 DEF Receive
  <2> QED
    BY <1>4, <2>1, <2>2 DEF poolVars, RatesReached, ProviderRecords
<1>5. ASSUME NEW amount \in Amounts, NEW limited \in BOOLEAN,
             Reward(amount, limited)
      PROVE  PoolInv' /\ totalRate' >= totalRate
  <2>1. amount \in Nat /\ Receive(amount)
    BY <1>5 DEF Reward
  <2>2. /\ received' \in 0 .. MaxRewards /\ fee' = fee
    BY <1>5 DEF Reward
  <2>3. provider' \in ProviderRecords /\ LimiterOnStake'
    BY <1>5, <2>1 DEF Reward, ProviderRecords, LimiterOnStake
  <2> QED
    BY <1>4, <2>1, <2>2, <2>3
<1>6. CASE LimiterPeriodEnds
  BY <1>6 DEF LimiterPeriodEnds, poolVars, settingVars, historyVars,
    RatesReached, LimiterOnStake
<1>7. CASE ProviderDeregister
  <2> DEFINE returned == provider.stake - provider.limitPeriodEarned
  <2>1. returned \in Nat /\ Receive(returned)
    BY <1>7 DEF ProviderDeregister, LimiterOnStake
  <2>2. received' = received /\ fee' = 0
    BY <1>7 DEF ProviderDeregister
  <2>3. provider' \in ProviderRecords /\ LimiterOnStake'
    <3> DEFINE stake == provider.stake - returned
               next == [provider EXCEPT !.status = "deleted", !.stake = stake]
    <3>1. stake \in Nat /\ stake = provider.limitPeriodEarned
      BY DEF ProviderRecords
    <3>2. /\ next \in ProviderRecords /\ next.stake = stake
          /\ next.limitPeriodEarned = provider.limitPeriodEarned
      BY <3>1, ProviderStep
    <3>3. provider' = next
      BY <1>7 DEF ProviderDeregister
    <3> HIDE DEF next
    <3> QED
      BY <3>1, <3>2, <3>3 DEF LimiterOnStake
  <2> QED
    BY <1>4, <2>1, <2>2, <2>3
<1>8. ASSUME NEW closed \in BOOLEAN, SetIsStakeClosed(closed)
      PROVE  PoolInv' /\ totalRate' >= totalRate
  BY <1>8
     DEF SetIsStakeClosed, poolVars, historyVars, RatesReached, LimiterOnStake
<1>9. ASSUME NEW s \in Stakers, NEW disabled \in BOOLEAN,
             SetIsRestakeDisabled(s, disabled)
      PROVE  PoolInv' /\ totalRate' >= totalRate
  BY <1>9
     DEF SetIsRestakeDisabled, poolVars, historyVars, RatesReached,
         LimiterOnStake
<1>10. CASE Tick
  BY <1>10
     DEF Tick, poolVars, settingVars, historyVars, RatesReached,
         LimiterOnStake
<1>11. CASE UNCHANGED vars
  BY <1>11
     DEF vars, poolVars, settingVars, historyVars, RatesReached,
         LimiterOnStake
<1> QED
  BY <1>1, <1>2, <1>3, <1>5, <1>6, <1>7, <1>8, <1>9, <1>10, <1>11 DEF Next
LEMMA Quotient ==
  ASSUME NEW a \in Nat, NEW b \in Nat \ {0}
  PROVE  LET q == a \div b IN
         q \in Nat /\ q * b <= a /\ a < q * b + b
OBVIOUS

LEMMA ExactQuotient ==
  ASSUME NEW a \in Nat, NEW b \in Nat \ {0}, a % b = 0
  PROVE  (a \div b) * b = a
OBVIOUS

LEMMA MultipleQuotient ==
  ASSUME NEW a \in Nat, NEW b \in Nat \ {0}
  PROVE  (a * b) \div b = a
OBVIOUS

LEMMA ProductGrows ==
  ASSUME NEW a \in Nat, NEW b \in Nat, NEW c \in Nat, a <= b
  PROVE  c * a <= c * b
OBVIOUS

-----------------------------------------------------------------------------
(* What the stakers have earned, in parts of PRECISION *)

\* The pending rewards and what the rate adds to them, before its rounding.
Weight(s, rate) ==
  stakers[s].pendingRewards * PRECISION
    + (rate - stakers[s].rate) * stakers[s].staked

Weights(rate) == [s \in Stakers |-> Weight(s, rate)]
StakedOf == [s \in Stakers |-> stakers[s].staked]

\* The last call's balance backs what the stakers had earned by then.
Backed == SumFunction(Weights(totalRate)) <= lastContractBalance * PRECISION

StakeAdds == SumFunction(StakedOf) = totalStaked

\* What one token staked gets of one token received, in parts of Shares.
Part == IF totalStaked = 0 THEN 0 ELSE Shares \div totalStaked

\* What a staker has earned by a rate, and its share of what came in since
\* the last call, both in parts of Shares and of PRECISION.
Earned(s, rate) ==
  Shares * (stakers[s].claimed * PRECISION + Weight(s, rate))
Unshared(s) ==
  (Part * stakers[s].staked) * ((balance - lastContractBalance) * PRECISION)

Rounded(settled, updates) ==
  Shares * (settled * (PRECISION - 1) + updates * RateLoss)

NeverMore ==
  \A s \in Stakers : Earned(s, totalRate) + Unshared(s) <= due[s] * PRECISION

NeverMuchLess ==
  \A s \in Stakers :
    due[s] * PRECISION <= Earned(s, totalRate) + Unshared(s)
                            + Rounded(calls[s], SumFunction(calls))

ShareInv == PoolInv /\ Backed /\ StakeAdds /\ NeverMore /\ NeverMuchLess
-----------------------------------------------------------------------------
LEMMA StakerFits ==
  ASSUME PoolInv, NEW s \in Stakers
  PROVE  /\ stakers[s].staked \in Nat /\ stakers[s].claimed \in Nat
         /\ stakers[s].rate \in Nat /\ stakers[s].pendingRewards \in Nat
         /\ stakers[s].rate <= totalRate
BY DEF PoolInv, TypeOK, RatesReached

LEMMA WeightNat ==
  ASSUME PoolInv, NEW s \in Stakers, NEW rate \in Nat, rate >= totalRate
  PROVE  Weight(s, rate) \in Nat
<1>1. PRECISION \in Nat /\ totalRate \in Nat
  BY PoolAssumption DEF PoolInv, TypeOK
<1>2. stakers[s].pendingRewards * PRECISION \in Nat
  BY <1>1, StakerFits, ProductNat
<1>3. (rate - stakers[s].rate) * stakers[s].staked \in Nat
  <2>1. rate - stakers[s].rate \in Nat
    BY <1>1, StakerFits
  <2>2. QED
    BY <2>1, StakerFits, ProductNat
<1>4. QED
  BY <1>2, <1>3 DEF Weight

\* The weight grows with the rate by as much for each token staked.
LEMMA WeightGrows ==
  ASSUME PoolInv, NEW s \in Stakers
  PROVE  Weight(s, GetCurrentRate)
           = Weight(s, totalRate)
               + (GetCurrentRate - totalRate) * stakers[s].staked
<1>1. PICK new \in Int : new = GetCurrentRate
  BY RateGrows
<1>2. PICK old \in Int : old = totalRate
  BY DEF PoolInv, TypeOK
<1>3. PICK at \in Int, staked \in Int, pending \in Int :
        /\ at = stakers[s].rate /\ staked = stakers[s].staked
        /\ pending = stakers[s].pendingRewards
  BY StakerFits
<1>4. (new - at) * staked = (old - at) * staked + (new - old) * staked
  OBVIOUS
<1>5. PICK unit \in Int : unit = pending * PRECISION
  BY PoolAssumption
<1>6. PICK a \in Int, b \in Int :
        a = (old - at) * staked /\ b = (new - old) * staked
  OBVIOUS
<1>7. QED
  BY <1>1, <1>2, <1>3, <1>4, <1>5, <1>6 DEF Weight

\* A staker's rewards are its weight, rounded down to whole tokens.
LEMMA RewardsRound ==
  ASSUME PoolInv, NEW s \in Stakers
  PROVE  /\ GetCurrentStakerRewards(s) * PRECISION
              <= Weight(s, GetCurrentRate)
         /\ Weight(s, GetCurrentRate)
              <= GetCurrentStakerRewards(s) * PRECISION + (PRECISION - 1)
<1>1. PRECISION \in Nat \ {0} /\ totalRate \in Nat
  BY PoolAssumption DEF PoolInv, TypeOK
<1>2. GetCurrentRate - stakers[s].rate \in Nat
  BY <1>1, RateGrows, StakerFits
<1>3. PICK grown \in Nat :
        grown = (GetCurrentRate - stakers[s].rate) * stakers[s].staked
  BY <1>2, StakerFits, ProductNat
<1>4. PICK q \in Nat : q = grown \div PRECISION
  BY <1>1, QuotientNat
<1>5. q * PRECISION <= grown /\ grown < q * PRECISION + PRECISION
  BY <1>1, <1>4, Quotient
<1>6. PICK pending \in Nat : pending = stakers[s].pendingRewards
  BY StakerFits
<1>7. /\ GetCurrentStakerRewards(s) = pending + q
      /\ Weight(s, GetCurrentRate) = pending * PRECISION + grown
  BY <1>3, <1>4, <1>6 DEF GetCurrentStakerRewards, Weight
<1>8. (pending + q) * PRECISION = pending * PRECISION + q * PRECISION
  BY <1>1
<1>9. pending * PRECISION \in Nat /\ q * PRECISION \in Nat
  BY <1>1, ProductNat
<1>10. QED
  BY <1>1, <1>5, <1>7, <1>8, <1>9

\* What a call adds to the rate is what came in since the last one, divided by
\* the total staked and rounded down; nothing is rounded off where the totals
\* divide PRECISION.
LEMMA RateAdded ==
  ASSUME PoolInv, totalStaked # 0
  PROVE  LET grown == GetCurrentRate - totalRate
             came  == (balance - lastContractBalance) * PRECISION
         IN  /\ grown \in Nat /\ came \in Nat
             /\ grown * totalStaked <= came
             /\ came < grown * totalStaked + totalStaked
             /\ RateLoss = 0 => came = grown * totalStaked
<1>1. totalStaked \in Nat \ {0} /\ PRECISION \in Nat \ {0} /\ totalRate \in Nat
  BY PoolAssumption DEF PoolInv, TypeOK
<1>2. PICK reward \in Nat : reward = balance - lastContractBalance
  BY DEF PoolInv, TypeOK, BalanceCoversLast
<1>3. PICK came \in Nat : came = reward * PRECISION
  BY <1>1, ProductNat
<1>4. PICK grown \in Nat : grown = came \div totalStaked
  BY <1>1, QuotientNat
<1>5. GetCurrentRate - totalRate = grown
  BY <1>1, <1>2, <1>3, <1>4 DEF GetCurrentRate
<1>6. grown * totalStaked <= came /\ came < grown * totalStaked + totalStaked
  BY <1>1, <1>4, Quotient
<1>7. ASSUME RateLoss = 0 PROVE came = grown * totalStaked
  <2>1. PRECISION % totalStaked = 0
    <3>1. totalStaked \in 1 .. MaxStaked /\ MaxStaked # 0
      BY <1>1 DEF PoolInv, TypeOK
    <3>2. QED
      BY <1>7, <3>1 DEF RateLoss
  <2>2. PICK unit \in Nat : unit = PRECISION \div totalStaked
    BY <1>1, QuotientNat
  <2>3. unit * totalStaked = PRECISION
    BY <1>1, <2>1, <2>2, ExactQuotient
  <2>4. came = (reward * unit) * totalStaked
    <3>1. reward * (unit * totalStaked) = (reward * unit) * totalStaked
      BY <1>1
    <3>2. QED
      BY <1>3, <2>3, <3>1
  <2>5. grown = reward * unit
    <3>1. reward * unit \in Nat
      BY ProductNat
    <3>2. QED
      BY <1>1, <1>4, <2>4, <3>1, MultipleQuotient
  <2>6. QED
    BY <2>4, <2>5
<1>8. QED
  BY <1>2, <1>3, <1>5, <1>6, <1>7

LEMMA StakersFinite == IsFiniteSet(Stakers)
BY PoolAssumption

LEMMA WeightsFit ==
  ASSUME PoolInv, NEW rate \in Nat, rate >= totalRate
  PROVE  Weights(rate) \in [Stakers -> Nat]
BY WeightNat DEF Weights

LEMMA StakedFits ==
  ASSUME PoolInv
  PROVE  StakedOf \in [Stakers -> Nat]
BY StakerFits DEF StakedOf

\* A staker's stake is a part of the total.
LEMMA StakedWithin ==
  ASSUME PoolInv, StakeAdds, NEW s \in Stakers
  PROVE  stakers[s].staked <= totalStaked /\ totalStaked <= MaxStaked
<1>1. StakedOf[s] <= SumFunction(StakedOf)
  BY StakersFinite, StakedFits, SumFunctionMember
<1>2. QED
  BY <1>1 DEF StakedOf, StakeAdds, PoolInv, TypeOK

\* At the rate of the moment the balance backs what the stakers have earned.
LEMMA BackedNow ==
  ASSUME PoolInv, Backed, StakeAdds
  PROVE  SumFunction(Weights(GetCurrentRate)) <= balance * PRECISION
<1>1. totalRate \in Nat /\ PRECISION \in Nat \ {0} /\ totalStaked \in Nat
  BY PoolAssumption DEF PoolInv, TypeOK
<1>2. PICK grown \in Nat : grown = GetCurrentRate - totalRate
  BY <1>1, RateGrows
<1> DEFINE old == Weights(totalRate)
           new == Weights(GetCurrentRate)
           added == [s \in Stakers |-> grown * StakedOf[s]]
<1>3. old \in [Stakers -> Int] /\ new \in [Stakers -> Int]
  <2>1. old \in [Stakers -> Nat]
    BY <1>1, WeightsFit
  <2>2. new \in [Stakers -> Nat]
    BY <1>1, RateGrows, WeightsFit
  <2>3. QED
    BY <2>1, <2>2
<1>4. StakedOf \in [Stakers -> Int]
  BY StakedFits
<1>5. added \in [Stakers -> Int]
  BY <1>4
<1>6. \A s \in Stakers : new[s] = old[s] + added[s]
  <2>1. SUFFICES ASSUME NEW s \in Stakers PROVE new[s] = old[s] + added[s]
    OBVIOUS
  <2>2. Weight(s, GetCurrentRate)
          = Weight(s, totalRate) + grown * stakers[s].staked
    BY <1>2, WeightGrows
  <2>3. QED
    BY <2>2 DEF Weights, StakedOf
<1>7. SumFunction(new) = SumFunction(old) + SumFunction(added)
  <2> HIDE DEF new, old, added
  <2>1. SumFunctionOnSet(new, Stakers)
          = SumFunctionOnSet(old, Stakers) + SumFunctionOnSet(added, Stakers)
    BY <1>3, <1>5, <1>6, StakersFinite, SumPlus
  <2>2. QED
    BY <1>3, <1>5, <2>1, SumOfFunction
<1>8. SumFunction(added) = grown * totalStaked
  <2>1. \A s \in Stakers : StakedOf[s] \in Int /\ added[s] = grown * StakedOf[s]
    BY <1>4
  <2> HIDE DEF added
  <2>2. SumFunctionOnSet(added, Stakers)
          = grown * SumFunctionOnSet(StakedOf, Stakers)
    BY <2>1, StakersFinite, SumTimes
  <2>3. QED
    BY <1>4, <1>5, <2>2, SumOfFunction DEF StakeAdds
<1>9. PICK reward \in Nat : reward = balance - lastContractBalance
  BY DEF PoolInv, TypeOK, BalanceCoversLast
<1>10. grown * totalStaked <= reward * PRECISION
  <2>1. CASE totalStaked = 0
    <3>1. grown * totalStaked = 0 /\ reward * PRECISION \in Nat
      BY <1>1, <2>1, ProductNat
    <3>2. QED
      BY <3>1
  <2>2. CASE totalStaked # 0
    BY <1>2, <1>9, <2>2, RateAdded
  <2>3. QED
    BY <2>1, <2>2
<1>11. SumFunction(old) \in Int
  <2> HIDE DEF old
  <2>1. QED
    BY <1>3, StakersFinite, SumFunctionInt
<1>12. PICK last \in Nat : last = lastContractBalance /\ balance = last + reward
  BY <1>9 DEF PoolInv, TypeOK
<1>13. balance * PRECISION = last * PRECISION + reward * PRECISION
  BY <1>1, <1>12
<1>14. PICK a \in Int, b \in Int, c \in Int :
         a = grown * totalStaked /\ b = reward * PRECISION
           /\ c = last * PRECISION
  BY <1>1
<1>15. SumFunction(old) <= c
  BY <1>12, <1>14 DEF Backed
<1> HIDE DEF old, new
<1>16. QED
  BY <1>7, <1>8, <1>10, <1>11, <1>13, <1>14, <1>15 DEF new

LEMMA RateLossNat == RateLoss \in Nat /\ RateLoss \in {0, MaxStaked}
BY PoolAssumption DEF RateLoss

LEMMA PartNat ==
  ASSUME PoolInv
  PROVE  /\ Part \in Nat
         /\ totalStaked # 0 => Part * totalStaked = Shares
<1>1. Shares \in Nat /\ totalStaked \in Nat
  BY PoolAssumption DEF PoolInv, TypeOK
<1>2. CASE totalStaked = 0
  BY <1>2 DEF Part
<1>3. CASE totalStaked # 0
  <2>1. Part \in Nat
    BY <1>1, <1>3, QuotientNat, Zenon DEF Part
  <2>2. Shares % totalStaked = 0
    BY <1>1, <1>3, PoolAssumption DEF PoolInv, TypeOK
  <2>3. QED
    BY <1>1, <1>3, <2>1, <2>2, ExactQuotient DEF Part
<1>4. QED
  BY <1>2, <1>3

LEMMA EarnedFits ==
  ASSUME PoolInv, NEW s \in Stakers, NEW rate \in Nat, rate >= totalRate
  PROVE  Earned(s, rate) \in Nat
<1>1. stakers[s].claimed * PRECISION \in Nat /\ Weight(s, rate) \in Nat
  BY PoolAssumption, StakerFits, ProductNat, WeightNat
<1>2. Shares \in Nat
  BY PoolAssumption
<1>3. QED
  BY <1>1, <1>2, ProductNat DEF Earned

LEMMA EarnedGrows ==
  ASSUME PoolInv, NEW s \in Stakers
  PROVE  Earned(s, GetCurrentRate)
           = Earned(s, totalRate)
               + Shares * ((GetCurrentRate - totalRate) * stakers[s].staked)
<1>1. PICK base \in Int, old \in Int, added \in Int :
        /\ base = stakers[s].claimed * PRECISION
        /\ old = Weight(s, totalRate)
        /\ added = (GetCurrentRate - totalRate) * stakers[s].staked
  <2>1. totalRate \in Nat /\ PRECISION \in Nat
    BY PoolAssumption DEF PoolInv, TypeOK
  <2>2. Weight(s, totalRate) \in Nat
    BY <2>1, WeightNat
  <2>3. (GetCurrentRate - totalRate) * stakers[s].staked \in Int
    BY <2>1, RateGrows, StakerFits
  <2>4. stakers[s].claimed * PRECISION \in Int
    BY <2>1, StakerFits
  <2>5. QED
    BY <2>2, <2>3, <2>4
<1>2. Weight(s, GetCurrentRate) = old + added
  BY <1>1, WeightGrows
<1>3. Shares * (base + (old + added)) = Shares * (base + old) + Shares * added
  BY PoolAssumption
<1>4. QED
  BY <1>1, <1>2, <1>3 DEF Earned

\* What the rate has grown by gives the staker its share of what came in since
\* the last call, up to what the rate's rounding takes.
LEMMA ShareOfRate ==
  ASSUME PoolInv, StakeAdds, NEW s \in Stakers
  PROVE  LET grown == Shares * ((GetCurrentRate - totalRate)
                                  * stakers[s].staked)
         IN  /\ grown \in Nat /\ Unshared(s) \in Nat
             /\ grown <= Unshared(s)
             /\ Unshared(s) <= grown + Shares * RateLoss
<1>1. totalStaked \in Nat /\ totalRate \in Nat /\ Shares \in Nat
  BY PoolAssumption DEF PoolInv, TypeOK
<1>2. PICK staked \in Nat : staked = stakers[s].staked
  BY StakerFits
<1>3. PICK d \in Nat : d = GetCurrentRate - totalRate
  BY <1>1, RateGrows
<1>4. PICK q \in Nat : q = Part
  BY PartNat
<1>5. Shares * RateLoss \in Nat
  BY <1>1, RateLossNat, ProductNat
<1>6. CASE totalStaked = 0
  <2>1. staked = 0
    BY <1>2, <1>6, StakedWithin
  <2>2. Shares * (d * staked) = 0
    BY <1>1, <2>1
  <2>3. PICK came \in Int : came = (balance - lastContractBalance) * PRECISION
    BY PoolAssumption DEF PoolInv, TypeOK
  <2>4. Unshared(s) = (q * staked) * came
    BY <1>2, <1>4, <2>3 DEF Unshared
  <2>5. (q * staked) * came = 0
    BY <2>1
  <2>6. QED
    BY <1>2, <1>3, <1>5, <2>2, <2>4, <2>5
<1>7. CASE totalStaked # 0
  <2>1. PICK came \in Nat :
          came = (balance - lastContractBalance) * PRECISION
    BY <1>7, RateAdded
  <2>2. /\ d * totalStaked <= came
        /\ came < d * totalStaked + totalStaked
        /\ RateLoss = 0 => came = d * totalStaked
    BY <1>3, <1>7, <2>1, RateAdded
  <2>3. PICK total \in Nat : total = totalStaked
    BY <1>1
  <2>4. q * total = Shares
    BY <1>4, <1>7, <2>3, PartNat
  <2>5. PICK e \in Nat : e = d * total
    BY ProductNat
  <2>6. PICK share \in Nat : share = q * staked
    BY ProductNat
  <2>7. share * e = Shares * (d * staked)
    <3>1. (q * staked) * (d * total) = (q * total) * (d * staked)
      OBVIOUS
    <3>2. QED
      BY <2>4, <2>5, <2>6, <3>1
  <2>8. share * total = Shares * staked
    <3>1. (q * staked) * total = (q * total) * staked
      OBVIOUS
    <3>2. QED
      BY <2>4, <2>6, <3>1
  <2>9. Unshared(s) = share * came
    BY <1>2, <1>4, <2>1, <2>6 DEF Unshared
  <2>10. share * e \in Nat /\ share * came \in Nat /\ share * e <= share * came
    BY <2>2, <2>3, <2>5, ProductNat, ProductGrows
  <2>11. share * came <= share * e + Shares * RateLoss
    <3>1. CASE RateLoss = 0
      BY <1>5, <2>2, <2>3, <2>5, <2>10, <3>1
    <3>2. CASE RateLoss = MaxStaked
      <4>1. share * came <= share * (e + total)
        BY <2>2, <2>3, <2>5, ProductGrows
      <4>2. share * (e + total) = share * e + share * total
        OBVIOUS
      <4>3. staked <= MaxStaked /\ MaxStaked \in Nat
        BY <1>2, StakedWithin, PoolAssumption DEF PoolInv, TypeOK
      <4>4. Shares * staked <= Shares * MaxStaked
        BY <1>1, <4>3, ProductGrows
      <4>5. PICK a \in Int, b \in Int, c \in Int :
              a = share * e /\ b = Shares * staked /\ c = Shares * MaxStaked
        BY <1>1, <4>3
      <4>6. share * came \in Int /\ share * (e + total) = a + b
        BY <2>8, <4>2, <4>5
      <4>7. QED
        BY <3>2, <4>1, <4>4, <4>5, <4>6
    <3>3. QED
      BY <3>1, <3>2, RateLossNat
  <2>12. Shares * (d * staked) = share * e
    BY <2>7
  <2>13. QED
    BY <1>2, <1>3, <2>9, <2>10, <2>11, <2>12
<1>8. QED
  BY <1>6, <1>7

LEMMA CallsFit ==
  ASSUME PoolInv
  PROVE  /\ calls \in [Stakers -> Nat]
         /\ SumFunction(calls) \in Nat
<1>1. calls \in [Stakers -> Nat]
  BY DEF PoolInv, TypeOK
<1>2. QED
  BY <1>1, StakersFinite, SumFunctionNat

LEMMA RoundedFits ==
  ASSUME NEW settled \in Nat, NEW updates \in Nat
  PROVE  /\ Rounded(settled, updates) \in Nat
         /\ Rounded(settled, updates + 1)
              = Rounded(settled, updates) + Shares * RateLoss
         /\ Rounded(settled + 1, updates)
              = Rounded(settled, updates) + Shares * (PRECISION - 1)
<1>1. PICK shares \in Nat, unit \in Nat, loss \in Nat :
        shares = Shares /\ unit = PRECISION - 1 /\ loss = RateLoss
  BY PoolAssumption, RateLossNat
<1>2. settled * unit \in Nat /\ updates * loss \in Nat
  BY ProductNat
<1>3. (settled + 1) * unit = settled * unit + unit
      /\ (updates + 1) * loss = updates * loss + loss
  OBVIOUS
<1>4. PICK a \in Nat, b \in Nat : a = settled * unit /\ b = updates * loss
  BY <1>2
<1>5. shares * (a + b) \in Nat
      /\ shares * (a + (b + loss)) = shares * (a + b) + shares * loss
      /\ shares * ((a + unit) + b) = shares * (a + b) + shares * unit
  BY ProductNat
<1>6. QED
  BY <1>1, <1>3, <1>4, <1>5 DEF Rounded

\* At the rate of the moment, a staker has earned no more than its due, and
\* less only by the roundings.
LEMMA EarnedNow ==
  ASSUME ShareInv, NEW s \in Stakers
  PROVE  /\ Earned(s, GetCurrentRate) <= due[s] * PRECISION
         /\ due[s] * PRECISION
              <= Earned(s, GetCurrentRate)
                   + Rounded(calls[s], SumFunction(calls) + 1)
<1>1. PoolInv /\ StakeAdds
  BY DEF ShareInv
<1>2. due[s] * PRECISION \in Nat
  <2>1. due[s] \in Nat /\ PRECISION \in Nat
    BY <1>1, PoolAssumption DEF PoolInv, TypeOK
  <2>2. QED
    BY <2>1, ProductNat
<1>3. Earned(s, totalRate) \in Nat
  <2>1. totalRate \in Nat /\ totalRate >= totalRate
    BY <1>1 DEF PoolInv, TypeOK
  <2>2. QED
    BY <1>1, <2>1, EarnedFits
<1>4. PICK grown \in Nat :
        /\ grown = Shares * ((GetCurrentRate - totalRate) * stakers[s].staked)
        /\ Unshared(s) \in Nat
        /\ grown <= Unshared(s)
        /\ Unshared(s) <= grown + Shares * RateLoss
  BY <1>1, ShareOfRate
<1>5. Earned(s, GetCurrentRate) = Earned(s, totalRate) + grown
  BY <1>1, <1>4, EarnedGrows
<1>6. /\ Earned(s, totalRate) + Unshared(s) <= due[s] * PRECISION
      /\ due[s] * PRECISION <= Earned(s, totalRate) + Unshared(s)
                                 + Rounded(calls[s], SumFunction(calls))
  BY DEF ShareInv, NeverMore, NeverMuchLess
<1>7. PICK round \in Nat, next \in Nat, loss \in Int :
        /\ round = Rounded(calls[s], SumFunction(calls))
        /\ next = Rounded(calls[s], SumFunction(calls) + 1)
        /\ loss = Shares * RateLoss
        /\ next = round + loss
  <2>1. PICK settled \in Nat, updates \in Nat :
          settled = calls[s] /\ updates = SumFunction(calls)
    BY <1>1, CallsFit
  <2>2. Shares * RateLoss \in Int
    BY RateLossNat, PoolAssumption
  <2>3. /\ Rounded(settled, updates) \in Nat
        /\ Rounded(settled, updates + 1)
             = Rounded(settled, updates) + Shares * RateLoss
    BY RoundedFits
  <2>4. Rounded(settled, updates + 1) \in Nat
    <3>1. updates + 1 \in Nat
      OBVIOUS
    <3>2. QED
      BY <3>1, RoundedFits
  <2>5. QED
    BY <2>1, <2>2, <2>3, <2>4
<1>8. QED
  BY <1>2, <1>3, <1>4, <1>5, <1>6, <1>7

-----------------------------------------------------------------------------
(* A call that settles a staker *)

\* stake, claim and restake: they bring the rate and the staker up to date,
\* pay out what was claimed and add what was staked.
Settles(s, record, paid, added) ==
  /\ record \in StakerRecords
  /\ record.rate = GetCurrentRate
  /\ record.pendingRewards = GetCurrentStakerRewards(s) - paid
  /\ record.claimed = stakers[s].claimed + paid
  /\ record.staked = stakers[s].staked + added
  /\ stakers' = [stakers EXCEPT ![s] = record]
  /\ totalRate' = GetCurrentRate
  /\ totalStaked' = totalStaked + added
  /\ balance' = balance - paid
  /\ lastContractBalance' = balance'
  /\ calls' = [calls EXCEPT ![s] = @ + 1]
  /\ due' = due

LEMMA SettledWeights ==
  ASSUME ShareInv, NEW s \in Stakers, NEW record, NEW paid \in Nat,
         NEW added \in Nat, Settles(s, record, paid, added), PoolInv'
  PROVE  /\ Weight(s, totalRate)'
              = (GetCurrentStakerRewards(s) - paid) * PRECISION
         /\ \A x \in Stakers \ {s} :
              Weight(x, totalRate)' = Weight(x, GetCurrentRate)
<1>1. stakers \in [Stakers -> StakerRecords]
  BY DEF ShareInv, PoolInv, TypeOK, StakerRecords
<1>2. stakers'[s] = record /\ \A x \in Stakers \ {s} : stakers'[x] = stakers[x]
  BY <1>1 DEF Settles
<1>3. totalRate' = GetCurrentRate /\ GetCurrentRate \in Nat
  BY RateGrows DEF Settles, ShareInv
<1>4. (totalRate' - record.rate) * record.staked = 0
  <2>1. totalRate' - record.rate = 0 /\ record.staked \in Nat
    BY <1>3 DEF Settles, StakerRecords
  <2>2. QED
    BY <2>1
<1>5. record.pendingRewards = GetCurrentStakerRewards(s) - paid
      /\ record.pendingRewards \in Nat
  BY DEF Settles, StakerRecords
<1>6. record.pendingRewards * PRECISION \in Nat
  BY <1>5, PoolAssumption, ProductNat
<1>7. QED
  BY <1>2, <1>3, <1>4, <1>5, <1>6 DEF Weight

LEMMA SettlesBacked ==
  ASSUME ShareInv, NEW s \in Stakers, NEW record, NEW paid \in Nat,
         NEW added \in Nat, Settles(s, record, paid, added), PoolInv'
  PROVE  Backed'
<1>1. PoolInv /\ Backed /\ StakeAdds
  BY DEF ShareInv
<1> DEFINE old == Weights(GetCurrentRate)
           new == [x \in Stakers |-> Weight(x, totalRate)']
<1>2. old \in [Stakers -> Int]
  <2>1. old \in [Stakers -> Nat]
    BY <1>1, RateGrows, WeightsFit
  <2>2. QED
    BY <2>1
<1>3. PICK rewards \in Nat, unit \in Nat, held \in Nat :
        /\ rewards = GetCurrentStakerRewards(s) /\ unit = PRECISION
        /\ held = balance
  BY <1>1, RewardsNat, PoolAssumption DEF PoolInv, TypeOK
<1>4. /\ new[s] = (rewards - paid) * unit
      /\ \A x \in Stakers \ {s} : new[x] = old[x]
  BY <1>3, SettledWeights DEF Weights
<1>5. new \in [Stakers -> Int]
  <2>1. \A x \in Stakers : new[x] \in Int
    BY <1>2, <1>4
  <2>2. QED
    BY <2>1
<1>6. SumFunction(new) = SumFunction(old) + (new[s] - old[s])
  <2> HIDE DEF old, new
  <2>1. QED
    BY <1>2, <1>4, <1>5, StakersFinite, SumFunctionChange
<1>7. SumFunction(old) \in Int /\ SumFunction(old) <= held * unit
  <2>1. SumFunction(old) <= held * unit
    BY <1>1, <1>3, BackedNow
  <2> HIDE DEF old
  <2>2. QED
    BY <1>2, <2>1, StakersFinite, SumFunctionInt
<1>8. rewards * unit <= old[s]
  BY <1>1, <1>3, RewardsRound DEF Weights
<1>9. (rewards - paid) * unit = rewards * unit - paid * unit
      /\ (held - paid) * unit = held * unit - paid * unit
  OBVIOUS
<1>10. PICK a \in Int, b \in Int, c \in Int :
         a = rewards * unit /\ b = paid * unit /\ c = held * unit
  OBVIOUS
<1>11. SumFunction(new) <= (held - paid) * unit
  <2>1. new[s] = a - b /\ old[s] \in Int
    BY <1>2, <1>4, <1>9, <1>10
  <2> HIDE DEF old, new
  <2>2. QED
    BY <1>6, <1>7, <1>8, <1>9, <1>10, <2>1
<1>12. Weights(totalRate)' = new
  BY DEF Weights
<1>13. lastContractBalance' = held - paid
  BY <1>3 DEF Settles
<1> HIDE DEF new
<1>14. QED
  BY <1>3, <1>11, <1>12, <1>13 DEF Backed

LEMMA SettlesAdds ==
  ASSUME ShareInv, NEW s \in Stakers, NEW record, NEW paid \in Nat,
         NEW added \in Nat, Settles(s, record, paid, added), PoolInv'
  PROVE  StakeAdds'
<1>1. PoolInv /\ StakeAdds
  BY DEF ShareInv
<1>2. stakers \in [Stakers -> StakerRecords] /\ stakers'[s] = record
      /\ \A x \in Stakers \ {s} : stakers'[x] = stakers[x]
  BY DEF ShareInv, PoolInv, TypeOK, StakerRecords, Settles
<1> DEFINE new == StakedOf'
<1>3. StakedOf \in [Stakers -> Int] /\ StakedOf[s] = stakers[s].staked
  BY <1>1, StakedFits DEF StakedOf
<1>4. stakers[s].staked \in Nat /\ record.staked = stakers[s].staked + added
  BY <1>1, StakerFits DEF Settles
<1>5. new[s] = StakedOf[s] + added
      /\ \A x \in Stakers \ {s} : new[x] = StakedOf[x]
  BY <1>2, <1>3, <1>4 DEF StakedOf
<1>6. new \in [Stakers -> Int]
  <2>1. \A x \in Stakers : new[x] \in Int
    BY <1>3, <1>5
  <2>2. QED
    BY <2>1 DEF StakedOf
<1>7. SumFunction(new) = SumFunction(StakedOf) + (new[s] - StakedOf[s])
  <2> HIDE DEF new
  <2>1. QED
    BY <1>3, <1>5, <1>6, StakersFinite, SumFunctionChange
<1>8. totalStaked' = totalStaked + added /\ totalStaked \in Nat
  BY <1>1 DEF Settles, PoolInv, TypeOK
<1>9. StakedOf[s] \in Int
  BY <1>3
<1>10. SumFunction(new) = totalStaked'
  <2> HIDE DEF new
  <2>1. QED
    BY <1>1, <1>5, <1>7, <1>8, <1>9 DEF StakeAdds
<1>11. QED
  BY <1>10 DEF StakeAdds

LEMMA SettlesShares ==
  ASSUME ShareInv, NEW s \in Stakers, NEW record, NEW paid \in Nat,
         NEW added \in Nat, Settles(s, record, paid, added), PoolInv'
  PROVE  NeverMore' /\ NeverMuchLess'
<1> SUFFICES ASSUME NEW x \in Stakers
             PROVE  /\ Earned(x, totalRate)' + Unshared(x)'
                         <= due'[x] * PRECISION
                    /\ due'[x] * PRECISION
                         <= Earned(x, totalRate)' + Unshared(x)'
                              + Rounded(calls'[x], SumFunction(calls'))
  BY DEF NeverMore, NeverMuchLess, Rounded, RateLoss
<1>1. PoolInv
  BY DEF ShareInv
<1>2. PICK owed \in Int :
        owed = due[x] * PRECISION /\ owed = due'[x] * PRECISION
  BY <1>1, PoolAssumption DEF PoolInv, TypeOK, Settles
<1>3. PICK settled \in Nat, updates \in Nat :
        settled = calls[x] /\ updates = SumFunction(calls)
  BY <1>1, CallsFit
<1>4. SumFunction(calls') = updates + 1
  <2>1. calls \in [Stakers -> Int] /\ calls' \in [Stakers -> Int]
        /\ calls[s] \in Int /\ calls'[s] = calls[s] + 1
        /\ \A y \in Stakers \ {s} : calls'[y] = calls[y]
    BY <1>1 DEF PoolInv, TypeOK, Settles
  <2>2. SumFunction(calls') = SumFunction(calls) + (calls'[s] - calls[s])
    BY <2>1, StakersFinite, SumFunctionChange
  <2>3. QED
    BY <1>3, <2>1, <2>2
<1>5. Unshared(x)' = 0
  <2>1. PICK part \in Int : part = Part'
    <3>1. Shares \in Nat /\ totalStaked' \in Nat
      BY PoolAssumption DEF PoolInv, TypeOK
    <3>2. CASE totalStaked' = 0
      BY <3>2 DEF Part
    <3>3. CASE totalStaked' # 0
      <4>1. PICK total \in Nat \ {0} : total = totalStaked'
        BY <3>1, <3>3
      <4>2. Shares \div total \in Nat
        BY <3>1, QuotientNat
      <4>3. QED
        BY <3>3, <4>1, <4>2 DEF Part
    <3>4. QED
      BY <3>2, <3>3
  <2>2. PICK staked \in Int : staked = stakers'[x].staked
    BY DEF PoolInv, TypeOK
  <2>3. balance' - lastContractBalance' = 0
    BY DEF Settles, PoolInv, TypeOK
  <2>4. (part * staked) * (0 * PRECISION) = 0
    BY PoolAssumption
  <2>5. QED
    BY <2>1, <2>2, <2>3, <2>4 DEF Unshared
<1>6. PICK round \in Nat :
        /\ round = Rounded(settled, updates + 1)
        /\ Rounded(settled + 1, updates + 1)
             = round + Shares * (PRECISION - 1)
  <2>1. PICK next \in Nat : next = updates + 1
    OBVIOUS
  <2>2. /\ Rounded(settled, next) \in Nat
        /\ Rounded(settled + 1, next)
             = Rounded(settled, next) + Shares * (PRECISION - 1)
    BY RoundedFits
  <2>3. QED
    BY <2>1, <2>2
<1>7. PICK earned \in Nat : earned = Earned(x, GetCurrentRate)
  BY <1>1, RateGrows, EarnedFits
<1>8. earned <= owed /\ owed <= earned + round
  BY <1>2, <1>3, <1>6, <1>7, EarnedNow
<1>9. stakers \in [Stakers -> StakerRecords] /\ calls \in [Stakers -> Nat]
  BY <1>1 DEF PoolInv, TypeOK, StakerRecords
<1>10. CASE x # s
  <2>1. stakers'[x].claimed = stakers[x].claimed /\ calls'[x] = calls[x]
    BY <1>9, <1>10 DEF Settles
  <2>2. Weight(x, totalRate)' = Weight(x, GetCurrentRate)
    BY <1>10, SettledWeights
  <2>3. Earned(x, totalRate)' = earned
    BY <1>7, <2>1, <2>2 DEF Earned
  <2>4. QED
    BY <1>2, <1>3, <1>4, <1>5, <1>6, <1>8, <2>1, <2>3
<1>11. CASE x = s
  <2>1. calls'[x] = settled + 1
    BY <1>3, <1>9, <1>11 DEF Settles
  <2>2. PICK claimed \in Nat, rewards \in Nat, unit \in Nat, shares \in Nat :
          /\ claimed = stakers[s].claimed /\ unit = PRECISION
          /\ rewards = GetCurrentStakerRewards(s) /\ shares = Shares
    BY <1>1, StakerFits, RewardsNat, PoolAssumption
  <2>3. stakers'[s].claimed = claimed + paid
    BY <1>9, <2>2 DEF Settles
  <2>4. Weight(s, totalRate)' = (rewards - paid) * unit
    BY <2>2, SettledWeights
  <2>5. Earned(x, totalRate)'
          = shares * ((claimed + paid) * unit + (rewards - paid) * unit)
    BY <1>11, <2>2, <2>3, <2>4 DEF Earned
  <2>6. (claimed + paid) * unit + (rewards - paid) * unit
          = claimed * unit + rewards * unit
    OBVIOUS
  <2>7. PICK weight \in Int : weight = Weight(s, GetCurrentRate)
    BY <1>1, RateGrows, WeightNat
  <2>8. rewards * unit <= weight /\ weight <= rewards * unit + (unit - 1)
    BY <1>1, <2>2, <2>7, RewardsRound
  <2>9. earned = shares * (claimed * unit + weight)
    BY <1>7, <1>11, <2>2, <2>7 DEF Earned
  <2>10. PICK a \in Nat, b \in Nat :
           a = claimed * unit /\ b = rewards * unit
    BY ProductNat
  <2>11. PICK now1 \in Int : now1 = shares * (a + b)
    OBVIOUS
  <2>12. now1 <= earned /\ earned <= now1 + shares * (unit - 1)
    <3>1. a + b \in Nat /\ a + weight \in Nat /\ a + b <= a + weight
      BY <2>7, <2>8, <2>10
    <3>2. unit - 1 \in Nat
      BY <2>2, PoolAssumption
    <3>3. a + weight <= (a + b) + (unit - 1) /\ (a + b) + (unit - 1) \in Nat
      BY <2>7, <2>8, <2>10, <3>2
    <3>4. shares * (a + b) <= shares * (a + weight)
          /\ shares * (a + weight) <= shares * ((a + b) + (unit - 1))
      BY <3>1, <3>3, ProductGrows
    <3>5. shares * ((a + b) + (unit - 1))
            = shares * (a + b) + shares * (unit - 1)
      BY <3>2
    <3>6. QED
      BY <2>9, <2>10, <2>11, <3>4, <3>5
  <2>13. Earned(x, totalRate)' = now1
    BY <2>5, <2>6, <2>10, <2>11
  <2>14. PICK more \in Int : more = shares * (unit - 1)
    OBVIOUS
  <2>15. Rounded(calls'[x], SumFunction(calls')) = round + more
    BY <1>4, <1>6, <2>1, <2>2, <2>14
  <2>16. QED
    BY <1>2, <1>5, <1>8, <2>12, <2>13, <2>14, <2>15
<1>12. QED
  BY <1>10, <1>11

LEMMA SettlesShareInv ==
  ASSUME ShareInv, NEW s \in Stakers, NEW record, NEW paid \in Nat,
         NEW added \in Nat, Settles(s, record, paid, added), PoolInv'
  PROVE  ShareInv'
BY SettlesBacked, SettlesAdds, SettlesShares DEF ShareInv

LEMMA InitShareInv == Init => ShareInv
<1> SUFFICES ASSUME Init PROVE ShareInv
  OBVIOUS
<1>1. PoolInv
  BY InitPoolInv
<1>2. /\ balance = 0 /\ lastContractBalance = 0
      /\ totalStaked = 0 /\ totalRate = 0
      /\ \A s \in Stakers :
           /\ stakers[s].staked = 0 /\ stakers[s].claimed = 0
           /\ stakers[s].rate = 0 /\ stakers[s].pendingRewards = 0
           /\ due[s] = 0 /\ calls[s] = 0
  BY DEF Init
<1>3. PRECISION \in Nat /\ Shares \in Nat
  BY PoolAssumption
<1>4. \A s \in Stakers : Weight(s, totalRate) = 0
  BY <1>2, <1>3 DEF Weight
<1>5. Backed
  <2>1. Weights(totalRate) \in [Stakers -> Int]
        /\ \A s \in Stakers : Weights(totalRate)[s] = 0
    BY <1>4 DEF Weights
  <2>2. SumFunction(Weights(totalRate)) = 0
    BY <2>1, StakersFinite, SumFunctionZero
  <2>3. QED
    BY <1>2, <1>3, <2>2 DEF Backed
<1>6. StakeAdds
  <2>1. StakedOf \in [Stakers -> Int] /\ \A s \in Stakers : StakedOf[s] = 0
    BY <1>2 DEF StakedOf
  <2>2. SumFunction(StakedOf) = 0
    BY <2>1, StakersFinite, SumFunctionZero
  <2>3. QED
    BY <1>2, <2>2 DEF StakeAdds
<1>7. ASSUME NEW s \in Stakers
      PROVE  /\ due[s] * PRECISION = 0
             /\ Earned(s, totalRate) = 0 /\ Unshared(s) = 0
             /\ Rounded(calls[s], SumFunction(calls)) \in Nat
  <2>1. Earned(s, totalRate) = 0
    BY <1>2, <1>3, <1>4 DEF Earned
  <2>2. Unshared(s) = 0
    BY <1>2, <1>3 DEF Unshared, Part
  <2>3. Rounded(calls[s], SumFunction(calls)) \in Nat
    BY <1>1, CallsFit, RoundedFits
  <2>4. QED
    BY <1>2, <1>3, <2>1, <2>2, <2>3
<1>8. NeverMore /\ NeverMuchLess
  BY <1>7 DEF NeverMore, NeverMuchLess
<1>9. QED
  BY <1>1, <1>5, <1>6, <1>8 DEF ShareInv

\* MOR that comes in raises each share by what is still unshared.
LEMMA ReceiveShareInv ==
  ASSUME ShareInv, NEW amount \in Nat, Receive(amount), PoolInv'
  PROVE  ShareInv'
<1>1. PoolInv /\ Backed /\ StakeAdds
  BY DEF ShareInv
<1>2. /\ balance' = balance + amount
      /\ UNCHANGED <<totalStaked, totalRate, lastContractBalance, stakers,
                     calls>>
      /\ due' = [s \in Stakers |->
           due[s] + (IF totalStaked = 0 THEN 0
                     ELSE amount * stakers[s].staked
                            * (Shares \div totalStaked))]
  BY DEF Receive, poolVars
<1>3. Backed' /\ StakeAdds'
  BY <1>1, <1>2 DEF Backed, StakeAdds, Weights, Weight, StakedOf
<1>4. ASSUME NEW s \in Stakers
      PROVE  /\ Earned(s, totalRate)' + Unshared(s)' <= due'[s] * PRECISION
             /\ due'[s] * PRECISION
                  <= Earned(s, totalRate)' + Unshared(s)'
                       + Rounded(calls[s], SumFunction(calls))
  <2>1. PICK part \in Nat, staked \in Nat, reward \in Nat, unit \in Nat :
          /\ part = Part /\ staked = stakers[s].staked
          /\ reward = balance - lastContractBalance /\ unit = PRECISION
    BY <1>1, PartNat, StakerFits, PoolAssumption
       DEF PoolInv, TypeOK, BalanceCoversLast
  <2>2. due'[s] = due[s] + amount * staked * part
    <3>1. due[s] \in Int /\ amount * staked * 0 = 0
      BY <1>1 DEF PoolInv, TypeOK
    <3>2. QED
      BY <1>2, <2>1, <3>1 DEF Part
  <2>3. Unshared(s) = (part * staked) * (reward * unit)
    BY <2>1 DEF Unshared
  <2>4. Unshared(s)' = (part * staked) * ((reward + amount) * unit)
    <3>1. Part' = part
      BY <1>2, <2>1 DEF Part
    <3>2. balance' - lastContractBalance' = reward + amount
      BY <1>1, <1>2, <2>1 DEF PoolInv, TypeOK
    <3>3. QED
      BY <1>2, <2>1, <3>1, <3>2 DEF Unshared
  <2>5. (part * staked) * ((reward + amount) * unit)
          = (part * staked) * (reward * unit)
              + (amount * staked * part) * unit
    OBVIOUS
  <2>6. PICK owed \in Int : owed = due[s]
    BY <1>1 DEF PoolInv, TypeOK
  <2>7. PICK more \in Int : more = amount * staked * part
    OBVIOUS
  <2>8. (owed + more) * unit = owed * unit + more * unit
    OBVIOUS
  <2>9. Earned(s, totalRate)' = Earned(s, totalRate)
    BY <1>2 DEF Earned, Weight
  <2>10. PICK earned \in Nat : earned = Earned(s, totalRate)
    <3>1. totalRate \in Nat /\ totalRate >= totalRate
      BY <1>1 DEF PoolInv, TypeOK
    <3>2. QED
      BY <1>1, <3>1, EarnedFits
  <2>11. PICK round \in Nat : round = Rounded(calls[s], SumFunction(calls))
    BY <1>1, CallsFit, RoundedFits
  <2>12. /\ earned + Unshared(s) <= owed * unit
         /\ owed * unit <= earned + Unshared(s) + round
    BY <2>1, <2>6, <2>10, <2>11 DEF ShareInv, NeverMore, NeverMuchLess
  <2>13. PICK a \in Int, b \in Int, c \in Int :
           /\ a = (part * staked) * (reward * unit) /\ b = more * unit
           /\ c = owed * unit
    OBVIOUS
  <2>14. due'[s] * PRECISION = c + b
    BY <2>1, <2>2, <2>6, <2>7, <2>8, <2>13
  <2>15. Unshared(s)' = a + b /\ Unshared(s) = a
    BY <2>3, <2>4, <2>5, <2>7, <2>13
  <2>16. earned + a <= c /\ c <= earned + a + round
    BY <2>12, <2>13, <2>15
  <2>17. QED
    BY <2>9, <2>10, <2>11, <2>14, <2>15, <2>16
<1>5. NeverMore' /\ NeverMuchLess'
  <2>1. calls' = calls
    BY <1>2
  <2>2. QED
    BY <1>4, <2>1 DEF NeverMore, NeverMuchLess, Rounded, RateLoss
<1>6. QED
  BY <1>3, <1>5 DEF ShareInv

LEMMA KeptShareInv ==
  ASSUME ShareInv, PoolInv',
         UNCHANGED <<balance, totalStaked, totalRate, lastContractBalance,
                     stakers, due, calls>>
  PROVE  ShareInv'
BY DEF ShareInv, Backed, StakeAdds, NeverMore, NeverMuchLess, Weights, Weight,
   StakedOf, Earned, Unshared, Rounded, RateLoss, Part

\* What claim leaves of the staker's record.
LEMMA ClaimedFields ==
  ASSUME PoolInv, NEW s \in Stakers, NEW paid \in Nat
  PROVE  LET record == ClaimedRecord(s, paid) IN
         /\ record.rate = GetCurrentRate
         /\ record.pendingRewards = GetCurrentStakerRewards(s) - paid
         /\ record.claimed = stakers[s].claimed + paid
         /\ record.staked = stakers[s].staked
BY DEF ClaimedRecord, PoolInv, TypeOK

LEMMA NextShareInv ==
  ASSUME ShareInv, [Next]_vars
  PROVE  ShareInv'
<1>1. PoolInv /\ PoolInv'
  BY NextPoolInv DEF ShareInv
<1>2. ASSUME NEW s \in Stakers, NEW amount \in Amounts, Stake(s, amount)
      PROVE  ShareInv'
  <2>1. stakers[s] \in StakerRecords
    BY <1>1 DEF PoolInv, TypeOK, StakerRecords
  <2>2. PICK rewards \in Nat, rate \in Nat :
          rewards = GetCurrentStakerRewards(s) /\ rate = GetCurrentRate
    BY <1>1, RewardsNat, RateGrows
  <2>3. amount \in Nat
    BY PoolAssumption
  <2>4. PICK staked \in Nat : staked = stakers[s].staked + amount
    BY <2>1, <2>3 DEF StakerRecords
  <2>5. PICK record : record = [stakers[s] EXCEPT
          !.pendingRewards = rewards, !.staked = staked, !.rate = rate]
    OBVIOUS
  <2>6. /\ record \in StakerRecords
        /\ record.rate = rate /\ record.pendingRewards = rewards
        /\ record.claimed = stakers[s].claimed
        /\ record.staked = staked
    BY <2>1, <2>2, <2>4, <2>5 DEF StakerRecords
  <2>7. [[stakers[s] EXCEPT !.pendingRewards = rewards]
            EXCEPT !.staked = @ + amount, !.rate = rate] = record
    BY <2>1, <2>4, <2>5 DEF StakerRecords
  <2>8. /\ stakers' = [stakers EXCEPT ![s] = record]
        /\ totalRate' = rate /\ totalStaked' = totalStaked + amount
        /\ balance' = balance /\ lastContractBalance' = balance
        /\ calls' = [calls EXCEPT ![s] = @ + 1] /\ due' = due
    BY <1>2, <2>2, <2>7 DEF Stake, StakeFrom, RateAfterStake
  <2>9. Settles(s, record, 0, amount)
    <3>1. balance - 0 = balance /\ rewards - 0 = rewards
          /\ stakers[s].claimed + 0 = stakers[s].claimed
      BY <1>1, <2>1, <2>2 DEF PoolInv, TypeOK, StakerRecords
    <3>2. QED
      BY <2>2, <2>4, <2>6, <2>8, <3>1 DEF Settles
  <2>10. QED
    BY <1>1, <2>3, <2>9, SettlesShareInv
<1>3. ASSUME NEW s \in Stakers, NEW asked \in Amounts, Claim(s, asked)
      PROVE  ShareInv'
  <2>1. PICK paid \in Nat : paid = Claimable(s, asked)
                            /\ paid <= GetCurrentStakerRewards(s)
    BY <1>1, ClaimBounded
  <2>2. PICK record \in StakerRecords : record = ClaimedRecord(s, paid)
    BY <1>1, <2>1, ClaimedType DEF StakerRecords
  <2>3. /\ stakers' = [stakers EXCEPT ![s] = record]
        /\ totalRate' = GetCurrentRate /\ totalStaked' = totalStaked
        /\ balance' = balance - paid /\ lastContractBalance' = balance - paid
        /\ calls' = [calls EXCEPT ![s] = @ + 1] /\ due' = due
    BY <1>3, <2>1, <2>2 DEF Claim, BalanceAfter
  <2>4. stakers[s].staked + 0 = stakers[s].staked
        /\ totalStaked + 0 = totalStaked
    BY <1>1, StakerFits DEF PoolInv, TypeOK
  <2>5. Settles(s, record, paid, 0)
    BY <1>1, <2>2, <2>3, <2>4, ClaimedFields DEF Settles
  <2>6. QED
    BY <1>1, <2>5, SettlesShareInv
<1>4. ASSUME NEW s \in Stakers, NEW asked \in Amounts, NEW byOwner \in BOOLEAN,
             Restake(s, asked, byOwner)
      PROVE  ShareInv'
  <2>1. PICK paid \in Nat : paid = Claimable(s, asked)
                            /\ paid <= GetCurrentStakerRewards(s)
    BY <1>1, ClaimBounded
  <2>2. PICK claimed \in StakerRecords : claimed = ClaimedRecord(s, paid)
    BY <1>1, <2>1, ClaimedType DEF StakerRecords
  <2>3. PICK added \in Nat : added = paid - FeeAmount(paid)
    BY <1>1, FeeBounded
  <2>4. PICK rate \in Nat, staked \in Nat :
          rate = GetCurrentRate /\ staked = claimed.staked + added
    BY <1>1, RateGrows DEF StakerRecords
  <2>5. PICK record : record = [claimed EXCEPT !.staked = staked, !.rate = rate]
    OBVIOUS
  <2>6. /\ record \in StakerRecords
        /\ record.rate = rate /\ record.staked = staked
        /\ record.pendingRewards = claimed.pendingRewards
        /\ record.claimed = claimed.claimed
    BY <2>4, <2>5 DEF StakerRecords
  <2>7. [claimed EXCEPT !.staked = @ + added, !.rate = rate] = record
    BY <2>4, <2>5 DEF StakerRecords
  <2>8. StakeFrom(s, added, claimed, balance - paid)
        /\ calls' = [calls EXCEPT ![s] = @ + 1] /\ due' = due
    BY <1>4, <2>1, <2>2, <2>3 DEF Restake
  <2>9. /\ stakers' = [stakers EXCEPT ![s] = record]
        /\ totalRate' = rate /\ totalStaked' = totalStaked + added
        /\ balance' = balance - paid /\ lastContractBalance' = balance - paid
    BY <2>4, <2>7, <2>8 DEF StakeFrom, RateAfterStake
  <2>10. /\ claimed.pendingRewards = GetCurrentStakerRewards(s) - paid
         /\ claimed.claimed = stakers[s].claimed + paid
         /\ claimed.staked = stakers[s].staked
    BY <1>1, <2>2, ClaimedFields
  <2>11. Settles(s, record, paid, added)
    BY <2>4, <2>6, <2>8, <2>9, <2>10 DEF Settles
  <2>12. QED
    BY <1>1, <2>11, SettlesShareInv
<1>5. ASSUME NEW amount \in Amounts, NEW limited \in BOOLEAN,
             Reward(amount, limited)
      PROVE  ShareInv'
  <2>1. amount \in Nat /\ Receive(amount)
    BY <1>5, PoolAssumption DEF Reward
  <2>2. QED
    BY <1>1, <2>1, ReceiveShareInv
<1>6. CASE LimiterPeriodEnds
  BY <1>1, <1>6, KeptShareInv DEF LimiterPeriodEnds, poolVars, historyVars
<1>7. CASE ProviderDeregister
  <2>1. PICK returned \in Nat :
          returned = provider.stake - provider.limitPeriodEarned
    BY <1>1 DEF PoolInv, TypeOK, LimiterOnStake
  <2>2. Receive(returned)
    BY <1>7, <2>1 DEF ProviderDeregister
  <2>3. QED
    BY <1>1, <2>2, ReceiveShareInv
<1>8. ASSUME NEW closed \in BOOLEAN, SetIsStakeClosed(closed)
      PROVE  ShareInv'
  BY <1>1, <1>8, KeptShareInv DEF SetIsStakeClosed, poolVars, historyVars
<1>9. ASSUME NEW s \in Stakers, NEW disabled \in BOOLEAN,
             SetIsRestakeDisabled(s, disabled)
      PROVE  ShareInv'
  BY <1>1, <1>9, KeptShareInv DEF SetIsRestakeDisabled, poolVars, historyVars
<1>10. CASE Tick
  BY <1>1, <1>10, KeptShareInv DEF Tick, poolVars, historyVars
<1>11. CASE UNCHANGED vars
  BY <1>1, <1>11, KeptShareInv DEF vars, poolVars, historyVars
<1>12. QED
  BY <1>2, <1>3, <1>4, <1>5, <1>6, <1>7, <1>8, <1>9, <1>10, <1>11 DEF Next
-----------------------------------------------------------------------------
\* The pool's inductive invariant holds in every state.
THEOREM PoolInvariant == Spec => []PoolInv
<1>1. Init => PoolInv
  BY InitPoolInv
<1>2. PoolInv /\ [Next]_vars => PoolInv'
  BY NextPoolInv
<1> QED
  BY <1>1, <1>2, PTL DEF Spec

\* The pool's state has its types: no staker's pending rewards and no balance
\* of the pool ever go below zero, whatever is claimed and restaked.
THEOREM PoolTypes == Spec => []TypeOK
<1>1. PoolInv => TypeOK
  BY DEF PoolInv
<1> QED
  BY <1>1, PoolInvariant, PTL

\* The subtraction in getCurrentRate never reverts: stake, restake and claim
\* cannot be locked by a balance below the one the last call recorded.
THEOREM BalanceNeverBelow == Spec => []BalanceCoversLast
<1>1. PoolInv => BalanceCoversLast
  BY DEF PoolInv
<1> QED
  BY <1>1, PoolInvariant, PTL

\* The rate per staked token never falls, so that a staker's rewards since its
\* last call are never negative.
THEOREM RateNeverFalls == Spec => [][totalRate' >= totalRate]_vars
<1>1. PoolInv /\ [Next]_vars => [totalRate' >= totalRate]_vars
  BY NextPoolInv
<1> QED
  BY <1>1, PoolInvariant, PTL DEF Spec

\* The pool's second inductive invariant, about the shares.
THEOREM ShareInvariant == Spec => []ShareInv
<1>1. Init => ShareInv
  BY InitShareInv
<1>2. ShareInv /\ [Next]_vars => ShareInv'
  BY NextShareInv
<1> QED
  BY <1>1, <1>2, PTL DEF Spec

LEMMA ShareInvBacks == ShareInv => RewardsBacked
<1> SUFFICES ASSUME ShareInv PROVE RewardsBacked
  OBVIOUS
<1>1. PoolInv /\ Backed /\ StakeAdds
  BY DEF ShareInv
<1>2. PICK unit \in Nat \ {0}, held \in Nat : unit = PRECISION /\ held = balance
  BY <1>1, PoolAssumption DEF PoolInv, TypeOK
<1> DEFINE rewards == [s \in Stakers |-> GetCurrentStakerRewards(s)]
           units   == [s \in Stakers |-> unit * rewards[s]]
           weights == Weights(GetCurrentRate)
<1>3. rewards \in [Stakers -> Int] /\ units \in [Stakers -> Int]
  <2>1. rewards \in [Stakers -> Nat]
    BY <1>1, RewardsNat
  <2> HIDE DEF rewards
  <2>2. QED
    BY <2>1
<1>4. weights \in [Stakers -> Int]
  <2>1. weights \in [Stakers -> Nat]
    BY <1>1, RateGrows, WeightsFit
  <2> HIDE DEF weights
  <2>2. QED
    BY <2>1
<1>5. \A s \in Stakers : units[s] <= weights[s]
  <2>1. SUFFICES ASSUME NEW s \in Stakers PROVE units[s] <= weights[s]
    OBVIOUS
  <2>2. PICK own \in Nat : own = GetCurrentStakerRewards(s)
    BY <1>1, RewardsNat
  <2>3. own * unit <= Weight(s, GetCurrentRate) /\ unit * own = own * unit
    BY <1>1, <1>2, <2>2, RewardsRound
  <2>4. QED
    BY <2>2, <2>3 DEF Weights
<1>6. SumFunctionOnSet(units, Stakers) <= SumFunctionOnSet(weights, Stakers)
  <2> HIDE DEF units, weights
  <2>1. \A s \in Stakers : /\ units[s] \in Int /\ weights[s] \in Int
                           /\ units[s] <= weights[s]
    BY <1>3, <1>4, <1>5
  <2>2. QED
    BY <2>1, StakersFinite, SumAtMost
<1>7. SumFunctionOnSet(units, Stakers)
        = unit * SumFunctionOnSet(rewards, Stakers)
  <2>1. \A s \in Stakers : rewards[s] \in Int /\ units[s] = unit * rewards[s]
    <3> HIDE DEF rewards
    <3>1. QED
      BY <1>3
  <2> HIDE DEF units, rewards
  <2>2. QED
    BY <2>1, StakersFinite, SumTimes
<1>8. SumFunctionOnSet(weights, Stakers) <= held * unit
  <2>1. SumFunction(weights) <= held * unit
    BY <1>1, <1>2, BackedNow
  <2> HIDE DEF weights
  <2>2. QED
    BY <1>4, <2>1, SumOfFunction
<1>9. PICK total \in Int, all \in Int :
        /\ total = SumFunctionOnSet(rewards, Stakers)
        /\ all = SumFunctionOnSet(weights, Stakers)
  <2> HIDE DEF rewards, weights
  <2>1. QED
    BY <1>3, <1>4, StakersFinite, SumInt
<1>10. unit * total <= held * unit
  <2> HIDE DEF units, rewards, weights
  <2>1. unit * total \in Int /\ held * unit \in Int
    OBVIOUS
  <2>2. QED
    BY <1>6, <1>7, <1>8, <1>9, <2>1
<1>11. total <= held
  <2>1. SUFFICES ASSUME total >= held + 1 PROVE FALSE
    BY <1>2
  <2>2. total \in Nat /\ held + 1 \in Nat
    BY <2>1
  <2>3. unit * (held + 1) <= unit * total
    BY <2>1, <2>2, ProductGrows
  <2>4. unit * (held + 1) = held * unit + unit
    OBVIOUS
  <2>5. QED
    BY <1>10, <2>3, <2>4
<1>12. SumFunction(rewards) = total
  <2> HIDE DEF rewards
  <2>1. QED
    BY <1>3, <1>9, SumOfFunction
<1>13. QED
  BY <1>2, <1>11, <1>12 DEF RewardsBacked

LEMMA ShareInvFair == ShareInv => FairShares
<1> SUFFICES ASSUME ShareInv, NEW s \in Stakers
    PROVE LET got == stakers[s].claimed + GetCurrentStakerRewards(s) IN
          /\ Shares * got <= due[s]
          /\ due[s] * PRECISION
               < Shares * ((got + calls[s] + 1) * PRECISION
                           + (SumFunction(calls) + 1) * RateLoss)
  BY DEF FairShares
<1>1. PoolInv
  BY DEF ShareInv
<1>2. PICK unit \in Nat \ {0}, shares \in Nat \ {0}, owed \in Nat :
        unit = PRECISION /\ shares = Shares /\ owed = due[s]
  BY <1>1, PoolAssumption DEF PoolInv, TypeOK
<1>3. PICK claimed \in Nat, rewards \in Nat :
        claimed = stakers[s].claimed /\ rewards = GetCurrentStakerRewards(s)
  BY <1>1, StakerFits, RewardsNat
<1>4. PICK settled \in Nat, updates \in Nat :
        settled = calls[s] /\ updates = SumFunction(calls)
  BY <1>1, CallsFit
<1>5. PICK weight \in Nat : weight = Weight(s, GetCurrentRate)
  BY <1>1, RateGrows, WeightNat
<1>6. PICK a \in Nat, b \in Nat : a = claimed * unit /\ b = rewards * unit
  BY ProductNat
<1>7. b <= weight /\ weight <= b + (unit - 1)
  BY <1>1, <1>2, <1>3, <1>5, <1>6, RewardsRound
<1>8. Earned(s, GetCurrentRate) = shares * (a + weight)
  BY <1>2, <1>3, <1>5, <1>6 DEF Earned
<1>9. PICK loss \in Nat : loss = (updates + 1) * RateLoss
  BY RateLossNat, ProductNat
<1>10. Rounded(calls[s], SumFunction(calls) + 1)
         = shares * (settled * (unit - 1) + loss)
  BY <1>2, <1>4, <1>9 DEF Rounded
<1>11. /\ shares * (a + weight) <= owed * unit
       /\ owed * unit <= shares * (a + weight)
                           + shares * (settled * (unit - 1) + loss)
  BY <1>2, <1>8, <1>10, EarnedNow
<1>12. shares * (claimed + rewards) <= owed
  <2>1. shares * (a + b) <= shares * (a + weight)
    BY <1>6, <1>7, ProductGrows
  <2>2. shares * (a + b) = (shares * (claimed + rewards)) * unit
    BY <1>6
  <2>3. PICK got \in Nat : got = shares * (claimed + rewards)
    BY ProductNat
  <2>4. got * unit <= owed * unit
    <3>1. got * unit \in Int /\ owed * unit \in Int
          /\ shares * (a + weight) \in Int
      OBVIOUS
    <3>2. QED
      BY <1>11, <2>1, <2>2, <2>3, <3>1
  <2>5. SUFFICES ASSUME got >= owed + 1 PROVE FALSE
    BY <2>3
  <2>6. unit * (owed + 1) <= unit * got
    BY <2>5, ProductGrows
  <2>7. unit * (owed + 1) = owed * unit + unit /\ unit * got = got * unit
    OBVIOUS
  <2>8. QED
    BY <2>4, <2>6, <2>7
<1>13. owed * unit
         < shares * ((claimed + rewards + settled + 1) * unit + loss)
  <2>1. PICK c \in Nat : c = settled * unit
    BY ProductNat
  <2>2. settled * (unit - 1) = c - settled
    BY <2>1
  <2>3. (claimed + rewards + settled + 1) * unit = a + b + c + unit
    BY <1>6, <2>1
  <2>4. shares * (a + weight) + shares * ((c - settled) + loss)
          = shares * ((a + weight) + ((c - settled) + loss))
    OBVIOUS
  <2>5. PICK low \in Int, high \in Int :
          /\ low = (a + weight) + ((c - settled) + loss)
          /\ high = (a + b + c + unit) + loss
    OBVIOUS
  <2>6. low + 1 <= high /\ high \in Nat
    BY <1>7, <2>5
  <2>7. shares * low + shares <= shares * high
    <3>1. shares * (high - low) >= shares
      BY <2>6
    <3>2. shares * (high - low) = shares * high - shares * low
      OBVIOUS
    <3>3. PICK x \in Int, y \in Int : x = shares * high /\ y = shares * low
      OBVIOUS
    <3>4. QED
      BY <3>1, <3>2, <3>3
  <2>8. owed * unit <= shares * low
    BY <1>11, <2>2, <2>4, <2>5
  <2>9. PICK x \in Int, y \in Int, z \in Int :
          x = shares * high /\ y = shares * low /\ z = owed * unit
    OBVIOUS
  <2>10. z < x
    BY <2>7, <2>8, <2>9
  <2>11. QED
    BY <2>3, <2>5, <2>9, <2>10
<1>14. QED
  BY <1>2, <1>3, <1>4, <1>9, <1>12, <1>13

\* The pool holds what all of its stakers may claim, so that no claim is cut
\* short because others claimed first.
THEOREM RewardsHeld == Spec => []RewardsBacked
<1> QED
  BY ShareInvariant, ShareInvBacks, PTL

\* Each staker gets its share of every reward by the stake at the moment that
\* the reward came: never more, and less only by the roundings of the calls.
THEOREM SharesFair == Spec => []FairShares
<1> QED
  BY ShareInvariant, ShareInvFair, PTL
=============================================================================
