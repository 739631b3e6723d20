------------------------- MODULE ProvidersDelegate -------------------------
(***************************************************************************)
(* The ProvidersDelegate contract: stakers fund one provider together and  *)
(* share what it earns.  Whatever raises the contract's balance is a       *)
(* reward; it is shared by a rate per staked token that a call brings up   *)
(* to date from the balance seen by the last one, so that no call loops    *)
(* over the stakers.  The stake itself is passed on to the diamond, which  *)
(* returns it on deregistration, as a reward like any other.               *)
(*                                                                         *)
(* Names, the endpoint and the treasury's address are left out.  A posted  *)
(* bid costs the pool nothing, because its owner pays the bid fee in.      *)
(***************************************************************************)
EXTENDS Integers, FiniteSets, FiniteSetsExt, Functions

CONSTANTS
  Stakers,
  PRECISION,            \* the rate's unit
  Fees,                 \* fees the pool may be created with
  Amounts,              \* amounts of a call or a reward
  deregistrationOpensAt,
  providerMinimumStake, \* of the diamond
  MaxTime,              \* bound on the time
  MaxStaked,            \* bound on the stake
  MaxRewards,           \* bound on what the pool receives besides it
  Shares                \* a common multiple of the possible totals staked,
                        \* the unit of the exact shares

ASSUME PoolAssumption ==
  /\ IsFiniteSet(Stakers)
  /\ PRECISION \in Nat \ {0}
  /\ Fees \subseteq 0 .. PRECISION
  /\ Amounts \subseteq Nat
  /\ {deregistrationOpensAt, providerMinimumStake} \subseteq Nat
  /\ {MaxTime, MaxStaked, MaxRewards} \subseteq Nat
  /\ Shares \in Nat \ {0}
  /\ \A total \in 1 .. MaxStaked : Shares % total = 0

VARIABLES
  now,
  balance,              \* the MOR the contract holds
  fee, isStakeClosed,
  totalStaked, totalRate, lastContractBalance,
  stakers,              \* staked, claimed, rate and pendingRewards of each
  isRestakeDisabled,
  provider,             \* the pool's record in the diamond
  due,                  \* history: each staker's exact share, times Shares
  calls,                \* history: how often a staker was settled
  received              \* history: what the pool received besides stake

poolVars == <<totalStaked, totalRate, lastContractBalance, stakers>>
historyVars == <<due, calls, received>>
settingVars == <<fee, isStakeClosed, isRestakeDisabled>>
vars == <<now, balance, poolVars, settingVars, provider, historyVars>>

Init ==
  /\ now = 0
  /\ balance = 0
  /\ fee \in Fees
  /\ isStakeClosed = FALSE
  /\ totalStaked = 0
  /\ totalRate = 0
  /\ lastContractBalance = 0
  /\ stakers = [s \in Stakers |->
       [staked |-> 0, claimed |-> 0, rate |-> 0, pendingRewards |-> 0]]
  /\ isRestakeDisabled = [s \in Stakers |-> FALSE]
  /\ provider = [status |-> "none", stake |-> 0, limitPeriodEarned |-> 0]
  /\ due = [s \in Stakers |-> 0]
  /\ calls = [s \in Stakers |-> 0]
  /\ received = 0
-----------------------------------------------------------------------------
(* The rate *)

\* getCurrentRate
GetCurrentRate ==
  IF totalStaked = 0 THEN totalRate
  ELSE totalRate + ((balance - lastContractBalance) * PRECISION) \div totalStaked

\* _getCurrentStakerRewards at the current rate
GetCurrentStakerRewards(s) ==
  stakers[s].pendingRewards
    + ((GetCurrentRate - stakers[s].rate) * stakers[s].staked) \div PRECISION

IsDeregisterAvailable == now >= deregistrationOpensAt

\* A deregistered provider whose limiter kept some of its stake may register
\* again, to deregister with the rest later.
IsStakeAfterDeregisterAvailable ==
  IsDeregisterAvailable /\ provider.stake > 0 /\ provider.status = "deleted"
-----------------------------------------------------------------------------
(* The calls *)

StaleRate(s) == stakers[s].rate                         \* mutant
RateAfterStake(s) == GetCurrentRate

\* _stake, of amount, after a claim of `claimed' (0 if there was none) that
\* left the staker with `record' and the pool with a balance of `held'.  The
\* diamond takes the amount from the pool in the same call.
StakeFrom(s, amount, record, held) ==
  /\ ~isStakeClosed \/ IsStakeAfterDeregisterAvailable
  /\ amount # 0
  /\ provider.stake + amount >= providerMinimumStake
  /\ totalStaked + amount <= MaxStaked  \* bound
  /\ totalStaked' = totalStaked + amount
  /\ totalRate' = GetCurrentRate
  /\ lastContractBalance' = held
  /\ balance' = held
  /\ stakers' = [stakers EXCEPT ![s] =
       [record EXCEPT !.staked = @ + amount, !.rate = RateAfterStake(s)]]
  /\ provider' = [provider EXCEPT !.status = "active", !.stake = @ + amount]

\* stake
Stake(s, amount) ==
  /\ StakeFrom(s, amount,
       [stakers[s] EXCEPT !.pendingRewards = GetCurrentStakerRewards(s)],
       balance)
  /\ calls' = [calls EXCEPT ![s] = @ + 1]
  /\ UNCHANGED <<now, settingVars, due, received>>

ClaimableOfAll(s, amount) == Min({amount, balance})     \* mutant
Claimable(s, amount) ==
  Min({amount, balance, GetCurrentStakerRewards(s)})

ClaimedRecord(s, amount) ==
  [stakers[s] EXCEPT
     !.rate = GetCurrentRate,
     !.pendingRewards = GetCurrentStakerRewards(s) - amount,
     !.claimed = @ + amount]

\* What the contract takes its balance to be after paying out an amount.
BalanceBefore(amount) == balance                        \* mutant
BalanceAfter(amount) == balance - amount

FeeAmount(amount) == (amount * fee) \div PRECISION

\* claim: anybody may call it for a staker; the fee goes to the treasury.
Claim(s, asked) ==
  LET amount == Claimable(s, asked) IN
  /\ amount # 0
  /\ totalRate' = GetCurrentRate
  /\ lastContractBalance' = BalanceAfter(amount)
  /\ stakers' = [stakers EXCEPT ![s] = ClaimedRecord(s, amount)]
  /\ balance' = balance - amount
  /\ calls' = [calls EXCEPT ![s] = @ + 1]
  /\ UNCHANGED <<now, settingVars, totalStaked, provider, due, received>>

\* restake, by the staker or, unless the staker disabled it, by the owner:
\* the claim, and then the stake of what it paid the staker
Restake(s, asked, byOwner) ==
  LET amount == Claimable(s, asked) IN
  /\ ~(byOwner /\ isRestakeDisabled[s])
  /\ amount # 0
  /\ StakeFrom(s, amount - FeeAmount(amount), ClaimedRecord(s, amount),
               balance - amount)
  /\ calls' = [calls EXCEPT ![s] = @ + 1]
  /\ UNCHANGED <<now, settingVars, due, received>>

\* MOR that reaches the contract: a share of each staker at that moment.
Receive(amount) ==
  /\ balance' = balance + amount
  /\ due' = [s \in Stakers |->
       due[s] + (IF totalStaked = 0 THEN 0
                 ELSE amount * stakers[s].staked * (Shares \div totalStaked))]
  /\ UNCHANGED <<now, poolVars, isStakeClosed, isRestakeDisabled, calls>>

\* claimForProvider, or a provider's reward from a session's closing: within
\* the limiter period it counts against the stake; anyone may also send MOR.
Reward(amount, limited) ==
  /\ received + amount <= MaxRewards    \* bound
  /\ received' = received + amount
  /\ limited => /\ provider.status # "none"
                /\ provider.limitPeriodEarned + amount <= provider.stake
  /\ provider' = IF limited
                 THEN [provider EXCEPT !.limitPeriodEarned = @ + amount]
                 ELSE provider
  /\ Receive(amount)
  /\ UNCHANGED fee

\* A claim after the period's end restarts the limiter (SessionRouter).
LimiterPeriodEnds ==
  /\ provider.limitPeriodEarned > 0
  /\ provider' = [provider EXCEPT !.limitPeriodEarned = 0]
  /\ UNCHANGED <<now, balance, poolVars, settingVars, historyVars>>

\* providerDeregister, with the bids deleted: by the owner, or by anyone once
\* it is available.  The stake comes back as a reward, free of fees.
ProviderDeregister ==
  LET returned == provider.stake - provider.limitPeriodEarned IN
  /\ provider.status = "active"
  /\ provider' = [provider EXCEPT !.status = "deleted", !.stake = @ - returned]
  /\ fee' = 0
  /\ Receive(returned)
  /\ UNCHANGED received

SetIsStakeClosed(closed) ==
  /\ isStakeClosed' = closed
  /\ UNCHANGED <<now, balance, poolVars, fee, isRestakeDisabled, provider,
                 historyVars>>

SetIsRestakeDisabled(s, disabled) ==
  /\ isRestakeDisabled' = [isRestakeDisabled EXCEPT ![s] = disabled]
  /\ UNCHANGED <<now, balance, poolVars, fee, isStakeClosed, provider,
                 historyVars>>

Tick ==
  /\ now < MaxTime                      \* bound
  /\ now' = now + 1
  /\ UNCHANGED <<balance, poolVars, settingVars, provider, historyVars>>

Next ==
  \/ \E s \in Stakers, amount \in Amounts : Stake(s, amount)
  \/ \E s \in Stakers, amount \in Amounts : Claim(s, amount)
  \/ \E s \in Stakers, amount \in Amounts, byOwner \in BOOLEAN :
       Restake(s, amount, byOwner)
  \/ \E amount \in Amounts, limited \in BOOLEAN : Reward(amount, limited)
  \/ LimiterPeriodEnds
  \/ ProviderDeregister
  \/ \E closed \in BOOLEAN : SetIsStakeClosed(closed)
  \/ \E s \in Stakers, disabled \in BOOLEAN : SetIsRestakeDisabled(s, disabled)
  \/ Tick

Spec == Init /\ [][Next]_vars
-----------------------------------------------------------------------------
TypeOK ==
  /\ now \in 0 .. MaxTime
  /\ balance \in Nat
  /\ fee \in Fees \union {0}
  /\ isStakeClosed \in BOOLEAN
  /\ totalStaked \in 0 .. MaxStaked
  /\ totalRate \in Nat
  /\ lastContractBalance \in Nat
  /\ stakers \in [Stakers -> [staked : Nat, claimed : Nat, rate : Nat,
                              pendingRewards : Nat]]
  /\ isRestakeDisabled \in [Stakers -> BOOLEAN]
  /\ provider \in [status : {"none", "active", "deleted"}, stake : Nat,
                   limitPeriodEarned : Nat]
  /\ due \in [Stakers -> Nat]
  /\ calls \in [Stakers -> Nat]
  /\ received \in 0 .. MaxRewards

\* The balance never falls below what the last call saw, so that the
\* subtraction in getCurrentRate does not revert and lock every call of the
\* pool, whatever mix of claims, stakes and returned stake there was.
BalanceCoversLast == balance >= lastContractBalance

\* The pool holds what all of its stakers may claim at the moment: nobody's
\* claim is cut short because others claimed first.
RewardsBacked ==
  SumFunction([s \in Stakers |-> GetCurrentStakerRewards(s)]) <= balance

\* What the rounding of the rate takes from a staker, whenever a call brings
\* the rate up to date, in parts of PRECISION: nothing where every total
\* staked divides PRECISION.
RateLoss ==
  IF \A total \in 1 .. MaxStaked : PRECISION % total = 0 THEN 0
  ELSE MaxStaked

\* Every staker gets the share of each reward that its part of the stake had
\* when the reward arrived: never more, and less only by the rounding of the
\* calls that settled it and of the rate, though rates are brought up to date
\* much later and stakes change in between.
FairShares ==
  \A s \in Stakers :
    LET got == stakers[s].claimed + GetCurrentStakerRewards(s) IN
    /\ Shares * got <= due[s]
    /\ due[s] * PRECISION
         < Shares * ((got + calls[s] + 1) * PRECISION
                     + (SumFunction(calls) + 1) * RateLoss)
=============================================================================
