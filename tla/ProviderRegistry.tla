------------------------- MODULE ProviderRegistry -------------------------
(***************************************************************************)
(* The ProviderRegistry facet: providers stake MOR to be allowed to offer  *)
(* bids.  The stake caps what the provider may earn in one limiter period, *)
(* and what it earned in the running period cannot be withdrawn.           *)
(***************************************************************************)
EXTENDS DiamondStorage

CONSTANTS
  ProviderStakes,       \* amounts a provider may add in one call
  ProviderMinStakes     \* values the owner may set as the minimum stake

ASSUME ProviderInputAssumption ==
  ProviderStakes \subseteq Nat /\ ProviderMinStakes \subseteq Nat

\* providerSetMinStake
ProviderSetMinStake(minStake) ==
  /\ providerMinimumStake' = minStake
  /\ UNCHANGED <<now, balance, providers, activeProviders, modelVars, bidVars,
                 market, configVars, sessionVars>>

\* providerRegister: registers, tops up, or registers again after a
\* deregistration.  Only the first registration starts a limiter period.
ProviderRegister(p, amount) ==
  LET provider == providers[p]
      newStake == provider.stake + amount
  IN
  /\ CanPay(balance, p, amount)
  /\ newStake >= providerMinimumStake
  /\ balance' = Pay(balance, p, Diamond, amount)
  /\ providers' = [providers EXCEPT ![p] =
       [status |-> "active",
        stake |-> newStake,
        limitPeriodEnd |-> IF provider.status = "none"
                           THEN now + PROVIDER_REWARD_LIMITER_PERIOD
                           ELSE provider.limitPeriodEnd,
        limitPeriodEarned |-> provider.limitPeriodEarned]]
  /\ activeProviders' = activeProviders \union {p}
  /\ UNCHANGED <<now, providerMinimumStake, modelVars, bidVars, market,
                 configVars, sessionVars>>

\* _getWithdrawAmount: what was earned in the running period stays staked.
GetWholeStake(p) == providers[p].stake                  \* mutant
GetWithdrawAmount(p) ==
  IF now > providers[p].limitPeriodEnd
  THEN providers[p].stake
  ELSE providers[p].stake - providers[p].limitPeriodEarned

\* providerDeregister
ProviderDeregister(p) ==
  LET withdrawAmount == GetWithdrawAmount(p) IN
  /\ providers[p].status = "active"
  /\ IsProviderActiveBidsEmpty(p)
  /\ withdrawAmount >= 0                \* otherwise the subtraction reverts
  /\ CanPay(balance, Diamond, withdrawAmount)
  /\ providers' = [providers EXCEPT ![p].stake = @ - withdrawAmount,
                                    ![p].status = "deleted"]
  /\ activeProviders' = activeProviders \ {p}
  /\ balance' = Pay(balance, Diamond, p, withdrawAmount)
  /\ UNCHANGED <<now, providerMinimumStake, modelVars, bidVars, market,
                 configVars, sessionVars>>
=============================================================================
