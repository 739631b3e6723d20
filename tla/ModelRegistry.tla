--------------------------- MODULE ModelRegistry ---------------------------
(***************************************************************************)
(* The ModelRegistry facet: a model is registered against a stake of its   *)
(* owner and can be withdrawn, with the whole stake, once no active bid    *)
(* offers it.                                                              *)
(***************************************************************************)
EXTENDS DiamondStorage

CONSTANTS
  ModelStakes,       \* amounts a model owner may add in one call
  ModelMinStakes     \* values the owner may set as the minimum stake

ASSUME ModelInputAssumption ==
  ModelStakes \subseteq Nat /\ ModelMinStakes \subseteq Nat

\* modelSetMinStake
ModelSetMinStake(minStake) ==
  /\ modelMinimumStake' = minStake
  /\ UNCHANGED <<now, balance, providerVars, models, activeModels, bidVars,
                 market, configVars, sessionVars>>

\* modelRegister: registers, updates or revives a model.
ModelRegister(m, amount) ==
  LET newStake == models[m].stake + amount IN
  /\ newStake >= modelMinimumStake
  /\ CanPay(balance, ModelOwner[m], amount)
  /\ balance' = Pay(balance, ModelOwner[m], Diamond, amount)
  /\ models' = [models EXCEPT ![m] = [status |-> "active", stake |-> newStake]]
  /\ activeModels' = activeModels \union {m}
  /\ UNCHANGED <<now, providerVars, modelMinimumStake, bidVars, market,
                 configVars, sessionVars>>

\* modelDeregister (the owner of a model that was never registered is the
\* zero address, which no caller can be).
ModelDeregister(m) ==
  /\ models[m].status = "active"
  /\ IsModelActiveBidsEmpty(m)
  /\ CanPay(balance, Diamond, models[m].stake)
  /\ models' = [models EXCEPT ![m] = [status |-> "deleted", stake |-> 0]]
  /\ activeModels' = activeModels \ {m}
  /\ balance' = Pay(balance, Diamond, ModelOwner[m], models[m].stake)
  /\ UNCHANGED <<now, providerVars, modelMinimumStake, bidVars, market,
                 configVars, sessionVars>>
=============================================================================
