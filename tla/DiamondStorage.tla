-------------------------- MODULE DiamondStorage --------------------------
(***************************************************************************)
(* The storage of the LumerinDiamond contract.  A diamond is one contract  *)
(* whose code is split into facets; every facet reaches every storage      *)
(* struct.  So the facet modules all EXTEND this module, as the facets all *)
(* inherit the storage contracts, and LumerinDiamond.tla puts their        *)
(* actions together.                                                       *)
(*                                                                         *)
(* One action is one transaction: it happens at the block timestamp `now'  *)
(* and either has its whole effect or, where the code reverts, none at all *)
(* (the action is not enabled).                                            *)
(*                                                                         *)
(* Abstracted data: hashes are the tuples they hash (a bid id is its       *)
(* provider, model and nonce; a session id is its nonce); createdAt and    *)
(* deletedAt of bids, models and providers are only ever compared with     *)
(* zero, so a "status" stands for both; endpoints, names, tags and the     *)
(* paginated indexes of past bids and sessions, which no transaction       *)
(* reads, are left out.                                                    *)
(***************************************************************************)
EXTENDS Integers, FiniteSets

CONSTANTS
  Users,             \* accounts that open sessions
  Providers,         \* accounts that register as providers
  ModelIds,          \* registered model ids
  ModelOwner,        \* ModelOwner[m]: the account that model m belongs to
  Diamond,           \* the account of the diamond contract itself
  FundingAccount,    \* pays providers of stipend sessions
  FeeRecipient,      \* account the owner withdraws bid fees to
  InitialBalance,    \* InitialBalance[a]: MOR held by account a at deployment
  DAY,                              \* 1 days
  MIN_SESSION_DURATION,             \* 5 minutes
  SIGNATURE_TTL,                    \* 10 minutes
  PROVIDER_REWARD_LIMITER_PERIOD,   \* 365 days
  BUDGET_DIVISOR,                   \* 100: one percent of the compute supply
  Genesis,           \* block timestamp of the deployment
  MaxTime,           \* bound: last block timestamp
  MaxBidNonce,       \* bound: bids ever posted per provider and model
  MaxSessions        \* bound: sessions ever opened

VARIABLES
  now,                    \* block.timestamp
  balance,                \* MOR balances, the ERC20 ledger
  providerMinimumStake,
  providers,              \* PovidersStorage.providers
  activeProviders,
  modelMinimumStake,
  models,                 \* ModelsStorage.models
  activeModels,
  bids,                   \* BidsStorage.bids
  providerActiveBids,
  modelActiveBids,
  providerModelNonce,
  market,                 \* MarketStorage: fee balance, bid fee, price bounds
  pools,                  \* what the pools have distributed up to each day
  maxSessionDuration,
  sessionNonce,
  sessions,               \* SessionsStorage.sessions
  userStakesOnHold,
  isProviderApprovalUsed,
  providersTotalClaimed

providerVars == <<providerMinimumStake, providers, activeProviders>>
modelVars == <<modelMinimumStake, models, activeModels>>
bidVars == <<bids, providerActiveBids, modelActiveBids, providerModelNonce>>
configVars == <<pools, maxSessionDuration>>
sessionVars == <<sessionNonce, sessions, userStakesOnHold,
                 isProviderApprovalUsed, providersTotalClaimed>>
vars == <<now, balance, providerVars, modelVars, bidVars, market, configVars,
          sessionVars>>

Accounts == Users \union Providers \union {ModelOwner[m] : m \in ModelIds}
              \union {Diamond, FundingAccount, FeeRecipient}
BidIds == Providers \X ModelIds \X (0 .. MaxBidNonce - 1)
SessionIds == 0 .. sessionNonce - 1      \* the sessions opened so far
Times == Genesis .. MaxTime
Days == 0 .. MaxTime \div DAY

(***************************************************************************)
(* Genesis is past the first day of the epoch, so that a timestamp is      *)
(* never zero and a day has always begun before it.                        *)
(***************************************************************************)
ASSUME TimeAssumption ==
  /\ DAY \in Nat \ {0}
  /\ MIN_SESSION_DURATION \in Nat \ {0}
  /\ SIGNATURE_TTL \in Nat
  /\ PROVIDER_REWARD_LIMITER_PERIOD \in Nat \ {0}
  /\ Genesis \in Nat
  /\ Genesis >= DAY
  /\ MaxTime \in Nat
  /\ MaxTime >= Genesis

ASSUME BoundAssumption ==
  /\ MaxBidNonce \in Nat
  /\ MaxSessions \in Nat
  /\ BUDGET_DIVISOR \in Nat \ {0}

(***************************************************************************)
(* An account or an id is one of finitely many bit strings.                *)
(***************************************************************************)
ASSUME FiniteAssumption == IsFiniteSet(Providers) /\ IsFiniteSet(ModelIds)

(***************************************************************************)
(* Neither the contract nor the funding account registers or opens         *)
(* sessions itself.                                                        *)
(***************************************************************************)
ASSUME AccountAssumption ==
  /\ InitialBalance \in [Accounts -> Nat]
  /\ InitialBalance[Diamond] = 0
  /\ FundingAccount # Diamond
  /\ {Diamond, FundingAccount} \intersect
       (Users \union Providers \union {ModelOwner[m] : m \in ModelIds}
          \union {FeeRecipient}) = {}
-----------------------------------------------------------------------------
(* Shared helpers *)

MinOf(a, b) == IF a <= b THEN a ELSE b
MaxOf(a, b) == IF a >= b THEN a ELSE b

StartOfTheDay(t) == t - (t % DAY)

\* ERC20 safeTransfer and safeTransferFrom, with unlimited allowances: they
\* revert exactly when the payer holds too little.
CanPayUnchecked(ledger, from, amount) == TRUE           \* mutant
CanPay(ledger, from, amount) == ledger[from] >= amount
Pay(ledger, from, to, amount) ==
  [ledger EXCEPT ![from] = @ - amount, ![to] = @ + amount]

IsBidActive(b) == bids[b].status = "active"
GetIsProviderActive(p) == providers[p].status = "active"
GetIsModelActive(m) == models[m].status = "active"

BidProvider(b) == b[1]
BidModel(b) == b[2]
BidNonce(b) == b[3]
PricePerSecond(b) == bids[b].pricePerSecond

\* _isProviderActiveBidsEmpty, _isModelActiveBidsEmpty
IsProviderActiveBidsEmpty(p) == providerActiveBids[p] = {}
ModelMayAlwaysLeave(m) == TRUE                          \* mutant
IsModelActiveBidsEmpty(m) == modelActiveBids[m] = {}

NeverClosed(s) == FALSE                                 \* mutant
IsClosed(s) == sessions[s].closedAt # 0
=============================================================================
