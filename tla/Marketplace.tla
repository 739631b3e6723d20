---------------------------- MODULE Marketplace ----------------------------
(***************************************************************************)
(* The Marketplace facet: a provider's offers to serve a model at a price  *)
(* per second, the fee charged for each, and the owner's parameters.       *)
(***************************************************************************)
EXTENDS DiamondStorage

CONSTANTS
  Prices,          \* prices a provider may ask
  BidFees,         \* values the owner may set as the bid fee
  PriceBounds,     \* <<min, max>> pairs the owner may set
  FeeWithdrawals   \* amounts the owner may ask to withdraw

ASSUME MarketInputAssumption ==
  /\ Prices \subseteq Nat
  /\ BidFees \subseteq Nat
  /\ PriceBounds \subseteq Nat \X Nat
  /\ FeeWithdrawals \subseteq Nat

\* setMarketplaceBidFee
SetMarketplaceBidFee(fee) ==
  /\ market' = [market EXCEPT !.bidFee = fee]
  /\ UNCHANGED <<now, balance, providerVars, modelVars, bidVars, configVars,
                 sessionVars>>

\* setMinMaxBidPricePerSecond, which the initializer calls too
ValidPriceBounds(min, max) == min # 0 /\ min <= max
SetMinMaxBidPricePerSecond(min, max) ==
  /\ ValidPriceBounds(min, max)
  /\ market' = [market EXCEPT !.bidMinPricePerSecond = min,
                              !.bidMaxPricePerSecond = max]
  /\ UNCHANGED <<now, balance, providerVars, modelVars, bidVars, configVars,
                 sessionVars>>

\* The bid that a new one replaces: the previous one of the same provider and
\* model, when it is still active.
NothingReplaced(p, m) == {}                             \* mutant
ReplacedBids(p, m) ==
  {b \in BidIds : /\ BidProvider(b) = p /\ BidModel(b) = m
                  /\ BidNonce(b) = providerModelNonce[<<p, m>>] - 1
                  /\ IsBidActive(b)}

\* postModelBid, with the _deleteBid of the replaced bid.
PostModelBid(p, m, price) ==
  LET nonce == providerModelNonce[<<p, m>>]
      bid == <<p, m, nonce>>
      old == ReplacedBids(p, m)
  IN
  /\ GetIsProviderActive(p)
  /\ GetIsModelActive(m)
  /\ price >= market.bidMinPricePerSecond
  /\ price <= market.bidMaxPricePerSecond
  /\ nonce < MaxBidNonce                \* bound
  /\ CanPay(balance, p, market.bidFee)
  /\ balance' = Pay(balance, p, Diamond, market.bidFee)
  /\ market' = [market EXCEPT !.feeBalance = @ + market.bidFee]
  /\ providerModelNonce' = [providerModelNonce EXCEPT ![<<p, m>>] = @ + 1]
  /\ bids' = [b \in BidIds |->
       IF b = bid THEN [status |-> "active", pricePerSecond |-> price]
       ELSE IF b \in old THEN [bids[b] EXCEPT !.status = "deleted"]
       ELSE bids[b]]
  /\ providerActiveBids' =
       [providerActiveBids EXCEPT ![p] = (@ \ old) \union {bid}]
  /\ modelActiveBids' =
       [modelActiveBids EXCEPT ![m] = (@ \ old) \union {bid}]
  /\ UNCHANGED <<now, providerVars, modelVars, configVars, sessionVars>>

\* deleteModelBid
DeleteModelBid(b) ==
  /\ IsBidActive(b)
  /\ bids' = [bids EXCEPT ![b].status = "deleted"]
  /\ providerActiveBids' =
       [providerActiveBids EXCEPT ![BidProvider(b)] = @ \ {b}]
  /\ modelActiveBids' = [modelActiveBids EXCEPT ![BidModel(b)] = @ \ {b}]
  /\ UNCHANGED <<now, balance, providerVars, modelVars, providerModelNonce,
                 market, configVars, sessionVars>>

\* withdrawFee: at most the collected fees, whatever amount is asked.
FeeAsked(asked) == asked                                \* mutant
FeeToWithdraw(asked) == MinOf(asked, market.feeBalance)
FeeStillThere(amount) == market.feeBalance              \* mutant
RemainingFee(amount) == market.feeBalance - amount
WithdrawFee(asked) ==
  LET amount == FeeToWithdraw(asked) IN
  /\ amount # 0
  /\ CanPay(balance, Diamond, amount)
  /\ market' = [market EXCEPT !.feeBalance = RemainingFee(amount)]
  /\ balance' = Pay(balance, Diamond, FeeRecipient, amount)
  /\ UNCHANGED <<now, providerVars, modelVars, bidVars, configVars,
                 sessionVars>>
=============================================================================
