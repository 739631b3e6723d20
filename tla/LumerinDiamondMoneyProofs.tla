--------------------- MODULE LumerinDiamondMoneyProofs ---------------------
(***************************************************************************)
(* Theorems about the sessions of the diamond contract and about its MOR,  *)
(* for every set of users, providers and models and every bound.           *)
(*                                                                         *)
(* SessionInv is proved first: what every session's record satisfies, one  *)
(* payment at a time.  MoneyInv is proved on top of it: each sum of the    *)
(* books (Escrowed, StakedOrSpentBy, PaidByFund, ...) changes by what the  *)
(* one session, provider, model or hold that a transaction touches         *)
(* changes, and the ledger by as much.                                     *)
(***************************************************************************)
EXTENDS LumerinDiamondProofs, SumTheorems

-----------------------------------------------------------------------------
(* Arithmetic of rewards *)

LEMMA ProductMonotone ==
  ASSUME NEW a \in Int, NEW b \in Int, NEW p \in Nat, a <= b
  PROVE  a * p <= b * p
<1>1. (b - a) * p \in Nat
  BY ProductNat
<1>2. b * p = a * p + (b - a) * p
  OBVIOUS
<1> DEFINE x == a * p
           y == b * p
           z == (b - a) * p
<1>3. x \in Int /\ y \in Int
  BY ProductInt
<1>4. QED
  <2> HIDE DEF x, y, z
  <2>1. y = x + z /\ z \in Nat
    BY <1>1, <1>2 DEF x, y, z
  <2>2. x <= y
    BY <1>3, <2>1
  <2>3. QED
    BY <2>2 DEF x, y

LEMMA ProductDifference ==
  ASSUME NEW a \in Int, NEW b \in Int, NEW c \in Int, NEW p \in Nat
  PROVE  (a - c) * p - (a - b) * p = (b - c) * p
OBVIOUS

\* What a session record holds, and what its bid costs.
LEMMA RecordTypes ==
  ASSUME LimiterInv, NEW session \in SessionRecords
  PROVE  /\ session.user \in Users /\ session.bidId \in BidIds
         /\ session.stake \in Nat /\ session.isDirectPaymentFromUser \in BOOLEAN
         /\ session.openedAt \in Nat /\ session.endsAt \in Nat
         /\ session.closedAt \in Nat /\ session.closeoutType \in {0, 1}
         /\ session.providerWithdrawnAmount \in Nat
         /\ PricePerSecond(session.bidId) \in Nat
         /\ SessionEnd(session) \in Nat
         /\ FinalRewards(session) \in Int
         /\ now \in Nat /\ now \in Times /\ now >= DAY /\ DAY \in Nat
<1>1. /\ session.user \in Users /\ session.bidId \in BidIds
      /\ session.stake \in Nat /\ session.isDirectPaymentFromUser \in BOOLEAN
      /\ session.openedAt \in Nat /\ session.endsAt \in Nat
      /\ session.closedAt \in Nat /\ session.closeoutType \in {0, 1}
      /\ session.providerWithdrawnAmount \in Nat
  BY DEF SessionRecords
<1>2. PricePerSecond(session.bidId) \in Nat
  BY <1>1 DEF LimiterInv, StorageTypeOK, BidTypeOK, PricePerSecond
<1>3. SessionEnd(session) \in Nat
  BY <1>1 DEF SessionEnd, MinOf
<1>4. FinalRewards(session) \in Int
  BY <1>1, <1>2, <1>3, ProductInt DEF FinalRewards
<1>5. now \in Nat /\ now \in Times /\ now >= DAY /\ DAY \in Nat
  BY TimeAssumption DEF LimiterInv, StorageTypeOK, SessionTypeOK, Times
<1>6. QED
  BY <1>1, <1>2, <1>3, <1>4, <1>5

\* A session ends after it was opened, so that its rewards are not negative,
\* and neither is what is held back of them on the day it was closed.
LEMMA RewardsNat ==
  ASSUME LimiterInv, NEW session \in SessionRecords, SessionSound(session)
  PROVE  /\ session.openedAt <= SessionEnd(session)
         /\ FinalRewards(session) \in Nat
         /\ GetProviderOnHoldAmount(session) \in Nat
         /\ StartOfTheDay(session.closedAt) \in Nat
<1>1. session.openedAt <= SessionEnd(session)
  BY RecordTypes DEF SessionSound, SessionEnd, MinOf
<1>2. FinalRewards(session) \in Nat
  BY <1>1, RecordTypes, ProductNat DEF FinalRewards
<1> DEFINE day == StartOfTheDay(session.closedAt)
           from == MaxOf(day, session.openedAt)
<1>3. /\ day \in Nat
      /\ day <= session.closedAt
      /\ session.closedAt < day + DAY
  BY RecordTypes, DayStart
<1>4. from \in Int /\ (from = day \/ from = session.openedAt)
  BY <1>3, RecordTypes DEF MaxOf
<1>5. GetProviderOnHoldAmount(session) =
        IF now >= day + DAY THEN 0
        ELSE (session.closedAt - from) * PricePerSecond(session.bidId)
  BY DEF GetProviderOnHoldAmount
<1> HIDE DEF from, day
<1>6. CASE now >= day + DAY
  BY <1>2, <1>1, <1>3, <1>5, <1>6 DEF day
<1>7. CASE ~(now >= day + DAY)
  <2>1. session.closedAt # 0
    <3>1. session.closedAt = 0 => day = 0
      BY <1>3, RecordTypes
    <3>2. QED
      BY <1>7, <3>1, RecordTypes
  <2>2. session.closedAt - from \in Nat
    BY <1>3, <1>4, <2>1, RecordTypes DEF SessionSound
  <2>3. (session.closedAt - from) * PricePerSecond(session.bidId) \in Nat
    BY <2>2, RecordTypes, ProductNat
  <2>4. QED
    BY <1>1, <1>2, <1>3, <1>5, <1>7, <2>3 DEF day
<1>8. QED
  BY <1>6, <1>7

\* Rewards depend on when a session was opened and ended and on its bid only.
LEMMA PaidRecord ==
  ASSUME NEW session \in SessionRecords, NEW amount \in Nat
  PROVE  LET paid == [session EXCEPT !.providerWithdrawnAmount = @ + amount] IN
         /\ paid \in SessionRecords
         /\ paid.providerWithdrawnAmount
              = session.providerWithdrawnAmount + amount
         /\ paid.user = session.user /\ paid.bidId = session.bidId
         /\ paid.stake = session.stake
         /\ paid.isDirectPaymentFromUser = session.isDirectPaymentFromUser
         /\ paid.openedAt = session.openedAt /\ paid.endsAt = session.endsAt
         /\ paid.closedAt = session.closedAt
         /\ paid.closeoutType = session.closeoutType
         /\ SessionEnd(paid) = SessionEnd(session)
         /\ FinalRewards(paid) = FinalRewards(session)
         /\ ReleaseAt(paid) = ReleaseAt(session)
         /\ SessionSound(session) => SessionSound(paid)
<1> DEFINE paid == [session EXCEPT !.providerWithdrawnAmount = @ + amount]
<1>1. /\ paid \in SessionRecords
      /\ paid.providerWithdrawnAmount = session.providerWithdrawnAmount + amount
      /\ paid.user = session.user /\ paid.bidId = session.bidId
      /\ paid.stake = session.stake
      /\ paid.isDirectPaymentFromUser = session.isDirectPaymentFromUser
      /\ paid.openedAt = session.openedAt /\ paid.endsAt = session.endsAt
      /\ paid.closedAt = session.closedAt
      /\ paid.closeoutType = session.closeoutType
  BY DEF SessionRecords
<1> HIDE DEF paid
<1>2. SessionEnd(paid) = SessionEnd(session)
  BY <1>1 DEF SessionEnd
<1>3. /\ FinalRewards(paid) = FinalRewards(session)
      /\ ReleaseAt(paid) = ReleaseAt(session)
  BY <1>1, <1>2 DEF FinalRewards, ReleaseAt, StartOfEndDay
<1>4. SessionSound(session) => SessionSound(paid)
  BY <1>1 DEF SessionSound
<1>5. QED
  BY <1>1, <1>2, <1>3, <1>4 DEF paid

\* Between a day's start and the next one's, the day's start is the same.
LEMMA SameDay ==
  ASSUME NEW t \in Nat, NEW u \in Nat,
         StartOfTheDay(t) = StartOfTheDay(u)
  PROVE  t < StartOfTheDay(u) + DAY
BY DayStart

SessionOK(session) ==
  SessionSound(session) /\ PaidForTime(session) /\ DayHeld(session)

\* A payment of what is due keeps a session's books.
LEMMA PaymentOK ==
  ASSUME LimiterInv, NEW session \in SessionRecords,
         SessionSound(session), PaidForTime(session),
         NEW due \in Int, NEW amount \in Nat, amount <= due,
         due <= GetUnpaidProviderRewards(session),
         IsDisputed(session) =>
           due <= GetUnpaidProviderRewards(session)
                    - GetProviderOnHoldAmount(session)
  PROVE  SessionOK([session EXCEPT !.providerWithdrawnAmount = @ + amount])
<1> DEFINE paid == [session EXCEPT !.providerWithdrawnAmount = @ + amount]
           before == session.providerWithdrawnAmount
<1>1. /\ paid \in SessionRecords
      /\ paid.providerWithdrawnAmount = before + amount
      /\ paid.bidId = session.bidId
      /\ paid.openedAt = session.openedAt /\ paid.endsAt = session.endsAt
      /\ paid.closedAt = session.closedAt
      /\ paid.closeoutType = session.closeoutType
      /\ SessionEnd(paid) = SessionEnd(session)
      /\ FinalRewards(paid) = FinalRewards(session)
      /\ SessionSound(paid)
  BY PaidRecord
<1>2. /\ GetUnpaidProviderRewards(session) =
           IF now < SessionEnd(session) THEN 0
           ELSE FinalRewards(session) - before
      /\ before \in Nat /\ FinalRewards(session) \in Int
      /\ now < SessionEnd(session) => before = 0
      /\ before <= FinalRewards(session)
      /\ now \in Nat /\ SessionEnd(session) \in Nat
  BY RecordTypes
  DEF GetUnpaidProviderRewards, GetProviderRewards, FinalRewards, PaidForTime
<1> HIDE DEF paid, before
<1>3. PaidForTime(paid)
  BY <1>1, <1>2 DEF PaidForTime
<1>4. DayHeld(paid)
  <2> SUFFICES ASSUME IsDisputed(paid),
                      StartOfTheDay(now) = StartOfTheDay(session.closedAt)
               PROVE  before + amount
                        <= (MaxOf(StartOfTheDay(session.closedAt), session.openedAt)
                              - session.openedAt) * PricePerSecond(session.bidId)
    BY <1>1 DEF DayHeld
  <2> DEFINE day == StartOfTheDay(session.closedAt)
             from == MaxOf(day, session.openedAt)
             price == PricePerSecond(session.bidId)
  <2>1. IsDisputed(session)
    BY <1>1 DEF IsDisputed
  <2>2. /\ session.closedAt # 0 /\ session.closedAt \in Nat
        /\ session.closedAt <= now /\ session.closedAt < session.endsAt
        /\ session.openedAt \in Nat /\ session.endsAt \in Nat
        /\ price \in Nat
    BY <2>1, RecordTypes DEF IsDisputed, SessionSound
  <2>3. SessionEnd(session) = session.closedAt
    BY <2>2 DEF SessionEnd, MinOf
  <2>4. day \in Nat /\ now < day + DAY /\ DAY \in Nat
    BY <1>2, <2>2, DayStart, SameDay, RecordTypes
  <2>5. GetProviderOnHoldAmount(session) = (session.closedAt - from) * price
    BY <1>2, <2>4 DEF GetProviderOnHoldAmount
  <2>6. FinalRewards(session) = (session.closedAt - session.openedAt) * price
    BY <2>3 DEF FinalRewards
  <2>7. from \in Int
    BY <2>2, <2>4 DEF MaxOf
  <2> HIDE DEF from, price, day
  <2>8. FinalRewards(session) - GetProviderOnHoldAmount(session)
          = (from - session.openedAt) * price
    BY <2>2, <2>5, <2>6, <2>7, ProductDifference
  <2>9. GetProviderOnHoldAmount(session) \in Int
    BY <2>2, <2>5, <2>7, ProductInt
  <2>10. GetUnpaidProviderRewards(session) = FinalRewards(session) - before
    BY <1>2, <2>2, <2>3
  <2>11. before + amount
           <= FinalRewards(session) - GetProviderOnHoldAmount(session)
    BY <1>2, <2>1, <2>9, <2>10
  <2>12. QED
    BY <2>8, <2>11 DEF from, price, day
<1>5. QED
  BY <1>1, <1>3, <1>4 DEF SessionOK, paid

\* What closing makes of an open session's record, before the payments.
LEMMA ClosedOK ==
  ASSUME LimiterInv, NEW s \in SessionIds, NEW noDispute \in BOOLEAN,
         ~IsClosed(s), SessionOK(sessions[s])
  PROVE  LET old == sessions[s]
             session == Closed(s, noDispute)
         IN
         /\ old \in SessionRecords /\ session \in SessionRecords
         /\ session.user = old.user /\ session.bidId = old.bidId
         /\ session.stake = old.stake
         /\ session.isDirectPaymentFromUser = old.isDirectPaymentFromUser
         /\ session.openedAt = old.openedAt /\ session.endsAt = old.endsAt
         /\ session.closedAt = now
         /\ session.closeoutType = IF noDispute THEN 0 ELSE 1
         /\ session.providerWithdrawnAmount = old.providerWithdrawnAmount
         /\ SessionEnd(session) <= now
         /\ SessionSound(session) /\ PaidForTime(session)
<1> DEFINE old == sessions[s]
           session == Closed(s, noDispute)
<1>1. /\ now \in Nat /\ now \in Times /\ now # 0
      /\ old \in SessionRecords
  BY TimeAssumption
  DEF LimiterInv, StorageTypeOK, SessionTypeOK, Times
<1>2. /\ session \in SessionRecords
      /\ session.user = old.user /\ session.bidId = old.bidId
      /\ session.stake = old.stake
      /\ session.isDirectPaymentFromUser = old.isDirectPaymentFromUser
      /\ session.openedAt = old.openedAt /\ session.endsAt = old.endsAt
      /\ session.closedAt = now
      /\ session.closeoutType = IF noDispute THEN 0 ELSE 1
      /\ session.providerWithdrawnAmount = old.providerWithdrawnAmount
  BY <1>1 DEF Closed, SessionRecords
<1>3. old.closedAt = 0
  BY DEF IsClosed
<1>4. SessionSound(old) /\ PaidForTime(old)
  BY DEF SessionOK
<1> HIDE DEF old, session
<1>5. /\ old.openedAt \in Nat /\ old.endsAt \in Nat
      /\ old.providerWithdrawnAmount \in Nat
      /\ PricePerSecond(old.bidId) \in Nat
  BY <1>1, RecordTypes
<1>6. SessionEnd(session) = MinOf(now, old.endsAt) /\ SessionEnd(old) = old.endsAt
  BY <1>1, <1>2, <1>3 DEF SessionEnd
<1>7. SessionEnd(session) <= now
  BY <1>1, <1>5, <1>6 DEF MinOf
<1>8. SessionSound(session)
  BY <1>1, <1>2, <1>4 DEF SessionSound
<1>9. PaidForTime(session)
  <2>1. FinalRewards(session) \in Nat
    BY <1>2, <1>8, RewardsNat
  <2>2. CASE now < old.endsAt
    BY <1>1, <1>2, <1>4, <1>5, <1>6, <1>7, <2>1, <2>2, RecordTypes DEF PaidForTime
  <2>3. CASE ~(now < old.endsAt)
    <3>1. SessionEnd(session) = SessionEnd(old)
      BY <1>1, <1>5, <1>6, <2>3 DEF MinOf
    <3>2. FinalRewards(session) = FinalRewards(old)
      BY <1>2, <3>1 DEF FinalRewards
    <3>3. QED
      BY <1>2, <1>4, <3>1, <3>2 DEF PaidForTime
  <2>4. QED
    BY <2>2, <2>3
<1>10. QED
  BY <1>1, <1>2, <1>7, <1>8, <1>9 DEF old, session

\* What claimForProvider asks for is due.
LEMMA ClaimDue ==
  ASSUME LimiterInv, NEW session \in SessionRecords, SessionSound(session),
         NEW due, due = GetUnpaidProviderRewards(session)
                          - GetProviderOnHoldAmount(session)
  PROVE  /\ due \in Int
         /\ due <= GetUnpaidProviderRewards(session)
<1>1. /\ GetUnpaidProviderRewards(session) \in Int
      /\ GetProviderOnHoldAmount(session) \in Nat
  BY RewardTypes, RewardsNat DEF LimiterInv, StorageTypeOK
<1>2. QED
  BY <1>1

\* And so is what closeSession asks for.
LEMMA CloseDue ==
  ASSUME LimiterInv, NEW s \in SessionIds, NEW noDispute \in BOOLEAN,
         ~IsClosed(s), SessionOK(sessions[s]),
         NEW due, due = DueAtClose(Closed(s, noDispute), noDispute)
  PROVE  /\ due \in Int
         /\ due <= GetUnpaidProviderRewards(Closed(s, noDispute))
         /\ IsDisputed(Closed(s, noDispute)) =>
              due <= GetUnpaidProviderRewards(Closed(s, noDispute))
                       - GetProviderOnHoldAmount(Closed(s, noDispute))
<1> DEFINE session == Closed(s, noDispute)
<1>1. /\ session \in SessionRecords /\ SessionSound(session)
      /\ session.closeoutType = IF noDispute THEN 0 ELSE 1
  BY ClosedOK
<1>2. due = GetUnpaidProviderRewards(session)
              - (IF ~noDispute /\ session.closedAt < session.endsAt
                 THEN GetProviderOnHoldAmount(session) ELSE 0)
  BY DEF DueAtClose
<1> HIDE DEF session
<1>3. /\ GetUnpaidProviderRewards(session) \in Int
      /\ GetProviderOnHoldAmount(session) \in Nat
  BY <1>1, RewardTypes, RewardsNat DEF LimiterInv, StorageTypeOK
<1>4. IsDisputed(session) => ~noDispute /\ session.closedAt < session.endsAt
  BY <1>1 DEF IsDisputed
<1>5. /\ due \in Int
      /\ due <= GetUnpaidProviderRewards(session)
      /\ IsDisputed(session) =>
           due <= GetUnpaidProviderRewards(session)
                    - GetProviderOnHoldAmount(session)
  <2>1. CASE ~noDispute /\ session.closedAt < session.endsAt
    BY <1>2, <1>3, <2>1
  <2>2. CASE ~(~noDispute /\ session.closedAt < session.endsAt)
    BY <1>2, <1>3, <1>4, <2>2
  <2>3. QED
    BY <2>1, <2>2
<1>6. QED
  BY <1>5 DEF session

\* What a claim, or a closing, pays.
LEMMA PaidAmount ==
  ASSUME LimiterInv, NEW session \in SessionRecords,
         NEW s, NEW due \in Int, due >= 0, NEW ledger,
         PayProvider(s, session, due, ledger)
  PROVE  LET p == BidProvider(session.bidId)
             amount == LimitedAmount(p, due)
         IN
         /\ p \in Providers
         /\ amount \in Nat /\ amount <= due
         /\ CanPay(ledger, Payer(session), amount)
         /\ sessions' = [sessions EXCEPT ![s] =
              [session EXCEPT !.providerWithdrawnAmount = @ + amount]]
         /\ providersTotalClaimed' = providersTotalClaimed + amount
         /\ balance' = Pay(ledger, Payer(session), p, amount)
<1> DEFINE p == BidProvider(session.bidId)
           amount == LimitedAmount(p, due)
<1>1. p \in Providers
  BY DEF SessionRecords, BidIds, BidProvider
<1>2. ClaimLimit(p) >= 0 /\ amount = MinOf(due, ClaimLimit(p))
  BY DEF PayProvider, LimitedAmount
<1>3. ClaimLimit(p) \in Int
  <2>1. providers[p] \in ProviderRecords
    BY <1>1 DEF LimiterInv, StorageTypeOK, RegistryTypeOK
  <2> HIDE DEF p
  <2>2. LimiterAt(p).stake \in Nat /\ LimiterAt(p).limitPeriodEarned \in Nat
    BY <2>1 DEF LimiterAt, ProviderRecords
  <2>3. QED
    BY <2>2 DEF ClaimLimit
<1>4. amount \in Nat /\ amount <= due
  <2> HIDE DEF p, amount
  <2>1. QED
    BY <1>2, <1>3 DEF MinOf
<1>5. /\ CanPay(ledger, Payer(session), amount)
      /\ sessions' = [sessions EXCEPT ![s] =
           [session EXCEPT !.providerWithdrawnAmount = @ + amount]]
      /\ providersTotalClaimed' = providersTotalClaimed + amount
      /\ balance' = Pay(ledger, Payer(session), p, amount)
  BY DEF PayProvider
<1>6. QED
  BY <1>1, <1>4, <1>5

\* Days are as long as each other: what lies between two timestamps of a day
\* is of that day.
LEMMA SameDayBetween ==
  ASSUME NEW t \in Nat, NEW u \in Nat, NEW v \in Nat, t <= u, u <= v,
         StartOfTheDay(t) = StartOfTheDay(v)
  PROVE  StartOfTheDay(u) = StartOfTheDay(t)
<1> DEFINE day(x) == x \div DAY
<1>1. \A x \in Nat : /\ day(x) \in Nat
                     /\ DAY * day(x) = StartOfTheDay(x)
                     /\ StartOfTheDay(x) <= x /\ x < StartOfTheDay(x) + DAY
  BY TimeAssumption, DayStart DEF StartOfTheDay
<1>2. DAY \in Nat /\ DAY # 0 /\ StartOfTheDay(t) \in Nat /\ StartOfTheDay(u) \in Nat
  BY TimeAssumption, DayStart
<1>3. /\ StartOfTheDay(u) < StartOfTheDay(t) + DAY
      /\ StartOfTheDay(t) < StartOfTheDay(u) + DAY
  BY <1>2, DayStart
<1> HIDE DEF day
<1>4. \A x \in Nat, y \in Nat : x < y => DAY * x + DAY <= DAY * y
  <2> SUFFICES ASSUME NEW x \in Nat, NEW y \in Nat, x < y
               PROVE  DAY * x + DAY <= DAY * y
    OBVIOUS
  <2>1. (x + 1) * DAY <= y * DAY
    BY <1>2, ProductMonotone
  <2>2. QED
    BY <1>2, <2>1
<1>5. day(u) = day(t)
  <2>1. ~(day(u) < day(t)) /\ ~(day(t) < day(u))
    BY <1>1, <1>2, <1>3, <1>4
  <2>2. QED
    BY <1>1, <2>1
<1>6. QED
  BY <1>1, <1>5

\* A bid that was posted stays posted, at its price.
BidsStay ==
  \A b \in BidIds : bids[b].status # "none" =>
    bids'[b].status # "none" /\ bids'[b].pricePerSecond = bids[b].pricePerSecond

LEMMA PostedStay ==
  ASSUME BidsInv, [Next]_vars
  PROVE  BidsStay
<1>1. bids \in [BidIds -> [status : {"none", "active", "deleted"},
                           pricePerSecond : Nat]]
  BY DEF BidsInv, LimiterInv, StorageTypeOK, BidTypeOK
<1>2. CASE UNCHANGED bids
  BY <1>2 DEF BidsStay
<1>3. ASSUME NEW p \in Providers, NEW m \in ModelIds, NEW price \in Prices,
             PostModelBid(p, m, price)
      PROVE  BidsStay
  <2> DEFINE nonce == providerModelNonce[<<p, m>>]
             bid == <<p, m, nonce>>
             old == ReplacedBids(p, m)
  <2>1. bids' = [b \in BidIds |->
           IF b = bid THEN [status |-> "active", pricePerSecond |-> price]
           ELSE IF b \in old THEN [bids[b] EXCEPT !.status = "deleted"]
           ELSE bids[b]]
    BY <1>3 DEF PostModelBid
  <2>2. bid \in BidIds => bids[bid].status = "none"
    <3> SUFFICES ASSUME bid \in BidIds PROVE bids[bid].status = "none"
      OBVIOUS
    <3>1. /\ BidNonce(bid) = nonce /\ nonce \in Int
          /\ <<BidProvider(bid), BidModel(bid)>> = <<p, m>>
      BY BoundAssumption DEF BidIds, BidProvider, BidModel, BidNonce
    <3>2. bids[bid].status # "none" <=> nonce < nonce
      BY <3>1 DEF BidsInv, BidsBooked, BidsNumbered
    <3>3. QED
      BY <3>1, <3>2
  <2> HIDE DEF bid, old
  <2>3. QED
    BY <1>1, <2>1, <2>2 DEF BidsStay
<1>4. ASSUME NEW bid \in BidIds, DeleteModelBid(bid)
      PROVE  BidsStay
  <2>1. bids' = [bids EXCEPT ![bid].status = "deleted"]
    BY <1>4 DEF DeleteModelBid
  <2>2. QED
    BY <1>1, <2>1 DEF BidsStay
<1>5. CASE UNCHANGED vars
  BY <1>2, <1>5 DEF vars, bidVars
<1>6. CASE Tick
  BY <1>2, <1>6 DEF Tick, bidVars
<1>7. CASE ProviderRegistryNext
  BY <1>2, <1>7
  DEF ProviderRegistryNext, ProviderSetMinStake, ProviderRegister,
      ProviderDeregister, bidVars
<1>8. CASE ModelRegistryNext
  BY <1>2, <1>8
  DEF ModelRegistryNext, ModelSetMinStake, ModelRegister, ModelDeregister,
      bidVars
<1>9. CASE MarketplaceNext
  BY <1>2, <1>3, <1>4, <1>9
  DEF MarketplaceNext, SetMarketplaceBidFee, SetMinMaxBidPricePerSecond,
      WithdrawFee, bidVars
<1>10. CASE SessionRouterNext
  BY <1>2, <1>10
  DEF SessionRouterNext, OpenSession, CloseSession, ClaimForProvider,
      WithdrawUserStakes, SetMaxSessionDuration, SetPoolConfig, bidVars
<1>11. QED
  BY <1>5, <1>6, <1>7, <1>8, <1>9, <1>10 DEF Next

\* Time and later bids do not harm the books of a session.
LEMMA LaterOK ==
  ASSUME LimiterInv, BidsStay, now' \in Nat, now <= now',
         NEW session \in SessionRecords, SessionOK(session)
  PROVE  SessionOK(session)'
<1>1. /\ session.bidId \in BidIds
      /\ bids[session.bidId].status # "none"
      /\ bids'[session.bidId].status # "none"
      /\ PricePerSecond(session.bidId)' = PricePerSecond(session.bidId)
  BY RecordTypes DEF SessionOK, SessionSound, BidsStay, PricePerSecond
<1>2. /\ SessionEnd(session)' = SessionEnd(session)
      /\ FinalRewards(session)' = FinalRewards(session)
  BY <1>1 DEF SessionEnd, FinalRewards
<1>3. /\ now \in Nat /\ session.openedAt \in Nat /\ session.closedAt \in Nat
      /\ session.endsAt \in Nat /\ SessionEnd(session) \in Nat
      /\ session.closeoutType \in {0, 1}
  BY RecordTypes
<1>4. SessionSound(session)'
  BY <1>1, <1>3 DEF SessionOK, SessionSound
<1>5. PaidForTime(session)'
  BY <1>2, <1>3 DEF SessionOK, PaidForTime
<1>6. DayHeld(session)'
  <2>1. ASSUME IsDisputed(session),
               StartOfTheDay(now') = StartOfTheDay(session.closedAt)
        PROVE  StartOfTheDay(now) = StartOfTheDay(session.closedAt)
    <3>1. session.closedAt <= now
      BY <1>3, <2>1 DEF SessionOK, SessionSound, IsDisputed
    <3>2. QED
      BY <1>3, <2>1, <3>1, SameDayBetween
  <2>2. QED
    BY <1>1, <2>1 DEF SessionOK, DayHeld, IsDisputed, StartOfTheDay
<1>7. QED
  BY <1>4, <1>5, <1>6 DEF SessionOK

\* Time goes forward, and only by the clock.
LEMMA ClockForward ==
  ASSUME LimiterInv, [Next]_vars
  PROVE  /\ now \in Nat /\ now' \in Nat /\ now <= now'
         /\ ~Tick => now' = now
<1>1. now \in Nat
  BY TimeAssumption DEF LimiterInv, StorageTypeOK, SessionTypeOK, Times
<1>2. ~Tick => now' = now
  BY DEF Next, vars, ProviderRegistryNext, ProviderSetMinStake,
         ProviderRegister, ProviderDeregister, ModelRegistryNext,
         ModelSetMinStake, ModelRegister, ModelDeregister, MarketplaceNext,
         SetMarketplaceBidFee, SetMinMaxBidPricePerSecond, PostModelBid,
         DeleteModelBid, WithdrawFee, SessionRouterNext, OpenSession,
         CloseSession, ClaimForProvider, WithdrawUserStakes,
         SetMaxSessionDuration, SetPoolConfig
<1>3. Tick => now' = now + 1
  BY DEF Tick
<1>4. QED
  BY <1>1, <1>2, <1>3

\* The books of the sessions, session by session.
LEMMA BookedOK ==
  SessionsBooked <=> \A s \in SessionIds : SessionOK(sessions[s])
BY DEF SessionsBooked, PaidForTimeServed, DisputedDayHeld, SessionOK

\* A step that leaves the sessions alone, the clock's among them.
LEMMA SessionsAlone ==
  ASSUME SessionInv, [Next]_vars, UNCHANGED <<sessionNonce, sessions>>
  PROVE  SessionsBooked'
<1>1. /\ LimiterInv /\ BidsStay /\ now' \in Nat /\ now <= now'
      /\ SessionIds' = SessionIds
      /\ sessions \in [SessionIds -> SessionRecords]
      /\ \A s \in SessionIds : SessionOK(sessions[s])
  BY PostedStay, ClockForward, BookedOK
  DEF SessionInv, BidsInv, SessionIds, LimiterInv, StorageTypeOK, SessionTypeOK
<1>2. \A s \in SessionIds : SessionOK(sessions[s])'
  <2> SUFFICES ASSUME NEW s \in SessionIds PROVE SessionOK(sessions[s])'
    OBVIOUS
  <2>1. PICK r \in SessionRecords : r = sessions[s]
    BY <1>1
  <2>2. SessionOK(r)'
    BY <1>1, <2>1, LaterOK
  <2>3. sessions'[s] = r
    BY <2>1
  <2>4. QED
    BY <2>2, <2>3
<1>3. QED
  BY <1>1, <1>2
  DEF SessionsBooked, PaidForTimeServed, DisputedDayHeld, SessionOK

\* A payment: by closeSession, of the record that it stamped, or by
\* claimForProvider.
LEMMA PaymentBooked ==
  ASSUME SessionInv, [Next]_vars, UNCHANGED sessionNonce,
         NEW s \in SessionIds, NEW session \in SessionRecords,
         SessionSound(session), PaidForTime(session),
         NEW due \in Int, due >= 0, NEW ledger,
         PayProvider(s, session, due, ledger),
         due <= GetUnpaidProviderRewards(session),
         IsDisputed(session) =>
           due <= GetUnpaidProviderRewards(session)
                    - GetProviderOnHoldAmount(session)
  PROVE  SessionsBooked'
<1> DEFINE amount == LimitedAmount(BidProvider(session.bidId), due)
<1>1. /\ LimiterInv /\ BidsStay /\ now' \in Nat /\ now <= now'
      /\ SessionIds' = SessionIds
      /\ sessions \in [SessionIds -> SessionRecords]
      /\ \A t \in SessionIds : SessionOK(sessions[t])
  BY PostedStay, ClockForward, BookedOK
  DEF SessionInv, BidsInv, SessionIds, LimiterInv, StorageTypeOK, SessionTypeOK
<1>2. /\ amount \in Nat /\ amount <= due
      /\ sessions' = [sessions EXCEPT ![s] =
           [session EXCEPT !.providerWithdrawnAmount = @ + amount]]
  BY <1>1, PaidAmount
<1> HIDE DEF amount
<1>3. PICK paid \in SessionRecords :
        paid = [session EXCEPT !.providerWithdrawnAmount = @ + amount]
  BY <1>2, PaidRecord
<1>4. SessionOK(paid)'
  <2>1. SessionOK(paid)
    BY <1>1, <1>2, <1>3, PaymentOK
  <2>2. QED
    BY <1>1, <2>1, LaterOK
<1>5. \A t \in SessionIds : SessionOK(sessions[t])'
  <2> SUFFICES ASSUME NEW t \in SessionIds PROVE SessionOK(sessions[t])'
    OBVIOUS
  <2>1. CASE t = s
    <3>1. sessions'[t] = paid
      BY <1>1, <1>2, <1>3, <2>1
    <3>2. QED
      BY <1>4, <3>1
  <2>2. CASE t # s
    <3>1. PICK r \in SessionRecords : r = sessions[t]
      BY <1>1
    <3>2. SessionOK(r)'
      BY <1>1, <3>1, LaterOK
    <3>3. sessions'[t] = r
      BY <1>1, <1>2, <2>2, <3>1
    <3>4. QED
      BY <3>2, <3>3
  <2>3. QED
    BY <2>1, <2>2
<1>6. QED
  BY <1>1, <1>5
  DEF SessionsBooked, PaidForTimeServed, DisputedDayHeld, SessionOK

LEMMA CloseSessionBooked ==
  ASSUME SessionInv, NEW s \in SessionIds, NEW noDispute \in BOOLEAN,
         CloseSession(s, noDispute)
  PROVE  SessionsBooked'
<1> DEFINE session == Closed(s, noDispute)
           due == DueAtClose(session, noDispute)
<1>1. LimiterInv /\ ~IsClosed(s) /\ SessionOK(sessions[s]) /\ [Next]_vars
  BY BookedOK
  DEF SessionInv, BidsInv, CloseSession, Next, SessionRouterNext
<1>2. session \in SessionRecords /\ SessionSound(session) /\ PaidForTime(session)
  BY <1>1, ClosedOK
<1>3. /\ due \in Int
      /\ due <= GetUnpaidProviderRewards(session)
      /\ IsDisputed(session) =>
           due <= GetUnpaidProviderRewards(session)
                    - GetProviderOnHoldAmount(session)
  BY <1>1, CloseDue
<1>4. /\ UNCHANGED sessionNonce /\ due >= 0
      /\ \E ledger : PayProvider(s, session, due, ledger)
  BY DEF CloseSession
<1> HIDE DEF session, due
<1>5. QED
  BY <1>1, <1>2, <1>3, <1>4, PaymentBooked

LEMMA ClaimForProviderBooked ==
  ASSUME SessionInv, NEW s \in SessionIds, ClaimForProvider(s)
  PROVE  SessionsBooked'
<1> DEFINE session == sessions[s]
           due == GetUnpaidProviderRewards(session)
                    - GetProviderOnHoldAmount(session)
<1>1. LimiterInv /\ SessionOK(session) /\ [Next]_vars
  BY BookedOK DEF SessionInv, BidsInv, Next, SessionRouterNext
<1>2. session \in SessionRecords /\ SessionSound(session) /\ PaidForTime(session)
  BY <1>1 DEF LimiterInv, StorageTypeOK, SessionTypeOK, SessionOK
<1>3. UNCHANGED sessionNonce /\ due >= 0 /\ PayProvider(s, session, due, balance)
  BY DEF ClaimForProvider
<1> HIDE DEF session
<1>4. due \in Int /\ due <= GetUnpaidProviderRewards(session)
  BY <1>1, <1>2, ClaimDue
<1>5. IsDisputed(session) =>
           due <= GetUnpaidProviderRewards(session)
                    - GetProviderOnHoldAmount(session)
  BY <1>4
<1> HIDE DEF due
<1>6. QED
  BY <1>1, <1>2, <1>3, <1>4, <1>5, PaymentBooked

LEMMA OpenSessionBooked ==
  ASSUME SessionInv,
         NEW user \in Users, NEW amount \in StakeAmounts,
         NEW isDirect \in BOOLEAN, NEW approval \in SignedApprovals,
         OpenSession(user, amount, isDirect, approval)
  PROVE  SessionsBooked'
<1> DEFINE b == approval.bid
           endsAt == GetSessionEnd(amount, PricePerSecond(b), now)
           record == [user |-> user, bidId |-> b, stake |-> amount,
                      isDirectPaymentFromUser |-> isDirect,
                      openedAt |-> now, endsAt |-> endsAt, closedAt |-> 0,
                      closeoutType |-> 0, providerWithdrawnAmount |-> 0]
<1>1. /\ LimiterInv /\ LimiterInv' /\ BidsStay /\ now' = now /\ now \in Nat
      /\ \A t \in SessionIds : SessionOK(sessions[t])
  <2>1. [Next]_vars /\ LimiterInv
    BY DEF Next, SessionRouterNext, SessionInv, BidsInv
  <2>2. now' = now
    BY DEF OpenSession
  <2>3. QED
    BY <2>1, <2>2, PostedStay, ClockForward, BookedOK, NextLimiterInv
    DEF SessionInv, BidsInv
<1>2. b \in BidIds /\ amount \in Nat /\ IsBidActive(b)
  BY SessionInputAssumption DEF SignedApprovals, Approvals, OpenSession
<1>3. /\ endsAt - now >= MIN_SESSION_DURATION
      /\ Covered(isDirect, (endsAt - now) * PricePerSecond(b), amount)
      /\ sessionNonce' = sessionNonce + 1
      /\ sessions' = [t \in 0 .. sessionNonce |->
                        IF t \in SessionIds THEN sessions[t] ELSE record]
  BY DEF OpenSession
<1>4. PricePerSecond(b) \in Nat \ {0}
  BY <1>1, <1>2 DEF LimiterInv, StorageTypeOK, BidTypeOK, ActiveBidsPriced,
                    PricePerSecond
<1>5. endsAt \in Int
  BY <1>1, <1>2, <1>4, SessionEndType DEF LimiterInv, StorageTypeOK
<1> HIDE DEF endsAt, b
<1>6. /\ sessionNonce \in Nat /\ SessionIds' = 0 .. sessionNonce
      /\ sessions \in [SessionIds -> SessionRecords]
      /\ sessions' \in [SessionIds' -> SessionRecords]
      /\ Genesis <= now
  BY <1>1, <1>3 DEF LimiterInv, StorageTypeOK, SessionTypeOK, SessionIds, Times
<1>7. endsAt \in Nat /\ now < endsAt
  BY <1>1, <1>3, <1>5, TimeAssumption
<1>8. SessionOK(record)
  <2>1. SessionSound(record)
    BY <1>1, <1>2, <1>3, <1>6, <1>7 DEF SessionSound, Covered, IsBidActive
  <2>2. PaidForTime(record)
    <3>1. SessionEnd(record) = endsAt
      BY DEF SessionEnd
    <3>2. (endsAt - now) * PricePerSecond(b) \in Nat
      BY <1>1, <1>4, <1>7, ProductNat
    <3>3. QED
      BY <1>1, <1>7, <3>1, <3>2 DEF PaidForTime, FinalRewards
  <2>3. DayHeld(record)
    BY DEF DayHeld, IsDisputed
  <2>4. QED
    BY <2>1, <2>2, <2>3 DEF SessionOK
<1>9. \A t \in SessionIds' : SessionOK(sessions[t])'
  <2> SUFFICES ASSUME NEW t \in SessionIds' PROVE SessionOK(sessions[t])'
    OBVIOUS
  <2>1. PICK r \in SessionRecords : r = sessions'[t]
    BY <1>6
  <2>2. SessionOK(r)
    <3> HIDE DEF record
    <3>1. QED
      BY <1>1, <1>3, <1>6, <1>8, <2>1
  <2>3. SessionOK(r)'
    BY <1>1, <2>2, LaterOK
  <2>4. QED
    BY <2>1, <2>3
<1>10. QED
  BY <1>9
  DEF SessionsBooked, PaidForTimeServed, DisputedDayHeld, SessionOK

\* Only these three actions touch a session.
LEMMA NextSessionsBooked ==
  ASSUME SessionInv, [Next]_vars
  PROVE  SessionsBooked'
<1>1. CASE UNCHANGED <<sessionNonce, sessions>>
  BY <1>1, SessionsAlone
<1>2. CASE UNCHANGED vars
  BY <1>1, <1>2 DEF vars, sessionVars
<1>3. CASE Tick
  BY <1>1, <1>3 DEF Tick, sessionVars
<1>4. CASE ProviderRegistryNext
  BY <1>1, <1>4
  DEF ProviderRegistryNext, ProviderSetMinStake, ProviderRegister,
      ProviderDeregister, sessionVars
<1>5. CASE ModelRegistryNext
  BY <1>1, <1>5
  DEF ModelRegistryNext, ModelSetMinStake, ModelRegister, ModelDeregister,
      sessionVars
<1>6. CASE MarketplaceNext
  BY <1>1, <1>6
  DEF MarketplaceNext, SetMarketplaceBidFee, SetMinMaxBidPricePerSecond,
      PostModelBid, DeleteModelBid, WithdrawFee, sessionVars
<1>7. CASE SessionRouterNext
  <2>1. ASSUME NEW user, NEW iterations, WithdrawUserStakes(user, iterations)
        PROVE  SessionsBooked'
    BY <1>1, <2>1 DEF WithdrawUserStakes
  <2>2. ASSUME NEW duration, SetMaxSessionDuration(duration)
        PROVE  SessionsBooked'
    BY <1>1, <2>2 DEF SetMaxSessionDuration, sessionVars
  <2>3. ASSUME NEW which, NEW schedule, SetPoolConfig(which, schedule)
        PROVE  SessionsBooked'
    BY <1>1, <2>3 DEF SetPoolConfig, sessionVars
  <2>4. QED
    BY <1>7, <2>1, <2>2, <2>3, OpenSessionBooked, CloseSessionBooked,
       ClaimForProviderBooked
    DEF SessionRouterNext
<1>8. QED
  BY <1>2, <1>3, <1>4, <1>5, <1>6, <1>7 DEF Next

\* What a step may do to a session's record: close it once, and pay.
TermsKept(old, new) ==
  /\ new = [old EXCEPT
       !.closedAt = IF @ = 0 THEN new.closedAt ELSE @,
       !.closeoutType = IF old.closedAt = 0 THEN new.closeoutType ELSE @,
       !.providerWithdrawnAmount = new.providerWithdrawnAmount]
  /\ new.providerWithdrawnAmount >= old.providerWithdrawnAmount

\* Field by field.
LEMMA RecordsEqual ==
  ASSUME NEW a \in SessionRecords, NEW b \in SessionRecords,
         a.user = b.user, a.bidId = b.bidId, a.stake = b.stake,
         a.isDirectPaymentFromUser = b.isDirectPaymentFromUser,
         a.openedAt = b.openedAt, a.endsAt = b.endsAt,
         a.closedAt = b.closedAt, a.closeoutType = b.closeoutType,
         a.providerWithdrawnAmount = b.providerWithdrawnAmount
  PROVE  a = b
BY DEF SessionRecords

LEMMA TermsByField ==
  ASSUME NEW old \in SessionRecords, NEW new \in SessionRecords,
         new.user = old.user, new.bidId = old.bidId, new.stake = old.stake,
         new.isDirectPaymentFromUser = old.isDirectPaymentFromUser,
         new.openedAt = old.openedAt, new.endsAt = old.endsAt,
         old.closedAt # 0 => /\ new.closedAt = old.closedAt
                             /\ new.closeoutType = old.closeoutType,
         new.providerWithdrawnAmount >= old.providerWithdrawnAmount
  PROVE  TermsKept(old, new)
<1> DEFINE kept == [old EXCEPT
       !.closedAt = IF @ = 0 THEN new.closedAt ELSE @,
       !.closeoutType = IF old.closedAt = 0 THEN new.closeoutType ELSE @,
       !.providerWithdrawnAmount = new.providerWithdrawnAmount]
<1>1. /\ new.closedAt \in Nat /\ new.closeoutType \in {0, 1}
      /\ new.providerWithdrawnAmount \in Nat
  BY DEF SessionRecords
<1>2. /\ kept \in SessionRecords
      /\ kept.user = old.user /\ kept.bidId = old.bidId
      /\ kept.stake = old.stake
      /\ kept.isDirectPaymentFromUser = old.isDirectPaymentFromUser
      /\ kept.openedAt = old.openedAt /\ kept.endsAt = old.endsAt
      /\ kept.closedAt = new.closedAt
      /\ kept.closeoutType = new.closeoutType
      /\ kept.providerWithdrawnAmount = new.providerWithdrawnAmount
  BY <1>1 DEF SessionRecords
<1> HIDE DEF kept
<1>3. new = kept
  BY <1>2, RecordsEqual
<1>4. QED
  BY <1>3 DEF TermsKept, kept

LEMMA SameTerms ==
  ASSUME NEW session \in SessionRecords
  PROVE  TermsKept(session, session)
<1>1. session.providerWithdrawnAmount \in Nat
  BY DEF SessionRecords
<1>2. QED
  BY <1>1, TermsByField

LEMMA PaymentTerms ==
  ASSUME NEW session \in SessionRecords, NEW amount \in Nat
  PROVE  TermsKept(session,
           [session EXCEPT !.providerWithdrawnAmount = @ + amount])
<1> DEFINE paid == [session EXCEPT !.providerWithdrawnAmount = @ + amount]
<1>1. session.providerWithdrawnAmount \in Nat
  BY DEF SessionRecords
<1>2. /\ paid \in SessionRecords
      /\ paid.providerWithdrawnAmount >= session.providerWithdrawnAmount
      /\ paid.user = session.user /\ paid.bidId = session.bidId
      /\ paid.stake = session.stake
      /\ paid.isDirectPaymentFromUser = session.isDirectPaymentFromUser
      /\ paid.openedAt = session.openedAt /\ paid.endsAt = session.endsAt
      /\ paid.closedAt = session.closedAt
      /\ paid.closeoutType = session.closeoutType
  BY <1>1, PaidRecord
<1> HIDE DEF paid
<1>3. TermsKept(session, paid)
  BY <1>2, TermsByField
<1>4. QED
  BY <1>3 DEF paid

LEMMA ClosingTerms ==
  ASSUME NEW s \in SessionIds, sessions[s] \in SessionRecords, ~IsClosed(s),
         NEW noDispute \in BOOLEAN, NEW amount \in Nat, now \in Nat
  PROVE  TermsKept(sessions[s],
           [Closed(s, noDispute) EXCEPT !.providerWithdrawnAmount = @ + amount])
<1> DEFINE old == sessions[s]
           session == Closed(s, noDispute)
           paid == [session EXCEPT !.providerWithdrawnAmount = @ + amount]
<1>1. /\ session \in SessionRecords
      /\ session.user = old.user /\ session.bidId = old.bidId
      /\ session.stake = old.stake
      /\ session.isDirectPaymentFromUser = old.isDirectPaymentFromUser
      /\ session.openedAt = old.openedAt /\ session.endsAt = old.endsAt
      /\ session.providerWithdrawnAmount = old.providerWithdrawnAmount
      /\ old.providerWithdrawnAmount \in Nat
  BY DEF Closed, SessionRecords
<1>2. old \in SessionRecords /\ old.closedAt = 0
  BY DEF IsClosed
<1> HIDE DEF old, session
<1>3. /\ paid \in SessionRecords
      /\ paid.providerWithdrawnAmount >= session.providerWithdrawnAmount
      /\ paid.user = session.user /\ paid.bidId = session.bidId
      /\ paid.stake = session.stake
      /\ paid.isDirectPaymentFromUser = session.isDirectPaymentFromUser
      /\ paid.openedAt = session.openedAt /\ paid.endsAt = session.endsAt
  BY <1>1, PaidRecord
<1> HIDE DEF paid
<1>4. TermsKept(old, paid)
  BY <1>1, <1>2, <1>3, TermsByField
<1>5. QED
  BY <1>4 DEF old, session, paid

\* The actions that leave every session alone, and the three that do not.
LEMMA SessionSteps ==
  ASSUME [Next]_vars
  PROVE  \/ UNCHANGED <<sessionNonce, sessions, userStakesOnHold,
                        isProviderApprovalUsed>>
         \/ \E user \in Users, iterations \in Iterations :
              WithdrawUserStakes(user, iterations)
         \/ \E user \in Users, amount \in StakeAmounts, isDirect \in BOOLEAN,
               approval \in SignedApprovals :
              OpenSession(user, amount, isDirect, approval)
         \/ \E s \in SessionIds, noDispute \in BOOLEAN :
              CloseSession(s, noDispute)
         \/ \E s \in SessionIds : ClaimForProvider(s)
<1>1. CASE UNCHANGED vars
  BY <1>1 DEF vars, sessionVars
<1>2. CASE Tick
  BY <1>2 DEF Tick, sessionVars
<1>3. CASE ProviderRegistryNext
  BY <1>3
  DEF ProviderRegistryNext, ProviderSetMinStake, ProviderRegister,
      ProviderDeregister, sessionVars
<1>4. CASE ModelRegistryNext
  BY <1>4
  DEF ModelRegistryNext, ModelSetMinStake, ModelRegister, ModelDeregister,
      sessionVars
<1>5. CASE MarketplaceNext
  <2>1. ASSUME NEW p, NEW m, NEW price, PostModelBid(p, m, price)
        PROVE  UNCHANGED sessionVars
    BY <2>1 DEF PostModelBid
  <2>2. ASSUME NEW amount, WithdrawFee(amount)
        PROVE  UNCHANGED sessionVars
    BY <2>2 DEF WithdrawFee
  <2>3. QED
    BY <1>5, <2>1, <2>2
    DEF MarketplaceNext, SetMarketplaceBidFee, SetMinMaxBidPricePerSecond,
        DeleteModelBid, sessionVars
<1>6. CASE SessionRouterNext
  <2>1. ASSUME NEW duration, SetMaxSessionDuration(duration)
        PROVE  UNCHANGED sessionVars
    BY <2>1 DEF SetMaxSessionDuration
  <2>2. ASSUME NEW which, NEW schedule, SetPoolConfig(which, schedule)
        PROVE  UNCHANGED sessionVars
    BY <2>2 DEF SetPoolConfig
  <2>3. QED
    BY <1>6, <2>1, <2>2 DEF SessionRouterNext, sessionVars
<1>7. QED
  BY <1>1, <1>2, <1>3, <1>4, <1>5, <1>6 DEF Next

\* What claims and closings do to the sessions, and nothing else.
LEMMA ClaimStep ==
  ASSUME SessionInv, NEW s \in SessionIds, ClaimForProvider(s)
  PROVE  \E amount \in Nat :
           /\ amount <= FinalRewards(sessions[s])
           /\ sessions' = [sessions EXCEPT ![s] =
                [sessions[s] EXCEPT !.providerWithdrawnAmount = @ + amount]]
           /\ providersTotalClaimed' = providersTotalClaimed + amount
           /\ BidProvider(sessions[s].bidId) \in Providers
           /\ CanPay(balance, Payer(sessions[s]), amount)
           /\ balance' = Pay(balance, Payer(sessions[s]),
                             BidProvider(sessions[s].bidId), amount)
<1> DEFINE session == sessions[s]
           due == GetUnpaidProviderRewards(session)
                    - GetProviderOnHoldAmount(session)
           p == BidProvider(session.bidId)
           amount == LimitedAmount(p, due)
<1>1. LimiterInv /\ SessionOK(session) /\ session \in SessionRecords
  BY BookedOK
  DEF SessionInv, BidsInv, LimiterInv, StorageTypeOK, SessionTypeOK
<1>2. due >= 0 /\ PayProvider(s, session, due, balance)
  BY DEF ClaimForProvider
<1> HIDE DEF session
<1>3. due \in Int /\ due <= GetUnpaidProviderRewards(session)
  BY <1>1, ClaimDue DEF SessionOK
<1> HIDE DEF due
<1>4. /\ p \in Providers
      /\ amount \in Nat /\ amount <= due
      /\ CanPay(balance, Payer(session), amount)
      /\ sessions' = [sessions EXCEPT ![s] =
           [session EXCEPT !.providerWithdrawnAmount = @ + amount]]
      /\ providersTotalClaimed' = providersTotalClaimed + amount
      /\ balance' = Pay(balance, Payer(session), p, amount)
  BY <1>1, <1>2, <1>3, PaidAmount
<1> HIDE DEF amount
<1>5. amount <= FinalRewards(session)
  <2>1. /\ GetUnpaidProviderRewards(session) =
             IF now < SessionEnd(session) THEN 0
             ELSE FinalRewards(session) - session.providerWithdrawnAmount
        /\ session.providerWithdrawnAmount \in Nat
        /\ FinalRewards(session) \in Nat
    BY <1>1, RecordTypes, RewardsNat
    DEF GetUnpaidProviderRewards, GetProviderRewards, FinalRewards, SessionOK
  <2>2. QED
    BY <1>3, <1>4, <2>1
<1>6. QED
  BY <1>4, <1>5 DEF session

LEMMA CloseStep ==
  ASSUME SessionInv, NEW s \in SessionIds, NEW noDispute \in BOOLEAN,
         CloseSession(s, noDispute)
  PROVE  \E amount \in Nat :
           LET session == Closed(s, noDispute)
               p == BidProvider(session.bidId)
               ledger == Pay(balance, Diamond, session.user, Refund(session))
           IN
           /\ ~IsClosed(s)
           /\ sessions' = [sessions EXCEPT ![s] =
                [session EXCEPT !.providerWithdrawnAmount = @ + amount]]
           /\ providersTotalClaimed' = providersTotalClaimed + amount
           /\ p \in Providers
           /\ CanPay(ledger, Payer(session), amount)
           /\ balance' = Pay(ledger, Payer(session), p, amount)
<1> DEFINE session == Closed(s, noDispute)
           due == DueAtClose(session, noDispute)
           p == BidProvider(session.bidId)
           amount == LimitedAmount(p, due)
           ledger == Pay(balance, Diamond, session.user, Refund(session))
<1>1. LimiterInv /\ SessionOK(sessions[s]) /\ ~IsClosed(s)
  BY BookedOK DEF SessionInv, BidsInv, CloseSession
<1>2. due >= 0 /\ PayProvider(s, session, due, ledger)
  BY DEF CloseSession
<1>3. session \in SessionRecords
  BY <1>1, ClosedOK
<1>4. due \in Int
  BY <1>1, CloseDue
<1> HIDE DEF session, due, ledger
<1>5. /\ p \in Providers
      /\ amount \in Nat /\ amount <= due
      /\ CanPay(ledger, Payer(session), amount)
      /\ sessions' = [sessions EXCEPT ![s] =
           [session EXCEPT !.providerWithdrawnAmount = @ + amount]]
      /\ providersTotalClaimed' = providersTotalClaimed + amount
      /\ balance' = Pay(ledger, Payer(session), p, amount)
  BY <1>1, <1>2, <1>3, <1>4, PaidAmount
<1> HIDE DEF amount
<1>6. QED
  BY <1>1, <1>5 DEF session, ledger

\* A step keeps the terms of every session there is.
LEMMA TermsStep ==
  ASSUME SessionInv, [Next]_vars
  PROVE  /\ SessionIds \subseteq SessionIds'
         /\ \A s \in SessionIds : TermsKept(sessions[s], sessions'[s])
<1>1. /\ LimiterInv /\ now \in Nat
      /\ sessions \in [SessionIds -> SessionRecords]
      /\ sessionNonce \in Nat
      /\ \A s \in SessionIds : SessionOK(sessions[s])
  BY ClockForward, BookedOK
  DEF SessionInv, BidsInv, LimiterInv, StorageTypeOK, SessionTypeOK
<1>2. CASE UNCHANGED <<sessionNonce, sessions>>
  BY <1>1, <1>2, SameTerms DEF SessionIds
<1>3. ASSUME NEW s \in SessionIds, ClaimForProvider(s)
      PROVE  /\ SessionIds \subseteq SessionIds'
             /\ \A t \in SessionIds : TermsKept(sessions[t], sessions'[t])
  <2>1. PICK amount \in Nat : sessions' = [sessions EXCEPT ![s] =
                [sessions[s] EXCEPT !.providerWithdrawnAmount = @ + amount]]
    BY <1>3, ClaimStep
  <2>2. UNCHANGED sessionNonce
    BY <1>3 DEF ClaimForProvider
  <2>3. TermsKept(sessions[s], sessions'[s])
    BY <1>1, <2>1, PaymentTerms
  <2>4. \A t \in SessionIds \ {s} : sessions'[t] = sessions[t]
    BY <1>1, <2>1
  <2>5. QED
    BY <1>1, <2>2, <2>3, <2>4, SameTerms DEF SessionIds
<1>4. ASSUME NEW s \in SessionIds, NEW noDispute \in BOOLEAN,
             CloseSession(s, noDispute)
      PROVE  /\ SessionIds \subseteq SessionIds'
             /\ \A t \in SessionIds : TermsKept(sessions[t], sessions'[t])
  <2>1. PICK amount \in Nat :
          /\ ~IsClosed(s)
          /\ sessions' = [sessions EXCEPT ![s] =
               [Closed(s, noDispute) EXCEPT !.providerWithdrawnAmount = @ + amount]]
    BY <1>4, CloseStep
  <2>2. UNCHANGED sessionNonce
    BY <1>4 DEF CloseSession
  <2>3. TermsKept(sessions[s], sessions'[s])
    BY <1>1, <2>1, ClosingTerms
  <2>4. \A t \in SessionIds \ {s} : sessions'[t] = sessions[t]
    BY <1>1, <2>1
  <2>5. QED
    BY <1>1, <2>2, <2>3, <2>4, SameTerms DEF SessionIds
<1>5. ASSUME NEW user, NEW amount, NEW isDirect, NEW approval,
             OpenSession(user, amount, isDirect, approval)
      PROVE  /\ SessionIds \subseteq SessionIds'
             /\ \A t \in SessionIds : TermsKept(sessions[t], sessions'[t])
  <2>1. sessionNonce' = sessionNonce + 1
    BY <1>5 DEF OpenSession
  <2>2. SessionIds' = 0 .. sessionNonce /\ SessionIds \subseteq SessionIds'
    BY <1>1, <2>1 DEF SessionIds
  <2>3. \A t \in SessionIds : sessions'[t] = sessions[t]
    BY <1>5, <2>2 DEF OpenSession
  <2>4. QED
    BY <1>1, <2>2, <2>3, SameTerms
<1>6. ASSUME NEW user, NEW iterations, WithdrawUserStakes(user, iterations)
      PROVE  UNCHANGED <<sessionNonce, sessions>>
  BY <1>6 DEF WithdrawUserStakes
<1>7. QED
  BY <1>2, <1>3, <1>4, <1>5, <1>6, SessionSteps

\* A closed session's end does not move.
LEMMA TermsOfClosed ==
  ASSUME NEW old \in SessionRecords, NEW new, TermsKept(old, new),
         old.closedAt # 0
  PROVE  /\ new.closedAt # 0
         /\ ReleaseAt(new) = ReleaseAt(old)
<1>1. new.closedAt = old.closedAt /\ new.endsAt = old.endsAt
  BY DEF TermsKept, SessionRecords
<1>2. QED
  BY <1>1 DEF ReleaseAt, StartOfEndDay, SessionEnd

LEMMA NextHoldsBooked ==
  ASSUME SessionInv, [Next]_vars
  PROVE  HoldsBooked'
<1>1. /\ sessions \in [SessionIds -> SessionRecords]
      /\ IsFiniteSet(userStakesOnHold)
      /\ \A hold \in userStakesOnHold :
           hold.session \in SessionIds /\ HoldSound(hold)
  BY DEF SessionInv, HoldsBooked, BidsInv, LimiterInv, StorageTypeOK,
         SessionTypeOK
<1>2. \A hold \in userStakesOnHold : HoldSound(hold)'
  <2> SUFFICES ASSUME NEW hold \in userStakesOnHold PROVE HoldSound(hold)'
    OBVIOUS
  <2> DEFINE s == hold.session
  <2>1. s \in SessionIds /\ TermsKept(sessions[s], sessions'[s])
    BY <1>1, TermsStep
  <2>2. sessions[s].closedAt # 0 /\ hold.releaseAt = ReleaseAt(sessions[s])
    BY <1>1 DEF HoldSound, IsClosed
  <2>3. sessions[s] \in SessionRecords
    BY <1>1, <2>1
  <2>4. /\ sessions'[s].closedAt # 0
        /\ ReleaseAt(sessions'[s]) = ReleaseAt(sessions[s])
    BY <2>1, <2>2, <2>3, TermsOfClosed
  <2>5. QED
    BY <2>2, <2>4
    DEF HoldSound, IsClosed, ReleaseAt, StartOfEndDay, SessionEnd
<1>3. ASSUME userStakesOnHold' \subseteq userStakesOnHold
      PROVE  HoldsBooked'
  BY <1>1, <1>2, <1>3, FS_Subset DEF HoldsBooked
<1>4. ASSUME NEW s \in SessionIds, NEW noDispute \in BOOLEAN,
             CloseSession(s, noDispute)
      PROVE  HoldsBooked'
  <2> DEFINE session == Closed(s, noDispute)
             lock == UserStakeToLock(session)
  <2> PICK new : new = [user |-> session.user, session |-> s, amount |-> lock,
                       releaseAt |-> ReleaseAt(session)]
    OBVIOUS
  <2>1. userStakesOnHold' = userStakesOnHold \union {h \in {new} : lock > 0}
    BY <1>4 DEF CloseSession
  <2>2. IsFiniteSet(userStakesOnHold')
    <3>1. CASE lock > 0
      <4>1. userStakesOnHold' = userStakesOnHold \union {new}
        BY <2>1, <3>1
      <4>2. QED
        BY <1>1, <4>1, FS_AddElement
    <3>2. CASE ~(lock > 0)
      <4>1. userStakesOnHold' = userStakesOnHold
        BY <2>1, <3>2
      <4>2. QED
        BY <1>1, <4>1
    <3>3. QED
      BY <3>1, <3>2
  <2>3. HoldSound(new)'
    <3>1. LimiterInv /\ SessionOK(sessions[s]) /\ ~IsClosed(s)
      BY <1>4, BookedOK DEF SessionInv, BidsInv, CloseSession
    <3>2. session \in SessionRecords /\ session.closedAt = now /\ now # 0
      BY <3>1, ClosedOK, RecordTypes, TimeAssumption
    <3>3. PICK amount \in Nat : sessions' = [sessions EXCEPT ![s] =
            [session EXCEPT !.providerWithdrawnAmount = @ + amount]]
      BY <1>4, CloseStep
    <3>. new.session = s /\ new.releaseAt = ReleaseAt(session)
      OBVIOUS
    <3> HIDE DEF session, lock
    <3>4. /\ sessions'[s].closedAt # 0
          /\ ReleaseAt(sessions'[s]) = ReleaseAt(session)
      BY <1>1, <3>2, <3>3, PaidRecord
    <3>5. QED
      BY <3>4 DEF HoldSound, IsClosed, ReleaseAt, StartOfEndDay, SessionEnd
  <2> HIDE DEF lock
  <2>4. QED
    BY <1>2, <2>1, <2>2, <2>3 DEF HoldsBooked
<1>5. QED
  <2>1. ASSUME NEW user, NEW iterations, WithdrawUserStakes(user, iterations)
        PROVE  userStakesOnHold' \subseteq userStakesOnHold
    BY <2>1 DEF WithdrawUserStakes
  <2>2. ASSUME NEW user, NEW amount, NEW isDirect, NEW approval,
               OpenSession(user, amount, isDirect, approval)
        PROVE  userStakesOnHold' \subseteq userStakesOnHold
    BY <2>2 DEF OpenSession
  <2>3. ASSUME NEW s, ClaimForProvider(s)
        PROVE  userStakesOnHold' \subseteq userStakesOnHold
    BY <2>3 DEF ClaimForProvider
  <2>4. QED
    BY <1>3, <1>4, <2>1, <2>2, <2>3, SessionSteps

LEMMA NextApprovalsCounted ==
  ASSUME SessionInv, [Next]_vars
  PROVE  ApprovalsCounted'
<1>1. /\ IsFiniteSet(isProviderApprovalUsed)
      /\ Cardinality(isProviderApprovalUsed) = sessionNonce
  BY DEF SessionInv, ApprovalsCounted, ApprovalsUsedOnce
<1>2. CASE UNCHANGED <<isProviderApprovalUsed, sessionNonce>>
  BY <1>1, <1>2 DEF ApprovalsCounted, ApprovalsUsedOnce
<1>3. ASSUME NEW user, NEW amount, NEW isDirect, NEW approval,
             OpenSession(user, amount, isDirect, approval)
      PROVE  ApprovalsCounted'
  <2>1. /\ approval \notin isProviderApprovalUsed
        /\ isProviderApprovalUsed' = isProviderApprovalUsed \union {approval}
        /\ sessionNonce' = sessionNonce + 1
    BY <1>3 DEF OpenSession, IsProviderApprovalUsed
  <2>2. QED
    BY <1>1, <2>1, FS_AddElement DEF ApprovalsCounted, ApprovalsUsedOnce
<1>4. ASSUME NEW s, NEW noDispute, CloseSession(s, noDispute)
      PROVE  UNCHANGED <<isProviderApprovalUsed, sessionNonce>>
  BY <1>4 DEF CloseSession
<1>5. ASSUME NEW s, ClaimForProvider(s)
      PROVE  UNCHANGED <<isProviderApprovalUsed, sessionNonce>>
  BY <1>5 DEF ClaimForProvider
<1>6. ASSUME NEW user, NEW iterations, WithdrawUserStakes(user, iterations)
      PROVE  UNCHANGED <<isProviderApprovalUsed, sessionNonce>>
  BY <1>6 DEF WithdrawUserStakes
<1>7. QED
  BY <1>2, <1>3, <1>4, <1>5, <1>6, SessionSteps

LEMMA InitSessionInv ==
  ASSUME Init
  PROVE  SessionInv
<1>1. BidsInv
  BY InitLimiterInv, InitBooked DEF BidsInv
<1>2. SessionIds = {}
  BY DEF Init, SessionRouterInit, SessionIds
<1>3. SessionsBooked
  BY <1>2 DEF SessionsBooked, PaidForTimeServed, DisputedDayHeld
<1>4. HoldsBooked /\ ApprovalsCounted
  BY FS_EmptySet
  DEF Init, SessionRouterInit, HoldsBooked, ApprovalsCounted, ApprovalsUsedOnce
<1>5. QED
  BY <1>1, <1>3, <1>4 DEF SessionInv

LEMMA NextSessionInv ==
  ASSUME SessionInv, [Next]_vars
  PROVE  SessionInv'
BY NextBidsInv, NextSessionsBooked, NextHoldsBooked, NextApprovalsCounted
DEF SessionInv

\* The books of the sessions, on top of the bids', are inductive.
THEOREM SessionInvariant == Spec => []SessionInv
<1>1. Init => SessionInv
  BY InitSessionInv
<1>2. SessionInv /\ [Next]_vars => SessionInv'
  BY NextSessionInv
<1>3. QED
  BY <1>1, <1>2, PTL DEF Spec

\* A provider is never paid for time that has not passed, nor more than the
\* price of the time its session ran: closeSession and claimForProvider may
\* be called in any order, and the latter again and again.
THEOREM PaidForTimeOnly == Spec => []PaidForTimeServed
<1>1. SessionInv => PaidForTimeServed
  BY DEF SessionInv, SessionsBooked
<1>2. QED
  BY <1>1, SessionInvariant, PTL

\* The closing day's rewards of a session that its user closed early and
\* without the provider's signature stay with the contract until the day is
\* over.
THEOREM DisputedDayUnpaid == Spec => []DisputedDayHeld
<1>1. SessionInv => DisputedDayHeld
  BY DEF SessionInv, SessionsBooked
<1>2. QED
  BY <1>1, SessionInvariant, PTL

\* openSession accepts an approval of a provider once: there are as many used
\* approvals as sessions.
THEOREM ApprovalsSpent == Spec => []ApprovalsUsedOnce
<1>1. SessionInv => ApprovalsUsedOnce
  BY DEF SessionInv, ApprovalsCounted
<1>2. QED
  BY <1>1, SessionInvariant, PTL

\* No transaction rewrites what a user and a provider agreed to: neither the
\* price of a running session, nor its parties, its stake, its end, or, once
\* it is closed, when and how it was closed.
THEOREM TermsNeverChange == Spec => SessionTermsFixed
<1>1. ASSUME SessionInv, [Next]_vars
      PROVE  [\A s \in SessionIds :
                LET old == sessions[s]
                    new == sessions'[s]
                IN
                /\ PricePerSecond(old.bidId) = bids'[new.bidId].pricePerSecond
                /\ new = [old EXCEPT
                     !.closedAt = IF @ = 0 THEN new.closedAt ELSE @,
                     !.closeoutType =
                       IF old.closedAt = 0 THEN new.closeoutType ELSE @,
                     !.providerWithdrawnAmount = new.providerWithdrawnAmount]
                /\ new.providerWithdrawnAmount >= old.providerWithdrawnAmount]_vars
  <2>1. ASSUME NEW s \in SessionIds
        PROVE  /\ TermsKept(sessions[s], sessions'[s])
               /\ PricePerSecond(sessions[s].bidId)
                    = bids'[sessions'[s].bidId].pricePerSecond
    <3>1. /\ LimiterInv /\ BidsStay
          /\ sessions[s] \in SessionRecords /\ SessionSound(sessions[s])
      BY <1>1, PostedStay
      DEF SessionInv, SessionsBooked, BidsInv, LimiterInv, StorageTypeOK,
          SessionTypeOK
    <3>2. TermsKept(sessions[s], sessions'[s])
      BY <1>1, TermsStep
    <3>3. sessions'[s].bidId = sessions[s].bidId
      BY <3>1, <3>2 DEF TermsKept, SessionRecords
    <3>4. QED
      BY <3>1, <3>2, <3>3, RecordTypes
      DEF SessionSound, BidsStay, PricePerSecond
  <2>2. QED
    BY <2>1 DEF TermsKept
<1>2. QED
  BY <1>1, SessionInvariant, PTL DEF Spec, SessionTermsFixed

\* withdrawUserStakes pays stake on hold only on a later day than the one that
\* its session ended on, whose budget it had a claim to.
THEOREM HeldUntilNextDay == Spec => HeldPastTheDay
<1>1. ASSUME SessionInv, [Next]_vars
      PROVE  [\A hold \in userStakesOnHold : hold \notin userStakesOnHold' =>
                StartOfTheDay(now) >
                  StartOfTheDay(SessionEnd(sessions[hold.session]))]_vars
  <2> SUFFICES ASSUME NEW hold \in userStakesOnHold,
                      hold \notin userStakesOnHold'
               PROVE  StartOfTheDay(now) >
                        StartOfTheDay(SessionEnd(sessions[hold.session]))
    OBVIOUS
  <2> DEFINE end == SessionEnd(sessions[hold.session])
  <2>1. /\ LimiterInv /\ now \in Nat
        /\ hold.session \in SessionIds
        /\ sessions[hold.session] \in SessionRecords
        /\ hold.releaseAt = StartOfTheDay(end) + DAY
    BY <1>1, ClockForward
    DEF SessionInv, HoldsBooked, HoldSound, ReleaseAt, StartOfEndDay, BidsInv,
        LimiterInv, StorageTypeOK, SessionTypeOK
  <2>2. now >= hold.releaseAt
    <3>1. ASSUME NEW user, NEW iterations, WithdrawUserStakes(user, iterations)
          PROVE  now >= hold.releaseAt
      BY <3>1 DEF WithdrawUserStakes, Matured
    <3>2. ASSUME NEW s, NEW noDispute, CloseSession(s, noDispute)
          PROVE  FALSE
      BY <3>2 DEF CloseSession
    <3>3. ASSUME NEW s, ClaimForProvider(s)
          PROVE  FALSE
      BY <3>3 DEF ClaimForProvider
    <3>4. ASSUME NEW user, NEW amount, NEW isDirect, NEW approval,
                 OpenSession(user, amount, isDirect, approval)
          PROVE  FALSE
      BY <3>4 DEF OpenSession
    <3>5. QED
      BY <1>1, <3>1, <3>2, <3>3, <3>4, SessionSteps
  <2>3. end \in Nat /\ DAY \in Nat
    BY <2>1, RecordTypes
  <2>4. StartOfTheDay(end) + DAY < StartOfTheDay(now) + DAY
    BY <2>1, <2>2, <2>3, DayStart
  <2>5. QED
    BY <2>1, <2>3, <2>4, DayStart
<1>2. QED
  BY <1>1, SessionInvariant, PTL DEF Spec, HeldPastTheDay

-----------------------------------------------------------------------------
(* The money of the sessions *)

\* What a session's record says about money is a number.
LEMMA ShareTypes ==
  ASSUME LimiterInv, NEW session \in SessionRecords
  PROVE  /\ Escrow(session) \in Int /\ UserShare(session) \in Int
         /\ session.providerWithdrawnAmount \in Int
BY RecordTypes DEF Escrow, UserShare

\* It depends on the price of the session's bid, which stays.
LEMMA ShareStays ==
  ASSUME LimiterInv, BidsStay, NEW session \in SessionRecords,
         bids[session.bidId].status # "none"
  PROVE  /\ FinalRewards(session)' = FinalRewards(session)
         /\ Escrow(session)' = Escrow(session)
         /\ UserShare(session)' = UserShare(session)
<1>1. /\ session.bidId \in BidIds
      /\ PricePerSecond(session.bidId)' = PricePerSecond(session.bidId)
  BY RecordTypes DEF BidsStay, PricePerSecond
<1>2. FinalRewards(session)' = FinalRewards(session)
  BY <1>1 DEF FinalRewards, SessionEnd
<1>3. QED
  BY <1>2 DEF Escrow, UserShare

\* The facts about the sessions that their money depends on.
LEMMA SessionBasics ==
  ASSUME SessionInv
  PROVE  /\ LimiterInv /\ sessionNonce \in Nat
         /\ IsFiniteSet(SessionIds)
         /\ sessions \in [SessionIds -> SessionRecords]
         /\ \A s \in SessionIds :
              /\ sessions[s] \in SessionRecords
              /\ SessionOK(sessions[s])
              /\ bids[sessions[s].bidId].status # "none"
         /\ IsFiniteSet(userStakesOnHold)
         /\ \A hold \in userStakesOnHold :
              /\ hold.user \in Users /\ hold.session \in SessionIds
              /\ hold.amount \in Nat /\ IsClosed(hold.session)
<1>1. /\ LimiterInv /\ sessionNonce \in Nat
      /\ sessions \in [SessionIds -> SessionRecords]
      /\ userStakesOnHold \subseteq
           [user : Users, session : SessionIds, amount : Nat, releaseAt : Nat]
  BY DEF SessionInv, BidsInv, LimiterInv, StorageTypeOK, SessionTypeOK
<1>2. IsFiniteSet(SessionIds)
  BY <1>1, FS_Interval DEF SessionIds
<1>3. \A s \in SessionIds : SessionOK(sessions[s])
  BY BookedOK DEF SessionInv
<1>4. /\ IsFiniteSet(userStakesOnHold)
      /\ \A hold \in userStakesOnHold : IsClosed(hold.session)
  BY DEF SessionInv, HoldsBooked, HoldSound
<1>5. QED
  BY <1>1, <1>2, <1>3, <1>4 DEF SessionOK, SessionSound

\* The sums that the sessions appear in are numbers.
LEMMA ColumnTypes ==
  ASSUME SessionInv
  PROVE  /\ Escrowed \in Int /\ PaidInAll \in Int /\ PaidByFund \in Int
         /\ \A u : StakedOrSpentBy(u) \in Int
<1>1. /\ IsFiniteSet(SessionIds)
      /\ \A s \in SessionIds :
           /\ Escrow(sessions[s]) \in Int /\ UserShare(sessions[s]) \in Int
           /\ PaidToProvider(s) \in Int
  BY SessionBasics, ShareTypes DEF PaidToProvider
<1>2. /\ IsFiniteSet(StipendSessions) /\ StipendSessions \subseteq SessionIds
      /\ \A u : IsFiniteSet(SessionsOf(u)) /\ SessionsOf(u) \subseteq SessionIds
  BY <1>1, FS_Subset DEF StipendSessions, SessionsOf
<1>3. /\ [s \in SessionIds |-> Escrow(sessions[s])] \in [SessionIds -> Int]
      /\ [s \in SessionIds |-> PaidToProvider(s)] \in [SessionIds -> Int]
      /\ [s \in StipendSessions |-> PaidToProvider(s)]
           \in [StipendSessions -> Int]
      /\ \A u : [s \in SessionsOf(u) |-> UserShare(sessions[s])]
                  \in [SessionsOf(u) -> Int]
  BY <1>1, <1>2
<1>4. QED
  BY <1>1, <1>2, <1>3, SumFunctionInt
  DEF Escrowed, PaidInAll, PaidByFund, StakedOrSpentBy

\* When no session changes the sums do not.
LEMMA ColumnsKept ==
  ASSUME SessionInv, [Next]_vars, UNCHANGED <<sessionNonce, sessions>>
  PROVE  /\ Escrowed' = Escrowed
         /\ PaidInAll' = PaidInAll /\ PaidByFund' = PaidByFund
         /\ \A u : StakedOrSpentBy(u)' = StakedOrSpentBy(u)
<1>1. SessionIds' = SessionIds /\ StipendSessions' = StipendSessions
  BY DEF SessionIds, StipendSessions
<1>2. \A u : SessionsOf(u)' = SessionsOf(u)
  BY <1>1 DEF SessionsOf
<1>3. \A s \in SessionIds :
        /\ Escrow(sessions[s])' = Escrow(sessions[s])
        /\ UserShare(sessions[s])' = UserShare(sessions[s])
        /\ PaidToProvider(s)' = PaidToProvider(s)
  <2> SUFFICES ASSUME NEW s \in SessionIds
               PROVE  /\ Escrow(sessions[s])' = Escrow(sessions[s])
                      /\ UserShare(sessions[s])' = UserShare(sessions[s])
                      /\ PaidToProvider(s)' = PaidToProvider(s)
    OBVIOUS
  <2>1. PICK r \in SessionRecords : r = sessions[s]
    BY SessionBasics
  <2>2. Escrow(r)' = Escrow(r) /\ UserShare(r)' = UserShare(r)
    BY <2>1, SessionBasics, PostedStay, ShareStays DEF SessionInv
  <2>3. sessions'[s] = r
    BY <2>1
  <2>4. QED
    BY <2>1, <2>2, <2>3 DEF PaidToProvider
<1>4. [s \in SessionIds |-> Escrow(sessions[s])]'
        = [s \in SessionIds |-> Escrow(sessions[s])]
  BY <1>1, <1>3
<1>5. /\ [s \in SessionIds |-> PaidToProvider(s)]'
           = [s \in SessionIds |-> PaidToProvider(s)]
      /\ [s \in StipendSessions |-> PaidToProvider(s)]'
           = [s \in StipendSessions |-> PaidToProvider(s)]
  BY <1>1, <1>3 DEF StipendSessions
<1>6. \A u : [s \in SessionsOf(u) |-> UserShare(sessions[s])]'
                = [s \in SessionsOf(u) |-> UserShare(sessions[s])]
  BY <1>2, <1>3 DEF SessionsOf
<1>7. QED
  BY <1>4, <1>5, <1>6
  DEF Escrowed, PaidInAll, PaidByFund, StakedOrSpentBy

\* When one session's record changes the sums change by what it changed.
LEMMA ColumnsChanged ==
  ASSUME SessionInv, [Next]_vars, UNCHANGED sessionNonce,
         NEW s \in SessionIds, NEW new \in SessionRecords,
         sessions' = [sessions EXCEPT ![s] = new],
         new.user = sessions[s].user, new.bidId = sessions[s].bidId,
         new.isDirectPaymentFromUser = sessions[s].isDirectPaymentFromUser
  PROVE  LET old == sessions[s]
             more == new.providerWithdrawnAmount - old.providerWithdrawnAmount
         IN
         /\ Escrowed' = Escrowed + (Escrow(new) - Escrow(old))
         /\ PaidInAll' = PaidInAll + more
         /\ PaidByFund' = PaidByFund +
              (IF old.isDirectPaymentFromUser THEN 0 ELSE more)
         /\ \A u : StakedOrSpentBy(u)' = StakedOrSpentBy(u) +
              (IF old.user = u THEN UserShare(new) - UserShare(old) ELSE 0)
<1> DEFINE old == sessions[s]
           more == new.providerWithdrawnAmount - old.providerWithdrawnAmount
<1>1. /\ IsFiniteSet(SessionIds) /\ SessionIds' = SessionIds
      /\ sessions \in [SessionIds -> SessionRecords]
      /\ sessions'[s] = new
      /\ \A t \in SessionIds \ {s} : sessions'[t] = sessions[t]
      /\ LimiterInv /\ BidsStay
      /\ old \in SessionRecords
  BY SessionBasics, PostedStay DEF SessionInv, SessionIds
<1>2. \A t \in SessionIds :
        /\ sessions'[t].user = sessions[t].user
        /\ sessions'[t].isDirectPaymentFromUser
             = sessions[t].isDirectPaymentFromUser
  BY <1>1
<1>3. /\ StipendSessions' = StipendSessions /\ IsFiniteSet(StipendSessions)
      /\ StipendSessions \subseteq SessionIds
      /\ \A u : /\ SessionsOf(u)' = SessionsOf(u) /\ IsFiniteSet(SessionsOf(u))
                /\ SessionsOf(u) \subseteq SessionIds
  BY <1>1, <1>2, FS_Subset DEF StipendSessions, SessionsOf
<1>4. \A t \in SessionIds :
        LET r == IF t = s THEN new ELSE sessions[t] IN
        /\ Escrow(sessions[t])' = Escrow(r) /\ Escrow(r) \in Int
        /\ UserShare(sessions[t])' = UserShare(r) /\ UserShare(r) \in Int
        /\ PaidToProvider(t)' = r.providerWithdrawnAmount
        /\ r.providerWithdrawnAmount \in Int
  <2> SUFFICES ASSUME NEW t \in SessionIds
               PROVE  LET r == IF t = s THEN new ELSE sessions[t] IN
                      /\ Escrow(sessions[t])' = Escrow(r) /\ Escrow(r) \in Int
                      /\ UserShare(sessions[t])' = UserShare(r)
                      /\ UserShare(r) \in Int
                      /\ PaidToProvider(t)' = r.providerWithdrawnAmount
                      /\ r.providerWithdrawnAmount \in Int
    OBVIOUS
  <2>1. PICK r \in SessionRecords : r = IF t = s THEN new ELSE sessions[t]
    BY <1>1
  <2>2. sessions'[t] = r /\ bids[r.bidId].status # "none"
    BY <1>1, <2>1, SessionBasics
  <2>3. /\ Escrow(r)' = Escrow(r) /\ UserShare(r)' = UserShare(r)
        /\ Escrow(r) \in Int /\ UserShare(r) \in Int
        /\ r.providerWithdrawnAmount \in Int
    BY <1>1, <2>2, ShareStays, ShareTypes
  <2>4. QED
    BY <2>1, <2>2, <2>3 DEF PaidToProvider
<1>5. \A t \in SessionIds :
        /\ Escrow(sessions[t]) \in Int /\ UserShare(sessions[t]) \in Int
        /\ PaidToProvider(t) \in Int
        /\ PaidToProvider(t) = sessions[t].providerWithdrawnAmount
  BY <1>1, ShareTypes DEF PaidToProvider
<1>6. Escrowed' = Escrowed + (Escrow(new) - Escrow(old))
  <2> DEFINE f == [t \in SessionIds |-> Escrow(sessions[t])]
             k == [t \in SessionIds |-> Escrow(sessions[t])']
  <2>1. f \in [SessionIds -> Int] /\ k \in [SessionIds -> Int]
    BY <1>4, <1>5
  <2>2. \A t \in SessionIds \ {s} : k[t] = f[t]
    BY <1>4
  <2>3. f[s] = Escrow(old) /\ k[s] = Escrow(new)
    BY <1>4
  <2>4. Escrowed = SumFunction(f) /\ Escrowed' = SumFunction(k)
    BY <1>1 DEF Escrowed
  <2> HIDE DEF f, k
  <2>5. QED
    BY <1>1, <2>1, <2>2, <2>3, <2>4, SumFunctionChange
<1>7. PaidInAll' = PaidInAll + more
  <2> DEFINE f == [t \in SessionIds |-> PaidToProvider(t)]
             k == [t \in SessionIds |-> PaidToProvider(t)']
  <2>1. f \in [SessionIds -> Int] /\ k \in [SessionIds -> Int]
    BY <1>4, <1>5
  <2>2. \A t \in SessionIds \ {s} : k[t] = f[t]
    BY <1>4, <1>5
  <2>3. /\ f[s] = old.providerWithdrawnAmount
        /\ k[s] = new.providerWithdrawnAmount
    BY <1>4, <1>5
  <2>4. PaidInAll = SumFunction(f) /\ PaidInAll' = SumFunction(k)
    BY <1>1 DEF PaidInAll
  <2> HIDE DEF f, k
  <2>5. QED
    BY <1>1, <2>1, <2>2, <2>3, <2>4, SumFunctionChange
<1>8. PaidByFund' = PaidByFund +
        (IF old.isDirectPaymentFromUser THEN 0 ELSE more)
  <2> DEFINE f == [t \in StipendSessions |-> PaidToProvider(t)]
             k == [t \in StipendSessions |-> PaidToProvider(t)']
  <2>1. f \in [StipendSessions -> Int] /\ k \in [StipendSessions -> Int]
    BY <1>3, <1>4, <1>5
  <2>2. \A t \in StipendSessions \ {s} : k[t] = f[t]
    BY <1>3, <1>4, <1>5
  <2>3. s \in StipendSessions <=> ~old.isDirectPaymentFromUser
    BY DEF StipendSessions
  <2>4. s \in StipendSessions => f[s] = old.providerWithdrawnAmount
    BY <1>5
  <2>5. s \in StipendSessions => k[s] = new.providerWithdrawnAmount
    BY <1>4
  <2>6. PaidByFund = SumFunction(f) /\ PaidByFund' = SumFunction(k)
    BY <1>3 DEF PaidByFund
  <2>7. CASE s \in StipendSessions
    <3> HIDE DEF f, k
    <3>1. SumFunction(k) = SumFunction(f) + (k[s] - f[s])
      BY <1>3, <2>1, <2>2, <2>7, SumFunctionChange
    <3>2. QED
      BY <2>3, <2>4, <2>5, <2>6, <2>7, <3>1
  <2>8. CASE s \notin StipendSessions
    <3>1. k = f
      BY <2>2, <2>8
    <3> HIDE DEF f, k
    <3>2. SumFunction(f) \in Int
      BY <1>3, <2>1, SumFunctionInt
    <3>3. QED
      BY <2>3, <2>6, <2>8, <3>1, <3>2
  <2>9. QED
    BY <2>7, <2>8
<1>9. ASSUME NEW u
      PROVE  StakedOrSpentBy(u)' = StakedOrSpentBy(u) +
               (IF old.user = u THEN UserShare(new) - UserShare(old) ELSE 0)
  <2> DEFINE f == [t \in SessionsOf(u) |-> UserShare(sessions[t])]
             k == [t \in SessionsOf(u) |-> UserShare(sessions[t])']
  <2>1. f \in [SessionsOf(u) -> Int] /\ k \in [SessionsOf(u) -> Int]
    BY <1>3, <1>4, <1>5
  <2>2. \A t \in SessionsOf(u) \ {s} : k[t] = f[t]
    BY <1>3, <1>4
  <2>3. s \in SessionsOf(u) <=> old.user = u
    BY DEF SessionsOf
  <2>4. s \in SessionsOf(u) => f[s] = UserShare(old)
    OBVIOUS
  <2>5. s \in SessionsOf(u) => k[s] = UserShare(new)
    BY <1>4
  <2>6. /\ StakedOrSpentBy(u) = SumFunction(f)
        /\ StakedOrSpentBy(u)' = SumFunction(k)
    BY <1>3 DEF StakedOrSpentBy
  <2>7. CASE s \in SessionsOf(u)
    <3> HIDE DEF f, k
    <3>1. SumFunction(k) = SumFunction(f) + (k[s] - f[s])
      BY <1>3, <2>1, <2>2, <2>7, SumFunctionChange
    <3>2. QED
      BY <2>3, <2>4, <2>5, <2>6, <2>7, <3>1
  <2>8. CASE s \notin SessionsOf(u)
    <3>1. k = f
      BY <2>2, <2>8
    <3> HIDE DEF f, k
    <3>2. SumFunction(f) \in Int
      BY <1>3, <2>1, SumFunctionInt
    <3>3. QED
      BY <2>3, <2>6, <2>8, <3>1, <3>2
  <2>9. QED
    BY <2>7, <2>8
<1>10. QED
  BY <1>6, <1>7, <1>8, <1>9

\* A new session adds its own.
LEMMA ColumnsAdded ==
  ASSUME SessionInv, [Next]_vars, sessionNonce' = sessionNonce + 1,
         NEW new \in SessionRecords, new.closedAt = 0,
         new.providerWithdrawnAmount = 0,
         bids[new.bidId].status # "none",
         sessions' = [s \in 0 .. sessionNonce |->
                        IF s \in SessionIds THEN sessions[s] ELSE new]
  PROVE  /\ Escrowed' = Escrowed + new.stake
         /\ PaidInAll' = PaidInAll /\ PaidByFund' = PaidByFund
         /\ \A u : StakedOrSpentBy(u)' = StakedOrSpentBy(u) +
              (IF new.user = u THEN new.stake ELSE 0)
<1>0. PICK n \in Nat : n = sessionNonce
  BY SessionBasics
<1>1. /\ IsFiniteSet(SessionIds)
      /\ sessions \in [SessionIds -> SessionRecords]
      /\ LimiterInv /\ BidsStay
  BY SessionBasics, PostedStay DEF SessionInv
<1>2. /\ SessionIds' = SessionIds \union {n} /\ n \notin SessionIds
      /\ SessionIds' = 0 .. n
  BY <1>0 DEF SessionIds
<1>3. /\ sessions'[n] = new
      /\ \A t \in SessionIds : sessions'[t] = sessions[t]
  BY <1>0, <1>2
<1>4. /\ Escrow(new) = new.stake /\ UserShare(new) = new.stake
      /\ new.stake \in Int
  BY <1>1, RecordTypes DEF Escrow, UserShare
<1>5. \A t \in SessionIds' :
        LET r == IF t = n THEN new ELSE sessions[t] IN
        /\ Escrow(sessions[t])' = Escrow(r) /\ Escrow(r) \in Int
        /\ UserShare(sessions[t])' = UserShare(r) /\ UserShare(r) \in Int
        /\ PaidToProvider(t)' = r.providerWithdrawnAmount
        /\ r.providerWithdrawnAmount \in Int
  <2> SUFFICES ASSUME NEW t \in SessionIds'
               PROVE  LET r == IF t = n THEN new ELSE sessions[t] IN
                      /\ Escrow(sessions[t])' = Escrow(r) /\ Escrow(r) \in Int
                      /\ UserShare(sessions[t])' = UserShare(r)
                      /\ UserShare(r) \in Int
                      /\ PaidToProvider(t)' = r.providerWithdrawnAmount
                      /\ r.providerWithdrawnAmount \in Int
    OBVIOUS
  <2>1. PICK r \in SessionRecords : r = IF t = n THEN new ELSE sessions[t]
    BY <1>1, <1>2
  <2>2. sessions'[t] = r /\ bids[r.bidId].status # "none"
    BY <1>2, <1>3, <2>1, SessionBasics
  <2>3. /\ Escrow(r)' = Escrow(r) /\ UserShare(r)' = UserShare(r)
        /\ Escrow(r) \in Int /\ UserShare(r) \in Int
        /\ r.providerWithdrawnAmount \in Int
    BY <1>1, <2>2, ShareStays, ShareTypes
  <2>4. QED
    BY <2>1, <2>2, <2>3 DEF PaidToProvider
<1>6. \A t \in SessionIds :
        /\ Escrow(sessions[t]) \in Int /\ UserShare(sessions[t]) \in Int
        /\ PaidToProvider(t) \in Int
        /\ PaidToProvider(t) = sessions[t].providerWithdrawnAmount
  BY <1>1, ShareTypes DEF PaidToProvider
<1>7. Escrowed' = Escrowed + new.stake
  <2> DEFINE f == [t \in SessionIds |-> Escrow(sessions[t])]
             k == [t \in SessionIds \union {n} |-> Escrow(sessions[t])']
  <2>1. f \in [SessionIds -> Int] /\ k \in [SessionIds \union {n} -> Int]
    BY <1>2, <1>5, <1>6
  <2>2. \A t \in SessionIds : k[t] = f[t]
    BY <1>2, <1>5
  <2>3. k[n] = new.stake
    BY <1>2, <1>4, <1>5
  <2>4. Escrowed = SumFunction(f) /\ Escrowed' = SumFunction(k)
    BY <1>2 DEF Escrowed
  <2> HIDE DEF f, k
  <2>5. SumFunction(k) = SumFunction(f) + k[n]
    <3>1. AddsEntry(k, f, SessionIds, n)
      BY <1>1, <1>2, <2>1, <2>2 DEF AddsEntry
    <3>2. QED
      BY <3>1, SumFunctionAdd
  <2>6. QED
    BY <2>3, <2>4, <2>5
<1>8. PaidInAll' = PaidInAll
  <2> DEFINE f == [t \in SessionIds |-> PaidToProvider(t)]
             k == [t \in SessionIds \union {n} |-> PaidToProvider(t)']
  <2>1. f \in [SessionIds -> Int] /\ k \in [SessionIds \union {n} -> Int]
    BY <1>2, <1>5, <1>6
  <2>2. \A t \in SessionIds : k[t] = f[t]
    BY <1>2, <1>5, <1>6
  <2>3. k[n] = 0
    BY <1>2, <1>5
  <2>4. PaidInAll = SumFunction(f) /\ PaidInAll' = SumFunction(k)
    BY <1>2 DEF PaidInAll
  <2> HIDE DEF f, k
  <2>5. SumFunction(f) \in Int
    BY <1>1, <2>1, SumFunctionInt
  <2>6. SumFunction(k) = SumFunction(f) + k[n]
    <3>1. AddsEntry(k, f, SessionIds, n)
      BY <1>1, <1>2, <2>1, <2>2 DEF AddsEntry
    <3>2. QED
      BY <3>1, SumFunctionAdd
  <2>7. QED
    BY <2>3, <2>4, <2>5, <2>6
<1>9. PaidByFund' = PaidByFund
  <2> DEFINE S == StipendSessions
             f == [t \in S |-> PaidToProvider(t)]
             k == [t \in StipendSessions' |-> PaidToProvider(t)']
  <2>1. IsFiniteSet(S) /\ S \subseteq SessionIds /\ f \in [S -> Int]
    BY <1>1, <1>6, FS_Subset DEF StipendSessions
  <2>2. StipendSessions' =
          IF new.isDirectPaymentFromUser THEN S ELSE S \union {n}
    BY <1>2, <1>3 DEF StipendSessions
  <2>3. \A t \in S : PaidToProvider(t)' = PaidToProvider(t)
    BY <1>2, <1>5, <1>6, <2>1
  <2>4. PaidToProvider(n)' = 0 /\ n \notin S
    BY <1>2, <1>5, <2>1
  <2>5. PaidByFund = SumFunction(f) /\ PaidByFund' = SumFunction(k)
    BY DEF PaidByFund
  <2>6. SumFunction(f) \in Int
    BY <2>1, SumFunctionInt
  <2>7. CASE new.isDirectPaymentFromUser
    <3>1. k = f
      BY <2>2, <2>3, <2>7
    <3>2. QED
      BY <2>5, <3>1
  <2>8. CASE ~new.isDirectPaymentFromUser
    <3>1. k \in [S \union {n} -> Int] /\ k[n] = 0 /\ \A t \in S : k[t] = f[t]
      BY <2>1, <2>2, <2>3, <2>4, <2>8
    <3> HIDE DEF f, k, S
    <3>2. AddsEntry(k, f, S, n)
      BY <2>1, <2>4, <3>1 DEF AddsEntry
    <3>3. SumFunction(k) = SumFunction(f) + k[n]
      BY <3>2, SumFunctionAdd
    <3>4. QED
      BY <2>5, <2>6, <2>8, <3>1, <3>3
  <2>9. QED
    BY <2>7, <2>8
<1>10. ASSUME NEW u
       PROVE  StakedOrSpentBy(u)' = StakedOrSpentBy(u) +
                (IF new.user = u THEN new.stake ELSE 0)
  <2> DEFINE S == SessionsOf(u)
             f == [t \in S |-> UserShare(sessions[t])]
             k == [t \in SessionsOf(u)' |-> UserShare(sessions[t])']
  <2>1. IsFiniteSet(S) /\ S \subseteq SessionIds /\ f \in [S -> Int]
    BY <1>1, <1>6, FS_Subset DEF SessionsOf
  <2>2. SessionsOf(u)' = IF new.user = u THEN S \union {n} ELSE S
    BY <1>2, <1>3 DEF SessionsOf
  <2>3. \A t \in S : UserShare(sessions[t])' = UserShare(sessions[t])
    BY <1>2, <1>5, <1>6, <2>1
  <2>4. UserShare(sessions[n])' = new.stake /\ n \notin S
    BY <1>2, <1>4, <1>5, <2>1
  <2>5. /\ StakedOrSpentBy(u) = SumFunction(f)
        /\ StakedOrSpentBy(u)' = SumFunction(k)
    BY DEF StakedOrSpentBy
  <2>6. SumFunction(f) \in Int
    BY <2>1, SumFunctionInt
  <2>7. CASE new.user # u
    <3>1. k = f
      BY <2>2, <2>3, <2>7
    <3> HIDE DEF f, k, S
    <3>2. QED
      BY <2>5, <2>6, <2>7, <3>1
  <2>8. CASE new.user = u
    <3>1. /\ k \in [S \union {n} -> Int] /\ k[n] = new.stake
          /\ \A t \in S : k[t] = f[t]
      BY <1>4, <2>1, <2>2, <2>3, <2>4, <2>8
    <3> HIDE DEF f, k, S
    <3>2. AddsEntry(k, f, S, n)
      BY <2>1, <2>4, <3>1 DEF AddsEntry
    <3>3. SumFunction(k) = SumFunction(f) + k[n]
      BY <3>2, SumFunctionAdd
    <3>4. QED
      BY <2>5, <2>6, <2>8, <3>1, <3>3
  <2>9. QED
    BY <2>7, <2>8
<1>11. QED
  BY <1>7, <1>8, <1>9, <1>10
-----------------------------------------------------------------------------
(* Stake on hold *)

Amounts(holds) == IsFiniteSet(holds) /\ \A hold \in holds : hold.amount \in Nat

LEMMA AmountNat ==
  ASSUME NEW holds, Amounts(holds)
  PROVE  TotalAmount(holds) \in Nat
<1>1. [hold \in holds |-> hold.amount] \in [holds -> Nat]
  BY DEF Amounts
<1>2. QED
  BY <1>1, SumFunctionNat DEF Amounts, TotalAmount

LEMMA AmountAdded ==
  ASSUME NEW holds, Amounts(holds), NEW new, new \notin holds,
         new.amount \in Nat
  PROVE  TotalAmount(holds \union {new}) = TotalAmount(holds) + new.amount
<1> DEFINE f == [hold \in holds |-> hold.amount]
           k == [hold \in holds \union {new} |-> hold.amount]
<1>1. /\ f \in [holds -> Int] /\ k \in [holds \union {new} -> Int]
      /\ k[new] = new.amount /\ \A hold \in holds : k[hold] = f[hold]
  BY DEF Amounts
<1>2. /\ TotalAmount(holds) = SumFunction(f)
      /\ TotalAmount(holds \union {new}) = SumFunction(k)
  BY DEF TotalAmount
<1> HIDE DEF f, k
<1>3. AddsEntry(k, f, holds, new)
  BY <1>1 DEF Amounts, AddsEntry
<1>4. SumFunction(k) = SumFunction(f) + k[new]
  BY <1>3, SumFunctionAdd
<1>5. QED
  BY <1>1, <1>2, <1>4

LEMMA AmountTaken ==
  ASSUME NEW holds, Amounts(holds), NEW taken, taken \subseteq holds
  PROVE  /\ Amounts(taken) /\ Amounts(holds \ taken)
         /\ TotalAmount(holds) = TotalAmount(taken) + TotalAmount(holds \ taken)
<1>1. Amounts(taken) /\ Amounts(holds \ taken)
  BY FS_Subset DEF Amounts
<1> DEFINE f == [hold \in holds |-> hold.amount]
           g == [hold \in taken |-> hold.amount]
           h == [hold \in holds \ taken |-> hold.amount]
<1>2. /\ f \in [holds -> Int] /\ g \in [taken -> Int]
      /\ h \in [holds \ taken -> Int]
  BY <1>1 DEF Amounts
<1>3. /\ \A x \in holds : f[x] \in Int
      /\ \A x \in taken : f[x] = g[x]
      /\ \A x \in holds \ taken : f[x] = h[x]
  BY <1>2
<1>4. /\ TotalAmount(holds) = SumFunction(f)
      /\ TotalAmount(taken) = SumFunction(g)
      /\ TotalAmount(holds \ taken) = SumFunction(h)
  BY DEF TotalAmount
<1> HIDE DEF f, g, h
<1>5. SumFunctionOnSet(f, holds)
        = SumFunctionOnSet(f, taken) + SumFunctionOnSet(f, holds \ taken)
  BY <1>3, SumSplit DEF Amounts
<1>6. /\ SumFunctionOnSet(f, taken) = SumFunctionOnSet(g, taken)
      /\ SumFunctionOnSet(f, holds \ taken) = SumFunctionOnSet(h, holds \ taken)
  BY <1>1, <1>3, SumSame DEF Amounts
<1>7. QED
  BY <1>1, <1>2, <1>4, <1>5, <1>6, SumOfFunction
-----------------------------------------------------------------------------
(* Payments *)

LEMMA PayEffect ==
  ASSUME NEW ledger \in [Accounts -> Nat],
         NEW from \in Accounts, NEW to \in Accounts, NEW amount \in Nat,
         CanPay(ledger, from, amount)
  PROVE  /\ Pay(ledger, from, to, amount) \in [Accounts -> Nat]
         /\ from # to =>
              /\ Pay(ledger, from, to, amount)[from] = ledger[from] - amount
              /\ Pay(ledger, from, to, amount)[to] = ledger[to] + amount
         /\ \A a \in Accounts \ {from, to} :
              Pay(ledger, from, to, amount)[a] = ledger[a]
BY DEF Pay, CanPay

\* The contract, the fund and the users that are nothing else are accounts of
\* their own.
LEMMA Parties ==
  /\ Diamond \in Accounts /\ FundingAccount \in Accounts
  /\ FeeRecipient \in Accounts
  /\ Users \subseteq Accounts /\ Providers \subseteq Accounts
  /\ \A m \in ModelIds : ModelOwner[m] \in Accounts
  /\ Diamond # FundingAccount
  /\ \A a \in Users \union Providers \union {FeeRecipient}
       \union {ModelOwner[m] : m \in ModelIds} :
       a # Diamond /\ a # FundingAccount
  /\ \A u \in OnlyUsers :
       /\ u \in Users /\ u \in Accounts
       /\ u # Diamond /\ u # FundingAccount /\ u \notin Providers
       /\ u # FeeRecipient /\ \A m \in ModelIds : u # ModelOwner[m]
BY AccountAssumption DEF Accounts, OnlyUsers

LEMMA StakeTypes ==
  ASSUME LimiterInv
  PROVE  /\ StakedByProviders \in Nat /\ StakedOnModels \in Nat
         /\ market.feeBalance \in Nat /\ market.bidFee \in Nat
<1>1. /\ [p \in Providers |-> providers[p].stake] \in [Providers -> Nat]
      /\ [m \in ModelIds |-> models[m].stake] \in [ModelIds -> Nat]
  BY DEF LimiterInv, StorageTypeOK, RegistryTypeOK, ProviderRecords
<1>2. market.feeBalance \in Nat /\ market.bidFee \in Nat
  BY DEF LimiterInv, StorageTypeOK, BidTypeOK
<1>3. QED
  BY <1>1, <1>2, SumFunctionNat, FiniteAssumption
  DEF StakedByProviders, StakedOnModels

\* One provider's stake, or one model's, changes.
LEMMA ProviderStakeChanged ==
  ASSUME LimiterInv, NEW p \in Providers, NEW new \in ProviderRecords,
         providers' = [providers EXCEPT ![p] = new]
  PROVE  StakedByProviders' = StakedByProviders + (new.stake - providers[p].stake)
<1> DEFINE f == [q \in Providers |-> providers[q].stake]
           k == [q \in Providers |-> providers'[q].stake]
<1>1. providers \in [Providers -> ProviderRecords]
  BY DEF LimiterInv, StorageTypeOK, RegistryTypeOK
<1>2. /\ f \in [Providers -> Int] /\ k \in [Providers -> Int]
      /\ \A q \in Providers \ {p} : k[q] = f[q]
      /\ f[p] = providers[p].stake /\ k[p] = new.stake
  BY <1>1 DEF ProviderRecords
<1>3. StakedByProviders = SumFunction(f) /\ StakedByProviders' = SumFunction(k)
  BY DEF StakedByProviders
<1> HIDE DEF f, k
<1>4. QED
  BY <1>2, <1>3, SumFunctionChange, FiniteAssumption

LEMMA ModelStakeChanged ==
  ASSUME LimiterInv, NEW m \in ModelIds,
         NEW new \in [status : {"none", "active", "deleted"}, stake : Nat],
         models' = [models EXCEPT ![m] = new]
  PROVE  StakedOnModels' = StakedOnModels + (new.stake - models[m].stake)
<1> DEFINE f == [n \in ModelIds |-> models[n].stake]
           k == [n \in ModelIds |-> models'[n].stake]
<1>1. models \in [ModelIds -> [status : {"none", "active", "deleted"},
                               stake : Nat]]
  BY DEF LimiterInv, StorageTypeOK, RegistryTypeOK
<1>2. /\ f \in [ModelIds -> Int] /\ k \in [ModelIds -> Int]
      /\ \A n \in ModelIds \ {m} : k[n] = f[n]
      /\ f[m] = models[m].stake /\ k[m] = new.stake
  BY <1>1
<1>3. StakedOnModels = SumFunction(f) /\ StakedOnModels' = SumFunction(k)
  BY DEF StakedOnModels
<1> HIDE DEF f, k
<1>4. QED
  BY <1>2, <1>3, SumFunctionChange, FiniteAssumption

-----------------------------------------------------------------------------
(* The contract's books: what it owes apart from sessions and holds *)

Owed == StakedByProviders + StakedOnModels + market.feeBalance

MoneyBooked ==
  balance \in [Accounts -> Nat] /\ Solvency /\ UserWholeness /\ ClaimsAddUp

\* The amounts on the books are numbers.
LEMMA MoneyTypes ==
  ASSUME SessionInv, MoneyBooked
  PROVE  /\ Owed \in Nat /\ Escrowed \in Int
         /\ PaidInAll \in Int /\ PaidByFund \in Int
         /\ providersTotalClaimed \in Nat
         /\ Amounts(userStakesOnHold) /\ TotalAmount(userStakesOnHold) \in Nat
         /\ \A u : /\ Amounts(HoldsOf(u)) /\ TotalAmount(HoldsOf(u)) \in Nat
                   /\ StakedOrSpentBy(u) \in Int
         /\ \A a \in Accounts : balance[a] \in Nat /\ InitialBalance[a] \in Nat
<1>1. LimiterInv /\ providersTotalClaimed \in Nat
  BY DEF SessionInv, BidsInv, LimiterInv, StorageTypeOK, SessionTypeOK
<1>2. Owed \in Nat
  BY <1>1, StakeTypes DEF Owed
<1>3. Amounts(userStakesOnHold)
  BY SessionBasics DEF Amounts
<1>4. \A u : Amounts(HoldsOf(u))
  BY <1>3, FS_Subset DEF Amounts, HoldsOf
<1>5. /\ TotalAmount(userStakesOnHold) \in Nat
      /\ \A u : TotalAmount(HoldsOf(u)) \in Nat
  BY <1>3, <1>4, AmountNat
<1>6. \A a \in Accounts : balance[a] \in Nat /\ InitialBalance[a] \in Nat
  BY AccountAssumption DEF MoneyBooked
<1>7. QED
  BY <1>1, <1>2, <1>3, <1>4, <1>5, <1>6, ColumnTypes

\* What is on hold depends on the holds alone.
LEMMA HoldsKept ==
  ASSUME userStakesOnHold' = userStakesOnHold
  PROVE  /\ TotalAmount(userStakesOnHold)' = TotalAmount(userStakesOnHold)
         /\ \A u : TotalAmount(HoldsOf(u))' = TotalAmount(HoldsOf(u))
BY DEF TotalAmount, HoldsOf

LEMMA OwedKept ==
  ASSUME UNCHANGED <<models, market>>,
         \A p \in Providers : providers'[p].stake = providers[p].stake
  PROVE  Owed' = Owed
<1>1. [p \in Providers |-> providers[p].stake]'
        = [p \in Providers |-> providers[p].stake]
  OBVIOUS
<1>2. [m \in ModelIds |-> models[m].stake]' = [m \in ModelIds |-> models[m].stake]
  OBVIOUS
<1>3. QED
  BY <1>1, <1>2 DEF Owed, StakedByProviders, StakedOnModels

\* A payment to a provider leaves its stake.
LEMMA PayProviderStake ==
  ASSUME LimiterInv, NEW s, NEW session \in SessionRecords,
         NEW due, NEW ledger, PayProvider(s, session, due, ledger)
  PROVE  \A p \in Providers : providers'[p].stake = providers[p].stake
<1>1. providers \in [Providers -> ProviderRecords]
  BY DEF LimiterInv, StorageTypeOK, RegistryTypeOK
<1>2. BidProvider(session.bidId) \in Providers
  BY RecordTypes, BidParts
<1>3. LimiterAt(BidProvider(session.bidId)).stake
        = providers[BidProvider(session.bidId)].stake
  BY <1>1, <1>2 DEF LimiterAt, ProviderRecords
<1>4. QED
  BY <1>1, <1>2, <1>3 DEF PayProvider, ProviderRecords, LimiterAt

\* Those who move tokens other than for sessions.
RegisteredParties ==
  Providers \union {ModelOwner[m] : m \in ModelIds} \union {FeeRecipient}

\* A transaction that is not about sessions moves tokens between the contract
\* and a provider, a model's owner or the fee recipient, and books as much.
LEMMA RegistryMoney ==
  ASSUME SessionInv, MoneyBooked, [Next]_vars,
         UNCHANGED <<sessionNonce, sessions, userStakesOnHold,
                     providersTotalClaimed>>,
         NEW party \in RegisteredParties, NEW amount \in Nat,
         \/ /\ balance' = balance
            /\ Owed' = Owed
         \/ /\ CanPay(balance, party, amount)
            /\ balance' = Pay(balance, party, Diamond, amount)
            /\ Owed' = Owed + amount
         \/ /\ CanPay(balance, Diamond, amount)
            /\ balance' = Pay(balance, Diamond, party, amount)
            /\ Owed' = Owed - amount
  PROVE  MoneyBooked'
<1>1. /\ Escrowed' = Escrowed
      /\ PaidInAll' = PaidInAll /\ PaidByFund' = PaidByFund
      /\ \A u : StakedOrSpentBy(u)' = StakedOrSpentBy(u)
  BY ColumnsKept
<1>2. /\ TotalAmount(userStakesOnHold)' = TotalAmount(userStakesOnHold)
      /\ \A u : TotalAmount(HoldsOf(u))' = TotalAmount(HoldsOf(u))
  BY HoldsKept
<1>3. /\ party \in Accounts /\ Diamond \in Accounts /\ party # Diamond
      /\ party # FundingAccount /\ Diamond # FundingAccount
      /\ FundingAccount \in Accounts
      /\ OnlyUsers \subseteq Accounts
      /\ \A u \in OnlyUsers : u # party /\ u # Diamond
  BY Parties DEF RegisteredParties
<1>4. balance \in [Accounts -> Nat]
  BY DEF MoneyBooked
<1>5. /\ balance' \in [Accounts -> Nat]
      /\ balance'[FundingAccount] = balance[FundingAccount]
      /\ \A u \in OnlyUsers : balance'[u] = balance[u]
      /\ balance'[Diamond] - balance[Diamond] = Owed' - Owed
  <2>1. CASE balance' = balance /\ Owed' = Owed
    BY <1>3, <1>4, <2>1, MoneyTypes
  <2>2. CASE /\ CanPay(balance, party, amount)
             /\ balance' = Pay(balance, party, Diamond, amount)
             /\ Owed' = Owed + amount
    <3>1. /\ balance' \in [Accounts -> Nat]
          /\ balance'[Diamond] = balance[Diamond] + amount
          /\ \A a \in Accounts \ {party, Diamond} : balance'[a] = balance[a]
      BY <1>3, <1>4, <2>2, PayEffect
    <3>2. QED
      BY <1>3, <1>4, <2>2, <3>1, MoneyTypes
  <2>3. CASE /\ CanPay(balance, Diamond, amount)
             /\ balance' = Pay(balance, Diamond, party, amount)
             /\ Owed' = Owed - amount
    <3>1. /\ balance' \in [Accounts -> Nat]
          /\ balance'[Diamond] = balance[Diamond] - amount
          /\ \A a \in Accounts \ {Diamond, party} : balance'[a] = balance[a]
      BY <1>3, <1>4, <2>3, PayEffect
    <3>2. QED
      BY <1>3, <1>4, <2>3, <3>1, MoneyTypes
  <2>4. QED
    BY <2>1, <2>2, <2>3
<1>6. Solvency'
  <2>1. balance[Diamond] = Owed + Escrowed + TotalAmount(userStakesOnHold)
    BY DEF MoneyBooked, Solvency, Owed
  <2>2. Owed' \in Int /\ balance'[Diamond] \in Int
    BY <1>3, <1>5, MoneyTypes
  <2>3. balance'[Diamond]
          = Owed' + Escrowed' + TotalAmount(userStakesOnHold)'
    BY <1>1, <1>2, <1>3, <1>5, <2>1, <2>2, MoneyTypes
  <2>4. QED
    BY <2>3 DEF Solvency, Owed
<1>7. UserWholeness'
  BY <1>1, <1>2, <1>5 DEF MoneyBooked, UserWholeness, OnlyUsers
<1>8. ClaimsAddUp'
  BY <1>1, <1>5 DEF MoneyBooked, ClaimsAddUp
<1>9. QED
  BY <1>5, <1>6, <1>7, <1>8 DEF MoneyBooked

\* Registering stakes, deregistering returns it.
LEMMA ProviderRegistryMoney ==
  ASSUME SessionInv, MoneyBooked, [Next]_vars, ProviderRegistryNext
  PROVE  MoneyBooked'
<1>1. /\ LimiterInv /\ providers \in [Providers -> ProviderRecords]
      /\ now \in Nat /\ Owed \in Nat
      /\ StakedByProviders \in Nat /\ StakedOnModels \in Nat
      /\ market.feeBalance \in Nat
      /\ providerMinimumStake \in Nat
  BY MoneyTypes, SessionBasics, StakeTypes, RecordTypes, TimeAssumption
  DEF LimiterInv, StorageTypeOK, RegistryTypeOK, SessionTypeOK, Times
<1>2. ASSUME NEW minStake \in ProviderMinStakes, ProviderSetMinStake(minStake)
      PROVE  MoneyBooked'
  <2>1. UNCHANGED <<models, market>> /\ providers' = providers
    BY <1>2 DEF ProviderSetMinStake, modelVars
  <2>2. Owed' = Owed
    BY <2>1, OwedKept
  <2>3. /\ balance' = balance /\ FeeRecipient \in RegisteredParties
        /\ UNCHANGED <<sessionNonce, sessions, userStakesOnHold,
                       providersTotalClaimed>>
    BY <1>2 DEF ProviderSetMinStake, sessionVars, RegisteredParties
  <2>4. QED
    BY <2>2, <2>3, RegistryMoney
<1>3. ASSUME NEW p \in Providers, NEW amount \in ProviderStakes,
             ProviderRegister(p, amount)
      PROVE  MoneyBooked'
  <2>1. amount \in Nat /\ p \in RegisteredParties
    BY ProviderInputAssumption DEF RegisteredParties
  <2>2. /\ CanPay(balance, p, amount)
        /\ balance' = Pay(balance, p, Diamond, amount)
        /\ UNCHANGED <<sessionNonce, sessions, userStakesOnHold,
                       providersTotalClaimed>>
        /\ models' = models /\ market' = market
    BY <1>3 DEF ProviderRegister, sessionVars, modelVars
  <2>3. PICK new \in ProviderRecords :
          /\ new.stake = providers[p].stake + amount
          /\ providers' = [providers EXCEPT ![p] = new]
    <3>1. /\ now + PROVIDER_REWARD_LIMITER_PERIOD \in Nat
          /\ providers[p].stake + amount \in Nat
      BY <1>1, <2>1, TimeAssumption DEF ProviderRecords
    <3> DEFINE new == [status |-> "active",
                       stake |-> providers[p].stake + amount,
                       limitPeriodEnd |->
                         IF providers[p].status = "none"
                         THEN now + PROVIDER_REWARD_LIMITER_PERIOD
                         ELSE providers[p].limitPeriodEnd,
                       limitPeriodEarned |-> providers[p].limitPeriodEarned]
    <3>2. new \in ProviderRecords /\ new.stake = providers[p].stake + amount
      BY <1>1, <3>1 DEF ProviderRecords
    <3>3. providers' = [providers EXCEPT ![p] = new]
      BY <1>3 DEF ProviderRegister
    <3>4. QED
      BY <3>2, <3>3
  <2>4. StakedByProviders' = StakedByProviders + amount
    <3>1. StakedByProviders'
            = StakedByProviders + (new.stake - providers[p].stake)
      BY <1>1, <2>3, ProviderStakeChanged
    <3>2. providers[p].stake \in Nat
      BY <1>1 DEF ProviderRecords
    <3>3. QED
      BY <1>1, <2>1, <2>3, <3>1, <3>2
  <2>5. StakedOnModels' = StakedOnModels
    BY <2>2 DEF StakedOnModels
  <2>6. Owed' = Owed + amount
    BY <1>1, <2>1, <2>2, <2>4, <2>5 DEF Owed
  <2>7. QED
    BY <2>1, <2>2, <2>6, RegistryMoney
<1>4. ASSUME NEW p \in Providers, ProviderDeregister(p)
      PROVE  MoneyBooked'
  <2>1. PICK amount \in Nat : amount = GetWithdrawAmount(p)
    <3>1. GetWithdrawAmount(p) \in Int
      BY <1>1 DEF GetWithdrawAmount, ProviderRecords
    <3>2. QED
      BY <1>4, <3>1 DEF ProviderDeregister
  <2>2. /\ CanPay(balance, Diamond, amount) /\ p \in RegisteredParties
        /\ balance' = Pay(balance, Diamond, p, amount)
        /\ UNCHANGED <<sessionNonce, sessions, userStakesOnHold,
                       providersTotalClaimed>>
        /\ models' = models /\ market' = market
    BY <1>4, <2>1
    DEF ProviderDeregister, sessionVars, modelVars, RegisteredParties
  <2>3. PICK new \in ProviderRecords :
          /\ new.stake = providers[p].stake - amount
          /\ providers' = [providers EXCEPT ![p] = new]
    <3>1. providers[p].stake - amount \in Nat
      BY <1>1, <2>1 DEF GetWithdrawAmount, ProviderRecords
    <3>2. DEFINE new == [providers[p] EXCEPT !.stake = @ - amount,
                                             !.status = "deleted"]
    <3>3. new \in ProviderRecords /\ new.stake = providers[p].stake - amount
      BY <1>1, <3>1 DEF ProviderRecords
    <3>4. providers' = [providers EXCEPT ![p] = new]
      BY <1>1, <1>4, <2>1 DEF ProviderDeregister, ProviderRecords
    <3>5. QED
      BY <3>3, <3>4
  <2>4. StakedByProviders' = StakedByProviders - amount
    <3>1. StakedByProviders'
            = StakedByProviders + (new.stake - providers[p].stake)
      BY <1>1, <2>3, ProviderStakeChanged
    <3>2. providers[p].stake \in Nat
      BY <1>1 DEF ProviderRecords
    <3>3. QED
      BY <1>1, <2>1, <2>3, <3>1, <3>2
  <2>5. StakedOnModels' = StakedOnModels
    BY <2>2 DEF StakedOnModels
  <2>6. Owed' = Owed - amount
    BY <1>1, <2>1, <2>2, <2>4, <2>5 DEF Owed
  <2>7. QED
    BY <2>1, <2>2, <2>6, RegistryMoney
<1>5. QED
  BY <1>2, <1>3, <1>4 DEF ProviderRegistryNext

LEMMA ModelRegistryMoney ==
  ASSUME SessionInv, MoneyBooked, [Next]_vars, ModelRegistryNext
  PROVE  MoneyBooked'
<1>1. /\ LimiterInv /\ Owed \in Nat
      /\ models \in [ModelIds -> [status : {"none", "active", "deleted"},
                                  stake : Nat]]
      /\ StakedByProviders \in Nat /\ StakedOnModels \in Nat
      /\ market.feeBalance \in Nat
  BY MoneyTypes, SessionBasics, StakeTypes
  DEF LimiterInv, StorageTypeOK, RegistryTypeOK
<1>2. ASSUME NEW minStake \in ModelMinStakes, ModelSetMinStake(minStake)
      PROVE  MoneyBooked'
  <2>1. UNCHANGED <<models, market>> /\ providers' = providers
    BY <1>2 DEF ModelSetMinStake, providerVars
  <2>2. Owed' = Owed
    BY <2>1, OwedKept
  <2>3. /\ balance' = balance /\ FeeRecipient \in RegisteredParties
        /\ UNCHANGED <<sessionNonce, sessions, userStakesOnHold,
                       providersTotalClaimed>>
    BY <1>2 DEF ModelSetMinStake, sessionVars, RegisteredParties
  <2>4. QED
    BY <2>2, <2>3, RegistryMoney
<1>3. ASSUME NEW m \in ModelIds, NEW amount \in ModelStakes,
             ModelRegister(m, amount)
      PROVE  MoneyBooked'
  <2>1. amount \in Nat /\ ModelOwner[m] \in RegisteredParties
    BY ModelInputAssumption DEF RegisteredParties
  <2>2. /\ CanPay(balance, ModelOwner[m], amount)
        /\ balance' = Pay(balance, ModelOwner[m], Diamond, amount)
        /\ UNCHANGED <<sessionNonce, sessions, userStakesOnHold,
                       providersTotalClaimed>>
        /\ providers' = providers /\ market' = market
    BY <1>3 DEF ModelRegister, sessionVars, providerVars
  <2>3. PICK new \in [status : {"none", "active", "deleted"}, stake : Nat] :
          /\ new.stake = models[m].stake + amount
          /\ models' = [models EXCEPT ![m] = new]
    <3>1. models[m].stake + amount \in Nat
      BY <1>1, <2>1
    <3>2. QED
      BY <1>3, <3>1 DEF ModelRegister
  <2>4. StakedOnModels' = StakedOnModels + amount
    <3>1. StakedOnModels' = StakedOnModels + (new.stake - models[m].stake)
      BY <1>1, <2>3, ModelStakeChanged
    <3>2. models[m].stake \in Nat
      BY <1>1
    <3>3. QED
      BY <1>1, <2>1, <2>3, <3>1, <3>2
  <2>5. StakedByProviders' = StakedByProviders
    BY <2>2 DEF StakedByProviders
  <2>6. Owed' = Owed + amount
    BY <1>1, <2>1, <2>2, <2>4, <2>5 DEF Owed
  <2>7. QED
    BY <2>1, <2>2, <2>6, RegistryMoney
<1>4. ASSUME NEW m \in ModelIds, ModelDeregister(m)
      PROVE  MoneyBooked'
  <2>1. PICK amount \in Nat : amount = models[m].stake
    BY <1>1
  <2>2. /\ CanPay(balance, Diamond, amount)
        /\ ModelOwner[m] \in RegisteredParties
        /\ balance' = Pay(balance, Diamond, ModelOwner[m], amount)
        /\ UNCHANGED <<sessionNonce, sessions, userStakesOnHold,
                       providersTotalClaimed>>
        /\ providers' = providers /\ market' = market
    BY <1>4, <2>1
    DEF ModelDeregister, sessionVars, providerVars, RegisteredParties
  <2>3. PICK new \in [status : {"none", "active", "deleted"}, stake : Nat] :
          new.stake = 0 /\ models' = [models EXCEPT ![m] = new]
    BY <1>4 DEF ModelDeregister
  <2>4. StakedOnModels' = StakedOnModels - amount
    <3>1. StakedOnModels' = StakedOnModels + (new.stake - models[m].stake)
      BY <1>1, <2>3, ModelStakeChanged
    <3>2. QED
      BY <1>1, <2>1, <2>3, <3>1
  <2>5. StakedByProviders' = StakedByProviders
    BY <2>2 DEF StakedByProviders
  <2>6. Owed' = Owed - amount
    BY <1>1, <2>1, <2>2, <2>4, <2>5 DEF Owed
  <2>7. QED
    BY <2>1, <2>2, <2>6, RegistryMoney
<1>5. QED
  BY <1>2, <1>3, <1>4 DEF ModelRegistryNext

\* A bid costs a fee, which the owner withdraws.
LEMMA MarketplaceMoney ==
  ASSUME SessionInv, MoneyBooked, [Next]_vars, MarketplaceNext
  PROVE  MoneyBooked'
<1>1. /\ LimiterInv /\ Owed \in Nat
      /\ StakedByProviders \in Nat /\ StakedOnModels \in Nat
      /\ market.feeBalance \in Nat /\ market.bidFee \in Nat
      /\ market \in [feeBalance : Nat, bidFee : Nat,
                     bidMinPricePerSecond : Nat \ {0},
                     bidMaxPricePerSecond : Nat]
  BY MoneyTypes, SessionBasics, StakeTypes
  DEF LimiterInv, StorageTypeOK, BidTypeOK
<1>2. FeeRecipient \in RegisteredParties
  BY DEF RegisteredParties
<1>3. ASSUME UNCHANGED <<providers, models, market.feeBalance, balance,
                         sessionNonce, sessions, userStakesOnHold,
                         providersTotalClaimed>>
      PROVE  MoneyBooked'
  <2>1. Owed' = Owed
    BY <1>3 DEF Owed, StakedByProviders, StakedOnModels
  <2>2. QED
    BY <1>2, <1>3, <2>1, RegistryMoney
<1>4. ASSUME NEW fee \in BidFees, SetMarketplaceBidFee(fee)
      PROVE  MoneyBooked'
  BY <1>1, <1>3, <1>4
  DEF SetMarketplaceBidFee, providerVars, modelVars, sessionVars
<1>5. ASSUME NEW bounds \in PriceBounds,
             SetMinMaxBidPricePerSecond(bounds[1], bounds[2])
      PROVE  MoneyBooked'
  BY <1>1, <1>3, <1>5
  DEF SetMinMaxBidPricePerSecond, providerVars, modelVars, sessionVars
<1>6. ASSUME NEW p \in Providers, NEW m \in ModelIds, NEW price \in Prices,
             PostModelBid(p, m, price)
      PROVE  MoneyBooked'
  <2>1. PICK fee \in Nat : fee = market.bidFee
    BY <1>1
  <2>2. /\ CanPay(balance, p, fee) /\ p \in RegisteredParties
        /\ balance' = Pay(balance, p, Diamond, fee)
        /\ market' = [market EXCEPT !.feeBalance = @ + fee]
        /\ UNCHANGED <<sessionNonce, sessions, userStakesOnHold,
                       providersTotalClaimed>>
        /\ providers' = providers /\ models' = models
    BY <1>6, <2>1
    DEF PostModelBid, sessionVars, providerVars, modelVars, RegisteredParties
  <2>3. market'.feeBalance = market.feeBalance + fee
    BY <1>1, <2>2
  <2>4. /\ StakedByProviders' = StakedByProviders
        /\ StakedOnModels' = StakedOnModels
    BY <2>2 DEF StakedByProviders, StakedOnModels
  <2>5. Owed' = Owed + fee
    BY <1>1, <2>1, <2>3, <2>4 DEF Owed
  <2>6. QED
    BY <2>1, <2>2, <2>5, RegistryMoney
<1>7. ASSUME NEW b \in BidIds, DeleteModelBid(b)
      PROVE  MoneyBooked'
  BY <1>3, <1>7 DEF DeleteModelBid, providerVars, modelVars, sessionVars
<1>8. ASSUME NEW asked \in FeeWithdrawals, WithdrawFee(asked)
      PROVE  MoneyBooked'
  <2>1. PICK amount \in Nat : amount = FeeToWithdraw(asked)
    BY <1>1, MarketInputAssumption DEF FeeToWithdraw, MinOf
  <2>2. /\ CanPay(balance, Diamond, amount)
        /\ balance' = Pay(balance, Diamond, FeeRecipient, amount)
        /\ market' = [market EXCEPT !.feeBalance = market.feeBalance - amount]
        /\ UNCHANGED <<sessionNonce, sessions, userStakesOnHold,
                       providersTotalClaimed>>
        /\ providers' = providers /\ models' = models
    BY <1>8, <2>1
    DEF WithdrawFee, RemainingFee, sessionVars, providerVars, modelVars
  <2>3. market'.feeBalance = market.feeBalance - amount
    BY <1>1, <2>2
  <2>4. /\ StakedByProviders' = StakedByProviders
        /\ StakedOnModels' = StakedOnModels
    BY <2>2 DEF StakedByProviders, StakedOnModels
  <2>5. Owed' = Owed - amount
    BY <1>1, <2>1, <2>3, <2>4 DEF Owed
  <2>6. QED
    BY <1>2, <2>1, <2>2, <2>5, RegistryMoney
<1>9. QED
  BY <1>4, <1>5, <1>6, <1>7, <1>8 DEF MarketplaceNext

\* Opening moves the stake into the contract.
LEMMA OpenSessionMoney ==
  ASSUME SessionInv, MoneyBooked, [Next]_vars,
         NEW user \in Users, NEW amount \in StakeAmounts,
         NEW isDirect \in BOOLEAN, NEW approval \in SignedApprovals,
         OpenSession(user, amount, isDirect, approval)
  PROVE  MoneyBooked'
<1>1. /\ amount \in Nat /\ approval.bid \in BidIds
      /\ now \in Nat /\ LimiterInv /\ LimiterInv'
      /\ sessionNonce \in Nat
  BY SessionInputAssumption, SessionBasics, RecordTypes, NextLimiterInv,
     TimeAssumption
  DEF SignedApprovals, Approvals, LimiterInv, StorageTypeOK, SessionTypeOK,
      Times
<1>2. PICK new :
        /\ new = [user |-> user, bidId |-> approval.bid, stake |-> amount,
                  isDirectPaymentFromUser |-> isDirect, openedAt |-> now,
                  endsAt |-> GetSessionEnd(amount,
                               PricePerSecond(approval.bid), now),
                  closedAt |-> 0, closeoutType |-> 0,
                  providerWithdrawnAmount |-> 0]
  OBVIOUS
<1>3. sessions' = [s \in 0 .. sessionNonce |->
                     IF s \in SessionIds THEN sessions[s] ELSE new]
  BY <1>2 DEF OpenSession
<1>4. new \in SessionRecords
  <2>1. sessions' \in [SessionIds' -> SessionRecords]
    BY <1>1 DEF LimiterInv, StorageTypeOK, SessionTypeOK
  <2>2. sessionNonce' = sessionNonce + 1
    BY DEF OpenSession
  <2>3. sessionNonce \in SessionIds' /\ sessionNonce \notin SessionIds
    BY <1>1, <2>2 DEF SessionIds
  <2>4. sessions'[sessionNonce] = new
    BY <1>1, <1>3, <2>3
  <2>5. QED
    BY <2>1, <2>3, <2>4
<1>5. /\ new.user = user /\ new.stake = amount /\ new.closedAt = 0
      /\ new.providerWithdrawnAmount = 0
      /\ bids[new.bidId].status # "none"
  BY <1>1, <1>2 DEF OpenSession, IsBidActive
<1>6. /\ Escrowed' = Escrowed + amount
      /\ PaidInAll' = PaidInAll /\ PaidByFund' = PaidByFund
      /\ \A u : StakedOrSpentBy(u)' = StakedOrSpentBy(u) +
           (IF user = u THEN amount ELSE 0)
  BY <1>3, <1>4, <1>5, ColumnsAdded DEF OpenSession
<1>7. /\ providers' = providers /\ models' = models /\ market' = market
      /\ userStakesOnHold' = userStakesOnHold
      /\ providersTotalClaimed' = providersTotalClaimed
      /\ CanPay(balance, user, amount)
      /\ balance' = Pay(balance, user, Diamond, amount)
  BY DEF OpenSession, providerVars, modelVars
<1>8. /\ Owed' = Owed
      /\ TotalAmount(userStakesOnHold)' = TotalAmount(userStakesOnHold)
      /\ \A u : TotalAmount(HoldsOf(u))' = TotalAmount(HoldsOf(u))
  BY <1>7, OwedKept, HoldsKept
<1>9. /\ user \in Accounts /\ Diamond \in Accounts /\ user # Diamond
      /\ FundingAccount \in Accounts /\ user # FundingAccount
      /\ Diamond # FundingAccount
      /\ \A u \in OnlyUsers : u \in Accounts /\ u # Diamond
      /\ balance \in [Accounts -> Nat]
  BY Parties DEF MoneyBooked
<1>10. /\ balance' \in [Accounts -> Nat]
       /\ balance'[user] = balance[user] - amount
       /\ balance'[Diamond] = balance[Diamond] + amount
       /\ \A a \in Accounts \ {user, Diamond} : balance'[a] = balance[a]
  BY <1>1, <1>7, <1>9, PayEffect
<1>11. Solvency'
  <2>1. balance[Diamond] = Owed + Escrowed + TotalAmount(userStakesOnHold)
    BY DEF MoneyBooked, Solvency, Owed
  <2>2. balance'[Diamond]
          = Owed' + Escrowed' + TotalAmount(userStakesOnHold)'
    BY <1>1, <1>6, <1>8, <1>10, <2>1, MoneyTypes
  <2>3. QED
    BY <2>2 DEF Solvency, Owed
<1>12. UserWholeness'
  <2> SUFFICES ASSUME NEW u \in OnlyUsers
               PROVE  InitialBalance[u] = balance'[u] + StakedOrSpentBy(u)'
                                            + TotalAmount(HoldsOf(u))'
    BY DEF UserWholeness, OnlyUsers
  <2>1. InitialBalance[u] = balance[u] + StakedOrSpentBy(u)
                              + TotalAmount(HoldsOf(u))
    BY DEF MoneyBooked, UserWholeness
  <2>2. balance'[u] = balance[u] - (IF user = u THEN amount ELSE 0)
    BY <1>1, <1>9, <1>10
  <2>3. balance[u] \in Nat /\ StakedOrSpentBy(u) \in Int
        /\ TotalAmount(HoldsOf(u)) \in Nat
    BY <1>9, MoneyTypes
  <2>4. QED
    BY <1>1, <1>6, <1>8, <2>1, <2>2, <2>3
<1>13. ClaimsAddUp'
  BY <1>6, <1>7, <1>9, <1>10 DEF MoneyBooked, ClaimsAddUp
<1>14. QED
  BY <1>10, <1>11, <1>12, <1>13 DEF MoneyBooked

\* A claim pays the provider out of the session's escrow, or the fund.
LEMMA ClaimForProviderMoney ==
  ASSUME SessionInv, MoneyBooked, [Next]_vars,
         NEW s \in SessionIds, ClaimForProvider(s)
  PROVE  MoneyBooked'
<1>1. PICK old \in SessionRecords : old = sessions[s] /\ LimiterInv
  BY SessionBasics
<1>2. PICK amount \in Nat :
        /\ sessions' = [sessions EXCEPT ![s] =
             [old EXCEPT !.providerWithdrawnAmount = @ + amount]]
        /\ providersTotalClaimed' = providersTotalClaimed + amount
        /\ BidProvider(old.bidId) \in Providers
        /\ CanPay(balance, Payer(old), amount)
        /\ balance' = Pay(balance, Payer(old), BidProvider(old.bidId), amount)
  BY <1>1, ClaimStep
<1>3. PICK new \in SessionRecords :
        /\ new = [old EXCEPT !.providerWithdrawnAmount = @ + amount]
        /\ new.providerWithdrawnAmount = old.providerWithdrawnAmount + amount
        /\ new.user = old.user /\ new.bidId = old.bidId
        /\ new.stake = old.stake
        /\ new.isDirectPaymentFromUser = old.isDirectPaymentFromUser
        /\ new.closedAt = old.closedAt
        /\ FinalRewards(new) = FinalRewards(old)
  BY PaidRecord
<1>4. /\ old.isDirectPaymentFromUser \in BOOLEAN /\ old.stake \in Nat
      /\ old.providerWithdrawnAmount \in Nat /\ FinalRewards(old) \in Int
  BY <1>1, RecordTypes
<1> DEFINE direct == IF old.isDirectPaymentFromUser THEN amount ELSE 0
           funded == IF old.isDirectPaymentFromUser THEN 0 ELSE amount
<1>5. /\ Escrow(new) - Escrow(old) = 0 - direct
      /\ UserShare(new) = UserShare(old) /\ UserShare(old) \in Int
      /\ new.providerWithdrawnAmount - old.providerWithdrawnAmount = amount
  BY <1>3, <1>4 DEF Escrow, UserShare
<1>6. /\ sessionNonce' = sessionNonce /\ models' = models /\ market' = market
      /\ userStakesOnHold' = userStakesOnHold
      /\ PayProvider(s, old, GetUnpaidProviderRewards(old)
                               - GetProviderOnHoldAmount(old), balance)
  BY <1>1 DEF ClaimForProvider, modelVars
<1>7. LET more == new.providerWithdrawnAmount - old.providerWithdrawnAmount IN
      /\ Escrowed' = Escrowed + (Escrow(new) - Escrow(old))
      /\ PaidInAll' = PaidInAll + more
      /\ PaidByFund' = PaidByFund +
           (IF old.isDirectPaymentFromUser THEN 0 ELSE more)
      /\ \A u : StakedOrSpentBy(u)' = StakedOrSpentBy(u) +
           (IF old.user = u THEN UserShare(new) - UserShare(old) ELSE 0)
  <2>1. /\ sessions' = [sessions EXCEPT ![s] = new]
        /\ new.user = sessions[s].user /\ new.bidId = sessions[s].bidId
        /\ new.isDirectPaymentFromUser = sessions[s].isDirectPaymentFromUser
    BY <1>1, <1>2, <1>3
  <2>2. UNCHANGED sessionNonce
    BY <1>6
  <2>3. QED
    BY <1>1, <2>1, <2>2, ColumnsChanged
<1>8. /\ Escrowed' = Escrowed - direct
      /\ PaidInAll' = PaidInAll + amount
      /\ PaidByFund' = PaidByFund + funded
      /\ \A u : StakedOrSpentBy(u)' = StakedOrSpentBy(u)
  <2>1. Escrowed \in Int /\ \A u : StakedOrSpentBy(u) \in Int
    BY MoneyTypes
  <2>2. QED
    BY <1>5, <1>7, <2>1
<1>9. /\ Owed' = Owed
      /\ TotalAmount(userStakesOnHold)' = TotalAmount(userStakesOnHold)
      /\ \A u : TotalAmount(HoldsOf(u))' = TotalAmount(HoldsOf(u))
  BY <1>1, <1>6, PayProviderStake, OwedKept, HoldsKept
<1>10. /\ Payer(old) \in {Diamond, FundingAccount}
       /\ BidProvider(old.bidId) \in Accounts
       /\ BidProvider(old.bidId) \notin {Diamond, FundingAccount}
       /\ Diamond \in Accounts /\ FundingAccount \in Accounts
       /\ Diamond # FundingAccount
       /\ \A u \in OnlyUsers : /\ u \in Accounts
                               /\ u # BidProvider(old.bidId)
                               /\ u \notin {Diamond, FundingAccount}
       /\ balance \in [Accounts -> Nat]
  BY <1>2, Parties DEF MoneyBooked, Payer
<1>11. /\ balance' \in [Accounts -> Nat]
       /\ balance'[Payer(old)] = balance[Payer(old)] - amount
       /\ \A a \in Accounts \ {Payer(old), BidProvider(old.bidId)} :
            balance'[a] = balance[a]
  BY <1>2, <1>10, PayEffect
<1>12. /\ balance'[Diamond] = balance[Diamond] - direct
       /\ balance'[FundingAccount] = balance[FundingAccount] - funded
       /\ \A u \in OnlyUsers : balance'[u] = balance[u]
  <2>1. balance[Diamond] \in Nat /\ balance[FundingAccount] \in Nat
    BY <1>10
  <2>2. CASE old.isDirectPaymentFromUser
    BY <1>10, <1>11, <2>1, <2>2 DEF Payer
  <2>3. CASE ~old.isDirectPaymentFromUser
    BY <1>10, <1>11, <2>1, <2>3 DEF Payer
  <2>4. QED
    BY <2>2, <2>3
<1>13. direct \in Nat /\ funded \in Nat
  OBVIOUS
<1> HIDE DEF direct, funded
<1>14. Solvency'
  <2>1. balance[Diamond] = Owed + Escrowed + TotalAmount(userStakesOnHold)
    BY DEF MoneyBooked, Solvency, Owed
  <2>2. balance'[Diamond]
          = Owed' + Escrowed' + TotalAmount(userStakesOnHold)'
    BY <1>8, <1>9, <1>12, <1>13, <2>1, MoneyTypes
  <2>3. QED
    BY <2>2 DEF Solvency, Owed
<1>15. UserWholeness'
  BY <1>8, <1>9, <1>12 DEF MoneyBooked, UserWholeness, OnlyUsers
<1>16. ClaimsAddUp'
  <2>1. /\ providersTotalClaimed = PaidInAll
        /\ InitialBalance[FundingAccount] - balance[FundingAccount] = PaidByFund
    BY DEF MoneyBooked, ClaimsAddUp
  <2>2. /\ InitialBalance[FundingAccount] \in Nat
        /\ balance[FundingAccount] \in Nat
    BY <1>10, MoneyTypes
  <2>3. /\ providersTotalClaimed' = PaidInAll'
        /\ InitialBalance[FundingAccount] - balance'[FundingAccount]
             = PaidByFund'
    BY <1>2, <1>8, <1>12, <1>13, <2>1, <2>2
  <2>4. QED
    BY <2>3 DEF ClaimsAddUp
<1>17. QED
  BY <1>11, <1>14, <1>15, <1>16 DEF MoneyBooked

\* The part of a user's stake that is locked until the next day is no debt and
\* no more than the stake.
LEMMA LockNat ==
  ASSUME LimiterInv, NEW session \in SessionRecords, SessionSound(session),
         SessionEnd(session) <= now,
         UserStake(session) >= 0,
         now < ReleaseAt(session) =>
           GetComputeBalance(StartOfEndDay(session)) >= 0
  PROVE  /\ UserStake(session) \in Nat /\ UserStakeToLock(session) \in Nat
         /\ UserStakeToLock(session) <= UserStake(session)
         /\ Refund(session) \in Nat
         /\ Refund(session) + UserStakeToLock(session) = UserStake(session)
<1>1. /\ SessionTypeOK /\ now \in Nat /\ now <= MaxTime
      /\ SessionEnd(session) \in Nat /\ session.openedAt \in Nat
      /\ session.openedAt <= SessionEnd(session)
      /\ PricePerSecond(session.bidId) \in Nat
  BY RecordTypes, RewardsNat, TimeAssumption
  DEF LimiterInv, StorageTypeOK, SessionTypeOK, Times
<1>2. UserStake(session) \in Nat
  BY RewardTypes DEF LimiterInv, StorageTypeOK
<1>3. /\ StartOfEndDay(session) \in Nat
      /\ StartOfEndDay(session) <= SessionEnd(session)
  BY <1>1, DayStart DEF StartOfEndDay
<1>4. PICK start \in Nat : start = StartOfEndDay(session)
  BY <1>3
<1>5. PICK compute \in Int, supply \in Nat :
        compute = GetComputeBalance(start) /\ supply = TotalMORSupply(start)
  BY <1>1, <1>3, <1>4, BudgetTypes, TimeAssumption
<1>6. PICK cost \in Nat :
        cost = (SessionEnd(session) - MaxOf(session.openedAt, start))
                 * PricePerSecond(session.bidId)
  <2>1. SessionEnd(session) - MaxOf(session.openedAt, start) \in Nat
    BY <1>1, <1>3, <1>4 DEF MaxOf
  <2>2. QED
    BY <1>1, <2>1, ProductNat
<1>7. compute >= 0 => StipendToStake(cost, start) \in Nat
  <2>1. cost * supply \in Nat
    BY ProductNat
  <2>2. cost * supply * BUDGET_DIVISOR \in Nat
    BY <2>1, ProductNat, BoundAssumption
  <2>3. compute >= 0 /\ compute # 0 =>
          (cost * supply * BUDGET_DIVISOR) \div compute \in Nat
    BY <2>2, QuotientNat
  <2>4. QED
    BY <1>5, <2>3 DEF StipendToStake
<1>8. UserStakeToLock(session) =
        IF now >= ReleaseAt(session) THEN 0
        ELSE MinOf(UserStake(session), StipendToStake(cost, start))
  BY <1>4, <1>6 DEF UserStakeToLock
<1>9. ReleaseAt(session) \in Nat
  BY <1>3, TimeAssumption DEF ReleaseAt
<1>10. /\ UserStakeToLock(session) \in Nat
       /\ UserStakeToLock(session) <= UserStake(session)
  <2>1. CASE now >= ReleaseAt(session)
    BY <1>2, <1>8, <2>1
  <2>2. CASE ~(now >= ReleaseAt(session))
    <3>1. compute >= 0
      BY <1>1, <1>4, <1>5, <1>9, <2>2
    <3>2. StipendToStake(cost, start) \in Nat
      BY <1>7, <3>1
    <3>3. QED
      BY <1>2, <1>8, <2>2, <3>2 DEF MinOf
  <2>3. QED
    BY <2>1, <2>2
<1>11. QED
  BY <1>2, <1>10 DEF Refund

\* Closing splits the stake between the user, the provider and the holds.
LEMMA CloseSessionMoney ==
  ASSUME SessionInv, MoneyBooked, [Next]_vars,
         NEW s \in SessionIds, NEW noDispute \in BOOLEAN,
         CloseSession(s, noDispute)
  PROVE  MoneyBooked'
<1>1. PICK old \in SessionRecords :
        old = sessions[s] /\ LimiterInv /\ ~IsClosed(s) /\ old.closedAt = 0
  BY SessionBasics DEF CloseSession, IsClosed
<1>2. PICK closed \in SessionRecords :
        /\ closed = Closed(s, noDispute)
        /\ closed.user = old.user /\ closed.bidId = old.bidId
        /\ closed.stake = old.stake
        /\ closed.isDirectPaymentFromUser = old.isDirectPaymentFromUser
        /\ closed.closedAt = now
        /\ closed.providerWithdrawnAmount = old.providerWithdrawnAmount
        /\ SessionEnd(closed) <= now
        /\ SessionSound(closed)
  <2>1. SessionOK(sessions[s])
    BY SessionBasics
  <2>2. QED
    BY <1>1, <2>1, ClosedOK
<1>3. /\ UserStake(closed) >= 0
      /\ now < ReleaseAt(closed) =>
           GetComputeBalance(StartOfEndDay(closed)) >= 0
      /\ CanPay(balance, Diamond, Refund(closed))
      /\ PayProvider(s, closed, DueAtClose(closed, noDispute),
                     Pay(balance, Diamond, closed.user, Refund(closed)))
      /\ userStakesOnHold' = userStakesOnHold \union
           {hold \in {[user |-> closed.user, session |-> s,
                       amount |-> UserStakeToLock(closed),
                       releaseAt |-> ReleaseAt(closed)]} :
              UserStakeToLock(closed) > 0}
      /\ sessionNonce' = sessionNonce /\ models' = models /\ market' = market
  BY <1>2 DEF CloseSession, modelVars
<1>4. PICK stake \in Nat, lock \in Nat, refund \in Nat :
        /\ stake = UserStake(closed) /\ lock = UserStakeToLock(closed)
        /\ refund = Refund(closed) /\ refund + lock = stake
  BY <1>1, <1>2, <1>3, LockNat
<1>5. PICK ledger :
        ledger = Pay(balance, Diamond, closed.user, refund)
  OBVIOUS
<1>6. PICK amount \in Nat :
        /\ sessions' = [sessions EXCEPT ![s] =
             [closed EXCEPT !.providerWithdrawnAmount = @ + amount]]
        /\ providersTotalClaimed' = providersTotalClaimed + amount
        /\ BidProvider(closed.bidId) \in Providers
        /\ CanPay(ledger, Payer(closed), amount)
        /\ balance' = Pay(ledger, Payer(closed), BidProvider(closed.bidId),
                          amount)
  BY <1>2, <1>4, <1>5, CloseStep
<1>7. PICK new \in SessionRecords :
        /\ new = [closed EXCEPT !.providerWithdrawnAmount = @ + amount]
        /\ new.providerWithdrawnAmount = old.providerWithdrawnAmount + amount
        /\ new.user = old.user /\ new.bidId = old.bidId
        /\ new.stake = old.stake
        /\ new.isDirectPaymentFromUser = old.isDirectPaymentFromUser
        /\ new.closedAt = now
        /\ FinalRewards(new) = FinalRewards(closed)
  <2>1. PICK new :
          new = [closed EXCEPT !.providerWithdrawnAmount = @ + amount]
    OBVIOUS
  <2>2. /\ new \in SessionRecords
        /\ new.providerWithdrawnAmount
             = closed.providerWithdrawnAmount + amount
        /\ new.user = closed.user /\ new.bidId = closed.bidId
        /\ new.stake = closed.stake
        /\ new.isDirectPaymentFromUser = closed.isDirectPaymentFromUser
        /\ new.closedAt = closed.closedAt
        /\ FinalRewards(new) = FinalRewards(closed)
    BY <2>1, PaidRecord
  <2>3. QED
    BY <1>2, <2>1, <2>2
<1>8. /\ old.user \in Users
      /\ old.isDirectPaymentFromUser \in BOOLEAN /\ old.stake \in Nat
      /\ old.providerWithdrawnAmount \in Nat /\ FinalRewards(closed) \in Int
      /\ now \in Nat /\ now # 0
  BY <1>1, <1>2, RecordTypes, TimeAssumption
<1>9. stake = old.stake - (IF old.isDirectPaymentFromUser
                           THEN FinalRewards(closed) ELSE 0)
  <2>1. GetProviderRewards(closed) = FinalRewards(closed)
    <3>1. SessionEnd(closed) \in Nat
      BY <1>1, <1>2, RecordTypes
    <3>2. QED
      BY <1>2, <1>8, <3>1 DEF GetProviderRewards, FinalRewards
  <2>2. QED
    BY <1>2, <1>4, <2>1 DEF UserStake
<1> DEFINE direct == IF old.isDirectPaymentFromUser THEN amount ELSE 0
           funded == IF old.isDirectPaymentFromUser THEN 0 ELSE amount
<1>10. /\ Escrow(new) - Escrow(old) = 0 - (stake + direct)
       /\ UserShare(new) - UserShare(old) = 0 - stake
       /\ new.providerWithdrawnAmount - old.providerWithdrawnAmount = amount
  <2>1. /\ Escrow(old) = old.stake - (IF old.isDirectPaymentFromUser
                                      THEN old.providerWithdrawnAmount ELSE 0)
        /\ UserShare(old) = old.stake
    BY <1>1 DEF Escrow, UserShare
  <2>2. /\ Escrow(new) = IF old.isDirectPaymentFromUser
                         THEN FinalRewards(closed)
                                - (old.providerWithdrawnAmount + amount)
                         ELSE 0
        /\ UserShare(new) = IF old.isDirectPaymentFromUser
                            THEN FinalRewards(closed) ELSE 0
    BY <1>7, <1>8 DEF Escrow, UserShare
  <2>3. QED
    BY <1>7, <1>8, <1>9, <2>1, <2>2
<1>11. LET more == new.providerWithdrawnAmount - old.providerWithdrawnAmount IN
       /\ Escrowed' = Escrowed + (Escrow(new) - Escrow(old))
       /\ PaidInAll' = PaidInAll + more
       /\ PaidByFund' = PaidByFund +
            (IF old.isDirectPaymentFromUser THEN 0 ELSE more)
       /\ \A u : StakedOrSpentBy(u)' = StakedOrSpentBy(u) +
            (IF old.user = u THEN UserShare(new) - UserShare(old) ELSE 0)
  <2>1. /\ sessions' = [sessions EXCEPT ![s] = new]
        /\ new.user = sessions[s].user /\ new.bidId = sessions[s].bidId
        /\ new.isDirectPaymentFromUser = sessions[s].isDirectPaymentFromUser
    BY <1>1, <1>6, <1>7
  <2>2. UNCHANGED sessionNonce
    BY <1>3
  <2>3. old = sessions[s]
    BY <1>1
  <2>4. QED
    BY <2>1, <2>2, <2>3, ColumnsChanged
<1>12. direct \in Nat /\ funded \in Nat
  OBVIOUS
<1>13. /\ Escrowed' = Escrowed - (stake + direct)
       /\ PaidInAll' = PaidInAll + amount
       /\ PaidByFund' = PaidByFund + funded
       /\ \A u : StakedOrSpentBy(u)' = StakedOrSpentBy(u)
                   - (IF old.user = u THEN stake ELSE 0)
  <2>1. Escrowed \in Int /\ \A u : StakedOrSpentBy(u) \in Int
    BY MoneyTypes
  <2>2. QED
    BY <1>10, <1>11, <1>12, <2>1
<1>14. Owed' = Owed
  BY <1>1, <1>3, PayProviderStake, OwedKept
<1>15. /\ TotalAmount(userStakesOnHold)'
            = TotalAmount(userStakesOnHold) + lock
       /\ \A u : TotalAmount(HoldsOf(u))' = TotalAmount(HoldsOf(u))
                   + (IF old.user = u THEN lock ELSE 0)
  <2>0. PICK hold : hold = [user |-> old.user, session |-> s,
                            amount |-> lock, releaseAt |-> ReleaseAt(closed)]
    OBVIOUS
  <2>1. /\ hold = [user |-> old.user, session |-> s,
                   amount |-> lock, releaseAt |-> ReleaseAt(closed)]
        /\ hold.user = old.user /\ hold.amount = lock /\ hold.session = s
    BY <2>0
  <2>2. hold \notin userStakesOnHold
    BY <1>1, <2>1, SessionBasics
  <2>3. CASE lock = 0
    <3>1. userStakesOnHold' = userStakesOnHold
      BY <1>3, <1>4, <2>3
    <3>2. QED
      BY <2>3, <3>1, HoldsKept, MoneyTypes
  <2>4. CASE lock # 0
    <3>1. userStakesOnHold' = userStakesOnHold \union {hold}
      BY <1>2, <1>3, <1>4, <2>1, <2>4
    <3>2. TotalAmount(userStakesOnHold)'
            = TotalAmount(userStakesOnHold \union {hold})
      BY <3>1 DEF TotalAmount
    <3>3. TotalAmount(userStakesOnHold \union {hold})
            = TotalAmount(userStakesOnHold) + lock
      BY <2>1, <2>2, AmountAdded, MoneyTypes
    <3>4. ASSUME NEW u
          PROVE  TotalAmount(HoldsOf(u))' = TotalAmount(HoldsOf(u))
                   + (IF old.user = u THEN lock ELSE 0)
      <4>1. CASE old.user = u
        <5>1. PICK mine : mine = HoldsOf(u)
          OBVIOUS
        <5>2. HoldsOf(u)' = mine \union {hold} /\ hold \notin mine
          BY <2>1, <2>2, <3>1, <4>1, <5>1 DEF HoldsOf
        <5>3. Amounts(mine)
          BY <5>1, MoneyTypes
        <5>4. TotalAmount(mine \union {hold}) = TotalAmount(mine) + lock
          BY <2>1, <5>2, <5>3, AmountAdded
        <5>5. TotalAmount(HoldsOf(u))' = TotalAmount(mine \union {hold})
          BY <5>2 DEF TotalAmount
        <5>6. QED
          BY <4>1, <5>1, <5>4, <5>5
      <4>2. CASE old.user # u
        <5>1. HoldsOf(u)' = HoldsOf(u)
          BY <2>1, <3>1, <4>2 DEF HoldsOf
        <5>2. TotalAmount(HoldsOf(u))' = TotalAmount(HoldsOf(u))
          BY <5>1 DEF TotalAmount
        <5>3. QED
          BY <4>2, <5>2, MoneyTypes
      <4>3. QED
        BY <4>1, <4>2
    <3>5. QED
      BY <3>2, <3>3, <3>4
  <2>5. QED
    BY <2>3, <2>4
<1>16. /\ Payer(closed) \in {Diamond, FundingAccount}
       /\ BidProvider(closed.bidId) \in Accounts
       /\ BidProvider(closed.bidId) \notin {Diamond, FundingAccount}
       /\ old.user \in Accounts /\ old.user \notin {Diamond, FundingAccount}
       /\ Diamond \in Accounts /\ FundingAccount \in Accounts
       /\ Diamond # FundingAccount
       /\ \A u \in OnlyUsers : /\ u \in Accounts
                               /\ u # BidProvider(closed.bidId)
                               /\ u \notin {Diamond, FundingAccount}
       /\ balance \in [Accounts -> Nat]
  BY <1>6, <1>8, Parties DEF MoneyBooked, Payer
<1>17. /\ ledger \in [Accounts -> Nat]
       /\ ledger[Diamond] = balance[Diamond] - refund
       /\ ledger[old.user] = balance[old.user] + refund
       /\ \A a \in Accounts \ {Diamond, old.user} : ledger[a] = balance[a]
  BY <1>2, <1>3, <1>4, <1>5, <1>16, PayEffect
<1>18. /\ balance' \in [Accounts -> Nat]
       /\ balance'[Payer(closed)] = ledger[Payer(closed)] - amount
       /\ \A a \in Accounts \ {Payer(closed), BidProvider(closed.bidId)} :
            balance'[a] = ledger[a]
  BY <1>6, <1>16, <1>17, PayEffect
<1>19. /\ balance'[Diamond] = balance[Diamond] - refund - direct
       /\ balance'[FundingAccount] = balance[FundingAccount] - funded
       /\ \A u \in OnlyUsers : balance'[u] = balance[u]
            + (IF old.user = u THEN refund ELSE 0)
  <2>1. \A a \in Accounts : balance[a] \in Nat
    BY <1>16
  <2>2. \A u \in OnlyUsers : ledger[u] = balance[u]
            + (IF old.user = u THEN refund ELSE 0)
    BY <1>16, <1>17, <2>1
  <2>3. \A u \in OnlyUsers : balance'[u] = ledger[u]
    BY <1>16, <1>18
  <2>4. /\ ledger[Diamond] = balance[Diamond] - refund
        /\ ledger[FundingAccount] = balance[FundingAccount]
    BY <1>16, <1>17
  <2>5. CASE old.isDirectPaymentFromUser
    <3>1. Payer(closed) = Diamond
      BY <1>2, <2>5 DEF Payer
    <3>2. QED
      BY <1>16, <1>18, <2>1, <2>2, <2>3, <2>4, <2>5, <3>1
  <2>6. CASE ~old.isDirectPaymentFromUser
    <3>1. Payer(closed) = FundingAccount
      BY <1>2, <2>6 DEF Payer
    <3>2. QED
      BY <1>16, <1>18, <2>1, <2>2, <2>3, <2>4, <2>6, <3>1
  <2>7. QED
    BY <2>5, <2>6
<1> HIDE DEF direct, funded
<1>20. Solvency'
  <2>1. balance[Diamond] = Owed + Escrowed + TotalAmount(userStakesOnHold)
    BY DEF MoneyBooked, Solvency, Owed
  <2>2. balance'[Diamond]
          = Owed' + Escrowed' + TotalAmount(userStakesOnHold)'
    <3>1. /\ Owed \in Nat /\ Escrowed \in Int
          /\ TotalAmount(userStakesOnHold) \in Nat
      BY MoneyTypes
    <3>2. QED
      BY <1>4, <1>12, <1>13, <1>14, <1>15, <1>19, <2>1, <3>1
  <2>3. QED
    BY <2>2 DEF Solvency, Owed
<1>21. UserWholeness'
  <2> SUFFICES ASSUME NEW u \in OnlyUsers
               PROVE  InitialBalance[u] = balance'[u] + StakedOrSpentBy(u)'
                                            + TotalAmount(HoldsOf(u))'
    BY DEF UserWholeness, OnlyUsers
  <2>1. InitialBalance[u] = balance[u] + StakedOrSpentBy(u)
                              + TotalAmount(HoldsOf(u))
    BY DEF MoneyBooked, UserWholeness
  <2>2. /\ balance[u] \in Nat /\ StakedOrSpentBy(u) \in Int
        /\ TotalAmount(HoldsOf(u)) \in Nat
    BY <1>16, MoneyTypes
  <2>3. QED
    BY <1>4, <1>13, <1>15, <1>19, <2>1, <2>2
<1>22. ClaimsAddUp'
  <2>1. /\ providersTotalClaimed = PaidInAll
        /\ InitialBalance[FundingAccount] - balance[FundingAccount] = PaidByFund
    BY DEF MoneyBooked, ClaimsAddUp
  <2>2. /\ InitialBalance[FundingAccount] \in Nat
        /\ balance[FundingAccount] \in Nat
    BY <1>16, MoneyTypes
  <2>3. /\ providersTotalClaimed' = PaidInAll'
        /\ InitialBalance[FundingAccount] - balance'[FundingAccount]
             = PaidByFund'
    BY <1>6, <1>12, <1>13, <1>19, <2>1, <2>2
  <2>4. QED
    BY <2>3 DEF ClaimsAddUp
<1>23. QED
  BY <1>18, <1>20, <1>21, <1>22 DEF MoneyBooked

\* Withdrawing pays out what is taken off the holds.
LEMMA WithdrawUserStakesMoney ==
  ASSUME SessionInv, MoneyBooked, [Next]_vars,
         NEW user \in Users, NEW iterations \in Iterations,
         WithdrawUserStakes(user, iterations)
  PROVE  MoneyBooked'
<1>1. PICK taken \in SUBSET Matured(user) :
        /\ CanPay(balance, Diamond, TotalAmount(taken))
        /\ balance' = Pay(balance, Diamond, user, TotalAmount(taken))
        /\ userStakesOnHold' = userStakesOnHold \ taken
        /\ providers' = providers /\ models' = models /\ market' = market
        /\ UNCHANGED <<sessionNonce, sessions, providersTotalClaimed>>
  BY DEF WithdrawUserStakes, providerVars, modelVars
<1>2. PICK all : all = userStakesOnHold
  OBVIOUS
<1>3. /\ Amounts(all) /\ taken \subseteq all
      /\ \A hold \in taken : hold.user = user
  BY <1>1, <1>2, MoneyTypes DEF Matured
<1>4. PICK amount \in Nat : amount = TotalAmount(taken)
  BY <1>3, AmountTaken, AmountNat
<1>5. TotalAmount(userStakesOnHold)' = TotalAmount(userStakesOnHold) - amount
  <2>1. TotalAmount(userStakesOnHold)' = TotalAmount(all \ taken)
    BY <1>1, <1>2 DEF TotalAmount
  <2>2. /\ TotalAmount(all) = amount + TotalAmount(all \ taken)
        /\ TotalAmount(all \ taken) \in Nat
    BY <1>3, <1>4, AmountTaken, AmountNat
  <2>3. QED
    BY <1>2, <2>1, <2>2
<1>6. ASSUME NEW u
      PROVE  TotalAmount(HoldsOf(u))' = TotalAmount(HoldsOf(u))
               - (IF u = user THEN amount ELSE 0)
  <2>1. PICK mine : mine = HoldsOf(u)
    OBVIOUS
  <2>2. CASE u = user
    <3>1. taken \subseteq mine /\ HoldsOf(u)' = mine \ taken
      BY <1>1, <1>2, <1>3, <2>1, <2>2 DEF HoldsOf
    <3>2. TotalAmount(HoldsOf(u))' = TotalAmount(mine \ taken)
      BY <3>1 DEF TotalAmount
    <3>3. Amounts(mine)
      BY <2>1, MoneyTypes
    <3>4. /\ TotalAmount(mine) = amount + TotalAmount(mine \ taken)
          /\ TotalAmount(mine \ taken) \in Nat
      BY <1>4, <3>1, <3>3, AmountTaken, AmountNat
    <3>5. QED
      BY <2>1, <2>2, <3>2, <3>4
  <2>3. CASE u # user
    <3>1. HoldsOf(u)' = HoldsOf(u)
      BY <1>1, <1>2, <1>3, <2>3 DEF HoldsOf
    <3>2. TotalAmount(HoldsOf(u))' = TotalAmount(HoldsOf(u))
      BY <3>1 DEF TotalAmount
    <3>3. QED
      BY <2>3, <3>2, MoneyTypes
  <2>4. QED
    BY <2>2, <2>3
<1>7. /\ Escrowed' = Escrowed
      /\ PaidInAll' = PaidInAll /\ PaidByFund' = PaidByFund
      /\ \A u : StakedOrSpentBy(u)' = StakedOrSpentBy(u)
  BY <1>1, ColumnsKept
<1>8. Owed' = Owed
  BY <1>1, OwedKept
<1>9. /\ user \in Accounts /\ Diamond \in Accounts /\ user # Diamond
      /\ FundingAccount \in Accounts /\ user # FundingAccount
      /\ Diamond # FundingAccount
      /\ \A u \in OnlyUsers : u \in Accounts /\ u # Diamond
      /\ balance \in [Accounts -> Nat]
  BY Parties DEF MoneyBooked
<1>10. /\ balance' \in [Accounts -> Nat]
       /\ balance'[user] = balance[user] + amount
       /\ balance'[Diamond] = balance[Diamond] - amount
       /\ \A a \in Accounts \ {user, Diamond} : balance'[a] = balance[a]
  BY <1>1, <1>4, <1>9, PayEffect
<1>11. Solvency'
  <2>1. balance[Diamond] = Owed + Escrowed + TotalAmount(userStakesOnHold)
    BY DEF MoneyBooked, Solvency, Owed
  <2>2. balance'[Diamond]
          = Owed' + Escrowed' + TotalAmount(userStakesOnHold)'
    BY <1>5, <1>7, <1>8, <1>10, <2>1, MoneyTypes
  <2>3. QED
    BY <2>2 DEF Solvency, Owed
<1>12. UserWholeness'
  <2> SUFFICES ASSUME NEW u \in OnlyUsers
               PROVE  InitialBalance[u] = balance'[u] + StakedOrSpentBy(u)'
                                            + TotalAmount(HoldsOf(u))'
    BY DEF UserWholeness, OnlyUsers
  <2>1. InitialBalance[u] = balance[u] + StakedOrSpentBy(u)
                              + TotalAmount(HoldsOf(u))
    BY DEF MoneyBooked, UserWholeness
  <2>2. balance'[u] = balance[u] + (IF u = user THEN amount ELSE 0)
    BY <1>9, <1>10
  <2>3. balance[u] \in Nat /\ StakedOrSpentBy(u) \in Int
        /\ TotalAmount(HoldsOf(u)) \in Nat
    BY <1>9, MoneyTypes
  <2>4. QED
    BY <1>6, <1>7, <2>1, <2>2, <2>3
<1>13. ClaimsAddUp'
  BY <1>1, <1>7, <1>9, <1>10 DEF MoneyBooked, ClaimsAddUp
<1>14. QED
  BY <1>10, <1>11, <1>12, <1>13 DEF MoneyBooked

\* A step that touches no balance and no books.
LEMMA QuietMoney ==
  ASSUME SessionInv, MoneyBooked, [Next]_vars,
         UNCHANGED <<balance, providers, models, market, sessionVars>>
  PROVE  MoneyBooked'
<1>1. /\ UNCHANGED <<sessionNonce, sessions, userStakesOnHold,
                     providersTotalClaimed>>
      /\ balance' = balance
  BY DEF sessionVars
<1>2. Owed' = Owed
  BY OwedKept
<1>3. FeeRecipient \in RegisteredParties
  BY DEF RegisteredParties
<1>4. QED
  BY <1>1, <1>2, <1>3, RegistryMoney

LEMMA NextMoneyBooked ==
  ASSUME SessionInv, MoneyBooked, [Next]_vars
  PROVE  MoneyBooked'
<1>1. CASE UNCHANGED vars
  BY <1>1, QuietMoney DEF vars, providerVars, modelVars
<1>2. CASE Tick
  BY <1>2, QuietMoney DEF Tick, providerVars, modelVars
<1>3. CASE ProviderRegistryNext \/ ModelRegistryNext \/ MarketplaceNext
  BY <1>3, ProviderRegistryMoney, ModelRegistryMoney, MarketplaceMoney
<1>4. CASE SessionRouterNext
  <2>1. ASSUME NEW user \in Users, NEW amount \in StakeAmounts,
               NEW isDirect \in BOOLEAN, NEW approval \in SignedApprovals,
               OpenSession(user, amount, isDirect, approval)
        PROVE  MoneyBooked'
    BY <2>1, OpenSessionMoney
  <2>2. ASSUME NEW s \in SessionIds, NEW noDispute \in BOOLEAN,
               CloseSession(s, noDispute)
        PROVE  MoneyBooked'
    BY <2>2, CloseSessionMoney
  <2>3. ASSUME NEW s \in SessionIds, ClaimForProvider(s)
        PROVE  MoneyBooked'
    BY <2>3, ClaimForProviderMoney
  <2>4. ASSUME NEW user \in Users, NEW iterations \in Iterations,
               WithdrawUserStakes(user, iterations)
        PROVE  MoneyBooked'
    BY <2>4, WithdrawUserStakesMoney
  <2>5. ASSUME NEW duration, SetMaxSessionDuration(duration)
        PROVE  MoneyBooked'
    BY <2>5, QuietMoney DEF SetMaxSessionDuration, providerVars, modelVars
  <2>6. ASSUME NEW which, NEW schedule, SetPoolConfig(which, schedule)
        PROVE  MoneyBooked'
    BY <2>6, QuietMoney DEF SetPoolConfig, providerVars, modelVars
  <2>7. QED
    BY <1>4, <2>1, <2>2, <2>3, <2>4, <2>5, <2>6 DEF SessionRouterNext
<1>5. QED
  BY <1>1, <1>2, <1>3, <1>4 DEF Next

LEMMA InitMoneyBooked ==
  ASSUME Init
  PROVE  MoneyBooked
<1>1. /\ balance = InitialBalance
      /\ providers = [p \in Providers |-> NoProvider]
      /\ models = [m \in ModelIds |-> [status |-> "none", stake |-> 0]]
      /\ market.feeBalance = 0
      /\ sessionNonce = 0 /\ userStakesOnHold = {}
      /\ providersTotalClaimed = 0
  BY DEF Init, RegistriesInit, MarketplaceInit, SessionRouterInit
<1>2. StakedByProviders = 0
  <2>1. /\ [p \in Providers |-> providers[p].stake] \in [Providers -> Int]
        /\ \A p \in Providers : [q \in Providers |-> providers[q].stake][p] = 0
    BY <1>1 DEF NoProvider
  <2>2. QED
    BY <2>1, SumFunctionZero, FiniteAssumption DEF StakedByProviders
<1>3. StakedOnModels = 0
  <2>1. /\ [m \in ModelIds |-> models[m].stake] \in [ModelIds -> Int]
        /\ \A m \in ModelIds : [n \in ModelIds |-> models[n].stake][m] = 0
    BY <1>1
  <2>2. QED
    BY <2>1, SumFunctionZero, FiniteAssumption DEF StakedOnModels
<1>4. SessionIds = {}
  BY <1>1 DEF SessionIds
<1>5. ASSUME NEW f, NEW S, f \in [S -> Int], S = {}
      PROVE  SumFunction(f) = 0
  BY <1>5, SumFunctionZero, FS_EmptySet
<1>6. Escrowed = 0 /\ PaidInAll = 0 /\ PaidByFund = 0
  <2>1. /\ [s \in SessionIds |-> Escrow(sessions[s])] \in [SessionIds -> Int]
        /\ [s \in SessionIds |-> PaidToProvider(s)] \in [SessionIds -> Int]
        /\ [s \in StipendSessions |-> PaidToProvider(s)]
             \in [StipendSessions -> Int]
        /\ StipendSessions = {}
    BY <1>4 DEF StipendSessions
  <2>2. QED
    BY <1>4, <1>5, <2>1 DEF Escrowed, PaidInAll, PaidByFund
<1>7. \A u : StakedOrSpentBy(u) = 0
  <2> SUFFICES ASSUME NEW u
               PROVE  StakedOrSpentBy(u) = 0
    OBVIOUS
  <2>1. /\ SessionsOf(u) = {}
        /\ [s \in SessionsOf(u) |-> UserShare(sessions[s])]
             \in [SessionsOf(u) -> Int]
    BY <1>4 DEF SessionsOf
  <2>2. QED
    BY <1>5, <2>1 DEF StakedOrSpentBy
<1>8. TotalAmount({}) = 0
  <2>1. [hold \in {} |-> hold.amount] \in [{} -> Int]
    OBVIOUS
  <2>2. QED
    BY <1>5, <2>1 DEF TotalAmount
<1>9. /\ TotalAmount(userStakesOnHold) = 0
      /\ \A u : TotalAmount(HoldsOf(u)) = 0
  <2>1. \A u : HoldsOf(u) = {}
    BY <1>1 DEF HoldsOf
  <2>2. QED
    BY <1>1, <1>8, <2>1
<1>10. balance \in [Accounts -> Nat] /\ balance[Diamond] = 0
  BY <1>1, AccountAssumption
<1>11. Solvency
  BY <1>1, <1>2, <1>3, <1>6, <1>9, <1>10 DEF Solvency
<1>12. UserWholeness
  <2>1. \A u \in OnlyUsers : InitialBalance[u] \in Nat
    BY Parties, AccountAssumption
  <2>2. QED
    BY <1>1, <1>7, <1>9, <2>1 DEF UserWholeness
<1>13. ClaimsAddUp
  <2>1. InitialBalance[FundingAccount] \in Nat
    BY Parties, AccountAssumption
  <2>2. QED
    BY <1>1, <1>6, <2>1 DEF ClaimsAddUp
<1>14. QED
  BY <1>10, <1>11, <1>12, <1>13 DEF MoneyBooked

LEMMA MoneyInvParts ==
  MoneyInv <=> SessionInv /\ MoneyBooked
BY DEF MoneyInv, MoneyBooked, TypeOK, SessionInv, BidsInv, LimiterInv
-----------------------------------------------------------------------------
(* Results *)

\* MoneyInv is inductive.
THEOREM MoneyInvariant == Spec => []MoneyInv
<1>1. Init => MoneyInv
  BY InitSessionInv, InitMoneyBooked, MoneyInvParts
<1>2. MoneyInv /\ [Next]_vars => MoneyInv'
  <2> SUFFICES ASSUME MoneyInv, [Next]_vars
               PROVE  MoneyInv'
    OBVIOUS
  <2>1. SessionInv /\ MoneyBooked
    BY MoneyInvParts
  <2>2. SessionInv' /\ MoneyBooked'
    BY <2>1, NextSessionInv, NextMoneyBooked
  <2>3. QED
    BY <2>2 DEF MoneyInv, MoneyBooked, TypeOK, SessionInv, BidsInv, LimiterInv
<1>3. QED
  BY <1>1, <1>2, PTL DEF Spec

\* Every variable keeps its type: no balance is ever negative.
THEOREM Types == Spec => []TypeOK
<1>1. MoneyInv => TypeOK
  BY DEF MoneyInv
<1>2. QED
  BY <1>1, MoneyInvariant, PTL

\* The contract holds exactly what it owes.
THEOREM Solvent == Spec => []Solvency
<1>1. MoneyInv => Solvency
  BY DEF MoneyInv
<1>2. QED
  BY <1>1, MoneyInvariant, PTL

\* Opening, closing, claiming and withdrawing in any order neither cost a user
\* more than the time its direct sessions lasted nor pay it what is another's.
THEOREM UsersWhole == Spec => []UserWholeness
<1>1. MoneyInv => UserWholeness
  BY DEF MoneyInv
<1>2. QED
  BY <1>1, MoneyInvariant, PTL

\* The claimed total and the funding account agree with the sessions.
THEOREM ClaimsBooked == Spec => []ClaimsAddUp
<1>1. MoneyInv => ClaimsAddUp
  BY DEF MoneyInv
<1>2. QED
  BY <1>1, MoneyInvariant, PTL
-----------------------------------------------------------------------------
(* Closing *)

\* What the contract holds for a session is never negative.
LEMMA EscrowNat ==
  ASSUME SessionInv, NEW s \in SessionIds
  PROVE  Escrow(sessions[s]) \in Nat
<1>1. PICK session \in SessionRecords :
        session = sessions[s] /\ SessionOK(session) /\ LimiterInv
  BY SessionBasics
<1>2. /\ session.stake \in Nat /\ session.providerWithdrawnAmount \in Nat
      /\ session.openedAt \in Nat /\ session.endsAt \in Nat
      /\ FinalRewards(session) \in Int
      /\ session.isDirectPaymentFromUser \in BOOLEAN
      /\ session.providerWithdrawnAmount <= FinalRewards(session)
  BY <1>1, RecordTypes DEF SessionOK, PaidForTime
<1>3. session.closedAt = 0 /\ session.isDirectPaymentFromUser =>
        FinalRewards(session) <= session.stake
  BY <1>1 DEF SessionOK, SessionSound, FinalRewards, SessionEnd
<1>4. QED
  BY <1>1, <1>2, <1>3 DEF Escrow

\* The contract holds at least what it holds for one session.
LEMMA EscrowHeld ==
  ASSUME SessionInv, MoneyBooked, NEW s \in SessionIds
  PROVE  Escrow(sessions[s]) <= balance[Diamond]
<1>1. [t \in SessionIds |-> Escrow(sessions[t])] \in [SessionIds -> Nat]
  BY EscrowNat
<1>2. Escrow(sessions[s]) <= Escrowed
  <2> DEFINE f == [t \in SessionIds |-> Escrow(sessions[t])]
  <2>1. f \in [SessionIds -> Nat] /\ f[s] = Escrow(sessions[s])
    BY <1>1
  <2>2. Escrowed = SumFunction(f)
    BY DEF Escrowed
  <2> HIDE DEF f
  <2>3. IsFiniteSet(SessionIds)
    BY SessionBasics
  <2>4. QED
    BY <2>1, <2>2, <2>3, SumFunctionMember
<1>3. balance[Diamond] = Owed + Escrowed + TotalAmount(userStakesOnHold)
  BY DEF MoneyBooked, Solvency, Owed
<1>4. QED
  BY <1>2, <1>3, EscrowNat, MoneyTypes

\* What closing a session divides.
LEMMA CloseDivides ==
  ASSUME SessionInv, MoneyBooked, NEW s \in SessionIds,
         NEW noDispute \in BOOLEAN, sessions[s].closedAt = 0
  PROVE  LET session == Closed(s, noDispute) IN
         /\ UserStake(session) \in Nat
         /\ DueAtClose(session, noDispute) \in Nat
         /\ balance[Diamond] >= UserStake(session)
         /\ session.isDirectPaymentFromUser =>
              balance[Diamond]
                >= UserStake(session) + DueAtClose(session, noDispute)
         /\ BidProvider(session.bidId) \in Providers
         /\ session \in SessionRecords
<1>1. PICK old \in SessionRecords :
        old = sessions[s] /\ SessionOK(old) /\ LimiterInv /\ ~IsClosed(s)
  BY SessionBasics DEF IsClosed
<1>2. PICK closed \in SessionRecords :
        /\ closed = Closed(s, noDispute)
        /\ closed.bidId = old.bidId /\ closed.stake = old.stake
        /\ closed.isDirectPaymentFromUser = old.isDirectPaymentFromUser
        /\ closed.openedAt = old.openedAt /\ closed.endsAt = old.endsAt
        /\ closed.closedAt = now
        /\ closed.providerWithdrawnAmount = old.providerWithdrawnAmount
        /\ SessionEnd(closed) <= now
        /\ PaidForTime(closed)
  BY <1>1, ClosedOK
<1>3. /\ old.openedAt \in Nat /\ old.endsAt \in Nat /\ now \in Nat /\ now # 0
      /\ old.stake \in Nat /\ old.isDirectPaymentFromUser \in BOOLEAN
      /\ old.providerWithdrawnAmount \in Nat
      /\ PricePerSecond(old.bidId) \in Nat
      /\ SessionEnd(closed) \in Nat
      /\ FinalRewards(closed) \in Int
      /\ BidProvider(old.bidId) \in Providers
  <2>1. /\ old.openedAt \in Nat /\ old.endsAt \in Nat
        /\ now \in Nat /\ now # 0
        /\ old.stake \in Nat /\ old.isDirectPaymentFromUser \in BOOLEAN
        /\ old.providerWithdrawnAmount \in Nat
        /\ PricePerSecond(old.bidId) \in Nat /\ old.bidId \in BidIds
    BY <1>1, RecordTypes, TimeAssumption
  <2>2. SessionEnd(closed) \in Nat /\ FinalRewards(closed) \in Int
    BY <1>1, <1>2, RecordTypes
  <2>3. QED
    BY <2>1, <2>2, BidParts
<1>4. PICK price \in Nat : price = PricePerSecond(old.bidId)
  BY <1>3
<1>5. /\ SessionEnd(old) = old.endsAt
      /\ SessionEnd(closed) = MinOf(now, old.endsAt)
      /\ FinalRewards(closed) = (SessionEnd(closed) - old.openedAt) * price
  BY <1>1, <1>2, <1>3, <1>4 DEF SessionEnd, FinalRewards, IsClosed
<1>6. /\ GetProviderRewards(closed) = FinalRewards(closed)
      /\ GetUnpaidProviderRewards(closed)
           = FinalRewards(closed) - old.providerWithdrawnAmount
      /\ old.providerWithdrawnAmount <= FinalRewards(closed)
  BY <1>2, <1>3
  DEF GetProviderRewards, GetUnpaidProviderRewards, FinalRewards, PaidForTime
<1>7. old.isDirectPaymentFromUser => FinalRewards(closed) <= old.stake
  <2>1. (SessionEnd(closed) - old.openedAt) * price
          <= (old.endsAt - old.openedAt) * price
    <3>1. SessionEnd(closed) - old.openedAt <= old.endsAt - old.openedAt
      BY <1>3, <1>5 DEF MinOf
    <3>2. /\ SessionEnd(closed) - old.openedAt \in Int
          /\ old.endsAt - old.openedAt \in Int
      BY <1>3
    <3>3. QED
      BY <3>1, <3>2, ProductMonotone
  <2>2. old.isDirectPaymentFromUser =>
          (old.endsAt - old.openedAt) * price <= old.stake
    BY <1>1, <1>4 DEF SessionOK, SessionSound
  <2>3. (old.endsAt - old.openedAt) * price \in Int
    BY <1>3, ProductInt
  <2>4. QED
    BY <1>3, <1>5, <2>1, <2>2, <2>3
<1>8. UserStake(closed) = old.stake - (IF old.isDirectPaymentFromUser
                                       THEN FinalRewards(closed) ELSE 0)
  BY <1>2, <1>6 DEF UserStake
<1>9. UserStake(closed) \in Nat
  BY <1>3, <1>7, <1>8
<1>10. /\ DueAtClose(closed, noDispute) \in Nat
       /\ DueAtClose(closed, noDispute)
            <= FinalRewards(closed) - old.providerWithdrawnAmount
  <2>1. CASE ~noDispute /\ now < old.endsAt
    <3>1. old.providerWithdrawnAmount = 0
      BY <1>1, <1>5, <2>1 DEF SessionOK, PaidForTime
    <3>2. /\ SessionEnd(closed) = now
          /\ FinalRewards(closed) = (now - old.openedAt) * price
      BY <1>3, <1>5, <2>1 DEF MinOf
    <3>3. PICK start \in Nat : start = StartOfTheDay(now)
      BY <1>3, DayStart
    <3>4. now < start + DAY
      BY <1>3, <3>3, DayStart
    <3>5. GetProviderOnHoldAmount(closed)
            = (now - MaxOf(start, old.openedAt)) * price
      BY <1>2, <1>3, <1>4, <3>3, <3>4, TimeAssumption
      DEF GetProviderOnHoldAmount
    <3>6. (now - MaxOf(start, old.openedAt)) * price
            <= (now - old.openedAt) * price
      <4>1. /\ now - MaxOf(start, old.openedAt) \in Int
            /\ now - old.openedAt \in Int
            /\ now - MaxOf(start, old.openedAt) <= now - old.openedAt
        BY <1>3 DEF MaxOf
      <4>2. QED
        BY <4>1, ProductMonotone
    <3>7. DueAtClose(closed, noDispute)
            = (now - old.openedAt) * price
                - (now - MaxOf(start, old.openedAt)) * price
      BY <1>2, <1>3, <1>6, <2>1, <3>1, <3>2, <3>5 DEF DueAtClose
    <3>8. /\ (now - old.openedAt) * price \in Int
          /\ (now - MaxOf(start, old.openedAt)) * price \in Nat
      <4>1. start <= now /\ old.openedAt <= now
        BY <1>1, <1>3, <3>3, DayStart DEF SessionOK, SessionSound
      <4>2. now - MaxOf(start, old.openedAt) \in Nat
        BY <1>3, <4>1 DEF MaxOf
      <4>3. QED
        BY <1>3, <4>2, ProductInt, ProductNat
    <3>9. QED
      BY <3>1, <3>2, <3>6, <3>7, <3>8
  <2>2. CASE ~(~noDispute /\ now < old.endsAt)
    BY <1>2, <1>3, <1>6, <2>2 DEF DueAtClose
  <2>3. QED
    BY <2>1, <2>2
<1>11. /\ balance[Diamond] >= UserStake(closed)
       /\ closed.isDirectPaymentFromUser =>
            balance[Diamond]
              >= UserStake(closed) + DueAtClose(closed, noDispute)
  <2>1. Escrow(old) = old.stake - (IF old.isDirectPaymentFromUser
                                   THEN old.providerWithdrawnAmount ELSE 0)
    BY <1>1 DEF Escrow, IsClosed
  <2>2. UserStake(closed) <= Escrow(old)
    BY <1>3, <1>6, <1>8, <2>1
  <2>3. Escrow(old) <= balance[Diamond] /\ Escrow(old) \in Nat
    BY <1>1, EscrowHeld, EscrowNat
  <2>4. balance[Diamond] \in Nat
    BY MoneyTypes, Parties
  <2>5. old.isDirectPaymentFromUser =>
          UserStake(closed) + DueAtClose(closed, noDispute) <= Escrow(old)
    BY <1>3, <1>8, <1>10, <2>1
  <2>6. QED
    BY <1>2, <1>9, <1>10, <2>2, <2>3, <2>4, <2>5
<1>12. QED
  BY <1>2, <1>3, <1>9, <1>10, <1>11

\* A provider may always claim something: what it earned in a limiter period
\* is at most its stake.
LEMMA ClaimLimitNat ==
  ASSUME LimiterInv, NEW p \in Providers
  PROVE  ClaimLimit(p) \in Nat
<1>1. providers[p] \in ProviderRecords /\ now \in Nat
  BY TimeAssumption
  DEF LimiterInv, StorageTypeOK, RegistryTypeOK, SessionTypeOK, Times
<1>2. now <= providers[p].limitPeriodEnd
        => providers[p].limitPeriodEarned <= providers[p].stake
  BY DEF LimiterInv, RewardLimiter
<1>3. QED
  BY <1>1, <1>2 DEF ClaimLimit, LimiterAt, ProviderRecords

\* The user of an open session can close it at any time, whatever was claimed
\* before, as far as the diamond's own books go (closeSession,
\* _rewardUserAfterClose, _rewardProviderAfterClose and _claimForProvider): no
\* subtraction of theirs reverts, and the diamond holds the user's part and
\* what it pays the provider itself.  Nothing is said of the funding account's
\* transfer and of the subtraction in getComputeBalance.
THEOREM ClosingPossible == Spec => []ClosingNeverReverts
<1>1. MoneyInv => ClosingNeverReverts
  <2> SUFFICES ASSUME MoneyInv, NEW s \in SessionIds,
                      NEW noDispute \in BOOLEAN, sessions[s].closedAt = 0
               PROVE  LET session == Closed(s, noDispute)
                          provider == BidProvider(session.bidId)
                          due == DueAtClose(session, noDispute)
                          paidByDiamond ==
                            IF session.isDirectPaymentFromUser
                            THEN LimitedAmount(provider, due) ELSE 0
                      IN
                      /\ UserStake(session) >= 0
                      /\ due >= 0
                      /\ ClaimLimit(provider) >= 0
                      /\ balance[Diamond] >= UserStake(session)
                                              + paidByDiamond
    BY DEF ClosingNeverReverts
  <2>1. SessionInv /\ MoneyBooked /\ LimiterInv
    BY MoneyInvParts, SessionBasics
  <2>2. PICK closed \in SessionRecords :
          /\ closed = Closed(s, noDispute)
          /\ UserStake(closed) \in Nat
          /\ DueAtClose(closed, noDispute) \in Nat
          /\ balance[Diamond] >= UserStake(closed)
          /\ closed.isDirectPaymentFromUser =>
               balance[Diamond]
                 >= UserStake(closed) + DueAtClose(closed, noDispute)
          /\ BidProvider(closed.bidId) \in Providers
    BY <2>1, CloseDivides
  <2>3. PICK provider \in Providers : provider = BidProvider(closed.bidId)
    BY <2>2
  <2>4. PICK due \in Nat : due = DueAtClose(closed, noDispute)
    BY <2>2
  <2>5. ClaimLimit(provider) \in Nat /\ LimitedAmount(provider, due) \in Nat
        /\ LimitedAmount(provider, due) <= due
    BY <2>1, ClaimLimitNat DEF LimitedAmount, MinOf
  <2>6. balance[Diamond] \in Nat
    BY <2>1, MoneyTypes, Parties
  <2>7. balance[Diamond]
          >= UserStake(closed) + (IF closed.isDirectPaymentFromUser
                                  THEN LimitedAmount(provider, due) ELSE 0)
    BY <2>2, <2>4, <2>5, <2>6
  <2>8. QED
    BY <2>2, <2>3, <2>4, <2>5, <2>7
<1>2. QED
  BY <1>1, MoneyInvariant, PTL
=============================================================================
