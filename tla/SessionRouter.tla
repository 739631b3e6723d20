--------------------------- MODULE SessionRouter ---------------------------
(***************************************************************************)
(* The SessionRouter facet.  A user opens a session by staking MOR: with a *)
(* stipend session the stake only entitles the user to a share of the      *)
(* day's compute budget and the provider is paid by the funding account;   *)
(* with a direct payment the stake itself pays the provider.  Closing      *)
(* splits the stake between the user (now, or on hold until the day is     *)
(* over) and the provider, whose rewards are capped by its own stake.      *)
(*                                                                         *)
(* Authorisation (_validateDelegatee, the signature recovery) only decides *)
(* which calls come in, so a call is always an authorised one; whether the *)
(* provider signed the closing receipt is the parameter noDispute.  A      *)
(* receipt carries a timestamp of its author's choosing, so that its       *)
(* expiry never keeps a user from closing and is not modelled.             *)
(***************************************************************************)
EXTENDS DiamondStorage, Functions

CONSTANTS
  StakeAmounts,         \* amounts a user may stake in one call
  Iterations,           \* values of withdrawUserStakes' iterations_
  SessionDurations,     \* values the owner may set as the longest session
  ComputeSchedules,     \* what the compute pool may have distributed by day
  OtherSchedules        \* what the other pools may have distributed by day

Schedules == [Days -> Nat]

ASSUME SessionInputAssumption ==
  /\ StakeAmounts \subseteq Nat
  /\ Iterations \subseteq Nat
  /\ SessionDurations \subseteq Nat
  /\ ComputeSchedules \subseteq Schedules
  /\ OtherSchedules \subseteq Schedules

\* A provider signs an approval for a bid and a user at a time.  The user is
\* decoded and dropped by _extractProviderApproval, so it only tells
\* approvals apart.
Approvals == [bid : BidIds, user : Users, timestamp : Times]
-----------------------------------------------------------------------------
(* The compute budget *)

DayOf(t) == t \div DAY

\* getComputeBalance: negative stands for the subtraction's revert.
GetComputeBalance(t) == pools.compute[DayOf(t)] - providersTotalClaimed

\* totalMORSupply
TotalMORSupply(t) == pools.others[DayOf(t)] + providersTotalClaimed

\* stakeToStipend
StakeToStipend(amount, t) ==
  IF TotalMORSupply(t) = 0 THEN 0
  ELSE (amount * GetComputeBalance(t)) \div (TotalMORSupply(t) * BUDGET_DIVISOR)

\* stipendToStake
StipendToStake(stipend, t) ==
  IF GetComputeBalance(t) = 0 THEN 0
  ELSE (stipend * TotalMORSupply(t) * BUDGET_DIVISOR) \div GetComputeBalance(t)

\* getSessionEnd
GetSessionEnd(amount, price, openedAt) ==
  openedAt + MinOf(StakeToStipend(amount, openedAt) \div price,
                   maxSessionDuration)
-----------------------------------------------------------------------------
(* What a session owes, as functions of its record *)

\* When the session stopped consuming compute.
SessionEnd(session) ==
  IF session.closedAt = 0 THEN session.endsAt
  ELSE MinOf(session.closedAt, session.endsAt)

\* _getProviderRewards(session, bid, false)
GetProviderRewards(session) ==
  IF now < SessionEnd(session) THEN 0
  ELSE (SessionEnd(session) - session.openedAt)
         * PricePerSecond(session.bidId)

\* _getProviderRewards(session, bid, true)
GetUnpaidTwice(session) == GetProviderRewards(session)  \* mutant
GetUnpaidProviderRewards(session) ==
  IF now < SessionEnd(session) THEN 0
  ELSE GetProviderRewards(session) - session.providerWithdrawnAmount

\* _getProviderOnHoldAmount (zero for a session that was not closed, since
\* its closedAt of zero is more than a day ago)
GetNothingOnHold(session) ==                            \* mutant
  LET startOfClosedAt == StartOfTheDay(session.closedAt) IN
  IF now >= startOfClosedAt THEN 0
  ELSE (session.closedAt - MaxOf(startOfClosedAt, session.openedAt))
         * PricePerSecond(session.bidId)
GetProviderOnHoldAmount(session) ==
  LET startOfClosedAt == StartOfTheDay(session.closedAt) IN
  IF now >= startOfClosedAt + DAY THEN 0
  ELSE (session.closedAt - MaxOf(startOfClosedAt, session.openedAt))
         * PricePerSecond(session.bidId)

\* The start of the day in which the session ended, and the next day's.
StartOfEndDay(session) == StartOfTheDay(SessionEnd(session))
ReleaseAt(session) == StartOfEndDay(session) + DAY

\* The parts of _rewardUserAfterClose that split the stake.
WholeStake(session) == session.stake                    \* mutant
UserStake(session) ==
  session.stake - (IF session.isDirectPaymentFromUser
                   THEN GetProviderRewards(session) ELSE 0)
UserStakeToLock(session) ==
  LET duration == SessionEnd(session)
                    - MaxOf(session.openedAt, StartOfEndDay(session))
  IN
  IF now >= ReleaseAt(session) THEN 0
  ELSE MinOf(UserStake(session),
             StipendToStake(duration * PricePerSecond(session.bidId),
                            StartOfEndDay(session)))

WholeRefund(session) == UserStake(session)              \* mutant
Refund(session) == UserStake(session) - UserStakeToLock(session)
-----------------------------------------------------------------------------
(* _claimForProvider *)

\* The provider's record once the limiter period that is over was restarted.
LimiterAt(p) ==
  IF now > providers[p].limitPeriodEnd
  THEN [providers[p] EXCEPT
          !.limitPeriodEnd = now + PROVIDER_REWARD_LIMITER_PERIOD,
          !.limitPeriodEarned = 0]
  ELSE providers[p]

ClaimLimit(p) == LimiterAt(p).stake - LimiterAt(p).limitPeriodEarned

UnlimitedAmount(p, due) == due                          \* mutant
LimitedAmount(p, due) == MinOf(due, ClaimLimit(p))

AlwaysFunded(session) == FundingAccount                 \* mutant
Payer(session) ==
  IF session.isDirectPaymentFromUser THEN Diamond ELSE FundingAccount

\* Pays the provider of session s, whose record is `session', up to `due',
\* out of `ledger'.
PayProvider(s, session, due, ledger) ==
  LET p == BidProvider(session.bidId)
      amount == LimitedAmount(p, due)
  IN
  /\ ClaimLimit(p) >= 0                 \* otherwise the subtraction reverts
  /\ CanPay(ledger, Payer(session), amount)
  /\ providers' = [providers EXCEPT ![p] =
       [LimiterAt(p) EXCEPT !.limitPeriodEarned = @ + amount]]
  /\ sessions' = [sessions EXCEPT ![s] =
       [session EXCEPT !.providerWithdrawnAmount = @ + amount]]
  /\ providersTotalClaimed' = providersTotalClaimed + amount
  /\ balance' = Pay(ledger, Payer(session), p, amount)
-----------------------------------------------------------------------------
(* The transactions *)

IsApprovalIgnored(approval) == FALSE                    \* mutant
IsProviderApprovalUsed(approval) == approval \in isProviderApprovalUsed

\* A direct payment has to be covered by the stake.
CoveredOrNot(isDirect, cost, amount) == TRUE            \* mutant
Covered(isDirect, cost, amount) == isDirect => cost <= amount

\* openSession, with _extractProviderApproval and _validateSession
OpenSession(user, amount, isDirect, approval) ==
  LET b == approval.bid
      endsAt == GetSessionEnd(amount, PricePerSecond(b), now)
  IN
  /\ sessionNonce < MaxSessions         \* bound
  /\ now <= approval.timestamp + SIGNATURE_TTL
  /\ CanPay(balance, user, amount)
  /\ IsBidActive(b)
  /\ ~IsProviderApprovalUsed(approval)
  /\ GetComputeBalance(now) >= 0        \* otherwise the subtraction reverts
  /\ endsAt - now >= MIN_SESSION_DURATION
  /\ Covered(isDirect, (endsAt - now) * PricePerSecond(b), amount)
  /\ balance' = Pay(balance, user, Diamond, amount)
  /\ sessionNonce' = sessionNonce + 1
  /\ sessions' = [s \in 0 .. sessionNonce |->
       IF s \in SessionIds THEN sessions[s]
       ELSE [user |-> user, bidId |-> b, stake |-> amount,
             isDirectPaymentFromUser |-> isDirect,
             openedAt |-> now, endsAt |-> endsAt, closedAt |-> 0,
             closeoutType |-> 0, providerWithdrawnAmount |-> 0]]
  /\ isProviderApprovalUsed' = isProviderApprovalUsed \union {approval}
  /\ UNCHANGED <<now, providerVars, modelVars, bidVars, market, configVars,
                 userStakesOnHold, providersTotalClaimed>>

\* The session's record once closeSession has stamped it (and _setStats has
\* noted a dispute).
Closed(s, noDispute) ==
  [sessions[s] EXCEPT !.closedAt = now,
                      !.closeoutType = IF noDispute THEN 0 ELSE 1]

\* What _rewardProviderAfterClose passes to _claimForProvider: all of the
\* rewards, less the closing day's under a dispute before the end.
DueAtClose(session, noDispute) ==
  GetUnpaidProviderRewards(session)
    - (IF ~noDispute /\ session.closedAt < session.endsAt
       THEN GetProviderOnHoldAmount(session) ELSE 0)

\* closeSession, with _rewardUserAfterClose and _rewardProviderAfterClose
CloseSession(s, noDispute) ==
  LET session == Closed(s, noDispute)
      lock == UserStakeToLock(session)
      refund == Refund(session)
      due == DueAtClose(session, noDispute)
  IN
  /\ ~IsClosed(s)
  /\ UserStake(session) >= 0            \* otherwise a subtraction reverts
  /\ now < ReleaseAt(session) => GetComputeBalance(StartOfEndDay(session)) >= 0
  /\ due >= 0
  /\ CanPay(balance, Diamond, refund)
  /\ userStakesOnHold' = userStakesOnHold \union
       {hold \in {[user |-> session.user, session |-> s, amount |-> lock,
                  releaseAt |-> ReleaseAt(session)]} : lock > 0}
  /\ PayProvider(s, session, due, Pay(balance, Diamond, session.user, refund))
  /\ UNCHANGED <<now, providerMinimumStake, activeProviders, modelVars,
                 bidVars, market, configVars, sessionNonce,
                 isProviderApprovalUsed>>

\* claimForProvider: may be called before the session ends, when it pays
\* nothing but may restart the provider's limiter period.
ClaimForProvider(s) ==
  LET session == sessions[s]
      due == GetUnpaidProviderRewards(session)
               - GetProviderOnHoldAmount(session)
  IN
  /\ due >= 0                           \* otherwise the subtraction reverts
  /\ PayProvider(s, session, due, balance)
  /\ UNCHANGED <<now, providerMinimumStake, activeProviders, modelVars,
                 bidVars, market, configVars, sessionNonce, userStakesOnHold,
                 isProviderApprovalUsed>>

\* The on-hold entries of a user whose release time has come.
AllHolds(user) == {hold \in userStakesOnHold : hold.user = user} \* mutant
Matured(user) ==
  {hold \in userStakesOnHold : hold.user = user /\ now >= hold.releaseAt}

TotalAmount(holds) == SumFunction([hold \in holds |-> hold.amount])

\* withdrawUserStakes: pays out as many matured entries as asked for, or all
\* of them.  A session leaves at most one entry, so the array is a set whose
\* entries name their session; which matured entries are taken when not all
\* are depends on the order of the array, and is left open here.
WithdrawUserStakes(user, iterations) ==
  \E taken \in SUBSET Matured(user) :
    /\ Cardinality(taken) = MinOf(iterations, Cardinality(Matured(user)))
    /\ TotalAmount(taken) # 0
    /\ CanPay(balance, Diamond, TotalAmount(taken))
    /\ balance' = Pay(balance, Diamond, user, TotalAmount(taken))
    /\ userStakesOnHold' = userStakesOnHold \ taken
    /\ UNCHANGED <<now, providerVars, modelVars, bidVars, market, configVars,
                   sessionNonce, sessions, isProviderApprovalUsed,
                   providersTotalClaimed>>

\* setMaxSessionDuration
SetMaxSessionDuration(duration) ==
  /\ duration >= MIN_SESSION_DURATION
  /\ maxSessionDuration' = duration
  /\ UNCHANGED <<now, balance, providerVars, modelVars, bidVars, market, pools,
                 sessionVars>>

\* setPoolConfig, of the compute pool or of another one
SetPoolConfig(which, schedule) ==
  /\ pools' = [pools EXCEPT ![which] = schedule]
  /\ UNCHANGED <<now, balance, providerVars, modelVars, bidVars, market,
                 maxSessionDuration, sessionVars>>
=============================================================================
