# Morpheus Lumerin Node: formal models

TLA+ models of the Morpheus Lumerin Node, a marketplace of AI compute: consumers
stake MOR to open sessions with providers, a diamond contract keeps the money and
the terms, and a Go node (`proxy-router`) on each side opens, serves and closes the
sessions. The modules are translated from the source; TLC checks small instances
and TLAPS proves theorems for every value of the constants. `PROJECT.json` lists
components, runs, the mutants every property must catch, the lines each definition
models, findings, hazards and theorems.

    tlc -workers 2 -config MCSessions.cfg MCLumerinDiamond.tla
    tlapm LumerinDiamondProofs.tla

## 1. The system

| Part | State it keeps | Operations |
|---|---|---|
| Provider registry (facet) | stake, limiter period and its earnings, active set | set minimum, register / top up / register again, deregister |
| Model registry (facet) | stake, owner, active set | set minimum, register, deregister |
| Marketplace (facet) | bids, active bids of each side, bid nonces, fee balance, price bounds | post (replacing), delete, set fee and bounds, withdraw fee |
| Session router (facet) | sessions, stake on hold, used approvals, claimed total, pools | open, close, claim, withdraw, set pools and duration |
| Delegate pool | stakers' stake, rate and rewards, last balance, fee | stake, claim, restake, deregister, close |
| Blockchain service | none of its own; the account's nonce and allowances | open by model with fail-over over providers, close, claim, manage allowances |
| API users ("agents") | record of each agent with its allowances, auth files | request, confirm, remove; ask for, accept, revoke and spend allowances |
| Transaction escalator | one call's attempts, price, submitted transactions | send, wait, check, escalate |
| RPC clients | list of endpoints | retry at the next endpoint, replace the list |
| Log watchers, listener | next block to ask for, or a subscription | poll or subscribe; refresh or remove cached sessions |
| Session cache | sessions, users and activities on disk | get, save, refresh, remove |
| Expiry handler, stake claimer | none | rehydrate at start, each minute close what expired, every ten minutes withdraw |
| Proxy sender (consumer) | a semaphore per session | initiate, prompt, upload |
| Proxy receiver (provider) | capacity policy, activities, a semaphore per session, upload streams | approve a session, assemble uploads, serve prompts |
| Model health checker | report and failure streak of each model | sweep, results of prompts, results of attestations |
| Backend verifier | attestation snapshot of each TEE model | attest, attest again, compare quickly |
| Desktop app, CLI, launcher | processes, settings | supervise, call the node's HTTP interface |

**How they interact.** The facets share one storage and one MOR balance, and the
chain runs their calls one at a time; a call that reverts has no effect. A node reads
the contract through the RPC clients and writes through the escalator; handlers of
HTTP requests, the expiry handler and the stake claimer all send from one account.
Contract events come back by the log watcher, whose events the listener turns into
writes to the session cache. Opens, prompts, the expiry handler and the listener share
that cache, and write back records that they read earlier. Consumer and provider
exchange signed messages over one TCP connection a request; a provider's signed
approval is what `openSession` takes. On the provider, prompts, sweeps and attestations
write one table of health reports, which consumers read when they choose a provider.
The provider pool is itself an account that registers as a provider, whose stake and
rewards flow through the session router.

**What is hard.** On the chain: long sequences of legal calls that share one balance
(top-ups, deregistration within a limiter period, early, late and disputed closes,
partial claims, holds until the end of a day, the owner moving parameters under
running sessions). In the node: concurrent calls of one account, lost answers and
endpoints that disagree, a retry of what happened already, events lost over a failed
request, cached records written back after they were removed, restarts with the storage
or without, connections that end early, prompts left behind by consumers that gave up,
results that come in while a sweep is under way, approvals that reserve nothing.
`PROJECT.json` lists 40 such hazards, each with its line and the properties that would
catch it going wrong, or the reason why none does.

**What makes each part correct.** The contract holds exactly what it owes; users lose
nothing but the price of the time they were served; providers earn at most that
price, at most once, and within their stake; offers are backed; terms do not change
under a session; stake comes back. The pool shares each reward by the stake of the
moment and is never locked. The escalator keeps nonces usable, overlooks no mined
transaction when it looks, and stops. A watcher hands over events in order and once. A
consumer node pays once for a request, keeps every open session in sight until it has
closed it, and forgets it then; it may lose one by a failed read, by a skipped event, and,
when it starts without the session in its storage, by a rehydration that ends early. A provider serves
whole answers to whole files, reports a model ill only when it was, and admits no more
sessions than it has slots while no two approvals overlap.

## 2. The modules

| Module | Models | Notes |
|---|---|---|
| `DiamondStorage` | `diamond/storages/*.sol` | variables, assumptions, token transfer, shared tests |
| `ProviderRegistry`, `ModelRegistry`, `Marketplace`, `SessionRouter` | `diamond/facets/*.sol` | one action per external function |
| `LumerinDiamond`, `MC…`, `…Proofs`, `…MoneyProofs` | the diamond | the facets together, with the inductive invariants; `OpenInit` in the MC module |
| `ProvidersDelegate`, `MC…`, `…Proofs` | `delegate/ProvidersDelegate.sol` | with what it sees of the diamond |
| `TxEscalator`, `MC…`, `…Proofs` | `internal/lib/tx_escalator.go` | with the node's pool and the chain |
| `EventStream` | | abstract: what a watcher promises the listener |
| `LogWatcherPolling`, `LogWatcherSubscription` | `repositories/contracts/log_watcher_*.go` | with endpoints that fail and lag |
| `LogWatchers`, `MCLogWatcher`, `…Proofs` | the choice of `cmd/main.go` | either one implements `EventStream` |
| `SessionRepo` | `repositories/session/session_repo.go`, `blockchainapi/event_listener.go` | the chain's sessions, the cache, the events on their way |
| `ProviderSelection` | the bids and the health policy of `blockchainapi/service.go` | operators |
| `AgentAllowance` | `internal/system/auth.go` | one storage operation a step; keys by their spelling |
| `SessionOpening` | `OpenSessionByModelId`, `tryOpenSession`, `OpenSession` | extends the three above |
| `SessionCloser` | `blockchainapi/session_expiry_handler.go`, `CloseSession` | with closes by request |
| `PromptSender` | the consumer's `SendPromptV2` | as far as the cache sees it |
| `ConsumerNode`, `MC…`, `…Proofs` | the consumer's process | composes them; stops and starts |
| `BackendVerifier` | `internal/attestation/backend_verifier.go` | the provider's snapshots |
| `ModelHealth` | `internal/modelhealth/checker.go` | sweeps and results between them |
| `SessionCapacity` | `proxyapi/capacity_manager.go`, `SessionRequest` | both policies |
| `AudioUpload` | the upload of `proxy_sender.go`, `controller_morrpc.go`, `streaming_session_manager.go` | chunks over connections of their own |
| `PromptServing` | `proxy_sender.go`, `proxy_receiver.go`, the TCP handler | one connection with both its ends |
| `ProviderNode`, `MC…`, `…Proofs` | the provider's process and its consumers | composes them; restarts |
| `Maps` | | updates of maps and records, in a form that can be proved about |
| `SumTheorems` | | lemmas about sums, lists of sets and least numbers |

    LumerinDiamond <- ProviderRegistry, ModelRegistry, Marketplace, SessionRouter <- DiamondStorage
    LogWatchers    <- LogWatcherPolling, LogWatcherSubscription;  implements EventStream
    ConsumerNode   <- SessionOpening <- SessionRepo, ProviderSelection, AgentAllowance
                   <- SessionCloser, PromptSender <- SessionRepo
    ProviderNode   <- PromptServing <- SessionCapacity <- SessionRepo
                                    <- ModelHealth <- BackendVerifier,  AudioUpload

**The diamond.** As the facets inherit the storage contracts, the facet modules extend
`DiamondStorage`. One action is one transaction: it happens at the block timestamp
`now` with its whole effect, or it reverts, which is an action that is not enabled.
Every `require`, every Solidity subtraction that may underflow and every token
transfer that may fail is a guard. Hashes are the tuples they hash. `createdAt` and
`deletedAt` are only compared with zero and become a `status`. A day is `DAY` seconds
and the pools are functions from days to what they had distributed, changed by
`SetPoolConfig`. The array of held stake is a set: which of several matured entries
`withdrawUserStakes` takes under an iteration limit is left open. Authorisation and
signatures decide which calls come in; calls are authorised, and whether the provider
signed the closing receipt is the parameter `noDispute`.

**The pool.** `StakeFrom` is `_stake`, shared by `Stake` and `Restake`; the claim and
the stake of a restake are one action, as they are one transaction. Rewards arrive by
`Reward`, counted by the diamond's limiter or not, at any time between calls, and the
stake comes back through `ProviderDeregister` as a reward like any other. History variables
hold each staker's exact share, in parts of `Shares`, a common multiple of the possible
totals, so that rounding can be bounded.

**The escalator.** A call's program counter separates the nonce request, the send and
the wait, so that calls interleave at each. `SendUnseen` is a transaction accepted
while its answer is lost and the RPC client repeats the call elsewhere. `PendingNonces`
is what an endpoint that lags may answer; `Mine` is a block. `minedSince` notes the
transactions of a call that were mined after it last looked at all its receipts.

**The watchers.** Each request of the polling watcher is a step that an endpoint answers
with its own head or fails; `FailsToSee` is the error path of `FilterLogs`, where the
in-place `big.Int` addition has moved the caller's block already. The subscribing
watcher is pushed logs after its subscription; an error drops the event in hand and what
comes until the next subscription. `LogWatchers` holds the variables of both and takes
the steps of the one that is configured. `EventStream` has the chain and the list of
what was handed over, and one step for either; the refinement mapping is the identity
on `logs` and `delivered`, and everything else of a watcher stutters.

**The session cache.** `SessionRepo` has the sessions of the chain (`chain`, `ended`,
`opened` in the order of the contract's list), the cache as a function from the sessions
that it holds to their statistics (a counter: all that tells an old record from a new
one), and the events on their way. `Gets` is `GetSession`: through the cache, from the
chain if it is not there and still running. `With` is a record written back, which may
put a removed session back. Each writer reads in one step and writes in another, as the
code does.

**The consumer node.** A request to open (`call[s]`) goes `try` (ping, attestation,
`InitiateSession`), `check` (allowance), `open` (the transaction, and the resends of the
escalator and of the loop around it), `sent` (one of them is mined, while the node may be
resending: what comes later reverts on the used approval), `read` and `take`
(`DecreaseAllowance`), `poll` and `save`. A session is named for the request that opens it.
`ProviderSelection` says which providers a request may try for every combination of
health reports, for both policies; `starved` notes the choices that leave out all who could
serve. The agent's record has an allowance for each spelling of the token
(`Spellings`): `RequestAgentUser` stores it as the agent wrote it, every other path under the
lower-case key. It is read and written by `ConfirmAgentUser` in two
steps, by `ConfirmOrDeclineAllowanceRequest` in two, and by `DecreaseAllowance` in two, which
fails when the record has gone or has no entry; `raced` notes that a
handler wrote over what changed since it read. `SessionCloser` pages through the
contract's list newest first while sessions open and close, with its early end, then
scans; `dropped` notes the open sessions that the node lost sight of where a read failed or
an event was skipped, `missed` those that an early end of the rehydration left out. `Stop` takes everything in memory, with the storage or without; a transaction in
flight may still be mined.

**The provider node.** `exchange[q]` is one prompt: what the consumer does with it
(`client`), where it is at the provider (`server`), and the frames between (`wire`). A
consumer that times out or hangs up leaves the rest of the exchange behind. `queue`
is the order in which prompts wait for the session's semaphore. A broken connection is a frame that
does not decode, or an end without a last frame. An upload's chunks each have a
connection; `streams` is what the provider has of a file. Of a backend only the outcomes
are there, and of a TEE model's tags that they may be unreadable (`Tee`), in which case its
prompts are served without the attestation. A sweep holds its model through `check`, `probe` and `healthy`, the points where the code
releases the mutex, so that results of prompts and attestations come between. `blind`
notes an approval given while an earlier one had not opened or had not been seen.

`SessionRepo`'s chain and cache are in both nodes. The
nodes are not composed with the diamond: what they see of it is that a session is opened
once, closed once, by its user at any time and by nobody else, which `SessionRouter` has
as guards.

Definitions marked `mutant` are the wrong code the properties are tested against;
nothing uses them.

## 3. The runs

| Run | Checks | Shows |
|---|---|---|
| `sessions` | `TypeOK` `Solvency` `UserWholeness` `ClaimsAddUp` `RewardLimiter` `PaidForTimeServed` `DisputedDayHeld` `ClosingNeverReverts` `ApprovalsUsedOnce` `SessionTermsFixed` `HeldPastTheDay` | two sessions of a user over days of three seconds: money and terms stay right |
| `registry` | `ActiveBidsBacked` `OneActiveBid` | two providers and a model come, go and bid while the owner moves the parameters |
| `stake_returned` | `StakeReturned` | every session's stake is in the end returned or paid |
| `held_today` | `HeldIsEarnedToday`, violated | finding 1 |
| `delegate_pool` | `TypeOK` `BalanceCoversLast` `RewardsBacked` `FairShares` | two stakers and any rewards: no lock, no shortfall, exact shares up to rounding |
| `escalator` | `TypeOK` `NoGap` `NoMinedOverlooked` `TxBudget` `EveryCallReturns` | two concurrent calls of one account; a call that goes on or fails overlooks nothing that its last look could find, and every call returns, also if nothing is mined |
| `mined_once` | `MinedOnce`, violated | finding 2 |
| `log_watcher` | `WatchersTypeOK` `NothingElseMissed` `StreamSpec` `WatchesOn` | either watcher, over endpoints that fail and lag, implements `EventStream` and goes on or gives up |
| `events_delivered` | `EveryEventDelivered`, violated | finding 3 |
| `consumer_node` | `TypeOK` `OpenIsTracked` `OneSessionPerCall` `AllowanceExact` `PreferredNeverStarves` `AutoClosed` `ClosedForgotten` | opens, prompts, closes, admin and restarts on one cache |
| `resume_routing` | `RoutingResumes`, violated | finding 4 |
| `provider_node` | `TypeOK` `SessionErrorsReal` `AnswerMeansServed` `StreamIntact` `SlotsRespected` `EveryPromptEnds` | approvals, prompts, uploads, sweeps, attestations and restarts |

**Bounds and why they are enough.**
`sessions` starts in `OpenInit`, the state after one registration of provider and
model and one bid, which `Init` and three actions reach; it has two sessions, because
the hazards are between two holds, two claims on one limiter, and two stipends of a
day. The clock runs over parts of three days of three seconds, so that sessions span
a midnight, holds mature and a limiter period of four seconds ends. The compute
supply doubles with the second day. The funding account starts with less than the
sessions may cost, so that it runs dry. `registry` starts in `Init` with no user; its
clock stands still since nothing in it depends on time but the limiter, which
`sessions` covers; three-bid sequences of one pair are cut at `MaxBidNonce` = 2, enough
for a replacement of a replacement's predecessor. `stake_returned` has one
session, two compute and two other schedules the owner switches between, and two
durations; a session that ends within a day of `MaxTime` is out of its reach and
excluded in the property. `delegate_pool` takes a precision of 6, a multiple of every
total of at most 3, so that rates are exact (`RateLoss` is zero) and the only rounding
left to `FairShares` is that of a staker's own calls; each of two stakers can stake, restake and claim around up
to three tokens of rewards and two deregistrations. `escalator` has two calls with two
attempts and one refresh each: three transactions of a call, six nonces, replaced by
each other under a lag of one; more calls only add more of the same races, and the
theorems cover them. `log_watcher` has four blocks of up to two logs, one lagging block
and two tries, so that a poll may be empty, partial, failed once or given up, and a
subscription lost before, between and after the logs of a block.

The two nodes are checked by *workloads*: `Init` picks one of a few records that say which
requests, prompts, sweeps and restarts a behaviour may contain, and Next is the same for
all. Each workload puts side by side the parts that share state; parts that share
none are not multiplied with each other.

| Workload | What interleaves |
|---|---|
| `Spending` | two requests of a confirmed agent over two providers, two operations on its record, either spelling of the token; over before sessions end |
| `Confirming` | one request of it and four operations: removal, a new request, its confirmation, a revocation |
| `Closing` | two sessions whose transactions are under way are opened, end and are closed, over a restart and rehydration by pages of one |
| `Prompting` | one session, two prompts that write back its record, a close by request, its end, and a restart |
| `Prompting` (provider) | two prompts of a running session with timeouts, retries, hang-ups, a restart |
| `Ending` | a prompt of a session that ends or is closed under it, a restart |
| `Uploading` | two files of two chunks, failed and repeated, two transcriptions, a restart |
| `Sickening` | three prompts left in the queue fail or succeed while a sweep goes on; two in a row are reported |
| `Attesting` | two sweeps, a prompt and attestations of a TEE model |
| `Filling`, `Idling` | two requests for one slot under either policy, a restart |

Two errors in a row (`MaxErrors`), one slot, one retry, and an answer of no chunk or of one
reach both sides of every comparison with them. Pages of one session and one page of closed ones
(`PageSize`, `Threshold`; 255 and 3) let a page shift under the handler and the search end early.
`resume_routing` needs one session and one restart.

**Fairness.** `StakeReturned` assumes that the clock ticks, that each expired session is
in time closed, and that matured stake is collected: the node's
`SessionExpiryHandler` scans every minute and `StakeClaimer` every ten
(`session_expiry_handler.go`, `stake_claimer.go`). Fairness is weak, of steps that
stay enabled: a close that would revert because the compute pool was cut below the
claims is not assumed to succeed, nor is the funding account assumed to pay beyond its
balance; the run gives it one that suffices, and that is a condition of the result.
`EveryCallReturns` assumes only that each call's goroutine is scheduled and that its
waits time out (`time.After`, the check interval), not that blocks are mined or sends
succeed. `WatchesOn` assumes that the watcher's goroutine runs and that requests end; failures are not
assumed to stop, which is why giving up is one of its outcomes. `AutoClosed` and `ClosedForgotten`
assume that the handler's goroutine runs, that a stopped node is started, that sessions
end in time, and, strongly, that a closing transaction that is tried again and again is
once mined: without it no handler could close anything. Nothing is assumed of the listener or of
prompts. `EveryPromptEnds` assumes that the consumer's reads return (an answer, an end, or the
deadline) and that the provider takes the steps which it takes by itself; nothing is
assumed of backends, so a backend that stalls for ever is an exception that the property
names. Deadlock is not checked, because the bounded instances do stop: at the last timestamp
or block, or with all calls, prompts and workloads at their ends.

**What the exceptions in the properties say.** A few properties hold only with an
exception, which is what the code does and not what the run assumes; each is a history
variable set where it happens, or named in the formula. `OpenIsTracked` and `AutoClosed`
except two kinds of sessions. `dropped` has those whose event was skipped or whose read
failed. `missed` has those that rehydration left out because a number of pages before them
(three) had only closed sessions: that takes no failure. A user with one old open session and
enough newer closed ones, whose node is stopped and loses its storage, has that session
closed by nobody until some later start finds it, and its stake is locked as long. Both sets
are emptied by a stop: what the next start finds is in sight again, and what it does not
find is noted again. `AllowanceExact` excepts the overlap of a read and a write of one record
(`raced`), until the record is set anew. `ClosingNeverReverts` is of the diamond's own MOR:
the funding account's transfer and the subtraction of `getComputeBalance` are guards that may
keep a close from happening. `SlotsRespected` excepts approvals given
while another was out (`blind`), and is of the simple policy; the idle policy counts
finished prompts. `AnswerMeansServed` excepts a provider that stops in the middle.

**Findings.**
1. `HeldIsEarnedToday` (`SessionRouter.sol:273`): the comment takes `closedAt` for at most
   `endsAt`; for a session closed after its end the hold counts seconds it did not run,
   so that `claimForProvider` pays less, or reverts, until the day is over.
2. `MinedOnce` (`tx_escalator.go:175`): every escalation takes a fresh pending nonce, which
   counts the stuck transaction, so the "resubmission" is a second transaction and both can be mined.
3. `EveryEventDelivered` (`log_watcher_polling.go:128`): the next block moves before the
   error of `FilterLogs` is looked at; "request error, retrying" skips the failed blocks.
4. `RoutingResumes` (`session_expiry_handler.go:109`): rehydration is documented to "resume routing"
   after the storage is lost; it restores sessions but not the providers' records, without which
   a prompt is rejected.

Seen on the way, in the models but with no run of their own: a consumer that hangs up makes the provider's write
fail and counts as a failure of the backend, while `proxy_receiver.go:89-92` excludes
what a consumer can cause (`EngineFails`); an attestation that fails during a sweep is
reported and then overwritten by the sweep's own result (`SetHealthy`), before any later sweep.
An agent that asks for an allowance under a token address with capitals, as
`docs/proxy-router.all.env:68` writes it, is stored under a key that
no other path reads (`auth.go:460`): it can spend nothing, until an allowance is confirmed for it under
the lower-case key. `auth_storage.go:161-162` says that `SetAllowance` is one transaction "to prevent
race conditions"; `DecreaseAllowance` computes the amount outside it, so that a spend can undo a
revocation (`raced`). `session_expiry_handler.go:97` ends the rehydration where older sessions are
"overwhelmingly likely to also be closed" (lines 60-63): one that is not is lost with nothing failing (`missed`).

## 4. What is proved

Every safety invariant and action property that a passing run checks is also a theorem,
and so is the refinement of `EventStream`. The theorems hold for every value of the
constants that satisfies the modules' named assumptions: any set of users, providers,
models, stakers, calls, sessions or prompts, any schedule, price, period, precision,
workload and bound. The inductive invariants were checked by TLC on the runs' instances
first.

**Assumptions.** Those of the constants' types aside, they are: ids and accounts are
finitely many (`FiniteAssumption`, `SessionAssumption`), since they are bit strings; the
contract and the funding account are not themselves users, providers, owners or the fee
recipient (`AccountAssumption`); `Shares` is a multiple of every total of the pool
(`PoolAssumption`), which only says in which unit a history is kept; a provider has one
bid for a model (`BidsAssumption`), as `OneActiveBid` says; the sweep is over models of
the contract (`ConfiguredAssumption`); a workload starts in a state that the program can
be in, with no more running sessions than slots and a queued prompt only of a running
session (`WorkloadAssumption`). TLC evaluates all of them in the runs.

**Diamond** (`LumerinDiamondProofs`, `LumerinDiamondMoneyProofs`). Four inductive
invariants, each on top of the one before, with a lemma for each action.

- `LimiterInv` has the storage's types and `RewardLimiter`, which alone is not
  inductive: a first registration must start a period with nothing earned
  (`UnregisteredBlank`), and a quotient by the price needs the price of an open offer to
  be positive (`ActiveBidsPriced`). The interesting actions are those with
  `PayProvider`, which pays at most `stake - earned` of the period it may just have
  restarted, and `ProviderDeregister`, which leaves exactly the earned part staked.
  Results: `StorageTypes`, `RewardsLimited`.
- `BidsInv` adds that the bids of a pair are numbered in the order of posting
  (`BidsNumbered`), so that a new bid overwrites none and replaces the one that
  `OneActiveBid` names. Results: `BidsBacked`, `BidsReplaced`.
- `SessionInv` adds that each session's times, stake and closing fit each other
  (`SessionSound`), that what is on hold is of a closed session and matures on the day
  after its end (`HoldSound`), and that used approvals and sessions are equally many.
  Claims and closings change a session's books by one payment of what is due, so that
  one lemma (`PaymentOK`) serves both. Results: `PaidForTimeOnly`, `DisputedDayUnpaid`,
  `ApprovalsSpent`, `TermsNeverChange`, `HeldUntilNextDay`.
- `MoneyInv` adds the books: each is a sum over sessions, providers, models or holds,
  and each transaction is shown to change it by what the one record that it touches
  changes, and the ledger by as much (`RegistryMoney` for all transactions that are not
  about sessions). Results: `Types`, `Solvent`, `UsersWhole`, `ClaimsBooked`,
  `ClosingPossible`. The last says that the diamond holds an open session's stake and
  beyond it whatever its own balance pays the provider, and that nothing which a close
  subtracts or pays is negative; it does not say that the funding account can pay.

`sessions` starts in `OpenInit`, a state reached from `Init`; the theorems are about
`Init`.

**Pool** (`ProvidersDelegateProofs`). `PoolInv` adds to the types that a staker's rate
is one the pool has had (`RatesReached`), so that rewards are never negative, and that
the limiter's earnings stay within the stake (`LimiterOnStake`). Results: `PoolTypes`,
`BalanceNeverBelow`, the action property `RateNeverFalls`. `ShareInv` speaks of a
staker's `Weight`, its rewards before they are rounded to whole tokens: the weights at
the last rate are backed by the last balance (`Backed`), the stakes add up to the total
(`StakeAdds`), and a staker's weight and its part of what came in since are its due,
never more and less only by the roundings (`NeverMore`, `NeverMuchLess`). A call brings
the rate up to date, which moves that part into the weight and rounds once for the rate,
and then rounds the weight of the staker whom it settles (`Settles`: stake, claim and
restake are one lemma). Results: `RewardsHeld`, `SharesFair`. The second is the general
form of what the run checks: where the totals do not divide the precision, each call
costs a staker at most `MaxStaked` parts of `PRECISION` more.

**Escalator** (`TxEscalatorProofs`). The invariant adds that a nonce once answered stays
free of gaps below (`HeldFilled`), that what is mined was sent (`MinedFilled`), and
accounts of the transactions that each phase of an attempt may have used (`KnownBudget`,
`SentBudget`, `BumpsCountAttempts`). Of the receipts it says that, when a look at all of them
has found nothing, whatever of the call's known transactions is mined was mined since
that look (`minedSince`), through refreshed nonces and repeated looks. Results:
`EscalatorTypes`, `NoncesWithoutGap`, `NothingMinedOverlooked`, `TxsBounded`.

**Log watchers** (`LogWatchersProofs`). `WatchersInv` says of the polling watcher that
what it handed over lies before its next query and that the query lies within the chain
it knows (`QueryInv`), and of the subscribing one that the log in hand is later than all
that was handed over (`SubscriptionInv`). Results: `WatchersTypes`, `NothingMissed` and
`StreamRefined`: each step of either watcher is a step of `EventStream` or leaves its
variables alone. The polling side rests on what the concatenation of the blocks' logs
lists and in which order (`Lists`).

**Consumer node** (`ConsumerNodeProofs`). `OpeningInv` ties a request's phase to what it
has paid (`Requests`): nothing before the transaction is through, once after it. The
allowance is exact relative to `Owed`, the number of the agent's sessions whose stake is
not yet taken off, so each step of a request must be shown to change that cardinality by
one or not at all (`RequestReplaced`); a stake that finds no entry to be taken off is
forgiven, which changes both sides alike. Results: `OneSessionEach`, `AllowancesExact`.
`NoOpenStarves` follows from `PreferredServes`, a lemma about the operators of the
health policy alone: a provider that would pass the ping is serviceable, which the
policy keeps, or of unknown health, which it keeps when nobody is serviceable. `NodeInv`
has the types and `Followed`: a request that has not paid has no session, an event of a
closing is of a closed session, the contract's list has every open session, the handler
removes only what is closed, and every open session is in sight: in the cache, with its
opened event on the way, still ahead of the rehydration, whose pages shift while
sessions open and close, or it is dropped or missed. Results: `NodeTypes`, `OpenTracked`.

**Provider node** (`ProviderNodeProofs`). `NodeInv` has a part for each property.
`WireInv`: the frames on a connection are those that its server can have sent in its
state, placed and counted with those that the client has read. `StreamInv`: chunks of a
file are kept in order, and a prompt past its upload has all of them, although chunks of
a failed upload may come again (`AudioOK`). `HealthInv`: the counted streak is the tail
of the list of failures, throttled as often as it says (`StreakOK`); a sweep that is
under way may overwrite a report and never makes one of a streak. `SlotsInv`: the
sessions that run and the approvals that may still open one fit into the slots together,
which is a statement of cardinality and shows why `blind` is needed. Results:
`NodeTypes`, `AnswersServed`, `StreamsWhole`, `ErrorsReal`, `SlotsKept`.

**Sums and recursive functions.** The library's induction theorems take an operator as a
parameter, which the provers cannot instantiate. What is needed of a fold or of a
recursive function is proved by the least counterexample instead: the set of the numbers
(`LeastNat`) or of the subsets (`MinimalSet`) for which the statement fails is a set, so
that a least member can be picked and led to a contradiction. `SumTheorems` has that for
sums over finite sets: they exist, do not depend on the order, and change with one entry
by as much.

**Only model-checked.** All liveness, which needs fairness and ENABLED: `StakeReturned`,
`EveryCallReturns`, `WatchesOn`, `AutoClosed`, `ClosedForgotten`, `EveryPromptEnds`.
What the code does otherwise than a comment says (the findings) is shown by a
counterexample.

## 5. What is not modelled

*Diamond and pool*: names, tags, endpoints, IPFS ids, pagination, events, statistics
averages, the delegate registry lookup, facet upgrades and ownership transfer; the
factory, names and treasury of the pool; fixed-width overflow of Solidity 0.8, which
reverts, at amounts beyond any supply of MOR.

*Node*: gas price estimation and the plain wait for a receipt (`nonce_manager.go`); chain
reorganisations; the choice of endpoints in `rpcclientmultiple.go`; the MOR allowance of
the diamond and the log of an agent's transactions; the consumer's TEE flag of a session;
fail-over of prompts, which is never enabled (`tryOpenSession` ignores its argument); the expiry of stored records after 30 days;
agent tools and session reports, single requests that change nothing; the start and stop
race of the task wrapper; prompt statistics beyond a counter.

*Data and I/O*: rating is floating-point arithmetic; message layouts, signatures, quotes and
their cryptography; model backends but for their outcomes; chat storage, wallets, HTTP and
TCP servers, Docker, IPFS, configuration, the renderer and the command line. Large files of the repository have
no behaviour to model: the generated `docs.go` and contract bindings, HTTP handlers
that convert and pass on, structures and mappers. They are why the lines that `map` names are a
small part of all lines. `PROJECT.json` gives a reason per component.

## 6. Plan

Proofs:

1. What the exceptions of the properties cost: that `dropped`, `missed`, `raced` and `blind` are set only by the step that each
   is named for, as action properties.
2. The safety halves of the liveness properties: variants that decrease (attempts of the escalator, pages of the
   rehydration, frames of a connection).
3. That the sessions of `SessionRepo` are an abstraction of those of the session router (opened once, closed once),
   as a step simulation of a small specification by both.

Models after that: `RPCClientMultiple` under the escalator (retries, round robin, `SetURLs` under use);
`LibSD` as operators against a reference over bounded inputs; `Escrow`, an abstract vault
that the diamond implements by a refinement mapping; the task wrapper.
