----------------------- MODULE LogWatcherSubscription -----------------------
(***************************************************************************)
(* The proxy-router's other log watcher, over a websocket: a goroutine     *)
(* that subscribes to the contract's logs, again after an error, and hands *)
(* over what the endpoint pushes.  The endpoint pushes the logs of the     *)
(* blocks that come after the subscription, in order.                      *)
(*                                                                         *)
(* One endpoint serves the websocket, so it is never behind what it has    *)
(* pushed.  Logs that the mapper does not know are left out.               *)
(***************************************************************************)
EXTENDS Integers, Sequences

CONSTANTS
  MaxReconnects,        \* maxReconnects; -1 means for ever
  MaxHead,              \* bound on the chain
  MaxLogs               \* bound on the logs of a block

VARIABLES
  logs,                 \* the chain: how many logs each block has
  pc,                   \* "subscribe", "events", "sink", "failed" or "closed"
  attempts,             \* of subscribeFilterLogsRetry
  pushed,               \* the last log the subscription has pushed, or none
  delivered             \* history: what was handed over, in order

vars == <<logs, pc, attempts, pushed, delivered>>

head == Len(logs)
NoLog == <<0, 0>>

Log == {<<b, i>> : b \in 1 .. head, i \in 1 .. MaxLogs}
LogsOfChain == {e \in Log : e[2] <= logs[e[1]]}

Before(e, f) == e[1] < f[1] \/ (e[1] = f[1] /\ e[2] < f[2])

\* The logs that the endpoint has still to push.
Waiting == {e \in LogsOfChain : Before(pushed, e)}

\* The next one: logs are pushed in the order of the chain.
NextLog == CHOOSE e \in Waiting : \A f \in Waiting : f = e \/ Before(e, f)

Init ==
  /\ logs \in [1 .. 1 -> 0 .. MaxLogs]
  /\ pc = "subscribe"
  /\ attempts = 0
  /\ pushed = NoLog
  /\ delivered = <<>>
-----------------------------------------------------------------------------
NewBlock(n) ==
  /\ head < MaxHead                     \* bound
  /\ logs' = Append(logs, n)
  /\ UNCHANGED <<pc, attempts, pushed, delivered>>

\* A subscription from genesis would push everything again.
FromGenesis == NoLog                                    \* mutant
AfterTheHead == <<head, MaxLogs>>

TriesLeft == attempts < MaxReconnects \/ MaxReconnects = -1

\* SubscribeFilterLogs answers; the query has no first block.
Subscribed ==
  /\ pc = "subscribe"
  /\ TriesLeft
  /\ pc' = "events"
  /\ pushed' = AfterTheHead
  /\ attempts' = 0
  /\ UNCHANGED <<logs, delivered>>

SubscribeFails ==
  /\ pc = "subscribe"
  /\ TriesLeft
  /\ attempts' = IF MaxReconnects = -1 THEN attempts ELSE attempts + 1
  /\ UNCHANGED <<logs, pc, pushed, delivered>>

\* The retries are exhausted and Watch's goroutine returns the error.
GiveUp ==
  /\ pc = "subscribe"
  /\ ~TriesLeft
  /\ pc' = "failed"
  /\ UNCHANGED <<logs, attempts, pushed, delivered>>

\* log := <-in
Push ==
  /\ pc = "events"
  /\ Waiting # {}
  /\ pushed' = NextLog
  /\ pc' = "sink"
  /\ UNCHANGED <<logs, attempts, delivered>>

\* sink <- event
Deliver ==
  /\ pc = "sink"
  /\ delivered' = Append(delivered, pushed)
  /\ pc' = "events"
  /\ UNCHANGED <<logs, attempts, pushed>>

\* <-sub.Err(), in either select; an event in hand goes with it.
SubscriptionError ==
  /\ pc \in {"events", "sink"}
  /\ pc' = "subscribe"
  /\ UNCHANGED <<logs, attempts, pushed, delivered>>

\* <-quit or <-ctx.Done(): while it subscribes the goroutine looks at
\* neither.
Quit ==
  /\ pc \in {"events", "sink"}
  /\ pc' = "closed"
  /\ UNCHANGED <<logs, attempts, pushed, delivered>>

Watch ==
  \/ Subscribed \/ SubscribeFails \/ GiveUp
  \/ Push \/ Deliver \/ SubscriptionError

Next == Watch \/ Quit \/ \E n \in 0 .. MaxLogs : NewBlock(n)

Spec == Init /\ [][Next]_vars
-----------------------------------------------------------------------------
TypeOK ==
  /\ logs \in Seq(0 .. MaxLogs) /\ head \in 1 .. MaxHead
  /\ pc \in {"subscribe", "events", "sink", "failed", "closed"}
  /\ attempts \in Nat
  /\ pushed \in (0 .. head) \X (0 .. MaxLogs)
  /\ delivered \in Seq(Log)

=============================================================================
