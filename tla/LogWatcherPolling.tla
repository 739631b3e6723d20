------------------------- MODULE LogWatcherPolling -------------------------
(***************************************************************************)
(* The proxy-router's polling log watcher, which feeds the contract's      *)
(* events to the event listener: a goroutine that asks for the head of the *)
(* chain, then for the logs up to it, and hands them over one by one.  The *)
(* requests go to several endpoints: one may fail, or be behind the chain. *)
(*                                                                         *)
(* The chain is not reorganised.  A log is its block and its index in the  *)
(* block; logs that the mapper does not know are left out, and skipped.    *)
(***************************************************************************)
EXTENDS Integers, Sequences, SequencesExt

CONSTANTS
  MaxReconnects,        \* maxReconnects
  MaxLag,               \* how many blocks an endpoint may be behind
  MaxHead,              \* bound on the chain
  MaxLogs               \* bound on the logs of a block

ASSUME WatcherAssumption ==
  /\ {MaxReconnects, MaxHead} \subseteq Nat \ {0}
  /\ {MaxLag, MaxLogs} \subseteq Nat

Blocks == 1 .. MaxHead
NoBlock == 0                            \* a nil *big.Int

VARIABLES
  logs,                 \* the chain: how many logs each block has
  pc,                   \* "head", "filter", "deliver", "failed" or "closed"
  nextFromBlock,        \* of Watch and pollReconnect
  fromBlock, toBlock,   \* the query
  reconnects,           \* i of pollReconnect
  sub,                  \* logs received and still to hand over
  delivered,            \* history: what was handed over, in order
  start,                \* history: the first block watched
  unseen                \* history: blocks of requests that did not see them

vars == <<logs, pc, nextFromBlock, fromBlock, toBlock, reconnects, sub,
          delivered, start, unseen>>

head == Len(logs)
Positive(S) == S \intersect Blocks

\* The heads that endpoints report.
Heads == Positive(head - MaxLag .. head)

LogsOf(first, last) ==
  FlattenSeq([k \in 1 .. last - first + 1 |->
    [i \in 1 .. logs[first + k - 1] |-> <<first + k - 1, i>>]])

\* The event listener watches from nil, the present; Watch takes any block.
Init ==
  /\ logs \in [1 .. 1 -> 0 .. MaxLogs]
  /\ pc = "head"
  /\ nextFromBlock \in {NoBlock, 1}
  /\ fromBlock = NoBlock
  /\ toBlock = NoBlock
  /\ reconnects = 0
  /\ sub = <<>>
  /\ delivered = <<>>
  /\ start = NoBlock
  /\ unseen = {}
-----------------------------------------------------------------------------
NewBlock(n) ==
  /\ head < MaxHead                     \* bound
  /\ logs' = Append(logs, n)
  /\ UNCHANGED <<pc, nextFromBlock, fromBlock, toBlock, reconnects, sub,
                 delivered, start, unseen>>

\* HeaderByNumber answers; nil becomes the head, for this poll only.  A head
\* before the next block means polling too often: wait and start over.
GotHead(h) ==
  LET from == IF nextFromBlock = NoBlock THEN h ELSE nextFromBlock IN
  /\ pc = "head"
  /\ IF h < from
     THEN /\ reconnects' = 0
          /\ UNCHANGED <<pc, fromBlock, toBlock>>
     ELSE /\ pc' = "filter"
          /\ fromBlock' = from
          /\ toBlock' = h
          /\ UNCHANGED reconnects
  /\ UNCHANGED <<logs, nextFromBlock, sub, delivered, start, unseen>>

OneMoreRetry == reconnects < MaxReconnects              \* mutant
RetriesLeft == reconnects + 1 < MaxReconnects

Uncounted == reconnects                                 \* mutant
Counted == reconnects + 1

\* pollReconnect after an error: again, or give up for good.
Retry ==
  IF RetriesLeft
  THEN pc' = "head" /\ reconnects' = Counted
  ELSE pc' = "failed" /\ UNCHANGED reconnects

HeadFails ==
  /\ pc = "head"
  /\ Retry
  /\ UNCHANGED <<logs, nextFromBlock, fromBlock, toBlock, sub, delivered,
                 start, unseen>>

AtTheHead == toBlock                                    \* mutant
PastTheNext == toBlock + 2                              \* mutant
AfterTheHead == toBlock + 1

\* FilterLogs answers with the logs an endpoint of head h has of the range.
GotLogs(h) ==
  /\ pc = "filter"
  /\ sub' = LogsOf(fromBlock, Min({h, toBlock}))
  /\ unseen' = unseen \union {b \in fromBlock .. toBlock : b > h}
  /\ start' = IF start = NoBlock THEN fromBlock ELSE start
  /\ nextFromBlock' = AfterTheHead
  /\ pc' = "deliver"
  /\ UNCHANGED <<logs, fromBlock, toBlock, reconnects, delivered>>

\* nextFromBlock.Add sets the number in place before the error is looked at,
\* so that pollReconnect's next block moves too, unless it is still nil.
FailsToSee ==
  IF nextFromBlock = NoBlock
  THEN UNCHANGED <<nextFromBlock, start, unseen>>
  ELSE /\ nextFromBlock' = AfterTheHead
       /\ start' = IF start = NoBlock THEN fromBlock ELSE start
       /\ unseen' = unseen \union (fromBlock .. toBlock)

FilterFails ==
  /\ pc = "filter"
  /\ FailsToSee
  /\ Retry
  /\ UNCHANGED <<logs, fromBlock, toBlock, sub, delivered>>

Deliver ==
  /\ pc = "deliver"
  /\ sub # <<>>
  /\ delivered' = Append(delivered, Head(sub))
  /\ sub' = Tail(sub)
  /\ UNCHANGED <<logs, pc, nextFromBlock, fromBlock, toBlock, reconnects,
                 start, unseen>>

\* pollReconnect returns and is called again.
PollAgain ==
  /\ pc = "deliver"
  /\ sub = <<>>
  /\ pc' = "head"
  /\ reconnects' = 0
  /\ UNCHANGED <<logs, nextFromBlock, fromBlock, toBlock, sub, delivered,
                 start, unseen>>

\* The subscription is dropped or the context cancelled.
Unsubscribe ==
  /\ pc \notin {"failed", "closed"}
  /\ pc' = "closed"
  /\ UNCHANGED <<logs, nextFromBlock, fromBlock, toBlock, reconnects, sub,
                 delivered, start, unseen>>

Poll ==
  \/ \E h \in Heads : GotHead(h) \/ GotLogs(h)
  \/ HeadFails \/ FilterFails \/ Deliver \/ PollAgain

Next == Poll \/ Unsubscribe \/ \E n \in 0 .. MaxLogs : NewBlock(n)

Spec == Init /\ [][Next]_vars

\* The goroutine runs, requests and delays end, and the listener receives.
\* Nothing is assumed of the requests' success.
FairSpec == Spec /\ WF_vars(Poll)
-----------------------------------------------------------------------------
TypeOK ==
  /\ logs \in Seq(0 .. MaxLogs) /\ head \in Blocks
  /\ pc \in {"head", "filter", "deliver", "failed", "closed"}
  /\ nextFromBlock \in 0 .. MaxHead + 1
  /\ fromBlock \in 0 .. MaxHead
  /\ toBlock \in 0 .. MaxHead
  /\ reconnects \in 0 .. MaxReconnects - 1
  /\ sub \in Seq(Blocks \X (1 .. MaxLogs))
  /\ delivered \in Seq(Blocks \X (1 .. MaxLogs))
  /\ start \in 0 .. MaxHead
  /\ unseen \subseteq Blocks

Handed(b) == \A i \in 1 .. logs[b] : <<b, i>> \in Range(delivered \o sub)

\* No event is lost between two polls, however the head moved: of the blocks
\* left behind, only those of a request that failed or was answered by an
\* endpoint without them are without their events.
NothingElseMissed ==
  start # NoBlock =>
    \A b \in start .. Min({nextFromBlock - 1, head}) : b \in unseen \/ Handed(b)

\* A failed request is retried ("request error, retrying",
\* log_watcher_polling.go:79), and unlike the subscription
\* (log_watcher_subscription.go:25) polling is not to "skip events in case of
\* temporary downtime": with endpoints that are not behind, the events of
\* every block left behind are handed over.  The retry asks for the blocks
\* after those of the failed request.
EveryEventDelivered ==
  start # NoBlock =>
    \A b \in start .. Min({nextFromBlock - 1, head}) : Handed(b)
=============================================================================
