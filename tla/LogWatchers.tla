---------------------------- MODULE LogWatchers ----------------------------
(***************************************************************************)
(* The node has one log watcher, chosen by its configuration: it polls, or *)
(* it subscribes.  Both implement EventStream, the promise that the event  *)
(* listener relies on.                                                     *)
(***************************************************************************)
EXTENDS LogWatcherPolling

VARIABLES
  useSubscriptions,     \* ETH_NODE_USE_SUBSCRIPTIONS
  attempts, pushed      \* of the subscribing watcher

allVars == <<vars, useSubscriptions, attempts, pushed>>

Subscription == INSTANCE LogWatcherSubscription
Stream == INSTANCE EventStream WITH logs <- logs, delivered <- delivered

WatchersInit ==
  /\ useSubscriptions \in BOOLEAN
  /\ IF useSubscriptions
     THEN /\ Subscription!Init
          /\ fromBlock = NoBlock /\ toBlock = NoBlock
          /\ nextFromBlock = NoBlock /\ start = NoBlock
          /\ reconnects = 0 /\ sub = <<>> /\ unseen = {}
     ELSE /\ Init
          /\ attempts = 0
          /\ pushed = Subscription!NoLog

Subscribing(A) ==
  /\ useSubscriptions
  /\ A
  /\ UNCHANGED <<useSubscriptions, fromBlock, toBlock, nextFromBlock, start,
                 reconnects, sub, unseen>>

Polling(A) ==
  /\ ~useSubscriptions
  /\ A
  /\ UNCHANGED <<useSubscriptions, attempts, pushed>>

WatchersNext == Subscribing(Subscription!Next) \/ Polling(Next)

WatchersSpec == WatchersInit /\ [][WatchersNext]_allVars

FairWatchersSpec ==
  /\ WatchersSpec
  /\ WF_allVars(Polling(Poll) \/ Subscribing(Subscription!Watch))
-----------------------------------------------------------------------------
WatchersTypeOK ==
  /\ useSubscriptions \in BOOLEAN
  /\ IF useSubscriptions THEN Subscription!TypeOK ELSE TypeOK

\* Either watcher implements the stream: an event is handed over once, and in
\* the order of the chain, over retries, endpoints whose heads go back and
\* forth, empty polls and new subscriptions.  A session's closing never comes
\* before its opening, and is not undone by a repeated opening.
StreamSpec == Stream!Spec
-----------------------------------------------------------------------------
(* The inductive form of these promises *)

InChainOrder(s) ==
  \A i, j \in DOMAIN s : i < j => Stream!Precedes(s[i], s[j])

\* What the polling watcher was given: handed over, or still to hand over.
Given == delivered \o sub

\* It asks for blocks past all it was given, in the order of the chain.
GivenInOrder ==
  /\ InChainOrder(Given)
  /\ \A i \in DOMAIN Given :
       /\ Given[i][1] < nextFromBlock
       /\ Given[i][1] <= head
       /\ Given[i][2] <= logs[Given[i][1]]

\* A query starts at the next block, and only when there is nothing left to
\* hand over.
QueryInv ==
  /\ nextFromBlock <= head + 1
  /\ nextFromBlock = NoBlock => start = NoBlock
  /\ pc \in {"head", "filter"} => sub = <<>>
  /\ pc = "filter" =>
       /\ NoBlock < fromBlock /\ fromBlock <= toBlock /\ toBlock <= head
       /\ nextFromBlock # NoBlock => fromBlock = nextFromBlock

PollingInv == TypeOK /\ GivenInOrder /\ QueryInv /\ NothingElseMissed

\* The endpoint pushes a log after the last that it pushed or skipped, so that
\* the one in hand is later than any that was handed over.
SubscriptionInv ==
  /\ Subscription!TypeOK
  /\ pc = "sink" => pushed \in Subscription!LogsOfChain
  /\ \A i \in DOMAIN delivered :
       \/ Stream!Precedes(delivered[i], pushed)
       \/ pc # "sink" /\ delivered[i] = pushed
  /\ start = NoBlock

WatchersInv ==
  /\ useSubscriptions \in BOOLEAN
  /\ IF useSubscriptions THEN SubscriptionInv ELSE PollingInv
-----------------------------------------------------------------------------
(* What must happen *)

Watched(b) ==
  IF useSubscriptions
  THEN \A e \in Subscription!Waiting : e[1] > b
  ELSE nextFromBlock > b

\* A block that the endpoints know is polled, or its logs are pushed or
\* skipped by a new subscription; or the watcher gives up and the listener
\* hears of it.  No mix of errors leaves it waiting for ever.
WatchesOn ==
  \A b \in Blocks :
    head >= b + MaxLag ~> Watched(b) \/ pc \in {"failed", "closed"}
=============================================================================
