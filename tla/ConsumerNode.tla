---------------------------- MODULE ConsumerNode ----------------------------
(***************************************************************************)
(* The consumer node: requests that open and close sessions and send       *)
(* prompts, the event listener and the expiry handler, all over one store, *)
(* one wallet and one chain; the node may stop at any moment and start     *)
(* again, with its storage or (where that is ephemeral) without.           *)
(***************************************************************************)
EXTENDS SessionOpening, SessionCloser, PromptSender

CONSTANT Workloads      \* bound: what a behaviour may contain

ASSUME WorkloadAssumption ==
  /\ Workloads \subseteq [calls : SUBSET Session, agents : SUBSET Session,
                          initiated : SUBSET Session, prompts : SUBSET Prompt,
                          granted : BOOLEAN, admin : Nat, restarts : Nat,
                          apiCloses : BOOLEAN, quiet : BOOLEAN]
  /\ \A w \in Workloads : w.initiated = {} \/ Bids # <<>>

VARIABLES
  up,                   \* whether the node runs
  workload,             \* bound: the behaviour's workload
  restarts              \* bound: how many times the node may still stop

nodeVars == <<up, workload, restarts>>
allVars == <<repoVars, allowanceVars, openingVars, closerVars, promptVars,
             nodeVars>>

\* A request that the first provider has approved: where some behaviours
\* begin.
AtTransaction == [Idle EXCEPT !.pc = "open", !.todo = <<Bids[1]>>]

Init ==
  /\ workload \in Workloads
  /\ RepoInit /\ AllowanceInit(workload.granted) /\ CloserInit /\ PromptInit
  /\ up = TRUE
  /\ call = [s \in Session |->
       IF s \in workload.initiated THEN AtTransaction ELSE Idle]
  /\ knows = IF workload.initiated = {} THEN {} ELSE {Bids[1]}
  /\ starved = FALSE
  /\ adminOps = workload.admin
  /\ restarts = workload.restarts

\* A quiet behaviour is over before sessions end and events arrive.
Quiet == workload.quiet

KnownProvider(s) == call[s].todo # <<>> /\ ProviderOf(s) \in knows
-----------------------------------------------------------------------------
\* The components' steps, when the node is up.
Opens(s) ==
  /\ up
  /\ s \in workload.calls
  /\ Open(s)
  /\ call'[s].by = "agent" => s \in workload.agents
  /\ UNCHANGED <<closerVars, promptVars, nodeVars>>

Administers ==
  /\ up
  /\ AllowanceNext(Owed)
  /\ UNCHANGED <<repoVars, openingVars, closerVars, promptVars, nodeVars>>

Listens ==
  /\ up /\ ~Quiet
  /\ HandleSessionOpened \/ HandleSessionClosed
  /\ UNCHANGED <<allowanceVars, openingVars, closerVars, promptVars, nodeVars>>

\* The listener cannot read an opened session.
ListensInVain ==
  /\ up /\ ~Quiet
  /\ OpenedUnread
  /\ dropped' = dropped \union ({Head(events)[2]} \intersect OpenSessions)
  /\ UNCHANGED <<allowanceVars, openingVars, closer, apiClosing, missed,
                 promptVars, nodeVars>>

\* The log watcher never hands the event over.
EventSkipped ==
  /\ up /\ ~Quiet
  /\ events # <<>>
  /\ events' = Tail(events)
  /\ dropped' = dropped \union ({Head(events)[2]} \intersect OpenSessions)
  /\ UNCHANGED <<chain, ended, opened, cache, allowanceVars, openingVars,
                 closer, apiClosing, missed, promptVars, nodeVars>>

Handles(A) ==
  /\ up /\ ~Quiet
  /\ A
  /\ UNCHANGED <<allowanceVars, openingVars, promptVars, nodeVars>>

ClosesByRequest(s) == workload.apiCloses /\ Handles(ApiClose(s))

Prompts(q) ==
  /\ up
  /\ q \in workload.prompts
  /\ \/ \E s \in Session :
          \/ KnownProvider(s) /\ Validated(q, s)
          \/ ~KnownProvider(s) /\ Rejected(q, s)
     \/ /\ q \in DOMAIN prompt
        /\ Acquire(q) \/ PromptFails(q) \/ Answered(q)
  /\ UNCHANGED <<allowanceVars, openingVars, closerVars, nodeVars>>

TimePasses(s) ==
  /\ ~Quiet
  /\ Expire(s)
  /\ UNCHANGED <<allowanceVars, openingVars, closerVars, promptVars, nodeVars>>
-----------------------------------------------------------------------------
Stopped(r) ==
  IF r.pc \in {"idle", "done", "failed"} THEN r
  ELSE [r EXCEPT !.pc = "failed", !.read = 0, !.stats = Fresh]

\* The process stops: what is in memory or in flight is gone, and the storage
\* too where it is ephemeral.  A transaction that was sent may be mined.
Stop ==
  /\ up
  /\ restarts > 0
  /\ restarts' = restarts - 1
  /\ up' = FALSE
  /\ \E mined \in SUBSET {s \in Session : At(s, "open")} :
       /\ chain' = [s \in Session |-> IF s \in mined THEN "open" ELSE chain[s]]
       /\ opened' = opened \o SetToSeq(mined)
       /\ call' = [s \in Session |->
            Stopped(IF s \in mined THEN [call[s] EXCEPT !.paid = @ + 1]
                    ELSE call[s])]
  /\ \/ /\ raced' = (raced \/ Owed > 0)
        /\ UNCHANGED <<cache, knows, agent, login, allowances, request, due>>
     \/ /\ cache' = <<>>
        /\ knows' = {}
        /\ agent' = "none"
        /\ login' = FALSE
        /\ allowances' = NoAllowances
        /\ request' = None
        /\ due' = 0
        /\ raced' = FALSE
  /\ confirming' = {}
  /\ accepting' = FALSE
  /\ events' = <<>>
  /\ closer' = Starting
  /\ dropped' = {}
  /\ missed' = {}
  /\ apiClosing' = {}
  /\ prompt' = [q \in DOMAIN prompt |-> NoPrompt(prompt[q].session)]
  /\ UNCHANGED <<starved, ended, adminOps, workload>>

\* Run: the handler rehydrates the cache first.
Start ==
  /\ ~up
  /\ up' = TRUE
  /\ UNCHANGED <<repoVars, allowanceVars, openingVars, closerVars, promptVars,
                 workload, restarts>>

\* Another holder of the wallet closes a session while the node is down.
ClosedElsewhere(s) ==
  /\ ~up
  /\ IsOpen(s)
  /\ chain' = [chain EXCEPT ![s] = "closed"]
  /\ UNCHANGED <<ended, opened, cache, events, allowanceVars, openingVars,
                 closerVars, promptVars, nodeVars>>

Next ==
  \/ \E s \in Session :
       Opens(s) \/ TimePasses(s) \/ ClosesByRequest(s) \/ ClosedElsewhere(s)
  \/ \E q \in Prompt : Prompts(q)
  \/ Administers \/ Listens \/ ListensInVain \/ EventSkipped \/ Handles(Closer)
  \/ Stop \/ Start

Spec == Init /\ [][Next]_allVars

\* The handler's goroutine and the ticker run, a stopped node is started, and
\* sessions end.  A close that is tried again and again is mined some time.
FairSpec ==
  /\ Spec
  /\ WF_allVars(Handles(Closer))
  /\ WF_allVars(Start)
  /\ \A s \in Session : WF_allVars(TimePasses(s))
  /\ SF_allVars(Handles(CloseTxMined))
-----------------------------------------------------------------------------
TypeOK ==
  /\ RepoTypeOK /\ AllowanceTypeOK /\ OpeningTypeOK /\ CloserTypeOK
  /\ PromptTypeOK
  /\ up \in BOOLEAN
  /\ workload \in Workloads
  /\ restarts \in Nat

\* Rehydration has yet to come to the session.
Coming(s) ==
  /\ closer.pc \in {"page", "store"}
  /\ \/ s \in closer.todo
     \/ \E i \in 1 .. Len(opened) - closer.offset : opened[i] = s

\* The node does not lose sight of an open session, whose stake is locked
\* until it is closed: the session is in the cache, or its event is on the
\* way, or rehydration has yet to come to it.  There are two ways out, until the
\* next start looks for it again: a read failed or its event was skipped
\* (dropped), or rehydration ended early on pages of closed sessions (missed),
\* which takes no failure.  Failed requests, closes that fail or whose outcome
\* is unknown and records written back late do not take it away; a stop does
\* only where the next start does not find the session in the cache (the
\* storage went, or the event was on the way) and rehydration misses or fails.
OpenIsTracked ==
  \A s \in OpenSessions :
    \/ Cached(s)
    \/ <<"opened", s>> \in Range(events)
    \/ Coming(s)
    \/ s \in dropped
    \/ s \in missed

\* An open session in sight is closed some time after its end, whatever
\* closes fail ("Close explicitly via API or wait for endsAt + consumer node
\* auto-close", docs/ai/session-states-open-close-recover.mdx:60), or it is
\* lost since the last start: to a failed read or a skipped event, or,
\* after a stop that took the storage, to rehydration that ended early.
AutoClosed ==
  \A s \in Session :
    (up /\ IsOpen(s) /\ Cached(s)) ~>
      (chain[s] = "closed" \/ s \in dropped \/ s \in missed \/ Quiet)

\* A session closed by anyone leaves the cache for good, although a prompt
\* that was under way, a report, a late opened event or a rehydration may put
\* it back.
ClosedForgotten ==
  \A s \in Session : chain[s] = "closed" ~> [](~Cached(s))

\* Rehydration is "enabling it to both close expired orphaned sessions and
\* resume routing for sessions that are still active"
\* (session_expiry_handler.go:51-53): once it is through, prompts on the
\* active sessions in the cache find their provider.
RoutingResumes ==
  up /\ closer.pc = "scan" =>
    \A s \in OpenSessions \ ended : Cached(s) => KnownProvider(s)
=============================================================================
