---------------------------- MODULE SessionRepo ----------------------------
(***************************************************************************)
(* The node's view of its sessions: a read-through cache of session        *)
(* records in the node's storage, in front of the chain.  Consumers and    *)
(* providers run the same code.                                            *)
(*                                                                         *)
(* Of a record only what the node adds to the chain's immutable terms      *)
(* counts here: the number of prompts in its statistics.  The storage      *)
(* itself does not fail, and is serial per operation; the chain is asked   *)
(* over RPC, which may fail.                                               *)
(***************************************************************************)
EXTENDS Maps, Integers, Sequences, FiniteSets

CONSTANT Session        \* the sessions that the node may have

ASSUME SessionAssumption == IsFiniteSet(Session)

VARIABLES
  chain,                \* the diamond: "none", "open" or "closed"
  ended,                \* the sessions past their EndsAt
  opened,               \* the sessions of the diamond's list, oldest first
  cache,                \* SessionStorage: of what is cached, the stats
  events                \* what the log watcher has yet to hand over, in order

repoVars == <<chain, ended, opened, cache, events>>

Cached(s) == s \in DOMAIN cache

RepoInit ==
  /\ chain = [s \in Session |-> "none"]
  /\ ended = {}
  /\ opened = <<>>
  /\ cache = <<>>
  /\ events = <<>>

\* getSessionFromBlockchain: a record without statistics.
Fresh == 0

\* GetSession: what it may return, from the cache or read through.  It reads
\* closed sessions too.
Gets(s) ==
  IF Cached(s) THEN {cache[s]}
  ELSE IF chain[s] # "none" THEN {Fresh} ELSE {}

With(s, stats) == Put(cache, s, stats)
Without(s) == Drop(cache, s)

\* The transactions that change the chain, with the events they emit.
OpensOnChain(s) ==
  /\ chain' = [chain EXCEPT ![s] = "open"]
  /\ opened' = Append(opened, s)
  /\ events' = Append(events, <<"opened", s>>)

ClosesOnChain(s) ==
  /\ chain[s] = "open"
  /\ chain' = [chain EXCEPT ![s] = "closed"]
  /\ events' = Append(events, <<"closed", s>>)
  /\ UNCHANGED opened

\* A session's time is up; a closed one keeps its EndsAt in the cache.
Expire(s) ==
  /\ chain[s] # "none"
  /\ s \notin ended
  /\ ended' = ended \union {s}
  /\ UNCHANGED <<chain, opened, cache, events>>
-----------------------------------------------------------------------------
\* handleSessionOpened: RefreshSession is a GetSession, which does not
\* overwrite a cached record.
HandleSessionOpened ==
  /\ events # <<>>
  /\ Head(events)[1] = "opened"
  /\ LET s == Head(events)[2] IN
       \E stats \in Gets(s) : cache' = With(s, stats)
  /\ events' = Tail(events)
  /\ UNCHANGED <<chain, ended, opened>>

\* The chain is not read; the error is only logged.
OpenedUnread ==
  /\ events # <<>>
  /\ Head(events)[1] = "opened"
  /\ ~Cached(Head(events)[2])
  /\ events' = Tail(events)
  /\ UNCHANGED <<chain, ended, opened, cache>>

\* handleSessionClosed
HandleSessionClosed ==
  /\ events # <<>>
  /\ Head(events)[1] = "closed"
  /\ cache' = Without(Head(events)[2])
  /\ events' = Tail(events)
  /\ UNCHANGED <<chain, ended, opened>>

RepoTypeOK ==
  /\ chain \in [Session -> {"none", "open", "closed"}]
  /\ ended \subseteq Session
  /\ DOMAIN cache \subseteq Session
  /\ \A s \in DOMAIN cache : cache[s] \in Nat
  /\ opened \in Seq(Session)
  /\ events \in Seq({"opened", "closed"} \X Session)
=============================================================================
