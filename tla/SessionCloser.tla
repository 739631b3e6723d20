--------------------------- MODULE SessionCloser ---------------------------
(***************************************************************************)
(* The session expiry handler of the consumer node: when the node starts   *)
(* it reads the wallet's sessions from the chain into the cache, and then  *)
(* every minute it closes those in the cache whose time is up.  Sessions   *)
(* are closed by API requests too, and by other holders of the wallet.     *)
(***************************************************************************)
EXTENDS SessionRepo, SequencesExt

CONSTANTS
  PageSize,             \* rehydrationPageSize
  Threshold             \* earlyTerminationThreshold

ASSUME PageAssumption == {PageSize, Threshold} \subseteq Nat \ {0}

VARIABLES
  closer,               \* the handler's goroutine
  apiClosing,           \* the sessions that API requests are closing
  dropped,              \* history: open sessions whose read failed or whose
                        \* event was skipped since the node started
  missed                \* history: open sessions that rehydration has ended
                        \* early without, with nothing failing

closerVars == <<closer, apiClosing, dropped, missed>>

\* pc: "page", "store", "scan", "report", "tx", "remove".  A scan of nothing is
\* the handler waiting for the ticker.
Starting == [pc |-> "page", todo |-> {}, offset |-> 0, allClosed |-> 0]

CloserInit ==
  /\ closer = [Starting EXCEPT !.pc = "scan"]
  /\ apiClosing = {}
  /\ dropped = {}
  /\ missed = {}

IsOpen(s) == chain[s] = "open"
OpenSessions == {s \in Session : IsOpen(s)}

\* The session in hand.
InHand == CHOOSE s \in closer.todo : TRUE
Rest == closer.todo \ {InHand}

\* Next session of the scan, or back to it.
Scan(todo) == closer' = [closer EXCEPT !.pc = "scan", !.todo = todo]
-----------------------------------------------------------------------------
\* GetUnclosedUserSessions: a page, newest first, counted from the newest
\* session of the moment.
Page ==
  LET last == Len(opened) - closer.offset
  IN  {opened[i] : i \in {j \in DOMAIN opened :
                           last - PageSize < j /\ j <= last}}

AllClosedPages(page) ==
  IF page \intersect OpenSessions = {} THEN closer.allClosed + 1 ELSE 0

\* rehydrateFromChain, one page.
FetchPage ==
  /\ closer.pc = "page"
  /\ Page # {}
  /\ AllClosedPages(Page) < Threshold
  /\ closer' = [pc |-> "store", todo |-> Page \intersect OpenSessions,
                offset |-> closer.offset + Cardinality(Page),
                allClosed |-> AllClosedPages(Page)]
  /\ UNCHANGED <<repoVars, apiClosing, dropped, missed>>

\* The end of the list.
Rehydrated ==
  /\ closer.pc = "page"
  /\ Page = {}
  /\ closer' = [Starting EXCEPT !.pc = "scan"]
  /\ UNCHANGED <<repoVars, apiClosing, dropped, missed>>

\* So many pages of closed sessions that "older sessions are overwhelmingly
\* likely to also be closed": those that are open nevertheless are missed.
TerminatedEarly ==
  /\ closer.pc = "page"
  /\ Page # {}
  /\ AllClosedPages(Page) >= Threshold
  /\ closer' = [Starting EXCEPT !.pc = "scan"]
  /\ missed' = missed \union (OpenSessions \ DOMAIN cache)
  /\ UNCHANGED <<repoVars, apiClosing, dropped>>

\* An RPC error ends the rehydration, and is only logged.
RehydrationFails ==
  /\ closer.pc = "page"
  /\ closer' = [Starting EXCEPT !.pc = "scan"]
  /\ dropped' = dropped \union (OpenSessions \ DOMAIN cache)
  /\ UNCHANGED <<repoVars, apiClosing, missed>>

\* AddSession, over a record that is already there.
StoreSession ==
  /\ closer.pc = "store"
  /\ closer.todo # {}
  /\ \E s \in closer.todo :
       /\ cache' = With(s, Fresh)
       /\ closer' = [closer EXCEPT !.todo = @ \ {s}]
  /\ UNCHANGED <<chain, ended, opened, events, apiClosing, dropped, missed>>

PageStored ==
  /\ closer.pc = "store"
  /\ closer.todo = {}
  /\ closer' = [closer EXCEPT !.pc = "page"]
  /\ UNCHANGED <<repoVars, apiClosing, dropped, missed>>
-----------------------------------------------------------------------------
\* Run: the ticker, and a snapshot of the cached sessions.
Tick ==
  /\ closer.pc = "scan"
  /\ closer.todo = {}
  /\ DOMAIN cache # {}
  /\ Scan(DOMAIN cache)
  /\ UNCHANGED <<repoVars, apiClosing, dropped, missed>>

NotYetEnded ==
  /\ closer.pc = "scan"
  /\ closer.todo # {}
  /\ InHand \notin ended
  /\ Scan(Rest)
  /\ UNCHANGED <<repoVars, apiClosing, dropped, missed>>

Examining ==
  /\ closer.pc = "scan"
  /\ closer.todo # {}
  /\ InHand \in ended

\* An RPC error takes the session from the cache, open or not.
Unreadable ==
  /\ Examining
  /\ cache' = Without(InHand)
  /\ dropped' = dropped \union ({InHand} \intersect OpenSessions)
  /\ Scan(Rest)
  /\ UNCHANGED <<chain, ended, opened, events, apiClosing, missed>>

SkipsClosed(s) == cache                                 \* mutant
Forgotten(s) == Without(s)

AlreadyClosed ==
  /\ Examining
  /\ ~IsOpen(InHand)
  /\ cache' = Forgotten(InHand)
  /\ Scan(Rest)
  /\ UNCHANGED <<chain, ended, opened, events, apiClosing, dropped, missed>>

\* CloseSession begins.
StillOpen ==
  /\ Examining
  /\ IsOpen(InHand)
  /\ closer' = [closer EXCEPT !.pc = "report"]
  /\ UNCHANGED <<repoVars, apiClosing, dropped, missed>>

\* The provider's report, or else the user's own: either reads the session
\* through the cache.
Report ==
  /\ closer.pc = "report"
  /\ \E stats \in Gets(InHand) : cache' = With(InHand, stats)
  /\ closer' = [closer EXCEPT !.pc = "tx"]
  /\ UNCHANGED <<chain, ended, opened, events, apiClosing, dropped, missed>>

\* A removed session cannot be read again: CloseSession fails.
NoReport ==
  /\ closer.pc = "report"
  /\ ~Cached(InHand)
  /\ Scan(Rest)
  /\ UNCHANGED <<repoVars, apiClosing, dropped, missed>>

RemovedAnyway(s) == Without(s)                          \* mutant
KeptForRetry(s) == cache

\* The session stays in the cache for the next tick.
CloseTxFails ==
  /\ closer.pc = "tx"
  /\ cache' = KeptForRetry(InHand)
  /\ Scan(Rest)
  /\ UNCHANGED <<chain, ended, opened, events, apiClosing, dropped, missed>>

CloseMinedUnknown ==
  /\ closer.pc = "tx"
  /\ ClosesOnChain(InHand)
  /\ Scan(Rest)
  /\ UNCHANGED <<ended, cache, apiClosing, dropped, missed>>

CloseTxMined ==
  /\ closer.pc = "tx"
  /\ ClosesOnChain(InHand)
  /\ closer' = [closer EXCEPT !.pc = "remove"]
  /\ UNCHANGED <<ended, cache, apiClosing, dropped, missed>>

RemoveClosed ==
  /\ closer.pc = "remove"
  /\ cache' = Without(InHand)
  /\ Scan(Rest)
  /\ UNCHANGED <<chain, ended, opened, events, apiClosing, dropped, missed>>

Closer ==
  \/ FetchPage \/ Rehydrated \/ TerminatedEarly \/ RehydrationFails
  \/ StoreSession \/ PageStored
  \/ Tick \/ NotYetEnded \/ Unreadable \/ AlreadyClosed \/ StillOpen
  \/ Report \/ NoReport \/ CloseTxFails \/ CloseMinedUnknown \/ CloseTxMined
  \/ RemoveClosed
-----------------------------------------------------------------------------
\* CloseSession of an API request: it reads the session through the cache and
\* leaves the cache to the event.
ApiReport(s) ==
  /\ s \notin apiClosing
  /\ IsOpen(s)
  /\ apiClosing' = apiClosing \union {s}
  /\ \E stats \in Gets(s) : cache' = With(s, stats)
  /\ UNCHANGED <<chain, ended, opened, events, closer, dropped, missed>>

ApiCloseMined(s) ==
  /\ s \in apiClosing
  /\ ClosesOnChain(s)
  /\ apiClosing' = apiClosing \ {s}
  /\ UNCHANGED <<ended, cache, closer, dropped, missed>>

ApiCloseFails(s) ==
  /\ s \in apiClosing
  /\ apiClosing' = apiClosing \ {s}
  /\ UNCHANGED <<repoVars, closer, dropped, missed>>

ApiClose(s) == ApiReport(s) \/ ApiCloseMined(s) \/ ApiCloseFails(s)

CloserTypeOK ==
  /\ closer \in [pc : {"page", "store", "scan", "report", "tx", "remove"},
                 todo : SUBSET Session, offset : Nat, allClosed : Nat]
  /\ apiClosing \subseteq Session
  /\ dropped \subseteq Session
  /\ missed \subseteq Session
=============================================================================
