--------------------------- MODULE SessionOpening ---------------------------
(***************************************************************************)
(* Opening a session on the consumer node: OpenSessionByModelId tries the  *)
(* candidate providers one by one; OpenSession pays with a transaction,    *)
(* takes the stake off the agent's allowance, waits until the session can  *)
(* be read and stores it.  Requests run concurrently with each other and   *)
(* with everything that touches the session.                               *)
(*                                                                         *)
(* A session is named for the request that opens it.  The MOR allowance of *)
(* the diamond and the log of an agent's transactions are left out.        *)
(***************************************************************************)
EXTENDS SessionRepo, ProviderSelection, AgentAllowance, FiniteSetsExt

VARIABLES
  call,                 \* the requests that open sessions
  knows,                \* SessionStorage: the providers with a stored user
  starved               \* history: a request under the preferred policy has
                        \* tried none of the providers that could serve

openingVars == <<call, knows, starved>>

Idle == [pc |-> "idle", by |-> "admin", todo |-> <<>>, read |-> 0,
         stats |-> Fresh, paid |-> 0]

At(s, pc) == call[s].pc = pc
Goto(s, pc) == call' = [call EXCEPT ![s].pc = pc]

\* The provider tried last is the session's, once there is one.
ProviderOf(s) == Head(call[s].todo)

\* Sessions that the node has seen mined and not yet taken off.
Owed == Cardinality({s \in Session :
          call[s].by = "agent" /\ call[s].pc \in {"read", "take"}})
-----------------------------------------------------------------------------
\* The request comes in and the candidates are found, in one step: nothing of
\* it is shared.
OpenSessionByModelId(s, by) ==
  /\ At(s, "idle")
  /\ by = "agent" => login
  /\ \E chosen \in Selections :
       /\ call' = [call EXCEPT ![s].by = by, ![s].todo = chosen.todo,
            ![s].pc = IF chosen.todo = <<>> THEN "failed" ELSE "try"]
       /\ starved' = (starved \/ chosen.starved)
  /\ UNCHANGED <<knows, repoVars, allowanceVars>>

\* tryOpenSession returned with tryNext, or without.
TryNext(r) ==
  LET rest == Tail(r.todo) IN
  [r EXCEPT !.todo = rest, !.pc = IF rest = <<>> THEN "failed" ELSE "try"]

NextAfterError(r) == TryNext(r)                         \* mutant
GiveUp(r) == [r EXCEPT !.pc = "failed",
                       !.todo = IF r.paid = 0 THEN <<>> ELSE @]

\* The ping, the attestation or InitiateSession fails.
Refused(s) ==
  /\ At(s, "try")
  /\ call' = [call EXCEPT ![s] = TryNext(@)]
  /\ UNCHANGED <<knows, starved, repoVars, allowanceVars>>

\* The provider's registration or the price cannot be had.
TryFails(s) ==
  /\ At(s, "try")
  /\ call' = [call EXCEPT ![s] = GiveUp(@)]
  /\ UNCHANGED <<knows, starved, repoVars, allowanceVars>>

\* InitiateSession stores the provider and returns its approval.
Initiated(s) ==
  /\ At(s, "try")
  /\ knows' = knows \union {ProviderOf(s)}
  /\ Goto(s, "check")
  /\ UNCHANGED <<starved, repoVars, allowanceVars>>

CheckAllowance(s) ==
  /\ At(s, "check")
  /\ call' = [call EXCEPT ![s] =
       IF call[s].by = "agent" /\ ~IsAllowanceEnough
       THEN GiveUp(@)
       ELSE [@ EXCEPT !.pc = "open"]]
  /\ UNCHANGED <<knows, starved, repoVars, allowanceVars>>

\* One of the openSession transactions is mined.  While it is the node sends
\* and resends: the escalator within an attempt, and the loop around it when
\* the simulation of a transaction reverts.  What is sent after it reverts, for
\* its approval is used; what is sent before changes nothing.
OpenMined(s) ==
  /\ At(s, "open")
  /\ OpensOnChain(s)
  /\ call' = [call EXCEPT ![s].pc = "sent", ![s].paid = @ + 1]
  /\ UNCHANGED <<ended, cache, knows, starved, allowanceVars>>

\* The approval of the stake or the session's transaction fails, over all
\* retries, or the receipt cannot be parsed: of a transaction that may have
\* been mined, when its receipt was not seen before a resend reverted.
\* tryOpenSession does not try the next provider then.
OpenTxFails(s) ==
  /\ call[s].pc \in {"open", "sent"}
  /\ call' = [call EXCEPT ![s] = GiveUp(@)]
  /\ UNCHANGED <<knows, starved, repoVars, allowanceVars>>

\* Its receipt is there.
OpenTxMined(s) ==
  /\ At(s, "sent")
  /\ Goto(s, IF call[s].by = "agent" THEN "read" ELSE "poll")
  /\ IF call[s].by = "agent" THEN Spent ELSE UNCHANGED due
  /\ UNCHANGED <<repoVars, knows, starved, agent, login, allowances, request,
                 confirming, accepting, adminOps, raced>>

\* DecreaseAllowance reads the agent's record, ...
ReadAllowance(s) ==
  /\ At(s, "read")
  /\ agent # "none"
  /\ HasAllowance
  /\ call' = [call EXCEPT ![s].pc = "take", ![s].read = Allowed(allowances)]
  /\ UNCHANGED <<knows, starved, repoVars, allowanceVars>>

\* ... and SetAllowance writes it, each in a transaction of its own.
DecreaseAllowance(s) ==
  /\ At(s, "take")
  /\ TakeOff(call[s].read)
  /\ call' = [call EXCEPT ![s].pc = "poll", ![s].read = 0]
  /\ UNCHANGED <<knows, starved, repoVars, agent, login, request, confirming,
                 accepting, adminOps, due>>

\* The agent is gone, or it is another that has no allowance under the key:
\* OpenSession returns the error and not the session.
DecreaseFails(s) ==
  /\ \/ call[s].pc \in {"read", "take"} /\ agent = "none"
     \/ At(s, "read") /\ ~HasAllowance
  /\ call' = [call EXCEPT ![s].pc = "failed", ![s].read = 0]
  /\ Forgiven
  /\ UNCHANGED <<knows, starved, repoVars, agent, login, allowances, request,
                 confirming, accepting, adminOps, raced>>

\* GetSession, read through.
Visible(s) ==
  /\ At(s, "poll")
  /\ \E stats \in Gets(s) :
       /\ cache' = With(s, stats)
       /\ call' = [call EXCEPT ![s].pc = "save", ![s].stats = stats]
  /\ UNCHANGED <<chain, ended, opened, events, knows, starved, allowanceVars>>

\* Ten times not, or the request is cancelled in between.
NotVisible(s) ==
  /\ At(s, "poll")
  /\ Goto(s, "failed")
  /\ UNCHANGED <<knows, starved, repoVars, allowanceVars>>

\* SaveSession writes the record it got back, with the agent's name.
SaveOpened(s) ==
  /\ At(s, "save")
  /\ cache' = With(s, call[s].stats)
  /\ call' = [call EXCEPT ![s].pc = "done", ![s].stats = Fresh]
  /\ UNCHANGED <<chain, ended, opened, events, knows, starved, allowanceVars>>

Open(s) ==
  \/ OpenSessionByModelId(s, "admin") \/ OpenSessionByModelId(s, "agent")
  \/ Refused(s) \/ TryFails(s) \/ Initiated(s)
  \/ CheckAllowance(s)
  \/ OpenMined(s) \/ OpenTxFails(s) \/ OpenTxMined(s)
  \/ ReadAllowance(s) \/ DecreaseAllowance(s) \/ DecreaseFails(s)
  \/ Visible(s) \/ NotVisible(s) \/ SaveOpened(s)

OpeningTypeOK ==
  /\ call \in [Session ->
       [pc : {"idle", "try", "check", "open", "sent", "read", "take", "poll",
              "save", "done", "failed"},
        by : {"admin", "agent"}, todo : Seq(Provider), read : Int,
        stats : Nat, paid : Nat]]
  /\ knows \subseteq Provider
  /\ starved \in BOOLEAN
-----------------------------------------------------------------------------
\* A request pays for one session at most.  An open whose transaction failed
\* may yet have been mined, so the loop over the candidates must not go on to
\* the next provider after it (tryNext is false from OpenSession on).
OneSessionPerCall == \A s \in Session : call[s].paid <= 1

\* What an agent may spend is exact at every moment: what the admin or the
\* agent's own new record last set it to, in lower case, less the stakes taken
\* off since, whatever confirmations, removals, revocations, new requests and
\* opens run at once and however the token is spelled.  A write that races
\* with another (raced) makes it inexact, until it is set anew.
AllowanceExact ==
  agent # "none" /\ ~raced => Allowed(allowances) = due + Owed

\* The preferred policy starves no open: when one of the providers would pass
\* the ping of a permissive open, one such provider is among those that a
\* preferred open tries, whether the others are unhealthy, silent or without
\* a report.
PreferredNeverStarves == ~starved
=============================================================================
