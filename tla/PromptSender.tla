---------------------------- MODULE PromptSender ----------------------------
(***************************************************************************)
(* Prompts on the consumer node.  SendPromptV2 and its audio and embedding *)
(* siblings load the session, wait for its semaphore, send the prompt to   *)
(* the provider and write the loaded record back with the statistics of    *)
(* the answer.                                                             *)
(*                                                                         *)
(* The expiry check lets 5 * 10^9 seconds pass (a Duration taken as        *)
(* seconds): it refuses nothing.  Fail-over is enabled by nothing.         *)
(***************************************************************************)
EXTENDS SessionRepo

CONSTANT Prompt         \* the requests

VARIABLE prompt         \* the requests: where they are, on what session, with
                        \* the record that they loaded

promptVars == <<prompt>>

NoPrompt(s) == [pc |-> "done", session |-> s, stats |-> Fresh]

PromptInit == prompt = <<>>

Sending(s) == {q \in DOMAIN prompt :
                 prompt[q].pc = "sending" /\ prompt[q].session = s}
-----------------------------------------------------------------------------
\* validateSession, and the attestation of a TEE provider, have passed; the
\* provider's user is stored.
Validated(q, s) ==
  /\ q \notin DOMAIN prompt
  /\ \E stats \in Gets(s) :
       /\ cache' = With(s, stats)
       /\ prompt' = Put(prompt, q,
            [pc |-> "queued", session |-> s, stats |-> stats])
  /\ UNCHANGED <<chain, ended, opened, events>>

\* ErrProviderNotFound, or a failed attestation: the session was read through.
Rejected(q, s) ==
  /\ q \notin DOMAIN prompt
  /\ \E stats \in Gets(s) : cache' = With(s, stats)
  /\ prompt' = Put(prompt, q, NoPrompt(s))
  /\ UNCHANGED <<chain, ended, opened, events>>

SemaphoreFree(s) == Sending(s) = {}

Acquire(q) ==
  /\ prompt[q].pc = "queued"
  /\ SemaphoreFree(prompt[q].session)
  /\ prompt' = [prompt EXCEPT ![q].pc = "sending"]
  /\ UNCHANGED repoVars

\* The request is cancelled in the queue, or the provider's answer is an error
\* or none; the semaphore is released.
PromptFails(q) ==
  /\ prompt[q].pc \in {"queued", "sending"}
  /\ prompt' = [prompt EXCEPT ![q].pc = "done"]
  /\ UNCHANGED repoVars

\* updateSessionStats, and the semaphore is released.
Answered(q) ==
  LET s == prompt[q].session IN
  /\ prompt[q].pc = "sending"
  /\ cache' = With(s, prompt[q].stats + 1)
  /\ prompt' = [prompt EXCEPT ![q] = NoPrompt(s)]
  /\ UNCHANGED <<chain, ended, opened, events>>

PromptTypeOK ==
  /\ DOMAIN prompt \subseteq Prompt
  /\ \A q \in DOMAIN prompt :
       prompt[q] \in [pc : {"queued", "sending", "done"}, session : Session,
                      stats : Nat]
=============================================================================
