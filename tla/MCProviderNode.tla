--------------------------- MODULE MCProviderNode ---------------------------
(* A provider with a TEE model, another model, and one with a bid but no    *)
(* backend; a behaviour is one of a few workloads.                          *)
EXTENDS ProviderNode

CONSTANTS s1, s2, m1, m2, m3

Load(model, running, asked, prompts, queued, audio, policies, tracked, offers,
     sweeps, restartsLeft, quiet) ==
  [served |-> model, running |-> running, asked |-> asked, prompts |-> prompts,
   queued |-> queued, audio |-> audio, policies |-> policies,
   tracked |-> tracked, offers |-> offers, sweeps |-> sweeps,
   restarts |-> restartsLeft, quiet |-> quiet]

Simple == {"simple"}
Idle == {"idle_timeout"}

\* Two prompts of a running session, and a restart.
Prompting == Load(m2, {s1}, {}, {1, 2}, {}, {}, Simple, FALSE, {}, 0, 1, TRUE)

\* A prompt of a session that may end or be closed.
Ending == Load(m2, {s1}, {}, {1}, {}, {}, Simple, FALSE, {}, 0, 1, FALSE)

\* Audio files, and a restart.
Uploading == Load(m2, {s1}, {}, {1, 2}, {}, {1, 2}, Simple, FALSE, {}, 0, 1, TRUE)

\* Prompts that fail while a sweep goes on, ...
Sickening ==
  Load(m2, {s1}, {}, {1, 2, 3}, {1, 2, 3}, {}, Simple, TRUE, {m2}, 1, 0, TRUE)

\* ... and attestations that fail, in a prompt or in a sweep.
Attesting ==
  Load(m1, {s1}, {}, {1}, {1}, {}, Simple, TRUE, {m1, m3}, 2, 0, TRUE)

\* Two sessions for one slot, with a restart; and one that gets the slot of a
\* session that may send a prompt, or end.
Filling == Load(m2, {}, {s1, s2}, {}, {}, {}, Simple, FALSE, {}, 0, 1, FALSE)
Idling == Load(m1, {s1}, {s2}, {1}, {1}, {}, Idle, FALSE, {}, 0, 1, FALSE)

AllLoads == {Prompting, Ending, Uploading, Sickening, Attesting, Filling,
             Idling}
=============================================================================
