--------------------------- MODULE MCConsumerNode ---------------------------
(* Two sessions, opened with one or two providers; a behaviour is one of a  *)
(* few workloads.                                                           *)
EXTENDS ConsumerNode

CONSTANTS s1, s2, p1, p2, q1, q2

TwoBids == <<p1, p2>>

Load(calls, agents, initiated, prompts, granted, admin, restartsLeft,
     apiCloses, quiet) ==
  [calls |-> calls, agents |-> agents,
   initiated |-> initiated, prompts |-> prompts, granted |-> granted,
   admin |-> admin, restarts |-> restartsLeft, apiCloses |-> apiCloses,
   quiet |-> quiet]

\* An agent with an allowance opens twice at once, while the admin changes
\* what it may spend: up to declining it, and a new request.
Spending == Load({s1, s2}, {s1, s2}, {}, {}, TRUE, 2, 0, FALSE, TRUE)

\* It opens once, and more happens to its record meanwhile.
Confirming == Load({s1}, {s1}, {}, {}, TRUE, 4, 0, FALSE, TRUE)

\* Two sessions that run to their ends, over a restart.
Closing == Load({s1, s2}, {}, {s1, s2}, {}, FALSE, 0, 1, FALSE, FALSE)

\* Prompts that race with the session's end, closes by request and a restart.
Prompting == Load({s1}, {}, {s1}, {q1, q2}, FALSE, 0, 1, TRUE, FALSE)

AllLoads == {Spending, Confirming, Closing, Prompting}

\* One session and a restart.
Restarting == {Load({s1}, {}, {}, {}, FALSE, 0, 1, FALSE, FALSE)}
=============================================================================
