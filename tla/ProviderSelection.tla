------------------------- MODULE ProviderSelection -------------------------
(***************************************************************************)
(* How OpenSessionByModelId picks the providers that it tries: the model's *)
(* bids by score, without those that are omitted, the user's own or not    *)
(* affordable, under the configured health policy.  One bid a provider.    *)
(***************************************************************************)
EXTENDS Naturals, Sequences, FiniteSets, SequencesExt

CONSTANT Bids           \* the scored bids' providers, best first

Provider == Range(Bids)

ASSUME BidsAssumption == IsInjective(Bids) /\ Bids \in Seq(Provider)

Policy == {"permissive", "preferred", "strict"}

\* The statuses a pong reports for the model; "" is no report, and "skipped"
\* and "no_bid" carry no signal.
Status == {"healthy", "degraded", "unhealthy", "tee_unverified",
           "no_model_configured", "skipped", "no_bid", ""}
Class == {"unknown", "healthy", "degraded", "blocked", "unreachable"}

ClassifyModelHealth(status) ==
  CASE status \in {"healthy", "degraded"} -> status
    [] status \in {"unhealthy", "tee_unverified", "no_model_configured"} ->
         "blocked"
    [] OTHER -> "unknown"

\* candidateModelHealth: the class of an answered ping, or of none.
ClassOf(ping) ==
  IF ping = "no answer" THEN "unreachable" ELSE ClassifyModelHealth(ping)

Serviceable == {"healthy", "degraded"}

OnlyHealthy(policy, classes) ==                         \* mutant
  {p \in DOMAIN classes :
     CASE policy = "strict" -> classes[p] = "healthy"
       [] policy = "preferred" -> classes[p] \in Serviceable
       [] OTHER -> classes[p] \notin {"blocked", "unreachable"}}

ApplyHealthPolicy(policy, classes) ==
  LET anyServiceable == \E p \in DOMAIN classes : classes[p] \in Serviceable IN
  {p \in DOMAIN classes :
     CASE policy = "strict" -> classes[p] = "healthy"
       [] policy = "preferred" ->
            IF anyServiceable
            THEN classes[p] \in Serviceable
            ELSE classes[p] = "unknown"
       [] OTHER -> classes[p] \notin {"blocked", "unreachable"}}

\* The policy of one open: a single provider is tried in any case, and a
\* permissive open pings nobody beforehand.
PolicyFor(policy, attemptable) ==
  IF Cardinality(attemptable) <= 1 THEN "permissive" ELSE policy

Kept(policy, attemptable, pings) ==
  LET forced == PolicyFor(policy, attemptable)
      classes == [p \in attemptable |-> ClassOf(pings[p])]
  IN  IF forced = "permissive" THEN attemptable
      ELSE ApplyHealthPolicy(forced, classes)

\* The providers in the order in which they are tried.  attemptable are those
\* that pass the hard filters.
Candidates(policy, attemptable, pings) ==
  LET kept == Kept(policy, attemptable, pings)
      best[n \in 0 .. Len(Bids)] ==    \* of the first n bids
        IF n = 0 THEN <<>>
        ELSE IF Bids[n] \in kept THEN Append(best[n - 1], Bids[n])
             ELSE best[n - 1]
  IN  best[Len(Bids)]

Pings == [Provider -> Status \union {"no answer"}]

\* The providers that would pass the ping of tryOpenSession.
Answering(attemptable, pings) ==
  {p \in attemptable : ClassOf(pings[p]) \notin {"blocked", "unreachable"}}

\* A provider could serve, and none that could is tried.
Starves(policy, attemptable, pings) ==
  /\ Answering(attemptable, pings) # {}
  /\ Kept(policy, attemptable, pings)
       \intersect Answering(attemptable, pings) = {}

\* What an open makes of the providers, with the configured policy: the ones
\* to try, and whether the policy starves it.
Selection(policy, attemptable, pings) ==
  [todo |-> Candidates(policy, attemptable, pings),
   starved |-> policy = "preferred" /\ Starves(policy, attemptable, pings)]

\* Whatever the policy, the providers and their pings.
Selections ==
  {Selection(policy, attemptable, pings) :
     policy \in Policy, attemptable \in SUBSET Provider, pings \in Pings}
=============================================================================
