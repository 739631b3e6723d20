---------------------------- MODULE ModelHealth ----------------------------
(***************************************************************************)
(* The provider's health report on its models.  A sweep goes over the      *)
(* configured models and the active bids, and probes one backend after the *)
(* other; prompts of real sessions report their results in between.  The   *)
(* mutex is held for the single reads and writes and not over a probe.     *)
(*                                                                         *)
(* A sweep starts at any time (a tick or a manual trigger).  One that      *)
(* cannot read the bids changes nothing.                                   *)
(***************************************************************************)
EXTENDS BackendVerifier

CONSTANTS
  Configured,           \* the models of models-config.json
  MaxErrors             \* maxConsecutiveErrors

ASSUME ConfiguredAssumption == Configured \subseteq Model
ASSUME ErrorsAssumption == MaxErrors \in Nat \ {0}

VARIABLES
  reports,              \* what is reported of a model
  failures,             \* the streaks of failed prompts
  sweep,                \* the Run loop; "off" when health checks are disabled
  swept,                \* firstTeeSweepDone
  failed                \* history: the failed prompts since the last that
                        \* succeeded, TRUE for those that the backend throttled

healthVars == <<snapshot, reports, failures, sweep, swept, failed>>

Report(status, kind) == [status |-> status, kind |-> kind]
Waiting == [pc |-> "wait", todo |-> {}, bids |-> {}, probing |-> {},
            reattest |-> FALSE]

Off == [Waiting EXCEPT !.pc = "off"]
Enabled == sweep.pc # "off"

HealthInit ==
  /\ snapshot \in [Model -> {"none", "passed", "failed"}]
  /\ \A m \in Model \ TeeModels : snapshot[m] = "none"
  /\ reports = <<>>
  /\ failures = <<>>
  /\ swept = FALSE
  /\ failed = <<>>

SetReport(m, status, kind) == reports' = Put(reports, m, Report(status, kind))
ResetFailures(m) == failures' = Drop(failures, m)
-----------------------------------------------------------------------------
\* checkAll reads the active bids of this provider, whatever they are now.
SweepBegins ==
  /\ sweep.pc = "wait"
  /\ \E bids \in SUBSET Model :
       sweep' = [pc |-> "next", todo |-> Configured \union bids, bids |-> bids,
                 probing |-> {}, reattest |-> swept]
  /\ swept' = TRUE
  /\ UNCHANGED <<snapshot, reports, failures, failed>>

\* The model's report is written, and the sweep moves on.
Reported(m, status, kind) ==
  /\ SetReport(m, status, kind)
  /\ sweep' = [sweep EXCEPT !.pc = "next", !.todo = @ \ {m}, !.probing = {}]
  /\ UNCHANGED <<snapshot, failures, swept, failed>>

Probing(m, pc) == sweep.pc = pc /\ m \in sweep.probing

\* The configured models come first.
Turn(m) ==
  /\ sweep.pc = "next"
  /\ m \in sweep.todo
  /\ m \in Configured \/ sweep.todo \intersect Configured = {}

\* checkModel without a bid, or with metadata that cannot be read;
\* reportUnconfigured.
Unprobed(m) ==
  /\ Turn(m)
  /\ \/ m \notin sweep.bids /\ Reported(m, "no_bid", "none")
     \/ m \notin Configured /\ Reported(m, "no_model_configured", "none")
     \/ /\ m \in sweep.bids \intersect Configured
        /\ Reported(m, "skipped", "none")

\* A TEE model is attested again on every sweep after the first.
Examine(m) ==
  /\ Turn(m)
  /\ m \in sweep.bids \intersect Configured
  /\ sweep' = [sweep EXCEPT !.pc = "check", !.probing = {m}]
  /\ IF m \in TeeModels /\ sweep.reattest
     THEN ReattestBackend(m) ELSE UNCHANGED snapshot
  /\ UNCHANGED <<reports, failures, swept, failed>>

Unattested(m) == m \in TeeModels /\ snapshot[m] # "passed"

TeeUnverified(m) ==
  /\ Probing(m, "check")
  /\ Unattested(m)
  /\ Reported(m, "tee_unverified", "tee")

\* The model's type is not probed.
NotProbed(m) ==
  Probing(m, "check") /\ ~Unattested(m) /\ Reported(m, "skipped", "none")

ProbeBegins(m) ==
  /\ Probing(m, "check")
  /\ ~Unattested(m)
  /\ sweep' = [sweep EXCEPT !.pc = "probe"]
  /\ UNCHANGED <<snapshot, reports, failures, swept, failed>>

\* The probe, or getting the adapter, fails; a 429 is degraded only.
ProbeFails(m) ==
  /\ Probing(m, "probe")
  /\ \/ Reported(m, "degraded", "rate_limited")
     \/ Reported(m, "unhealthy", "probe")

\* The probe passes: the streak is over, ...
ProbePasses(m) ==
  /\ Probing(m, "probe")
  /\ ResetFailures(m)
  /\ sweep' = [sweep EXCEPT !.pc = "healthy"]
  /\ UNCHANGED <<snapshot, reports, swept, failed>>

\* ... and, under the mutex again, the report is written.
SetHealthy(m) == Probing(m, "healthy") /\ Reported(m, "healthy", "none")

\* What is neither configured nor on offer is no longer reported.
Prune ==
  /\ sweep.pc = "next"
  /\ sweep.todo = {}
  /\ reports' = Restrict(reports, DOMAIN reports \intersect
                                    (Configured \union sweep.bids))
  /\ sweep' = Waiting
  /\ UNCHANGED <<snapshot, failures, swept, failed>>

SweepGoesOn ==
  \/ Prune
  \/ \E m \in Model :
       \/ Unprobed(m) \/ Examine(m) \/ TeeUnverified(m) \/ NotProbed(m)
       \/ ProbeBegins(m) \/ ProbeFails(m) \/ ProbePasses(m) \/ SetHealthy(m)
-----------------------------------------------------------------------------
\* The results of real prompts, each under the mutex.

EverLimited(streak, limited) ==                         \* mutant
  [count |-> streak.count + 1, limited |-> streak.limited \/ limited]
Lengthened(streak, limited) ==
  [count |-> streak.count + 1, limited |-> streak.limited /\ limited]

ReportPromptFailure(m, limited) ==
  LET old == IF m \in DOMAIN failures THEN failures[m]
             ELSE [count |-> 0, limited |-> TRUE]
      streak == Lengthened(old, limited)
      status == IF streak.limited THEN "degraded" ELSE "unhealthy"
  IN  /\ Enabled
      /\ failures' = Put(failures, m, streak)
      /\ IF streak.count < MaxErrors THEN UNCHANGED reports
         ELSE SetReport(m, status, "session_errors")
      /\ failed' = Append(failed, limited)
      /\ UNCHANGED <<snapshot, sweep, swept>>

ReportPromptSuccess(m) ==
  /\ Enabled
  /\ ResetFailures(m)
  /\ IF m \in DOMAIN reports /\ reports[m].kind = "session_errors"
     THEN SetReport(m, "healthy", "none")
     ELSE UNCHANGED reports
  /\ failed' = <<>>
  /\ UNCHANGED <<snapshot, sweep, swept>>

Untracked == ~Enabled /\ UNCHANGED healthVars

\* The snapshot is FastVerifyBackend's.
ReportTeeFailure(m) ==
  /\ IF Enabled
     THEN SetReport(m, "tee_unverified", "tee")
     ELSE UNCHANGED reports
  /\ UNCHANGED <<failures, sweep, swept, failed>>

HealthTypeOK ==
  /\ VerifierTypeOK
  /\ DOMAIN reports \subseteq Model /\ DOMAIN failures \subseteq Model
  /\ \A m \in DOMAIN reports : reports[m] \in
       [status : {"healthy", "degraded", "unhealthy", "tee_unverified",
                  "no_model_configured", "skipped", "no_bid"},
        kind : {"none", "rate_limited", "probe", "tee", "session_errors"}]
  /\ \A m \in DOMAIN failures :
       failures[m] \in [count : Nat \ {0}, limited : BOOLEAN]
  /\ sweep \in [pc : {"off", "wait", "next", "check", "probe", "healthy"},
                todo : SUBSET Model, bids : SUBSET Model,
                probing : SUBSET Model, reattest : BOOLEAN]
  /\ swept \in BOOLEAN
  /\ failed \in Seq(BOOLEAN)
=============================================================================
