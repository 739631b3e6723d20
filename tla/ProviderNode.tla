---------------------------- MODULE ProviderNode ----------------------------
(***************************************************************************)
(* The provider node and its consumers: requests for sessions, the         *)
(* sessions on the chain, uploads and prompts, the event listener and the  *)
(* health sweep; the node may stop at any moment and is started again,     *)
(* with its storage or without.  (Its expiry handler passes over the       *)
(* sessions of other users.)                                               *)
(***************************************************************************)
EXTENDS PromptServing, SequencesExt

CONSTANT Workloads      \* bound: what a behaviour may contain

\* The sessions that run already have slots; a queued prompt is of one of them.
ASSUME WorkloadAssumption ==
  /\ Workloads \subseteq
       [served : Model, running : SUBSET Session, asked : SUBSET Session,
        prompts : SUBSET Prompt, queued : SUBSET Prompt, audio : SUBSET Prompt,
        policies : SUBSET {"simple", "idle_timeout"}, tracked : BOOLEAN,
        offers : SUBSET Model, sweeps : Nat, restarts : Nat, quiet : BOOLEAN]
  /\ \A w \in Workloads :
       /\ "simple" \in w.policies /\ Slots > 0 => Cardinality(w.running) <= Slots
       /\ w.queued # {} => w.running # {}
       /\ IsFiniteSet(w.queued) /\ w.queued \intersect w.audio = {}

VARIABLES
  workload,             \* bound: the behaviour's workload
  sweepsLeft,           \* bound: how many sweeps may still begin
  restarts              \* bound: how many times the node may still stop

bounds == <<workload, sweepsLeft, restarts>>
allVars == <<repoVars, capacityVars, healthVars, uploadVars, served, queue,
             exchange, bounds>>

\* The sessions of the workload that run already were opened and seen; the
\* queued prompts were left behind by consumers that gave up.
Init ==
  /\ workload \in Workloads
  /\ sweepsLeft = workload.sweeps
  /\ restarts = workload.restarts
  /\ chain = [s \in Session |->
       IF s \in workload.running THEN "open" ELSE "none"]
  /\ cache = [s \in workload.running |-> Fresh]
  /\ ended = {}
  /\ opened = SetToSeq(workload.running)
  /\ events = <<>>
  /\ approved = workload.running
  /\ users = workload.running
  /\ policy \in workload.policies
  /\ sweep = IF workload.tracked THEN Waiting ELSE Off
  /\ CapacityInit /\ HealthInit /\ UploadInit
  /\ upload = [q \in workload.audio |-> NoUpload]
  /\ served = workload.served
  /\ served \notin TeeModels => snapshot = [m \in Model |-> "none"]
  /\ queue = SetToSeq(workload.queued)
  /\ exchange = [q \in workload.queued |->
       [Exchange(CHOOSE s \in workload.running : TRUE)
         EXCEPT !.client = "failed", !.server = "queued"]]

\* A quiet behaviour is over before sessions end or close.
Quiet == workload.quiet
-----------------------------------------------------------------------------
\* SessionRequest: a TEE model's backend is verified first.
Requested(s) ==
  /\ s \in workload.asked
  /\ SessionRequest(s)
  /\ \E isTee \in Tee :
       IF isTee THEN FastVerified(served) ELSE UNCHANGED snapshot
  /\ UNCHANGED <<reports, failures, sweep, swept, failed, uploadVars,
                 served, queue, exchange, bounds>>

RequestRefused(s) ==
  /\ s \in workload.asked \ approved
  /\ served \in TeeModels
  /\ FastVerifyFails(served)
  /\ ReportTeeFailure(served)
  /\ UNCHANGED <<repoVars, capacityVars, uploadVars, served, queue, exchange,
                 bounds>>

OnChain(s) ==
  /\ \/ ConsumerOpens(s)
     \/ ~Quiet /\ ConsumerCloses(s)
     \/ ~Quiet /\ Expire(s) /\ UNCHANGED capacityVars
     \/ ~Quiet /\ ActivityAges(s)
  /\ UNCHANGED <<healthVars, uploadVars, served, queue, exchange,
                 bounds>>

\* An event that the log watcher does not hand over.
EventSkipped ==
  /\ events # <<>>
  /\ events' = Tail(events)
  /\ UNCHANGED <<chain, ended, opened, cache>>

Listens ==
  /\ \/ HandleSessionOpened \/ OpenedUnread \/ HandleSessionClosed
     \/ EventSkipped
  /\ UNCHANGED <<capacityVars, healthVars, uploadVars, served, queue, exchange,
                 bounds>>

Checks ==
  /\ \/ /\ SweepBegins
        /\ sweep'.bids \subseteq workload.offers
        /\ sweepsLeft > 0
        /\ sweepsLeft' = sweepsLeft - 1
     \/ SweepGoesOn /\ UNCHANGED sweepsLeft
  /\ UNCHANGED <<repoVars, capacityVars, uploadVars, served, queue, exchange,
                 workload, restarts>>

Prompts(q, A) ==
  /\ q \in workload.prompts
  /\ A
  /\ UNCHANGED bounds

\* The process stops and starts: what is in memory is gone, and the storage
\* too where it is ephemeral; connections break, with or without the frames
\* that were on their way; the TEE backends are attested anew.
Restart ==
  /\ restarts > 0
  /\ restarts' = restarts - 1
  /\ \E kept \in SUBSET Started :
       exchange' = [q \in Started |->
         IF exchange[q].server \in {"none", "served", "failed", "cut"}
         THEN exchange[q]
         ELSE [exchange[q] EXCEPT !.server = "cut",
                                  !.wire = IF q \in kept THEN @ ELSE <<>>]]
  /\ \/ UNCHANGED <<cache, users, activity>>
     \/ /\ cache' = <<>>
        /\ users' = {}
        /\ activity' = [s \in Session |-> 0]
  /\ IF served \in TeeModels
     THEN \E outcome \in {"none", "passed", "failed"} :
            AttestBackend(served, outcome)
     ELSE UNCHANGED snapshot
  /\ reports' = <<>>
  /\ failures' = <<>>
  /\ failed' = <<>>
  /\ sweep' = IF Enabled THEN Waiting ELSE Off
  /\ swept' = FALSE
  /\ streams' = <<>>
  /\ queue' = <<>>
  /\ events' = <<>>
  /\ UNCHANGED <<chain, ended, opened, policy, approved, blind, upload,
                 served, workload, sweepsLeft>>

Next ==
  \/ \E s \in Session : Requested(s) \/ RequestRefused(s) \/ OnChain(s)
  \/ \E q \in Prompt :
       \/ Prompts(q, Consumes(q)) \/ Prompts(q, Streams(q))
       \/ Prompts(q, Serves(q))
  \/ Listens \/ Checks \/ Restart

Spec == Init /\ [][Next]_allVars

\* The consumer's reads and timeouts go on, and so does what the provider does
\* by itself.  Nothing is assumed of the backends.
FairSpec ==
  /\ Spec
  /\ \A q \in Prompt :
       /\ WF_allVars(Prompts(q, Reads(q)))
       /\ WF_allVars(Prompts(q, Handles(q)))
-----------------------------------------------------------------------------
TypeOK ==
  /\ RepoTypeOK /\ CapacityTypeOK /\ HealthTypeOK /\ UploadTypeOK
  /\ ServingTypeOK
  /\ workload \in Workloads
  /\ {sweepsLeft, restarts} \subseteq Nat

\* A model is reported unhealthy or degraded for its prompts only when that
\* many prompts in a row have failed since the last that succeeded; degraded
\* only when that many in a row were throttled, unhealthy only when one was
\* not: whatever sweeps were under way when the results came in.
SessionErrorsReal ==
  served \in DOMAIN reports /\ reports[served].kind = "session_errors" =>
    /\ Len(failed) >= MaxErrors
    /\ reports[served].status = "degraded" =>
         \E i \in 0 .. Len(failed) - MaxErrors :
           \A j \in 1 .. MaxErrors : failed[i + j]
    /\ reports[served].status = "unhealthy" => FALSE \in Range(failed)

\* An answer that the consumer takes for complete is one that the provider
\* served to its end, with every chunk of it: errors after the first chunk,
\* retries and refusals are not taken for the end of the answer.  A provider
\* that stops in the middle is the exception: the end of the connection is all
\* that the consumer sees.
AnswerMeansServed ==
  \A q \in Started : exchange[q].client = "answered" =>
    \/ exchange[q].server = "cut"
    \/ /\ exchange[q].server \in {"saving", "served"}
       /\ exchange[q].got = exchange[q].sent

\* The file that is transcribed is the whole file, in order, though its chunks
\* came over connections of their own with failures and restarts between.
StreamIntact ==
  \A q \in Started :
    exchange[q].server = "saving" /\ IsAudio(q) =>
      exchange[q].file = [i \in 1 .. TotalChunks |-> i - 1]

\* Under the simple policy no more sessions run at once than the model has
\* slots, provided each approval was given when the earlier ones were seen
\* opened: nothing is reserved for an approval.
SlotsRespected ==
  policy = "simple" /\ Slots > 0 /\ ~blind => Cardinality(Running) <= Slots

Stalled(q) == ServerAt(q, "engine") /\ exchange[q].got > 0

Held(q) ==
  q \in Started /\ \E r \in Started :
    Of(r) = Of(q) /\ exchange[r].server \in {"verify", "engine"}

\* The consumer's wait ends, by an answer or an error, unless the backend
\* stalls for ever after the first chunk; and a prompt queued at the provider
\* gets its turn, unless the backend keeps another prompt of the session.
EveryPromptEnds ==
  \A q \in Prompt :
    /\ ClientAt(q, "reading") ~> (~ClientAt(q, "reading") \/ []Stalled(q))
    /\ ServerAt(q, "queued") ~> (~ServerAt(q, "queued") \/ []Held(q))
=============================================================================
