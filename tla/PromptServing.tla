--------------------------- MODULE PromptServing ---------------------------
(***************************************************************************)
(* A prompt's way between the two nodes: one TCP connection, the request,  *)
(* a stream of frames back, and the end of the connection.  The consumer   *)
(* and the provider each let one prompt of a session pass at a time; a     *)
(* consumer that gave up leaves its prompt behind at the provider.         *)
(*                                                                         *)
(* Once a first frame has come the consumer waits without a deadline, and  *)
(* takes the end of the connection for the end of the answer.  Of the      *)
(* backend (a model server behind an adapter) only the outcomes are        *)
(* modelled: it is external, and may stall for ever.  The sessions' model  *)
(* is configured: there is an adapter for it.                              *)
(***************************************************************************)
EXTENDS SessionCapacity, ModelHealth, AudioUpload, SequencesExt

CONSTANTS
  Prompt,               \* the requests, numbered as they begin
  MaxChunks,            \* bound: the chunks of an answer
  MaxRetries            \* cnodePnodeMaxRetries

ASSUME ServingAssumption ==
  Prompt \subseteq Nat /\ {MaxChunks, MaxRetries} \subseteq Nat

VARIABLES
  served,               \* the model of the sessions
  exchange,             \* the prompts under way and gone, at both ends
  queue                 \* who waits for the provider's semaphores, in order

Exchange(s) ==
  [session |-> s, client |-> "ready", server |-> "none", late |-> FALSE,
   wire |-> <<>>, sent |-> 0, got |-> 0, retries |-> 0, stats |-> Fresh,
   file |-> <<>>]

Started == DOMAIN exchange
Of(q) == exchange[q].session
IsAudio(q) == q \in DOMAIN upload

ClientAt(q, pc) == q \in Started /\ exchange[q].client = pc
ServerAt(q, pc) == q \in Started /\ exchange[q].server = pc

To(q, change) == exchange' = [exchange EXCEPT ![q] = Changed(@, change)]
Ends(pc) == [client |-> pc, wire |-> <<>>, retries |-> 0]
Server(pc) == [server |-> pc]

unserved == <<served, queue, repoVars, capacityVars, healthVars, uploadVars>>
-----------------------------------------------------------------------------
\* The consumer.

\* The semaphore is acquired.
ClientAcquires(q, s) ==
  /\ q \notin Started
  /\ \A r \in Prompt : r < q => r \in Started
  /\ chain[s] # "none"
  /\ \A r \in Started :
       Of(r) = s => exchange[r].client \in {"answered", "failed"}
  /\ exchange' = Put(exchange, q, Exchange(s))
  /\ UNCHANGED unserved

\* The connection is made and the request sent.
Send(q) ==
  /\ ClientAt(q, "ready")
  /\ IsAudio(q) => upload[q].pc = "end"
  /\ To(q, [client |-> "reading", server |-> "request",
            late |-> Of(q) \in ended])
  /\ UNCHANGED unserved

\* There is no connection, or the upload failed.
SendFails(q) ==
  /\ ClientAt(q, "ready")
  /\ IsAudio(q) => upload[q].pc \in {"end", "failed"}
  /\ To(q, Ends("failed"))
  /\ UNCHANGED unserved

Arrived(q) == ClientAt(q, "reading") /\ exchange[q].wire # <<>>
Frame(q) == Head(exchange[q].wire)

ReceiveChunk(q) ==
  /\ Arrived(q)
  /\ Frame(q) = "chunk"
  /\ To(q, [got |-> exchange[q].got + 1, wire |-> Tail(exchange[q].wire)])
  /\ UNCHANGED unserved

\* The control chunk that ends the answer, or the backend's error, which is
\* handed to the caller like an answer.
ReceiveLast(q) ==
  /\ Arrived(q)
  /\ Frame(q) \in {"done", "engine_error"}
  /\ To(q, Ends("answered"))
  /\ UNCHANGED unserved

\* A plain error frame, what cannot be decoded, or a frame that finds the
\* request cancelled.
ReceiveFails(q) ==
  /\ Arrived(q)
  /\ To(q, Ends("failed"))
  /\ UNCHANGED unserved

\* The connection ends.
EndOfStream(q) ==
  /\ ClientAt(q, "reading")
  /\ exchange[q].wire = <<>>
  /\ exchange[q].server \in {"served", "failed", "cut"}
  /\ To(q, Ends(IF exchange[q].got > 0 THEN "answered" ELSE "failed"))
  /\ UNCHANGED unserved

\* A read times out before the first frame.  The retry is a longer wait: what
\* the old decoder has read of a frame is gone.
Timeout(q) ==
  /\ ClientAt(q, "reading")
  /\ exchange[q].got = 0
  /\ exchange[q].retries < MaxRetries
  /\ LET left == exchange[q].wire
         torn == IF left = <<>> THEN <<>> ELSE <<"torn">> \o Tail(left)
     IN  To(q, [retries |-> exchange[q].retries + 1, wire |-> torn])
  /\ UNCHANGED unserved

\* ... for the last time, or the provider does not answer a ping.
TimedOut(q) ==
  /\ ClientAt(q, "reading")
  /\ exchange[q].got = 0
  /\ To(q, Ends("failed"))
  /\ UNCHANGED unserved

Reads(q) ==
  \/ ReceiveChunk(q) \/ ReceiveLast(q) \/ EndOfStream(q)
  \/ Timeout(q)
  \/ q \in Started /\ exchange[q].retries = MaxRetries /\ TimedOut(q)
  \/ Arrived(q) /\ Frame(q) \in {"error", "torn"} /\ ReceiveFails(q)

Consumes(q) ==
  \/ \E s \in Session : ClientAcquires(q, s)
  \/ Send(q) \/ SendFails(q) \/ ReceiveChunk(q) \/ ReceiveLast(q)
  \/ ReceiveFails(q) \/ EndOfStream(q) \/ Timeout(q) \/ TimedOut(q)
-----------------------------------------------------------------------------
\* The provider.

\* What is sent to a consumer that has gone is lost.
Sending(q, frames) ==
  IF ClientAt(q, "reading") THEN exchange[q].wire \o frames
  ELSE exchange[q].wire

\* GetSession, through the cache.
ReadsSession(q) ==
  /\ \E stats \in Gets(Of(q)) : cache' = With(Of(q), stats)
  /\ UNCHANGED <<chain, ended, opened, events>>

ReadFails(q) == ~Cached(Of(q)) /\ UNCHANGED repoVars

\* The handler returns an error: the server sends it in plain, and closes the
\* connection.
Silently(q) == To(q, Server("failed"))                  \* mutant
WithError(q) ==
  To(q, [server |-> "failed", wire |-> Sending(q, <<"error">>)])

\* The session is not over, its user is known, and the upload complete.
Valid(q) ==
  /\ ~exchange[q].late
  /\ Of(q) \in users
  /\ IsAudio(q) => Complete(q)

\* The steps of an upload, on a session that is valid too.
Streams(q) ==
  /\ q \in Started /\ IsAudio(q)
  /\ \/ UploadFails(q) /\ UNCHANGED repoVars
     \/ LastChunkSent(q) /\ UNCHANGED repoVars
     \/ /\ StreamStart(q) \/ StreamChunk(q)
        /\ Of(q) \notin ended
        /\ Of(q) \in users
        /\ ReadsSession(q)
  /\ UNCHANGED <<served, exchange, queue, capacityVars, healthVars>>

\* sessionPrompt, or sessionPromptStreamEnd: the record is loaded here and
\* written back at the end.
Admit(q) ==
  /\ ServerAt(q, "request")
  /\ Valid(q)
  /\ \E stats \in Gets(Of(q)) :
       To(q, [server |-> "queued", stats |-> stats])
  /\ queue' = Append(queue, q)
  /\ ReadsSession(q)
  /\ UNCHANGED <<served, capacityVars, healthVars, uploadVars>>

Refuse(q) ==
  /\ ServerAt(q, "request")
  /\ \/ ReadFails(q)
     \/ ~Valid(q) /\ ReadsSession(q)
  /\ WithError(q)
  /\ UNCHANGED <<served, queue, capacityVars, healthVars, uploadVars>>

\* The semaphore of the session is free, and it is this prompt's turn.
KeptOnError(q) ==                                       \* mutant
  exchange[q].server \in {"verify", "engine", "saving", "failed"}
Busy(q) == exchange[q].server \in {"verify", "engine", "saving"}

Acquires(q) ==
  /\ ServerAt(q, "queued")
  /\ \A r \in Started : Of(r) = Of(q) => ~Busy(r)
  /\ \E i \in DOMAIN queue :
       /\ queue[i] = q
       /\ \A j \in 1 .. i - 1 : Of(queue[j]) # Of(q)
       /\ queue' = RemoveAt(queue, i)

\* Whether the backend is to be verified: of a TEE model, unless its tags
\* cannot be read (for a prompt: could not when the session was first read).
Tee == IF served \in TeeModels THEN BOOLEAN ELSE {FALSE}

\* It is acquired, and the session read again.
Begin(q) ==
  /\ Acquires(q)
  /\ ReadsSession(q)
  /\ \E isTee \in Tee :
       To(q, [server |-> IF isTee THEN "verify" ELSE "engine",
              file |-> IF q \in DOMAIN streams THEN streams[q] ELSE <<>>])
  /\ UNCHANGED <<served, capacityVars, healthVars, uploadVars>>

BeginFails(q) ==
  /\ Acquires(q)
  /\ ReadFails(q)
  /\ WithError(q)
  /\ RemoveStream(q)
  /\ UNCHANGED <<served, capacityVars, healthVars, upload>>

Verified(q) ==
  /\ ServerAt(q, "verify")
  /\ FastVerified(served)
  /\ To(q, Server("engine"))
  /\ UNCHANGED <<served, queue, repoVars, capacityVars, reports, failures,
                 sweep, swept, failed, uploadVars>>

TeeRefused(q) ==
  /\ ServerAt(q, "verify")
  /\ FastVerifyFails(served)
  /\ ReportTeeFailure(served)
  /\ WithError(q)
  /\ RemoveStream(q)
  /\ UNCHANGED <<served, queue, repoVars, capacityVars, upload>>

\* The file of an upload that was removed meanwhile cannot be read.
Answers(q) == ServerAt(q, "engine") /\ (IsAudio(q) => q \in DOMAIN streams)

SendChunk(q) ==
  /\ Answers(q)
  /\ exchange[q].sent < MaxChunks
  /\ To(q, [sent |-> exchange[q].sent + 1,
            wire |-> Sending(q, <<"chunk">>)])
  /\ UNCHANGED unserved

\* The backend's stream ends, with its end marker or without.
EngineDone(q) ==
  /\ Answers(q)
  /\ \E last \in {<<"done">>, <<>>} :
       To(q, [server |-> "saving", wire |-> Sending(q, last)])
  /\ Untracked \/ ReportPromptSuccess(served)
  /\ RecordActivity(Of(q))
  /\ UNCHANGED <<served, queue, repoVars, uploadVars>>

\* The backend answers with an HTTP error: the consumer's fault, a throttled
\* request (429), or a fault of the backend.
EngineError(q) ==
  /\ Answers(q)
  /\ exchange[q].sent = 0
  /\ To(q, [server |-> "saving", wire |-> Sending(q, <<"engine_error">>)])
  /\ \/ UNCHANGED healthVars
     \/ \E limited \in BOOLEAN : ReportPromptFailure(served, limited)
  /\ RecordActivity(Of(q))
  /\ UNCHANGED <<served, queue, repoVars, uploadVars>>

\* The backend cannot be reached, or its stream breaks; or the consumer has
\* hung up, and the write to it fails: either is a failure of the model.
EngineFails(q) ==
  /\ ServerAt(q, "engine")
  /\ Untracked \/ ReportPromptFailure(served, FALSE)
  /\ WithError(q)
  /\ RemoveStream(q)
  /\ UNCHANGED <<served, queue, repoVars, capacityVars, upload>>


\* SaveSession: the record that was loaded when the prompt was admitted.
SaveStats(q) ==
  /\ ServerAt(q, "saving")
  /\ cache' = With(Of(q), exchange[q].stats + 1)
  /\ To(q, [server |-> "served", stats |-> Fresh, file |-> <<>>])
  /\ RemoveStream(q)
  /\ UNCHANGED <<served, queue, chain, ended, opened, events, capacityVars,
                 healthVars, upload>>

\* What the provider does by itself, whatever the backend does.
Handles(q) ==
  \/ Admit(q) \/ Refuse(q) \/ Begin(q) \/ BeginFails(q) \/ SaveStats(q)

Serves(q) ==
  \/ Handles(q) \/ Verified(q) \/ TeeRefused(q) \/ SendChunk(q)
  \/ EngineDone(q) \/ EngineError(q) \/ EngineFails(q)

ServingTypeOK ==
  /\ served \in Model
  /\ Started \subseteq Prompt
  /\ queue \in Seq(Started)
  /\ \A q \in Started : exchange[q] \in
       [session : Session,
        client : {"ready", "reading", "answered", "failed"},
        server : {"none", "request", "queued", "verify", "engine", "saving",
                  "served", "failed", "cut"},
        late : BOOLEAN, sent : 0 .. MaxChunks, got : 0 .. MaxChunks,
        retries : 0 .. MaxRetries, stats : Nat,
        wire : Seq({"chunk", "done", "engine_error", "error", "torn"}),
        file : Seq(0 .. TotalChunks - 1)]
=============================================================================
