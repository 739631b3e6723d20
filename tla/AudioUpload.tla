---------------------------- MODULE AudioUpload ----------------------------
(***************************************************************************)
(* Audio files travel in chunks: the consumer starts a stream, sends the   *)
(* chunks one by one, each after the answer to the one before, and ends    *)
(* the stream with the prompt; the provider appends them to a file.        *)
(* Requests have no read deadline, and are not repeated: one that fails    *)
(* fails the upload.  A stream that was idle for an hour is removed when   *)
(* another one starts.                                                     *)
(*                                                                         *)
(* Streams are random IDs, named here for the prompt.  The manager's map   *)
(* has no lock: two handlers at once may end the process, which is one of  *)
(* the ways in which it stops.                                             *)
(***************************************************************************)
EXTENDS Maps, Integers, Sequences, FiniteSets

CONSTANT TotalChunks    \* the chunks of a file

ASSUME ChunksAssumption == TotalChunks \in Nat

VARIABLES
  upload,               \* the consumer's uploads
  streams               \* StreamingSessionManager

uploadVars == <<upload, streams>>

NoUpload == [pc |-> "start", next |-> 0]

UploadInit == streams = <<>>

Without2(f, keys) == Restrict(f, DOMAIN f \ keys)

\* The request fails, or its answer does: the consumer gives up.
UploadFails(q) ==
  /\ upload[q].pc \in {"start", "chunks"}
  /\ upload' = [upload EXCEPT ![q].pc = "failed"]
  /\ UNCHANGED streams

\* sessionPromptStreamStart, answered or not.
StreamStart(q) ==
  /\ upload[q].pc = "start"
  /\ q \notin DOMAIN streams
  /\ \E idle \in SUBSET DOMAIN streams :
       streams' = Put(Without2(streams, idle), q, <<>>)
  /\ \E pc \in {"chunks", "failed"} : upload' = [upload EXCEPT ![q].pc = pc]

OneMore(q) == upload[q].next <= TotalChunks             \* mutant
ChunksLeft(q) == upload[q].next < TotalChunks

\* sessionPromptStreamChunk takes the next chunk only.
StreamChunk(q) ==
  /\ upload[q].pc = "chunks"
  /\ ChunksLeft(q)
  /\ q \in DOMAIN streams
  /\ upload[q].next = Len(streams[q])
  /\ streams' = [streams EXCEPT ![q] = Append(@, upload[q].next)]
  /\ \/ upload' = [upload EXCEPT ![q].next = @ + 1]
     \/ upload' = [upload EXCEPT ![q].pc = "failed"]

\* All chunks are sent, or the file is shorter than it was.
LastChunkSent(q) ==
  /\ upload[q].pc = "chunks"
  /\ upload[q].next <= TotalChunks
  /\ upload' = [upload EXCEPT ![q].pc = "end"]
  /\ UNCHANGED streams

\* sessionPromptStreamEnd: the stream is there, with all its chunks.
AnyLength(q) == q \in DOMAIN streams                    \* mutant
Complete(q) == q \in DOMAIN streams /\ Len(streams[q]) = TotalChunks

RemoveStream(q) == streams' = Without2(streams, {q})

UploadTypeOK ==
  /\ \A q \in DOMAIN upload :
       upload[q] \in [pc : {"start", "chunks", "end", "failed"},
                      next : 0 .. TotalChunks]
  /\ \A q \in DOMAIN streams : streams[q] \in Seq(0 .. TotalChunks - 1)
=============================================================================
