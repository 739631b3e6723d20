-------------------------- MODULE BackendVerifier --------------------------
(***************************************************************************)
(* The provider's attestation of the backends of its TEE models: the last  *)
(* outcome of a full attestation per model, and the quick check of a       *)
(* request, which may come down to a full one.  What a full attestation    *)
(* verifies is left to its outcome.                                        *)
(***************************************************************************)
EXTENDS Maps, Naturals, Sequences, FiniteSets

CONSTANTS
  Model,                \* the models
  TeeModels             \* those with the tag "tee"

VARIABLE
  snapshot              \* the attestations: "none", "passed" or "failed"

\* AttestBackend ends: the snapshot is replaced, whatever it was.
AttestBackend(m, outcome) == snapshot' = [snapshot EXCEPT ![m] = outcome]

\* ReattestBackend: without a snapshot the attestation's URL has to be found
\* first, which may fail.
ReattestBackend(m) ==
  \/ \E outcome \in {"passed", "failed"} : AttestBackend(m, outcome)
  \/ snapshot[m] = "none" /\ UNCHANGED snapshot

\* FastVerifyBackend returns nil: the quote and the certificate are those of
\* the snapshot, or a full attestation passed.
FastVerified(m) ==
  \/ snapshot[m] = "passed" /\ UNCHANGED snapshot
  \/ snapshot[m] # "none" /\ AttestBackend(m, "passed")

\* It returns an error.  When the quote cannot be fetched or the certificate
\* is another one the snapshot stays as it is.
FastVerifyFails(m) ==
  \/ snapshot[m] # "failed" /\ UNCHANGED snapshot
  \/ snapshot[m] # "none" /\ AttestBackend(m, "failed")

VerifierTypeOK == snapshot \in [Model -> {"none", "passed", "failed"}]
=============================================================================
