---------------------------- MODULE MCLogWatcher ----------------------------
(* A short chain, whose blocks have up to MaxLogs logs. *)
EXTENDS LogWatchers
=============================================================================
