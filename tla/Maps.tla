-------------------------------- MODULE Maps --------------------------------
(***************************************************************************)
(* Updates of the nodes' maps and records.  The operators :> and @@ of TLC *)
(* say the same, but the proof system does not look into them.             *)
(***************************************************************************)
EXTENDS Functions

Put(f, k, v) == [x \in DOMAIN f \union {k} |-> IF x = k THEN v ELSE f[x]]
Drop(f, k) == Restrict(f, DOMAIN f \ {k})

\* The record with the fields of change replaced.
Changed(r, change) ==
  [x \in DOMAIN r |-> IF x \in DOMAIN change THEN change[x] ELSE r[x]]
=============================================================================
