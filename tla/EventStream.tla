---------------------------- MODULE EventStream ----------------------------
(***************************************************************************)
(* What a log watcher promises the event listener, whichever way it is     *)
(* built: the events of a chain that only grows are handed over one by     *)
(* one, each at most once, in the order of the chain.  Events may be       *)
(* passed over; an event that was passed over does not come later.         *)
(***************************************************************************)
EXTENDS Naturals, Sequences

CONSTANT MaxLogs        \* bound on the logs of a block

VARIABLES
  logs,                 \* the chain: how many logs each block has
  delivered             \* the events handed over: blocks and indices in them

streamVars == <<logs, delivered>>

Precedes(e, f) == e[1] < f[1] \/ (e[1] = f[1] /\ e[2] < f[2])

Later(e) == \A i \in 1 .. Len(delivered) : Precedes(delivered[i], e)

Init ==
  /\ logs \in [1 .. 1 -> 0 .. MaxLogs]
  /\ delivered = <<>>

Grow(n) ==
  /\ logs' = Append(logs, n)
  /\ UNCHANGED delivered

HandOver(b, i) ==
  /\ i <= logs[b]
  /\ Later(<<b, i>>)
  /\ delivered' = Append(delivered, <<b, i>>)
  /\ UNCHANGED logs

Next ==
  \/ \E n \in 0 .. MaxLogs : Grow(n)
  \/ \E b \in 1 .. Len(logs), i \in 1 .. MaxLogs : HandOver(b, i)

Spec == Init /\ [][Next]_streamVars
=============================================================================
