------------------------- MODULE LogWatchersProofs -------------------------
(***************************************************************************)
(* Proofs about LogWatchers.  WatchersInv is inductive; from it follow the *)
(* types, that polling skips no block between two polls, and that either   *)
(* watcher implements EventStream.                                         *)
(*                                                                         *)
(* LogsOf is a fold of the community modules, a function defined from its  *)
(* own values: that there is one is proved by looking at the least number  *)
(* of sequences for which there would be none, and what it lists by the    *)
(* least number for which the listing would be wrong.                      *)
(***************************************************************************)
EXTENDS LogWatchers, SumTheorems, SequenceTheorems

(* Sequences of sequences *)

\* g[n] is the concatenation of the first n of the sequences.
Flattens(g, seqs, m) ==
  g = [n \in 1 .. m |-> IF n = 1 THEN seqs[n] ELSE g[n - 1] \o seqs[n]]

LEMMA FlattensExist ==
  ASSUME NEW seqs, NEW m \in Nat
  PROVE  \E g : Flattens(g, seqs, m)
<1> DEFINE Bad == {n \in Nat : ~ \E g : Flattens(g, seqs, n)}
<1>1. SUFFICES ASSUME Bad # {} PROVE FALSE
  OBVIOUS
<1>2. PICK n \in Bad : \A k \in Bad : n <= k
  <2>1. Bad \subseteq Nat
    OBVIOUS
  <2> HIDE DEF Bad
  <2>2. QED
    BY <1>1, <2>1, LeastNat
<1>3. n # 0
  <2>1. Flattens([i \in 1 .. 0 |-> <<>>], seqs, 0)
    BY DEF Flattens
  <2>2. QED
    BY <2>1
<1>4. n - 1 \in Nat /\ n - 1 \notin Bad
  BY <1>2, <1>3
<1>5. PICK g : Flattens(g, seqs, n - 1)
  BY <1>4
<1> DEFINE h == [i \in 1 .. n |->
                   IF i = n
                   THEN (IF n = 1 THEN seqs[n] ELSE g[n - 1] \o seqs[n])
                   ELSE g[i]]
<1>6. \A i \in 1 .. n - 1 :
        g[i] = IF i = 1 THEN seqs[i] ELSE g[i - 1] \o seqs[i]
  BY <1>5, <1>4 DEF Flattens
<1>7. \A i \in 1 .. n :
        h[i] = IF i = 1 THEN seqs[i] ELSE h[i - 1] \o seqs[i]
  BY <1>3, <1>6
<1>8. h = [i \in 1 .. n |-> IF i = 1 THEN seqs[i] ELSE h[i - 1] \o seqs[i]]
  BY <1>7
<1>9. Flattens(h, seqs, n)
  <2> HIDE DEF h
  <2>1. QED
    BY <1>8 DEF Flattens
<1>10. QED
  BY <1>9

LEMMA FlattenUnfolds ==
  ASSUME NEW seqs, Len(seqs) \in Nat, Len(seqs) # 0
  PROVE  \E g : /\ FlattenSeq(seqs) = g[Len(seqs)]
                /\ g[1] = seqs[1]
                /\ \A n \in 2 .. Len(seqs) : g[n] = g[n - 1] \o seqs[n]
<1> DEFINE g == CHOOSE g : Flattens(g, seqs, Len(seqs))
<1>1. FlattenSeq(seqs) = g[Len(seqs)]
  BY DEF FlattenSeq, Flattens
<1>2. Flattens(g, seqs, Len(seqs))
  BY FlattensExist
<1> HIDE DEF g
<1>3. \A n \in 1 .. Len(seqs) :
        g[n] = IF n = 1 THEN seqs[n] ELSE g[n - 1] \o seqs[n]
  BY <1>2 DEF Flattens
<1>4. g[1] = seqs[1] /\ \A n \in 2 .. Len(seqs) : g[n] = g[n - 1] \o seqs[n]
  <2>1. 1 \in 1 .. Len(seqs)
    OBVIOUS
  <2>2. \A n \in 2 .. Len(seqs) : n \in 1 .. Len(seqs) /\ n # 1
    OBVIOUS
  <2>3. QED
    BY <1>3, <2>1, <2>2
<1>5. QED
  BY <1>1, <1>4

-----------------------------------------------------------------------------
(* Logs in the order of the chain *)

Events == Nat \X Nat

LEMMA EventParts ==
  ASSUME NEW s \in Seq(Events)
  PROVE  /\ DOMAIN s = 1 .. Len(s) /\ Len(s) \in Nat
         /\ \A i \in DOMAIN s :
              /\ s[i] \in Events /\ s[i][1] \in Nat /\ s[i][2] \in Nat
              /\ s[i] = <<s[i][1], s[i][2]>>
BY DEF Events

\* Two sequences in order, one of earlier blocks than the other, are in order
\* together.
LEMMA ConcatInOrder ==
  ASSUME NEW s \in Seq(Events), NEW t \in Seq(Events),
         InChainOrder(s), InChainOrder(t), NEW b \in Nat,
         \A i \in DOMAIN s : s[i][1] < b,
         \A j \in DOMAIN t : b <= t[j][1]
  PROVE  InChainOrder(s \o t)
<1> DEFINE st == s \o t
<1>1. /\ DOMAIN s = 1 .. Len(s) /\ Len(s) \in Nat
      /\ DOMAIN t = 1 .. Len(t) /\ Len(t) \in Nat
      /\ DOMAIN st = 1 .. Len(s) + Len(t)
      /\ \A i \in DOMAIN st :
           st[i] = IF i <= Len(s) THEN s[i] ELSE t[i - Len(s)]
  BY EventParts
<1> HIDE DEF st
<1>2. SUFFICES ASSUME NEW i \in DOMAIN st, NEW j \in DOMAIN st, i < j
               PROVE  Stream!Precedes(st[i], st[j])
  BY DEF InChainOrder, st
<1>3. CASE j <= Len(s)
  <2>1. /\ st[i] = s[i] /\ st[j] = s[j]
        /\ i \in DOMAIN s /\ j \in DOMAIN s
    BY <1>1, <1>2, <1>3
  <2>2. QED
    BY <1>2, <2>1 DEF InChainOrder
<1>4. CASE i > Len(s)
  <2>1. /\ st[i] = t[i - Len(s)] /\ st[j] = t[j - Len(s)]
        /\ i - Len(s) \in DOMAIN t /\ j - Len(s) \in DOMAIN t
        /\ i - Len(s) < j - Len(s)
    BY <1>1, <1>2, <1>4
  <2>2. QED
    BY <2>1 DEF InChainOrder
<1>5. CASE i <= Len(s) /\ j > Len(s)
  <2>1. /\ st[i] = s[i] /\ st[j] = t[j - Len(s)]
        /\ i \in DOMAIN s /\ j - Len(s) \in DOMAIN t
    BY <1>1, <1>2, <1>5
  <2>2. st[i][1] < b /\ b <= st[j][1] /\ st[i][1] \in Nat /\ st[j][1] \in Nat
    BY <2>1, EventParts
  <2>3. st[i][1] < st[j][1]
    BY <2>2
  <2>4. QED
    BY <2>3 DEF Stream!Precedes
<1>6. QED
  BY <1>1, <1>3, <1>4, <1>5

\* s lists the logs of the blocks from first to last, in order.
Lists(s, first, last) ==
  /\ s \in Seq(Events)
  /\ InChainOrder(s)
  /\ \A i \in DOMAIN s :
       s[i][1] \in first .. last /\ s[i][2] \in 1 .. logs[s[i][1]]
  /\ \A b \in first .. last : \A i \in 1 .. logs[b] : <<b, i>> \in Range(s)

LEMMA BlockLists ==
  ASSUME NEW b \in Nat, logs[b] \in Nat
  PROVE  Lists([i \in 1 .. logs[b] |-> <<b, i>>], b, b)
<1> DEFINE s == [i \in 1 .. logs[b] |-> <<b, i>>]
<1>1. /\ s \in Seq(Events) /\ DOMAIN s = 1 .. logs[b]
      /\ \A i \in DOMAIN s : s[i] = <<b, i>>
  BY DEF Events
<1> HIDE DEF s
<1>2. InChainOrder(s)
  BY <1>1 DEF InChainOrder, Stream!Precedes
<1>3. \A i \in DOMAIN s :
        s[i][1] \in b .. b /\ s[i][2] \in 1 .. logs[s[i][1]]
  BY <1>1
<1>4. \A c \in b .. b : \A i \in 1 .. logs[c] : <<c, i>> \in Range(s)
  BY <1>1 DEF Range
<1>5. Lists(s, b, b)
  BY <1>1, <1>2, <1>3, <1>4 DEF Lists
<1>6. QED
  BY <1>5 DEF s

LEMMA ConcatLists ==
  ASSUME NEW first \in Nat, NEW b \in Nat, first < b,
         NEW s, NEW t, Lists(s, first, b - 1), Lists(t, b, b)
  PROVE  Lists(s \o t, first, b)
<1> DEFINE st == s \o t
<1>1. s \in Seq(Events) /\ t \in Seq(Events)
  BY DEF Lists
<1>2. /\ DOMAIN s = 1 .. Len(s) /\ Len(s) \in Nat
      /\ DOMAIN t = 1 .. Len(t) /\ Len(t) \in Nat
      /\ DOMAIN st = 1 .. Len(s) + Len(t) /\ st \in Seq(Events)
      /\ \A i \in DOMAIN st :
           st[i] = IF i <= Len(s) THEN s[i] ELSE t[i - Len(s)]
  BY <1>1, EventParts
<1>3. InChainOrder(st)
  <2>1. /\ \A i \in DOMAIN s : s[i][1] < b
        /\ \A j \in DOMAIN t : b <= t[j][1]
    BY <1>1, EventParts DEF Lists
  <2>2. InChainOrder(s) /\ InChainOrder(t)
    BY DEF Lists
  <2>3. QED
    BY <1>1, <2>1, <2>2, ConcatInOrder
<1> HIDE DEF st
<1>4. \A i \in DOMAIN st :
        \/ i \in DOMAIN s /\ st[i] = s[i]
        \/ i - Len(s) \in DOMAIN t /\ st[i] = t[i - Len(s)]
  BY <1>2
<1>5. \A i \in DOMAIN st :
        st[i][1] \in first .. b /\ st[i][2] \in 1 .. logs[st[i][1]]
  <2>1. /\ \A i \in DOMAIN s :
             s[i][1] \in first .. b /\ s[i][2] \in 1 .. logs[s[i][1]]
        /\ \A i \in DOMAIN t :
             t[i][1] \in first .. b /\ t[i][2] \in 1 .. logs[t[i][1]]
    BY DEF Lists
  <2>2. QED
    BY <1>4, <2>1
<1>6. Range(s) \union Range(t) \subseteq Range(st)
  <2>1. \A i \in DOMAIN s : i \in DOMAIN st /\ st[i] = s[i]
    BY <1>2
  <2>2. \A i \in DOMAIN t :
          Len(s) + i \in DOMAIN st /\ st[Len(s) + i] = t[i]
    BY <1>2
  <2>3. QED
    BY <2>1, <2>2 DEF Range
<1>7. \A c \in first .. b : \A i \in 1 .. logs[c] : <<c, i>> \in Range(st)
  <2> SUFFICES ASSUME NEW c \in first .. b, NEW i \in 1 .. logs[c]
               PROVE  <<c, i>> \in Range(st)
    OBVIOUS
  <2>1. CASE c = b
    <3>1. <<c, i>> \in Range(t)
      BY <2>1 DEF Lists
    <3>2. QED
      BY <1>6, <3>1
  <2>2. CASE c # b
    <3>1. c \in first .. b - 1
      BY <2>2
    <3>2. <<c, i>> \in Range(s)
      BY <3>1 DEF Lists
    <3>3. QED
      BY <1>6, <3>2
  <2>3. QED
    BY <2>1, <2>2
<1>8. Lists(st, first, b)
  BY <1>2, <1>3, <1>5, <1>7 DEF Lists
<1>9. QED
  BY <1>8 DEF st

\* FilterLogs lists the logs of the range it is asked for.
LEMMA LogsOfLists ==
  ASSUME NEW first \in Nat, NEW last \in Nat,
         \A b \in first .. last : logs[b] \in Nat
  PROVE  Lists(LogsOf(first, last), first, last)
<1> DEFINE seqs == [k \in 1 .. last - first + 1 |->
                      [i \in 1 .. logs[first + k - 1] |->
                         <<first + k - 1, i>>]]
           N == last - first + 1
<1>1. LogsOf(first, last) = FlattenSeq(seqs)
  BY DEF LogsOf
<1>2. CASE last < first
  <2>1. seqs = <<>>
    BY <1>2
  <2>2. FlattenSeq(seqs) = <<>>
    BY <2>1 DEF FlattenSeq
  <2>3. Lists(<<>>, first, last)
    <3>1. <<>> \in Seq(Events) /\ DOMAIN <<>> = {}
      OBVIOUS
    <3>2. InChainOrder(<<>>)
      BY <3>1 DEF InChainOrder
    <3>3. QED
      BY <1>2, <3>1, <3>2 DEF Lists
  <2>4. QED
    BY <1>1, <2>2, <2>3
<1>3. CASE first <= last
  <2>1. Len(seqs) = N /\ N \in Nat /\ N # 0
    BY <1>3
  <2>2. PICK g : /\ FlattenSeq(seqs) = g[N]
                 /\ g[1] = seqs[1]
                 /\ \A n \in 2 .. N : g[n] = g[n - 1] \o seqs[n]
    <3> HIDE DEF seqs, N
    <3>1. QED
      BY <2>1, FlattenUnfolds
  <2>3. \A n \in 1 .. N : Lists(seqs[n], first + n - 1, first + n - 1)
    <3> SUFFICES ASSUME NEW n \in 1 .. N
                 PROVE  Lists(seqs[n], first + n - 1, first + n - 1)
      OBVIOUS
    <3>1. PICK b \in Nat : b = first + n - 1 /\ b \in first .. last
      BY <1>3
    <3>2. seqs[n] = [i \in 1 .. logs[b] |-> <<b, i>>]
      BY <3>1
    <3>3. Lists([i \in 1 .. logs[b] |-> <<b, i>>], b, b)
      BY <3>1, BlockLists
    <3>4. QED
      BY <3>1, <3>2, <3>3
  <2> DEFINE Bad == {n \in 1 .. N : ~Lists(g[n], first, first + n - 1)}
  <2>4. Bad = {}
    <3>1. SUFFICES ASSUME Bad # {} PROVE FALSE
      OBVIOUS
    <3>2. PICK n \in Bad : \A k \in Bad : n <= k
      <4>1. Bad \subseteq Nat
        BY <2>1
      <4> HIDE DEF Bad
      <4>2. QED
        BY <3>1, <4>1, LeastNat
    <3> HIDE DEF seqs, N
    <3>3. n \in 1 .. N /\ ~Lists(g[n], first, first + n - 1)
      OBVIOUS
    <3>4. n # 1
      BY <2>1, <2>2, <2>3, <3>3
    <3>5. n - 1 \in 1 .. N /\ n - 1 \notin Bad
      BY <2>1, <3>2, <3>3, <3>4
    <3>6. Lists(g[n - 1], first, first + (n - 1) - 1)
      BY <3>5
    <3>7. PICK b \in Nat : b = first + n - 1 /\ first < b
      BY <2>1, <3>3, <3>4
    <3>8. Lists(g[n - 1], first, b - 1)
      <4>1. first + (n - 1) - 1 = b - 1
        BY <2>1, <3>3, <3>7
      <4>2. QED
        BY <3>6, <4>1
    <3>9. Lists(seqs[n], b, b)
      BY <2>3, <3>3, <3>7
    <3>10. Lists(g[n - 1] \o seqs[n], first, b)
      BY <3>7, <3>8, <3>9, ConcatLists
    <3>11. g[n] = g[n - 1] \o seqs[n]
      <4>1. n \in 2 .. N
        BY <2>1, <3>3, <3>4
      <4>2. QED
        BY <2>2, <4>1
    <3>12. QED
      BY <3>3, <3>7, <3>10, <3>11
  <2>5. Lists(g[N], first, first + N - 1)
    BY <2>1, <2>4
  <2>6. first + N - 1 = last
    OBVIOUS
  <2>7. QED
    BY <1>1, <2>2, <2>5, <2>6
<1>4. QED
  BY <1>2, <1>3

-----------------------------------------------------------------------------
(* The polling watcher *)

EventsGiven == Blocks \X (1 .. MaxLogs)

LEMMA GivenEvents == EventsGiven \subseteq Events
BY WatcherAssumption DEF EventsGiven, Events, Blocks

LEMMA MinOfTwo ==
  ASSUME NEW x \in Int, NEW y \in Int, x <= y
  PROVE  Min({x, y}) = x /\ Min({y, x}) = x
BY DEF Min

\* The types of the polling watcher's numbers and events.
LEMMA PollingTypes ==
  ASSUME TypeOK
  PROVE  /\ head \in Nat /\ head # 0 /\ head <= MaxHead /\ MaxHead \in Nat
         /\ MaxLogs \in Nat /\ MaxReconnects \in Nat /\ MaxReconnects # 0
         /\ DOMAIN logs = 1 .. head
         /\ \A b \in 1 .. head : logs[b] \in 0 .. MaxLogs
         /\ nextFromBlock \in Nat /\ fromBlock \in Nat /\ toBlock \in Nat
         /\ start \in Nat /\ reconnects \in Nat
         /\ delivered \in Seq(EventsGiven) /\ sub \in Seq(EventsGiven)
         /\ Given \in Seq(EventsGiven) /\ Given \in Seq(Events)
<1>1. /\ {MaxReconnects, MaxHead} \subseteq Nat \ {0} /\ MaxLogs \in Nat
  BY WatcherAssumption
<1>2. head \in Nat /\ head # 0 /\ head <= MaxHead
  BY <1>1 DEF TypeOK, Blocks
<1>3. DOMAIN logs = 1 .. head /\ \A b \in 1 .. head : logs[b] \in 0 .. MaxLogs
  <2>1. logs \in Seq(0 .. MaxLogs)
    BY DEF TypeOK
  <2>2. QED
    BY <2>1, LenProperties, ElementOfSeq DEF head
<1>4. nextFromBlock \in Nat /\ fromBlock \in Nat /\ toBlock \in Nat
  BY <1>1 DEF TypeOK
<1>5. start \in Nat /\ reconnects \in Nat
  BY <1>1 DEF TypeOK
<1>6. delivered \in Seq(EventsGiven) /\ sub \in Seq(EventsGiven)
  BY DEF TypeOK, EventsGiven
<1>7. Given \in Seq(EventsGiven)
  BY <1>6, ConcatProperties DEF Given
<1>8. Given \in Seq(Events)
  BY <1>7, GivenEvents, SeqMonotonic
<1>9. QED
  BY <1>1, <1>2, <1>3, <1>4, <1>5, <1>6, <1>7, <1>8

\* What was given has blocks of the chain.
LEMMA GivenBlocks ==
  ASSUME TypeOK, NEW i \in DOMAIN Given
  PROVE  Given[i][1] \in Nat \ {0} /\ Given[i][2] \in Nat
<1>1. Given \in Seq(EventsGiven)
  BY PollingTypes
<1>2. Given[i] \in EventsGiven
  BY <1>1
<1>3. QED
  BY <1>2, WatcherAssumption DEF EventsGiven, Blocks

\* Of the blocks left behind, all are of the chain: the Min does not matter.
LEMMA LeftBehind ==
  ASSUME TypeOK, QueryInv, start # NoBlock, NothingElseMissed,
         NEW b \in start .. nextFromBlock - 1
  PROVE  b \in 1 .. head /\ (b \in unseen \/ Handed(b))
<1>1. head \in Nat /\ nextFromBlock \in Nat /\ start \in Nat /\ start # 0
  BY PollingTypes DEF NoBlock
<1>2. nextFromBlock - 1 <= head
  BY <1>1 DEF QueryInv
<1>3. Min({nextFromBlock - 1, head}) = nextFromBlock - 1
  BY <1>1, <1>2, MinOfTwo
<1>4. QED
  BY <1>1, <1>2, <1>3 DEF NothingElseMissed

\* A step that leaves the chain, the next block and what was given alone
\* leaves them in order.
LEMMA GivenUnchanged ==
  ASSUME GivenInOrder, Given' = Given, logs' = logs,
         nextFromBlock' = nextFromBlock
  PROVE  GivenInOrder'
BY DEF GivenInOrder, head

\* And a step that leaves the blocks left behind alone misses no more.
LEMMA MissedUnchanged ==
  ASSUME NothingElseMissed, Given' = Given, logs' = logs,
         UNCHANGED <<nextFromBlock, start, unseen>>
  PROVE  NothingElseMissed'
BY DEF NothingElseMissed, Handed, Given, head

LEMMA PollingNewBlock ==
  ASSUME PollingInv, NEW n \in 0 .. MaxLogs, NewBlock(n)
  PROVE  PollingInv'
<1>1. /\ TypeOK /\ GivenInOrder /\ QueryInv /\ NothingElseMissed
      /\ logs' = Append(logs, n) /\ head < MaxHead
      /\ UNCHANGED <<pc, nextFromBlock, fromBlock, toBlock, reconnects, sub,
                     delivered, start, unseen>>
  BY DEF PollingInv, NewBlock
<1>2. /\ head' = head + 1 /\ logs' \in Seq(0 .. MaxLogs)
      /\ \A b \in 1 .. head : logs'[b] = logs[b]
  BY <1>1, AppendProperties DEF TypeOK, head
<1>3. /\ head \in Nat /\ MaxHead \in Nat /\ nextFromBlock \in Nat
      /\ start \in Nat
  BY <1>1, PollingTypes
<1>4. TypeOK'
  <2>1. head' \in Blocks
    BY <1>1, <1>2, <1>3 DEF Blocks
  <2>2. QED
    BY <1>1, <1>2, <2>1 DEF TypeOK, Blocks
<1>5. Given' = Given
  BY <1>1 DEF Given
<1>6. GivenInOrder'
  <2>1. \A i \in DOMAIN Given :
          /\ Given[i][1] < nextFromBlock
          /\ Given[i][1] \in 1 .. head
          /\ Given[i][2] <= logs[Given[i][1]]
    BY <1>1, <1>3, GivenBlocks DEF GivenInOrder
  <2>2. \A i \in DOMAIN Given :
          /\ Given[i][1] < nextFromBlock
          /\ Given[i][1] <= head'
          /\ Given[i][2] <= logs'[Given[i][1]]
    BY <1>2, <1>3, <2>1
  <2>3. QED
    BY <1>1, <1>5, <2>2 DEF GivenInOrder
<1>7. QueryInv'
  <2>1. toBlock \in Nat
    BY <1>1, PollingTypes
  <2>2. QED
    BY <1>1, <1>2, <1>3, <2>1 DEF QueryInv, NoBlock
<1>8. NothingElseMissed'
  <2>1. Min({nextFromBlock' - 1, head'}) = nextFromBlock - 1
    <3>1. nextFromBlock - 1 <= head + 1
      BY <1>1, <1>3 DEF QueryInv
    <3>2. QED
      BY <1>1, <1>2, <1>3, <3>1, MinOfTwo
  <2>2. ASSUME start # NoBlock, NEW b \in start .. nextFromBlock - 1
        PROVE  b \in unseen' \/ Handed(b)'
    <3>1. b \in 1 .. head /\ (b \in unseen \/ Handed(b))
      BY <1>1, <2>2, LeftBehind
    <3>2. logs'[b] = logs[b]
      BY <1>2, <3>1
    <3>3. QED
      BY <1>1, <3>1, <3>2 DEF Handed
  <2>3. QED
    BY <1>1, <2>1, <2>2 DEF NothingElseMissed
<1>9. QED
  BY <1>4, <1>6, <1>7, <1>8 DEF PollingInv

\* The bookkeeping of pollReconnect after an error.
LEMMA RetryTypes ==
  ASSUME TypeOK, Retry
  PROVE  /\ pc' \in {"head", "failed"}
         /\ reconnects' \in 0 .. MaxReconnects - 1
<1>1. MaxReconnects \in Nat /\ reconnects \in 0 .. MaxReconnects - 1
  BY PollingTypes DEF TypeOK
<1>2. CASE RetriesLeft
  BY <1>1, <1>2 DEF Retry, RetriesLeft, Counted
<1>3. CASE ~RetriesLeft
  BY <1>1, <1>3 DEF Retry
<1>4. QED
  BY <1>2, <1>3

\* The steps that touch neither the query's results nor the blocks left
\* behind: only the types and the query are at stake.
LEMMA PollingQuiet ==
  ASSUME PollingInv, Given' = Given, TypeOK', QueryInv',
         UNCHANGED <<logs, nextFromBlock, start, unseen>>
  PROVE  PollingInv'
<1>1. GivenInOrder'
  BY GivenUnchanged DEF PollingInv
<1>2. NothingElseMissed'
  BY MissedUnchanged DEF PollingInv
<1>3. QED
  BY <1>1, <1>2 DEF PollingInv

LEMMA PollingGotHead ==
  ASSUME PollingInv, NEW h \in Heads, GotHead(h)
  PROVE  PollingInv'
<1> DEFINE from == IF nextFromBlock = NoBlock THEN h ELSE nextFromBlock
<1>1. /\ pc = "head"
      /\ UNCHANGED <<logs, nextFromBlock, sub, delivered, start, unseen>>
      /\ \/ h < from /\ reconnects' = 0 /\ UNCHANGED <<pc, fromBlock, toBlock>>
         \/ /\ ~(h < from) /\ pc' = "filter" /\ fromBlock' = from
            /\ toBlock' = h /\ UNCHANGED reconnects
  BY DEF GotHead
<1>2. TypeOK /\ QueryInv
  BY DEF PollingInv
<1>3. /\ head \in Nat /\ MaxHead \in Nat /\ head <= MaxHead
      /\ nextFromBlock \in Nat /\ MaxReconnects \in Nat /\ MaxReconnects # 0
  BY <1>2, PollingTypes
<1>4. h \in Nat /\ 0 < h /\ h <= head
  <2>1. h \in 1 .. MaxHead /\ h \in head - MaxLag .. head
    BY DEF Heads, Positive, Blocks
  <2>2. QED
    BY <1>3, <2>1
<1>5. from \in Nat /\ 0 < from
  BY <1>3, <1>4 DEF NoBlock
<1>6. Given' = Given
  BY <1>1 DEF Given
<1>7. TypeOK' /\ QueryInv'
  <2>1. CASE /\ h < from /\ reconnects' = 0
             /\ UNCHANGED <<pc, fromBlock, toBlock>>
    <3> HIDE DEF from
    <3>1. TypeOK'
      BY <1>1, <1>2, <1>3, <2>1 DEF TypeOK, head
    <3>2. QueryInv'
      BY <1>1, <1>2, <2>1 DEF QueryInv, head
    <3>3. QED
      BY <3>1, <3>2
  <2>2. CASE /\ ~(h < from) /\ pc' = "filter" /\ fromBlock' = from
             /\ toBlock' = h /\ UNCHANGED reconnects
    <3>1. fromBlock' \in 0 .. MaxHead /\ toBlock' \in 0 .. MaxHead
      BY <1>3, <1>4, <1>5, <2>2
    <3>2. TypeOK'
      <4> HIDE DEF from
      <4>1. QED
        BY <1>1, <1>2, <2>2, <3>1 DEF TypeOK, head
    <3>3. /\ NoBlock < fromBlock' /\ fromBlock' <= toBlock'
          /\ toBlock' <= head
          /\ nextFromBlock # NoBlock => fromBlock' = nextFromBlock
      BY <1>4, <1>5, <2>2 DEF NoBlock
    <3>4. QueryInv'
      <4> HIDE DEF from
      <4>1. head' = head
        BY <1>1 DEF head
      <4>2. QED
        BY <1>1, <1>2, <2>2, <3>3, <4>1 DEF QueryInv
    <3>5. QED
      BY <3>2, <3>4
  <2>3. QED
    BY <1>1, <2>1, <2>2
<1>8. QED
  BY <1>1, <1>6, <1>7, PollingQuiet

LEMMA PollingHeadFails ==
  ASSUME PollingInv, HeadFails
  PROVE  PollingInv'
<1>1. /\ pc = "head" /\ TypeOK /\ QueryInv /\ Retry
      /\ UNCHANGED <<logs, nextFromBlock, fromBlock, toBlock, sub, delivered,
                     start, unseen>>
  BY DEF HeadFails, PollingInv
<1>2. pc' \in {"head", "failed"} /\ reconnects' \in 0 .. MaxReconnects - 1
  BY <1>1, RetryTypes
<1>3. Given' = Given
  BY <1>1 DEF Given
<1>4. TypeOK'
  BY <1>1, <1>2 DEF TypeOK, head
<1>5. QueryInv'
  BY <1>1, <1>2 DEF QueryInv, head
<1>6. QED
  BY <1>1, <1>3, <1>4, <1>5, PollingQuiet

LEMMA PollingDeliver ==
  ASSUME PollingInv, Deliver
  PROVE  PollingInv'
<1>1. /\ pc = "deliver" /\ sub # <<>> /\ TypeOK /\ QueryInv
      /\ delivered' = Append(delivered, Head(sub)) /\ sub' = Tail(sub)
      /\ UNCHANGED <<logs, pc, nextFromBlock, fromBlock, toBlock, reconnects,
                     start, unseen>>
  BY DEF Deliver, PollingInv
<1>2. delivered \in Seq(EventsGiven) /\ sub \in Seq(EventsGiven)
  BY <1>1, PollingTypes
<1>3. delivered' \in Seq(EventsGiven) /\ sub' \in Seq(EventsGiven)
  BY <1>1, <1>2, HeadTailProperties, AppendProperties
<1>4. Given' = Given
  <2>1. sub = <<Head(sub)>> \o Tail(sub)
    BY <1>1, <1>2
  <2>2. delivered' = delivered \o <<Head(sub)>>
    BY <1>1, <1>2, HeadTailProperties, AppendIsConcat
  <2>3. (delivered \o <<Head(sub)>>) \o Tail(sub)
          = delivered \o (<<Head(sub)>> \o Tail(sub))
    BY <1>1, <1>2, HeadTailProperties, ConcatAssociative
  <2>4. QED
    BY <1>1, <2>1, <2>2, <2>3 DEF Given
<1>5. TypeOK'
  BY <1>1, <1>3 DEF TypeOK, head, EventsGiven
<1>6. QueryInv'
  BY <1>1 DEF QueryInv, head
<1>7. QED
  BY <1>1, <1>4, <1>5, <1>6, PollingQuiet

LEMMA PollingAgainOrEnds ==
  ASSUME PollingInv, PollAgain \/ Unsubscribe
  PROVE  PollingInv'
<1>1. /\ TypeOK /\ QueryInv
      /\ \/ pc' = "head" /\ sub = <<>> /\ reconnects' = 0
         \/ pc' = "closed" /\ UNCHANGED reconnects
      /\ UNCHANGED <<logs, nextFromBlock, fromBlock, toBlock, sub, delivered,
                     start, unseen>>
  BY DEF PollAgain, Unsubscribe, PollingInv
<1>2. MaxReconnects \in Nat /\ MaxReconnects # 0
  BY <1>1, PollingTypes
<1>3. Given' = Given
  BY <1>1 DEF Given
<1>4. TypeOK'
  BY <1>1, <1>2 DEF TypeOK, head
<1>5. QueryInv'
  BY <1>1 DEF QueryInv, head
<1>6. QED
  BY <1>1, <1>3, <1>4, <1>5, PollingQuiet

\* A failed FilterLogs moves the next block past the range all the same, and
\* its blocks are unseen.
LEMMA PollingFilterFails ==
  ASSUME PollingInv, FilterFails
  PROVE  PollingInv'
<1>1. /\ pc = "filter" /\ FailsToSee /\ Retry
      /\ TypeOK /\ QueryInv /\ GivenInOrder /\ NothingElseMissed
      /\ UNCHANGED <<logs, fromBlock, toBlock, sub, delivered>>
  BY DEF FilterFails, PollingInv
<1>2. pc' \in {"head", "failed"} /\ reconnects' \in 0 .. MaxReconnects - 1
  BY <1>1, RetryTypes
<1>3. /\ sub = <<>> /\ 0 < fromBlock /\ fromBlock <= toBlock
      /\ toBlock <= head
      /\ nextFromBlock # NoBlock => fromBlock = nextFromBlock
  BY <1>1 DEF QueryInv, NoBlock
<1>4. /\ head \in Nat /\ MaxHead \in Nat /\ head <= MaxHead
      /\ nextFromBlock \in Nat /\ fromBlock \in Nat /\ toBlock \in Nat
      /\ start \in Nat
  BY <1>1, PollingTypes
<1>5. Given' = Given /\ head' = head
  BY <1>1 DEF Given, head
<1>6. CASE nextFromBlock = NoBlock
  <2>1. UNCHANGED <<nextFromBlock, start, unseen>>
    BY <1>1, <1>6 DEF FailsToSee
  <2>2. TypeOK'
    BY <1>1, <1>2, <1>5, <2>1 DEF TypeOK
  <2>3. QueryInv'
    BY <1>1, <1>2, <1>3, <1>5, <2>1 DEF QueryInv
  <2>4. QED
    BY <1>1, <1>5, <2>1, <2>2, <2>3, PollingQuiet
<1>7. CASE nextFromBlock # NoBlock
  <2>1. /\ nextFromBlock' = toBlock + 1
        /\ start' = IF start = NoBlock THEN fromBlock ELSE start
        /\ unseen' = unseen \union (fromBlock .. toBlock)
    BY <1>1, <1>7 DEF FailsToSee, AfterTheHead
  <2>2. TypeOK'
    <3>1. nextFromBlock' \in 0 .. MaxHead + 1
      BY <1>3, <1>4, <2>1
    <3>2. start' \in 0 .. MaxHead
      BY <1>1, <2>1 DEF TypeOK
    <3>3. fromBlock .. toBlock \subseteq Blocks
      BY <1>3, <1>4 DEF Blocks
    <3>4. unseen' \subseteq Blocks
      BY <1>1, <2>1, <3>3 DEF TypeOK
    <3>5. QED
      BY <1>1, <1>2, <1>5, <3>1, <3>2, <3>4 DEF TypeOK
  <2>3. QueryInv'
    <3>1. nextFromBlock' <= head + 1 /\ nextFromBlock' # NoBlock
      BY <1>3, <1>4, <2>1 DEF NoBlock
    <3>2. QED
      BY <1>1, <1>2, <1>3, <1>5, <3>1 DEF QueryInv
  <2>4. GivenInOrder'
    <3>1. \A i \in DOMAIN Given :
            /\ Given[i][1] < nextFromBlock'
            /\ Given[i][1] <= head
            /\ Given[i][2] <= logs[Given[i][1]]
      <4>1. nextFromBlock < nextFromBlock'
        BY <1>3, <1>4, <1>7, <2>1
      <4>2. \A i \in DOMAIN Given : Given[i][1] \in Nat
        BY <1>1, GivenBlocks
      <4>3. QED
        BY <1>1, <1>4, <2>1, <4>1, <4>2 DEF GivenInOrder
    <3>2. QED
      BY <1>1, <1>5, <3>1 DEF GivenInOrder
  <2>5. NothingElseMissed'
    <3>1. Min({nextFromBlock' - 1, head'}) = toBlock
      <4>1. nextFromBlock' - 1 = toBlock
        BY <1>4, <2>1
      <4>2. QED
        BY <1>3, <1>4, <1>5, <4>1, MinOfTwo
    <3>2. ASSUME NEW b \in start' .. toBlock
          PROVE  b \in unseen' \/ Handed(b)'
      <4>1. CASE b \in fromBlock .. toBlock
        BY <2>1, <4>1
      <4>2. CASE b \notin fromBlock .. toBlock
        <5>1. b < fromBlock /\ b \in Int
          BY <1>3, <1>4, <2>1, <4>2
        <5>2. start # NoBlock /\ start' = start
          BY <1>4, <2>1, <5>1
        <5>3. b \in start .. nextFromBlock - 1
          BY <1>3, <1>4, <1>7, <5>1, <5>2
        <5>4. b \in unseen \/ Handed(b)
          BY <1>1, <5>2, <5>3, LeftBehind
        <5>5. QED
          BY <1>1, <2>1, <5>4 DEF Handed
      <4>3. QED
        BY <4>1, <4>2
    <3>3. QED
      BY <3>1, <3>2 DEF NothingElseMissed
  <2>6. QED
    BY <2>2, <2>3, <2>4, <2>5 DEF PollingInv
<1>8. QED
  BY <1>6, <1>7

\* The logs of the range go after all that was given; the blocks past the head
\* of the endpoint that answered are unseen.
LEMMA PollingGotLogs ==
  ASSUME PollingInv, NEW h \in Heads, GotLogs(h)
  PROVE  PollingInv'
<1>1. /\ pc = "filter"
      /\ TypeOK /\ QueryInv /\ GivenInOrder /\ NothingElseMissed
      /\ sub' = LogsOf(fromBlock, Min({h, toBlock}))
      /\ unseen' = unseen \union {b \in fromBlock .. toBlock : b > h}
      /\ start' = IF start = NoBlock THEN fromBlock ELSE start
      /\ nextFromBlock' = toBlock + 1
      /\ pc' = "deliver"
      /\ UNCHANGED <<logs, fromBlock, toBlock, reconnects, delivered>>
  BY DEF GotLogs, PollingInv, AfterTheHead
<1>2. /\ sub = <<>> /\ 0 < fromBlock /\ fromBlock <= toBlock
      /\ toBlock <= head
      /\ nextFromBlock # NoBlock => fromBlock = nextFromBlock
  BY <1>1 DEF QueryInv, NoBlock
<1>3. /\ head \in Nat /\ MaxHead \in Nat /\ head <= MaxHead
      /\ nextFromBlock \in Nat /\ fromBlock \in Nat /\ toBlock \in Nat
      /\ start \in Nat /\ MaxLogs \in Nat
      /\ \A b \in 1 .. head : logs[b] \in 0 .. MaxLogs
      /\ delivered \in Seq(EventsGiven) /\ delivered \in Seq(Events)
  BY <1>1, PollingTypes, GivenEvents, SeqMonotonic
<1>4. h \in Nat /\ 0 < h /\ h <= head
  <2>1. h \in 1 .. MaxHead /\ h \in head - MaxLag .. head
    BY DEF Heads, Positive, Blocks
  <2>2. QED
    BY <1>3, <2>1
<1>5. PICK last \in Nat : /\ last = Min({h, toBlock})
                          /\ last <= toBlock /\ (last = h \/ last = toBlock)
  <2>1. h <= toBlock => Min({h, toBlock}) = h
    BY <1>3, <1>4, MinOfTwo
  <2>2. toBlock <= h => Min({h, toBlock}) = toBlock
    BY <1>3, <1>4, MinOfTwo
  <2>3. /\ Min({h, toBlock}) \in Nat /\ Min({h, toBlock}) <= toBlock
        /\ Min({h, toBlock}) = h \/ Min({h, toBlock}) = toBlock
    BY <1>3, <1>4, <2>1, <2>2
  <2>4. QED
    BY <2>3
<1>6. head' = head
  BY <1>1 DEF head
<1>7. PICK s : s = sub' /\ Lists(s, fromBlock, last)
  <2>1. \A b \in fromBlock .. last : logs[b] \in Nat
    <3> SUFFICES ASSUME NEW b \in fromBlock .. last PROVE logs[b] \in Nat
      OBVIOUS
    <3>1. b \in 1 .. head
      BY <1>2, <1>3, <1>5
    <3>2. logs[b] \in 0 .. MaxLogs
      BY <1>3, <3>1
    <3>3. QED
      BY <3>2
  <2>2. Lists(LogsOf(fromBlock, last), fromBlock, last)
    BY <1>3, <2>1, LogsOfLists
  <2>3. QED
    BY <1>1, <1>5, <2>2
<1>8. /\ s \in Seq(Events) /\ InChainOrder(s)
      /\ DOMAIN s = 1 .. Len(s) /\ Len(s) \in Nat
      /\ \A i \in DOMAIN s :
           /\ s[i][1] \in fromBlock .. last
           /\ s[i][2] \in 1 .. logs[s[i][1]]
           /\ s[i] = <<s[i][1], s[i][2]>>
      /\ \A b \in fromBlock .. last : \A i \in 1 .. logs[b] :
           <<b, i>> \in Range(s)
  <2>1. s \in Seq(Events)
    BY <1>7 DEF Lists
  <2>2. QED
    BY <1>7, <2>1, EventParts DEF Lists
<1>9. Given = delivered
  BY <1>2, <1>3, ConcatEmptySeq DEF Given
<1>10. /\ InChainOrder(delivered)
       /\ \A i \in DOMAIN delivered :
            /\ delivered[i][1] < fromBlock /\ delivered[i][1] <= head
            /\ delivered[i][2] <= logs[delivered[i][1]]
  <2>1. /\ InChainOrder(delivered)
        /\ \A i \in DOMAIN delivered :
             /\ delivered[i][1] < nextFromBlock /\ delivered[i][1] <= head
             /\ delivered[i][2] <= logs[delivered[i][1]]
    BY <1>1, <1>9 DEF GivenInOrder
  <2>2. \A i \in DOMAIN delivered : delivered[i][1] \in Nat \ {0}
    BY <1>1, <1>9, GivenBlocks
  <2>3. \A i \in DOMAIN delivered : nextFromBlock # NoBlock
    BY <1>3, <2>1, <2>2 DEF NoBlock
  <2>4. QED
    BY <1>2, <2>1, <2>3
<1>11. PICK g : g = delivered \o s
  OBVIOUS
<1>12. Given' = g
  BY <1>1, <1>7, <1>11 DEF Given
<1>13. /\ DOMAIN delivered = 1 .. Len(delivered) /\ Len(delivered) \in Nat
       /\ \A i \in DOMAIN g :
            \/ i \in DOMAIN delivered /\ g[i] = delivered[i]
            \/ i - Len(delivered) \in DOMAIN s /\ g[i] = s[i - Len(delivered)]
  <2>1. DOMAIN delivered = 1 .. Len(delivered) /\ Len(delivered) \in Nat
    BY <1>3, LenProperties
  <2>2. /\ Len(g) = Len(delivered) + Len(s)
        /\ g \in Seq(Events)
        /\ \A i \in 1 .. Len(delivered) + Len(s) :
             g[i] = IF i <= Len(delivered) THEN delivered[i]
                    ELSE s[i - Len(delivered)]
    BY <1>3, <1>8, <1>11, ConcatProperties
  <2>3. DOMAIN g = 1 .. Len(delivered) + Len(s)
    BY <2>2, LenProperties
  <2>4. QED
    BY <1>8, <2>1, <2>2, <2>3
<1>14. InChainOrder(g)
  <2>1. \A j \in DOMAIN s : fromBlock <= s[j][1]
    BY <1>8
  <2>2. \A i \in DOMAIN delivered : delivered[i][1] < fromBlock
    BY <1>10
  <2>3. QED
    BY <1>3, <1>8, <1>10, <1>11, <2>1, <2>2, ConcatInOrder
<1>15. \A i \in DOMAIN s : /\ s[i][1] \in 1 .. head
                           /\ s[i][1] < toBlock + 1
                           /\ s[i][2] \in 1 .. logs[s[i][1]]
  <2>1. \A b \in fromBlock .. last : b \in 1 .. head /\ b < toBlock + 1
    BY <1>2, <1>3, <1>5
  <2>2. QED
    BY <1>8, <2>1
<1>16. GivenInOrder'
  <2>1. \A i \in DOMAIN g :
          /\ g[i][1] < toBlock + 1
          /\ g[i][1] <= head
          /\ g[i][2] <= logs[g[i][1]]
    <3> SUFFICES ASSUME NEW i \in DOMAIN g
                 PROVE  /\ g[i][1] < toBlock + 1
                        /\ g[i][1] <= head
                        /\ g[i][2] <= logs[g[i][1]]
      OBVIOUS
    <3>1. CASE i \in DOMAIN delivered /\ g[i] = delivered[i]
      <4>1. delivered[i][1] \in Nat
        BY <1>1, <1>9, <3>1, GivenBlocks
      <4>2. QED
        BY <1>2, <1>3, <1>10, <3>1, <4>1
    <3>2. CASE /\ i - Len(delivered) \in DOMAIN s
               /\ g[i] = s[i - Len(delivered)]
      <4>1. PICK j \in DOMAIN s : g[i] = s[j]
        BY <3>2
      <4>2. /\ s[j][1] \in 1 .. head /\ s[j][1] < toBlock + 1
            /\ s[j][2] \in 1 .. logs[s[j][1]]
        BY <1>15
      <4>3. logs[s[j][1]] \in Nat
        BY <1>3, <4>2
      <4>4. QED
        BY <1>3, <4>1, <4>2, <4>3
    <3>3. QED
      BY <1>13, <3>1, <3>2
  <2>2. QED
    BY <1>1, <1>6, <1>12, <1>14, <2>1 DEF GivenInOrder
<1>17. TypeOK'
  <2>1. s \in Seq(EventsGiven)
    <3>1. \A i \in DOMAIN s : s[i] \in EventsGiven
      <4> SUFFICES ASSUME NEW i \in DOMAIN s PROVE s[i] \in EventsGiven
        OBVIOUS
      <4>1. s[i][1] \in 1 .. head /\ s[i][2] \in 1 .. logs[s[i][1]]
        BY <1>15
      <4>2. logs[s[i][1]] \in 0 .. MaxLogs
        BY <1>3, <4>1
      <4>3. s[i][1] \in Blocks /\ s[i][2] \in 1 .. MaxLogs
        BY <1>3, <4>1, <4>2 DEF Blocks
      <4>4. <<s[i][1], s[i][2]>> \in EventsGiven
        BY <4>3 DEF EventsGiven
      <4>5. s[i] = <<s[i][1], s[i][2]>>
        BY <1>8
      <4>6. QED
        BY <4>4, <4>5
    <3>2. QED
      BY <1>8, <3>1
  <2>2. nextFromBlock' \in 0 .. MaxHead + 1
    BY <1>1, <1>2, <1>3
  <2>3. start' \in 0 .. MaxHead
    BY <1>1 DEF TypeOK
  <2>4. {b \in fromBlock .. toBlock : b > h} \subseteq Blocks
    BY <1>2, <1>3 DEF Blocks
  <2>5. unseen' \subseteq Blocks
    BY <1>1, <2>4 DEF TypeOK
  <2>6. QED
    BY <1>1, <1>6, <1>7, <2>1, <2>2, <2>3, <2>5 DEF TypeOK, EventsGiven
<1>18. QueryInv'
  <2>1. nextFromBlock' <= head + 1 /\ nextFromBlock' # NoBlock
    BY <1>1, <1>2, <1>3 DEF NoBlock
  <2>2. QED
    BY <1>1, <1>6, <2>1 DEF QueryInv
<1>19. Range(delivered) \union Range(s) = Range(g)
  BY <1>3, <1>8, <1>11, RangeConcatenation
<1>20. NothingElseMissed'
  <2>1. Min({nextFromBlock' - 1, head'}) = toBlock
    <3>1. nextFromBlock' - 1 = toBlock
      BY <1>1, <1>3
    <3>2. QED
      BY <1>2, <1>3, <1>6, <3>1, MinOfTwo
  <2>2. ASSUME NEW b \in start' .. toBlock
        PROVE  b \in unseen' \/ \A i \in 1 .. logs[b] : <<b, i>> \in Range(g)
    <3>1. CASE b \in fromBlock .. toBlock
      <4>1. CASE b > h
        BY <1>1, <3>1, <4>1
      <4>2. CASE ~(b > h)
        <5>1. b \in fromBlock .. last
          BY <1>3, <1>4, <1>5, <3>1, <4>2
        <5>2. QED
          BY <1>8, <1>19, <5>1
      <4>3. QED
        BY <4>1, <4>2
    <3>2. CASE b \notin fromBlock .. toBlock
      <4>1. b < fromBlock /\ b \in Int
        BY <1>1, <1>2, <1>3, <3>2
      <4>2. start # NoBlock /\ start' = start
        BY <1>1, <1>3, <4>1
      <4>3. nextFromBlock # NoBlock
        BY <1>1, <4>2 DEF QueryInv
      <4>4. b \in start .. nextFromBlock - 1
        BY <1>2, <1>3, <4>1, <4>2, <4>3
      <4>5. b \in unseen \/ Handed(b)
        BY <1>1, <4>2, <4>4, LeftBehind
      <4>6. CASE Handed(b)
        <5>1. \A i \in 1 .. logs[b] : <<b, i>> \in Range(delivered)
          BY <1>9, <4>6 DEF Handed, Given
        <5>2. QED
          BY <1>19, <5>1
      <4>7. QED
        BY <1>1, <4>5, <4>6
    <3>3. QED
      BY <3>1, <3>2
  <2>3. \A b : Handed(b)' <=> \A i \in 1 .. logs[b] : <<b, i>> \in Range(g)
    BY <1>1, <1>12 DEF Handed, Given
  <2>4. QED
    BY <2>1, <2>2, <2>3 DEF NothingElseMissed
<1>21. QED
  BY <1>16, <1>17, <1>18, <1>20 DEF PollingInv

LEMMA PollingInit ==
  ASSUME Init
  PROVE  PollingInv
<1>1. /\ logs \in [1 .. 1 -> 0 .. MaxLogs] /\ pc = "head"
      /\ nextFromBlock \in {0, 1} /\ fromBlock = 0 /\ toBlock = 0
      /\ reconnects = 0 /\ sub = <<>> /\ delivered = <<>> /\ start = 0
      /\ unseen = {}
  BY DEF Init, NoBlock
<1>2. MaxHead \in Nat \ {0} /\ MaxReconnects \in Nat \ {0} /\ MaxLogs \in Nat
  BY WatcherAssumption
<1>3. logs \in Seq(0 .. MaxLogs) /\ Len(logs) = 1
  BY <1>1, FunctionsAreSeqs
<1>4. Given = <<>>
  BY <1>1, ConcatEmptySeq, EmptySeq DEF Given
<1>5. TypeOK
  BY <1>1, <1>2, <1>3 DEF TypeOK, head, Blocks
<1>6. GivenInOrder
  BY <1>4 DEF GivenInOrder, InChainOrder
<1>7. QueryInv
  BY <1>1, <1>3 DEF QueryInv, head, NoBlock
<1>8. NothingElseMissed
  BY <1>1 DEF NothingElseMissed, NoBlock
<1>9. QED
  BY <1>5, <1>6, <1>7, <1>8 DEF PollingInv

LEMMA PollingStep ==
  ASSUME PollingInv, Next
  PROVE  PollingInv'
<1>1. CASE \E h \in Heads : GotHead(h)
  BY <1>1, PollingGotHead
<1>2. CASE \E h \in Heads : GotLogs(h)
  BY <1>2, PollingGotLogs
<1>3. CASE HeadFails
  BY <1>3, PollingHeadFails
<1>4. CASE FilterFails
  BY <1>4, PollingFilterFails
<1>5. CASE Deliver
  BY <1>5, PollingDeliver
<1>6. CASE PollAgain \/ Unsubscribe
  BY <1>6, PollingAgainOrEnds
<1>7. CASE \E n \in 0 .. MaxLogs : NewBlock(n)
  BY <1>7, PollingNewBlock
<1>8. QED
  BY <1>1, <1>2, <1>3, <1>4, <1>5, <1>6, <1>7 DEF Next, Poll

-----------------------------------------------------------------------------
(* The subscribing watcher *)

LEMMA PrecedesTransitive ==
  ASSUME NEW d \in Events, NEW e \in Events, NEW f \in Events,
         Stream!Precedes(d, e), Stream!Precedes(e, f)
  PROVE  Stream!Precedes(d, f)
BY DEF Stream!Precedes, Events

\* Of some logs one is the first in the order of the chain.
LEMMA FirstLog ==
  ASSUME NEW W, W \subseteq Events, W # {}
  PROVE  \E e \in W : \A f \in W : f = e \/ Stream!Precedes(e, f)
<1>1. PICK B : B = {e[1] : e \in W}
  OBVIOUS
<1>2. B \subseteq Nat /\ B # {}
  BY <1>1 DEF Events
<1>3. PICK b \in B : \A c \in B : b <= c
  BY <1>2, LeastNat
<1>4. PICK I : I = {e[2] : e \in {f \in W : f[1] = b}}
  OBVIOUS
<1>5. I \subseteq Nat /\ I # {}
  BY <1>1, <1>3, <1>4 DEF Events
<1>6. PICK i \in I : \A j \in I : i <= j
  BY <1>5, LeastNat
<1>7. PICK e \in W : e[1] = b /\ e[2] = i
  BY <1>4, <1>6
<1>8. ASSUME NEW f \in W
      PROVE  f = e \/ Stream!Precedes(e, f)
  <2>1. /\ f[1] \in Nat /\ f[2] \in Nat /\ f = <<f[1], f[2]>>
        /\ e[1] \in Nat /\ e[2] \in Nat /\ e = <<e[1], e[2]>>
    BY <1>7 DEF Events
  <2>2. b <= f[1]
    BY <1>1, <1>3
  <2>3. CASE f[1] = b
    <3>1. i <= f[2]
      BY <1>4, <1>6, <2>3
    <3>2. CASE i = f[2]
      BY <1>7, <2>1, <2>3, <3>2
    <3>3. CASE i # f[2]
      <4>1. e[2] < f[2]
        BY <1>7, <2>1, <3>1, <3>3
      <4>2. QED
        BY <1>7, <2>3, <4>1 DEF Stream!Precedes
    <3>4. QED
      BY <3>2, <3>3
  <2>4. CASE f[1] # b
    <3>1. e[1] < f[1]
      BY <1>7, <2>1, <2>2, <2>4
    <3>2. QED
      BY <3>1 DEF Stream!Precedes
  <2>5. QED
    BY <2>3, <2>4
<1>9. QED
  BY <1>7, <1>8

LEMMA SubscriptionTypes ==
  ASSUME Subscription!TypeOK
  PROVE  /\ head \in Nat /\ head # 0 /\ MaxLogs \in Nat /\ MaxHead \in Nat
         /\ logs \in Seq(0 .. MaxLogs) /\ head <= MaxHead
         /\ \A b \in 1 .. head : logs[b] \in 0 .. MaxLogs
         /\ Subscription!Log = (1 .. head) \X (1 .. MaxLogs)
         /\ Subscription!Log \subseteq Events
         /\ Subscription!LogsOfChain \subseteq Subscription!Log
         /\ pushed \in Events
         /\ delivered \in Seq(Subscription!Log)
         /\ \A i \in DOMAIN delivered : /\ delivered[i] \in Subscription!Log
                                        /\ delivered[i] \in Events
<1>1. MaxLogs \in Nat /\ MaxHead \in Nat
  BY WatcherAssumption
<1>2. /\ head \in Nat /\ head # 0 /\ logs \in Seq(0 .. MaxLogs)
      /\ head <= MaxHead /\ Subscription!head = head
  BY <1>1 DEF Subscription!TypeOK, Subscription!head, head
<1>3. \A b \in 1 .. head : logs[b] \in 0 .. MaxLogs
  BY <1>2, ElementOfSeq DEF head
<1>4. Subscription!Log = (1 .. head) \X (1 .. MaxLogs)
  BY <1>2 DEF Subscription!Log
<1>5. Subscription!Log \subseteq Events
  BY <1>1, <1>2, <1>4 DEF Events
<1>6. Subscription!LogsOfChain \subseteq Subscription!Log
  BY DEF Subscription!LogsOfChain
<1>7. pushed \in Events
  BY <1>1, <1>2 DEF Subscription!TypeOK, Events
<1>8. delivered \in Seq(Subscription!Log)
  BY DEF Subscription!TypeOK
<1>9. \A i \in DOMAIN delivered : /\ delivered[i] \in Subscription!Log
                                  /\ delivered[i] \in Events
  BY <1>5, <1>8, LenProperties, ElementOfSeq
<1>10. QED
  BY <1>1, <1>2, <1>3, <1>4, <1>5, <1>6, <1>7, <1>8, <1>9

\* The next log is one that waits, after the last one pushed.
LEMMA NextLogWaits ==
  ASSUME Subscription!TypeOK, Subscription!Waiting # {}
  PROVE  /\ Subscription!NextLog \in Subscription!LogsOfChain
         /\ Stream!Precedes(pushed, Subscription!NextLog)
<1>1. PICK W : W = Subscription!Waiting
  OBVIOUS
<1>2. W \subseteq Events /\ W # {}
  BY <1>1, SubscriptionTypes DEF Subscription!Waiting
<1>3. \E e \in W : \A f \in W : f = e \/ Stream!Precedes(e, f)
  BY <1>2, FirstLog
<1>4. \E e \in W : \A f \in W : f = e \/ Subscription!Before(e, f)
  BY <1>3 DEF Stream!Precedes, Subscription!Before
<1>5. Subscription!NextLog \in W
  BY <1>1, <1>4 DEF Subscription!NextLog
<1>6. QED
  BY <1>1, <1>5 DEF Subscription!Waiting, Subscription!Before, Stream!Precedes

LEMMA SubscriptionNewBlock ==
  ASSUME SubscriptionInv, NEW n \in 0 .. MaxLogs, Subscription!NewBlock(n),
         UNCHANGED start
  PROVE  SubscriptionInv'
<1>1. /\ Subscription!TypeOK /\ start = NoBlock
      /\ pc = "sink" => pushed \in Subscription!LogsOfChain
      /\ \A i \in DOMAIN delivered :
           \/ Stream!Precedes(delivered[i], pushed)
           \/ pc # "sink" /\ delivered[i] = pushed
      /\ Subscription!head < MaxHead /\ logs' = Append(logs, n)
      /\ UNCHANGED <<pc, attempts, pushed, delivered>>
  BY DEF SubscriptionInv, Subscription!NewBlock
<1>2. /\ head \in Nat /\ head # 0 /\ MaxLogs \in Nat /\ MaxHead \in Nat
      /\ logs \in Seq(0 .. MaxLogs)
      /\ Subscription!Log = (1 .. head) \X (1 .. MaxLogs)
      /\ delivered \in Seq(Subscription!Log)
      /\ Subscription!head = head /\ head < MaxHead
  BY <1>1, SubscriptionTypes DEF Subscription!head, head
<1>3. /\ Len(logs') = head + 1 /\ logs' \in Seq(0 .. MaxLogs)
      /\ \A b \in 1 .. head : logs'[b] = logs[b]
  BY <1>1, <1>2, AppendProperties DEF head
<1>4. Subscription!head' = head + 1
  BY <1>3 DEF Subscription!head
<1>5. Subscription!Log' = (1 .. head + 1) \X (1 .. MaxLogs)
  BY <1>4 DEF Subscription!Log
<1>6. Subscription!Log \subseteq Subscription!Log'
  BY <1>2, <1>5
<1>7. Subscription!LogsOfChain \subseteq Subscription!LogsOfChain'
  <2>1. ASSUME NEW e \in Subscription!LogsOfChain
        PROVE  e \in Subscription!LogsOfChain'
    <3>1. e \in Subscription!Log /\ e[2] <= logs[e[1]]
      BY DEF Subscription!LogsOfChain
    <3>2. e[1] \in 1 .. head
      BY <1>2, <3>1
    <3>3. e \in Subscription!Log' /\ e[2] <= logs'[e[1]]
      BY <1>3, <1>6, <3>1, <3>2
    <3>4. QED
      BY <3>3 DEF Subscription!LogsOfChain
  <2>2. QED
    BY <2>1
<1>8. Subscription!TypeOK'
  <2>1. delivered' \in Seq(Subscription!Log')
    BY <1>1, <1>2, <1>6, SeqMonotonic
  <2>2. Subscription!head' \in 1 .. MaxHead
    BY <1>2, <1>4
  <2>3. pushed' \in (0 .. Subscription!head') \X (0 .. MaxLogs)
    <3>1. pushed \in (0 .. head) \X (0 .. MaxLogs)
      BY <1>1, <1>2 DEF Subscription!TypeOK
    <3>2. 0 .. head \subseteq 0 .. Subscription!head'
      BY <1>2, <1>4
    <3>3. QED
      BY <1>1, <3>1, <3>2
  <2>4. QED
    BY <1>1, <1>3, <2>1, <2>2, <2>3 DEF Subscription!TypeOK
<1>9. QED
  BY <1>1, <1>7, <1>8 DEF SubscriptionInv

\* A new subscription skips all the logs there are.
LEMMA SubscriptionSubscribed ==
  ASSUME SubscriptionInv, Subscription!Subscribed, UNCHANGED start
  PROVE  SubscriptionInv'
<1>1. /\ Subscription!TypeOK /\ start = NoBlock
      /\ pc' = "events" /\ pushed' = <<Subscription!head, MaxLogs>>
      /\ attempts' = 0 /\ UNCHANGED <<logs, delivered>>
  BY DEF SubscriptionInv, Subscription!Subscribed, Subscription!AfterTheHead
<1>2. /\ head \in Nat /\ head # 0 /\ MaxLogs \in Nat
      /\ Subscription!Log = (1 .. head) \X (1 .. MaxLogs)
      /\ Subscription!head = head
      /\ \A i \in DOMAIN delivered : delivered[i] \in Subscription!Log
  BY <1>1, SubscriptionTypes DEF Subscription!head, head
<1>3. /\ Subscription!head' = Subscription!head
      /\ Subscription!Log' = Subscription!Log
  BY <1>1 DEF Subscription!head, Subscription!Log
<1>4. Subscription!TypeOK'
  <2>1. pushed' \in (0 .. Subscription!head) \X (0 .. MaxLogs)
    BY <1>1, <1>2
  <2>2. QED
    BY <1>1, <1>3, <2>1 DEF Subscription!TypeOK
<1>5. ASSUME NEW i \in DOMAIN delivered
      PROVE  Stream!Precedes(delivered[i], pushed') \/ delivered[i] = pushed'
  <2>1. PICK b \in 1 .. head, k \in 1 .. MaxLogs : delivered[i] = <<b, k>>
    BY <1>2
  <2>2. b < head \/ (b = head /\ k < MaxLogs) \/ (b = head /\ k = MaxLogs)
    BY <1>2, <2>1
  <2>3. QED
    BY <1>1, <1>2, <2>1, <2>2 DEF Stream!Precedes
<1>6. QED
  BY <1>1, <1>4, <1>5 DEF SubscriptionInv

LEMMA SubscriptionPush ==
  ASSUME SubscriptionInv, Subscription!Push, UNCHANGED start
  PROVE  SubscriptionInv'
<1>1. /\ Subscription!TypeOK /\ start = NoBlock /\ pc = "events"
      /\ \A i \in DOMAIN delivered :
           Stream!Precedes(delivered[i], pushed) \/ delivered[i] = pushed
      /\ Subscription!Waiting # {} /\ pushed' = Subscription!NextLog
      /\ pc' = "sink" /\ UNCHANGED <<logs, attempts, delivered>>
  BY DEF SubscriptionInv, Subscription!Push
<1>2. /\ pushed' \in Subscription!LogsOfChain
      /\ Stream!Precedes(pushed, pushed')
  BY <1>1, NextLogWaits
<1>3. /\ head \in Nat /\ MaxLogs \in Nat
      /\ Subscription!Log = (1 .. head) \X (1 .. MaxLogs)
      /\ Subscription!Log \subseteq Events
      /\ Subscription!LogsOfChain \subseteq Subscription!Log
      /\ pushed \in Events /\ Subscription!head = head
      /\ \A i \in DOMAIN delivered : delivered[i] \in Events
  BY <1>1, SubscriptionTypes DEF Subscription!head, head
<1>4. /\ Subscription!head' = Subscription!head
      /\ Subscription!Log' = Subscription!Log
      /\ Subscription!LogsOfChain' = Subscription!LogsOfChain
  BY <1>1 DEF Subscription!head, Subscription!Log, Subscription!LogsOfChain
<1>5. pushed' \in Events
  BY <1>2, <1>3
<1>6. Subscription!TypeOK'
  <2>1. pushed' \in (0 .. Subscription!head) \X (0 .. MaxLogs)
    BY <1>2, <1>3
  <2>2. QED
    BY <1>1, <1>4, <2>1 DEF Subscription!TypeOK
<1>7. \A i \in DOMAIN delivered : Stream!Precedes(delivered[i], pushed')
  BY <1>1, <1>2, <1>3, <1>5, PrecedesTransitive
<1>8. QED
  BY <1>1, <1>2, <1>4, <1>6, <1>7 DEF SubscriptionInv

LEMMA SubscriptionDeliver ==
  ASSUME SubscriptionInv, Subscription!Deliver, UNCHANGED start
  PROVE  SubscriptionInv'
<1>1. /\ Subscription!TypeOK /\ start = NoBlock /\ pc = "sink"
      /\ pushed \in Subscription!LogsOfChain
      /\ \A i \in DOMAIN delivered : Stream!Precedes(delivered[i], pushed)
      /\ delivered' = Append(delivered, pushed)
      /\ pc' = "events" /\ UNCHANGED <<logs, attempts, pushed>>
  BY DEF SubscriptionInv, Subscription!Deliver
<1>2. /\ pushed \in Subscription!Log
      /\ delivered \in Seq(Subscription!Log)
  BY <1>1, SubscriptionTypes
<1>3. /\ Subscription!head' = Subscription!head
      /\ Subscription!Log' = Subscription!Log
  BY <1>1 DEF Subscription!head, Subscription!Log
<1>4. /\ delivered' \in Seq(Subscription!Log)
      /\ DOMAIN delivered' = 1 .. Len(delivered) + 1
      /\ DOMAIN delivered = 1 .. Len(delivered)
      /\ Len(delivered) \in Nat
      /\ \A i \in 1 .. Len(delivered) : delivered'[i] = delivered[i]
      /\ delivered'[Len(delivered) + 1] = pushed
  BY <1>1, <1>2, AppendProperties, LenProperties
<1>5. Subscription!TypeOK'
  BY <1>1, <1>3, <1>4 DEF Subscription!TypeOK
<1>6. \A i \in DOMAIN delivered' :
        Stream!Precedes(delivered'[i], pushed) \/ delivered'[i] = pushed
  <2>1. \A i \in DOMAIN delivered' :
          i \in 1 .. Len(delivered) \/ i = Len(delivered) + 1
    BY <1>4
  <2>2. QED
    BY <1>1, <1>4, <2>1
<1>7. QED
  BY <1>1, <1>5, <1>6 DEF SubscriptionInv

\* Errors and the end: nothing is in hand afterwards.
LEMMA SubscriptionFails ==
  ASSUME SubscriptionInv, UNCHANGED start,
         \/ Subscription!SubscribeFails \/ Subscription!GiveUp
         \/ Subscription!SubscriptionError \/ Subscription!Quit
  PROVE  SubscriptionInv'
<1>1. /\ Subscription!TypeOK /\ start = NoBlock
      /\ \A i \in DOMAIN delivered :
           Stream!Precedes(delivered[i], pushed) \/ delivered[i] = pushed
      /\ pc' \in {"subscribe", "failed", "closed"}
      /\ attempts' \in {attempts, attempts + 1}
      /\ UNCHANGED <<logs, pushed, delivered>>
  BY DEF SubscriptionInv, Subscription!SubscribeFails, Subscription!GiveUp,
         Subscription!SubscriptionError, Subscription!Quit
<1>2. /\ Subscription!head' = Subscription!head
      /\ Subscription!Log' = Subscription!Log
  BY <1>1 DEF Subscription!head, Subscription!Log
<1>3. Subscription!TypeOK'
  BY <1>1, <1>2 DEF Subscription!TypeOK
<1>4. QED
  BY <1>1, <1>3 DEF SubscriptionInv

LEMMA SubscriptionStep ==
  ASSUME SubscriptionInv, Subscription!Next, UNCHANGED start
  PROVE  SubscriptionInv'
<1>1. CASE \E n \in 0 .. MaxLogs : Subscription!NewBlock(n)
  BY <1>1, SubscriptionNewBlock
<1>2. CASE Subscription!Subscribed
  BY <1>2, SubscriptionSubscribed
<1>3. CASE Subscription!Push
  BY <1>3, SubscriptionPush
<1>4. CASE Subscription!Deliver
  BY <1>4, SubscriptionDeliver
<1>5. CASE \/ Subscription!SubscribeFails \/ Subscription!GiveUp
           \/ Subscription!SubscriptionError \/ Subscription!Quit
  BY <1>5, SubscriptionFails
<1>6. QED
  BY <1>1, <1>2, <1>3, <1>4, <1>5 DEF Subscription!Next, Subscription!Watch

LEMMA SubscriptionInit ==
  ASSUME Subscription!Init, start = NoBlock
  PROVE  SubscriptionInv
<1>1. /\ logs \in [1 .. 1 -> 0 .. MaxLogs] /\ pc = "subscribe"
      /\ attempts = 0 /\ pushed = <<0, 0>> /\ delivered = <<>>
  BY DEF Subscription!Init, Subscription!NoLog
<1>2. MaxHead \in Nat \ {0} /\ MaxLogs \in Nat
  BY WatcherAssumption
<1>3. logs \in Seq(0 .. MaxLogs) /\ Len(logs) = 1
  BY <1>1, FunctionsAreSeqs
<1>4. Subscription!TypeOK
  BY <1>1, <1>2, <1>3, EmptySeq DEF Subscription!TypeOK, Subscription!head
<1>5. QED
  BY <1>1, <1>4 DEF SubscriptionInv

-----------------------------------------------------------------------------
(* Either watcher *)

LEMMA WatchersStep ==
  ASSUME WatchersInv, [WatchersNext]_allVars
  PROVE  WatchersInv'
<1>1. CASE Subscribing(Subscription!Next)
  <2>1. /\ useSubscriptions /\ useSubscriptions' = useSubscriptions
        /\ Subscription!Next /\ UNCHANGED start /\ SubscriptionInv
    BY <1>1 DEF Subscribing, WatchersInv
  <2>2. SubscriptionInv'
    BY <2>1, SubscriptionStep
  <2>3. QED
    BY <2>1, <2>2, Zenon DEF WatchersInv
<1>2. CASE Polling(Next)
  <2>1. /\ ~useSubscriptions /\ useSubscriptions' = useSubscriptions
        /\ Next /\ PollingInv /\ useSubscriptions \in BOOLEAN
    BY <1>2 DEF Polling, WatchersInv
  <2>2. PollingInv'
    BY <2>1, PollingStep
  <2>3. QED
    BY <2>1, <2>2, Zenon DEF WatchersInv
<1>3. CASE UNCHANGED allVars
  <2>1. /\ UNCHANGED <<logs, pc, nextFromBlock, fromBlock, toBlock, reconnects>>
        /\ UNCHANGED <<sub, delivered, start, unseen>>
        /\ UNCHANGED <<useSubscriptions, attempts, pushed>>
    BY <1>3 DEF allVars, vars
  <2>2. CASE useSubscriptions
    <3>1. SubscriptionInv
      BY <2>2 DEF WatchersInv
    <3>2. SubscriptionInv'
      BY <2>1, <3>1 DEF SubscriptionInv, Subscription!TypeOK,
           Subscription!head, Subscription!Log, Subscription!LogsOfChain
    <3>3. QED
      BY <2>1, <2>2, <3>2, Zenon DEF WatchersInv
  <2>3. CASE ~useSubscriptions
    <3>1. PollingInv /\ useSubscriptions \in BOOLEAN
      BY <2>3 DEF WatchersInv
    <3>2. Given' = Given
      BY <2>1 DEF Given
    <3>3. TypeOK' /\ QueryInv'
      BY <2>1, <3>1 DEF PollingInv, TypeOK, QueryInv, head
    <3>4. PollingInv'
      BY <2>1, <3>1, <3>2, <3>3, PollingQuiet
    <3>5. QED
      BY <2>1, <2>3, <3>1, <3>4, Zenon DEF WatchersInv
  <2>4. QED
    BY <2>2, <2>3
<1>4. QED
  BY <1>1, <1>2, <1>3 DEF WatchersNext

LEMMA WatchersStart ==
  ASSUME WatchersInit
  PROVE  WatchersInv
<1>1. CASE useSubscriptions
  <2>1. Subscription!Init /\ start = NoBlock /\ useSubscriptions \in BOOLEAN
    BY <1>1 DEF WatchersInit
  <2>2. SubscriptionInv
    BY <2>1, SubscriptionInit
  <2>3. QED
    BY <1>1, <2>1, <2>2, Zenon DEF WatchersInv
<1>2. CASE ~useSubscriptions
  <2>1. Init /\ useSubscriptions \in BOOLEAN
    BY <1>2 DEF WatchersInit
  <2>2. PollingInv
    BY <2>1, PollingInit
  <2>3. QED
    BY <1>2, <2>1, <2>2, Zenon DEF WatchersInv
<1>3. QED
  BY <1>1, <1>2

\* Whichever watcher runs, what it was given is in order, its next query
\* starts past all of it, and the event in hand is later than any handed over.
THEOREM WatchersInvariant == WatchersSpec => []WatchersInv
BY WatchersStart, WatchersStep, PTL DEF WatchersSpec

\* The watchers' variables keep their types: the next block stays within one
\* of the head, the retries within their limit.
THEOREM WatchersTypes == WatchersSpec => []WatchersTypeOK
<1>1. WatchersInv => WatchersTypeOK
  BY DEF WatchersInv, WatchersTypeOK, PollingInv, SubscriptionInv
<1>2. QED
  BY <1>1, WatchersInvariant, PTL

\* Between two polls no block is skipped: one that the polling watcher left
\* behind without its events was in a range whose request failed, or was
\* answered by an endpoint that did not have it yet.
THEOREM NothingMissed == WatchersSpec => []NothingElseMissed
<1>1. WatchersInv => NothingElseMissed
  BY DEF WatchersInv, PollingInv, SubscriptionInv, NothingElseMissed
<1>2. QED
  BY <1>1, WatchersInvariant, PTL
-----------------------------------------------------------------------------
(* Either watcher implements EventStream *)

\* The event handed over exists and is later than all that were.
LEMMA HandsOver ==
  ASSUME NEW e \in Events, 0 < e[1], e[1] <= head,
         1 <= e[2], e[2] <= MaxLogs, e[2] <= logs[e[1]],
         \A i \in 1 .. Len(delivered) : Stream!Precedes(delivered[i], e),
         delivered' = Append(delivered, e), UNCHANGED logs
  PROVE  Stream!Next
<1>1. e = <<e[1], e[2]>> /\ e[1] \in Nat /\ e[2] \in Nat
  BY DEF Events
<1>2. PICK b, i : b = e[1] /\ i = e[2] /\ e = <<b, i>>
  BY <1>1
<1>3. Stream!HandOver(b, i)
  BY <1>2 DEF Stream!HandOver, Stream!Later
<1>4. b \in 1 .. Len(logs) /\ i \in 1 .. MaxLogs
  <2>1. Len(logs) = head
    BY DEF head
  <2>2. b \in Nat /\ 0 < b /\ b <= head /\ i \in Nat
    BY <1>1, <1>2
  <2>3. b \in 1 .. head
    BY <2>2
  <2>4. QED
    BY <1>2, <2>1, <2>2, <2>3
<1>5. QED
  BY <1>3, <1>4 DEF Stream!Next

LEMMA PollingHandsOver ==
  ASSUME PollingInv, Deliver
  PROVE  Stream!Next
<1>1. /\ sub # <<>> /\ TypeOK /\ GivenInOrder
      /\ delivered' = Append(delivered, Head(sub))
      /\ UNCHANGED logs
  BY DEF Deliver, PollingInv
<1>2. /\ delivered \in Seq(EventsGiven) /\ sub \in Seq(EventsGiven)
      /\ Given \in Seq(EventsGiven)
  BY <1>1, PollingTypes
<1>3. PICK n \in Nat : n = Len(delivered)
  BY <1>2, LenProperties
<1>4. /\ Len(sub) \in Nat /\ Len(sub) # 0 /\ Head(sub) = sub[1]
  BY <1>1, <1>2
<1>5. /\ Len(Given) = n + Len(sub)
      /\ \A i \in 1 .. n + Len(sub) :
           Given[i] = IF i <= n THEN delivered[i] ELSE sub[i - n]
  BY <1>2, <1>3, ConcatProperties DEF Given
<1>6. DOMAIN Given = 1 .. n + Len(sub)
  BY <1>2, <1>5, LenProperties
<1>7. n + 1 \in DOMAIN Given /\ Given[n + 1] = Head(sub)
  BY <1>3, <1>4, <1>5, <1>6
<1>8. \A i \in 1 .. n :
        i \in DOMAIN Given /\ i < n + 1 /\ Given[i] = delivered[i]
  BY <1>3, <1>4, <1>5, <1>6
<1>9. PICK e : e = Given[n + 1]
  OBVIOUS
<1>10. e \in EventsGiven /\ e \in Events
  BY <1>1, <1>2, <1>7, <1>9, HeadTailProperties, GivenEvents
<1>11. e[1] \in Blocks /\ e[2] \in 1 .. MaxLogs
  BY <1>10 DEF EventsGiven
<1>12. e[1] <= head /\ e[2] <= logs[e[1]]
  BY <1>1, <1>7, <1>9 DEF GivenInOrder
<1>13. \A i \in 1 .. n : Stream!Precedes(delivered[i], e)
  BY <1>1, <1>7, <1>8, <1>9 DEF GivenInOrder, InChainOrder
<1>14. 0 < e[1] /\ 1 <= e[2] /\ e[2] <= MaxLogs
  BY <1>11, WatcherAssumption DEF Blocks
<1>15. \A i \in 1 .. Len(delivered) : Stream!Precedes(delivered[i], e)
  BY <1>3, <1>13
<1>16. delivered' = Append(delivered, e)
  BY <1>1, <1>7, <1>9
<1>17. QED
  BY <1>1, <1>10, <1>12, <1>14, <1>15, <1>16, HandsOver

LEMMA SubscriptionHandsOver ==
  ASSUME SubscriptionInv, Subscription!Deliver
  PROVE  Stream!Next
<1>1. /\ Subscription!TypeOK /\ pc = "sink"
      /\ pushed \in Subscription!LogsOfChain
      /\ \A i \in DOMAIN delivered : Stream!Precedes(delivered[i], pushed)
      /\ delivered' = Append(delivered, pushed) /\ UNCHANGED logs
  BY DEF SubscriptionInv, Subscription!Deliver
<1>2. /\ head \in Nat /\ MaxLogs \in Nat
      /\ Subscription!Log = (1 .. head) \X (1 .. MaxLogs)
      /\ pushed \in Events /\ pushed \in Subscription!Log
      /\ delivered \in Seq(Subscription!Log)
  BY <1>1, SubscriptionTypes
<1>3. DOMAIN delivered = 1 .. Len(delivered)
  BY <1>2, LenProperties
<1>4. pushed[1] \in 1 .. head /\ pushed[2] \in 1 .. MaxLogs
  BY <1>2
<1>5. pushed[2] <= logs[pushed[1]]
  BY <1>1 DEF Subscription!LogsOfChain
<1>6. /\ 0 < pushed[1] /\ pushed[1] <= head
      /\ 1 <= pushed[2] /\ pushed[2] <= MaxLogs
  BY <1>2, <1>4
<1>7. \A i \in 1 .. Len(delivered) : Stream!Precedes(delivered[i], pushed)
  BY <1>1, <1>3
<1>8. QED
  BY <1>1, <1>2, <1>5, <1>6, <1>7, HandsOver

LEMMA GrowsTheStream ==
  ASSUME NEW n \in 0 .. MaxLogs, logs' = Append(logs, n),
         UNCHANGED delivered
  PROVE  Stream!Next
BY DEF Stream!Next, Stream!Grow

\* A step of either watcher hands over the next event, is the chain's, or
\* changes neither.
LEMMA WatchersRefine ==
  ASSUME WatchersInv, [WatchersNext]_allVars
  PROVE  [Stream!Next]_(Stream!streamVars)
<1>1. CASE Subscribing(Subscription!Next)
  <2>1. Subscription!Next /\ SubscriptionInv
    BY <1>1 DEF Subscribing, WatchersInv
  <2>2. CASE Subscription!Deliver
    BY <2>1, <2>2, SubscriptionHandsOver
  <2>3. CASE \E n \in 0 .. MaxLogs : Subscription!NewBlock(n)
    BY <2>3, GrowsTheStream DEF Subscription!NewBlock
  <2>4. CASE \/ Subscription!Subscribed \/ Subscription!SubscribeFails
             \/ Subscription!GiveUp \/ Subscription!Push
             \/ Subscription!SubscriptionError \/ Subscription!Quit
    BY <2>4 DEF Subscription!Subscribed, Subscription!SubscribeFails,
         Subscription!GiveUp, Subscription!Push,
         Subscription!SubscriptionError, Subscription!Quit,
         Stream!streamVars
  <2>5. QED
    BY <2>1, <2>2, <2>3, <2>4 DEF Subscription!Next, Subscription!Watch
<1>2. CASE Polling(Next)
  <2>1. Next /\ PollingInv
    BY <1>2 DEF Polling, WatchersInv
  <2>2. CASE Deliver
    BY <2>1, <2>2, PollingHandsOver
  <2>3. CASE \E n \in 0 .. MaxLogs : NewBlock(n)
    BY <2>3, GrowsTheStream DEF NewBlock
  <2>4. CASE \/ \E h \in Heads : GotHead(h) \/ GotLogs(h)
             \/ HeadFails \/ FilterFails \/ PollAgain \/ Unsubscribe
    BY <2>4 DEF GotHead, GotLogs, HeadFails, FilterFails, PollAgain,
         Unsubscribe, Stream!streamVars
  <2>5. QED
    BY <2>1, <2>2, <2>3, <2>4 DEF Next, Poll
<1>3. CASE UNCHANGED allVars
  BY <1>3 DEF allVars, vars, Stream!streamVars
<1>4. QED
  BY <1>1, <1>2, <1>3 DEF WatchersNext

\* Both log watchers implement the stream that the event listener relies on:
\* each event at most once, in the order of the chain, whatever fails.
THEOREM StreamRefined == WatchersSpec => StreamSpec
<1>1. WatchersInit => Stream!Init
  BY DEF WatchersInit, Init, Subscription!Init, Stream!Init
<1>2. WatchersInv /\ [WatchersNext]_allVars => [Stream!Next]_(Stream!streamVars)
  BY WatchersRefine
<1>3. QED
  BY <1>1, <1>2, WatchersInvariant, PTL
     DEF WatchersSpec, StreamSpec, Stream!Spec
=============================================================================
