------------------------ MODULE ProviderNodeProofs ------------------------
(***************************************************************************)
(* For any number of sessions, prompts, sweeps and restarts, any file and  *)
(* any answer: the consumer takes no torn or failed answer for a whole     *)
(* one, an audio file is transcribed whole and in order, session errors    *)
(* are reported of streaks that there were, and the simple policy keeps to *)
(* the slots, whatever the interleaving of the prompts, the uploads, the   *)
(* sweep, the listener and the restarts.                                   *)
(*                                                                         *)
(* The inductive invariant NodeInv has a part for each of these: what is   *)
(* on a connection and what is to come of it (WireInv), the state of an    *)
(* upload against that of its prompt (StreamInv), the streaks against the  *)
(* prompts that failed (HealthInv), and the sessions that have or may get  *)
(* a slot (SlotsInv).                                                      *)
(***************************************************************************)
EXTENDS ProviderNode, SumTheorems

-----------------------------------------------------------------------------
(* The sessions *)

\* What the steps do to the chain and to what the node keeps of it.
CacheChanges ==
  /\ \/ cache' = cache
     \/ \E s \in Session : \/ \E n \in Nat : cache' = With(s, n)
                           \/ cache' = Without(s)
     \/ cache' = <<>>
  /\ UNCHANGED <<chain, ended, opened>>
  /\ \/ UNCHANGED events
     \/ events # <<>> /\ events' = Tail(events)
     \/ events' = <<>>

ChainChanges ==
  /\ cache' = cache
  /\ \/ \E s \in Session : OpensOnChain(s) /\ UNCHANGED ended
     \/ \E s \in Session : ClosesOnChain(s) /\ UNCHANGED ended
     \/ \E s \in Session : Expire(s)

LEMMA CacheTypes ==
  ASSUME RepoTypeOK, NEW s \in Session
  PROVE  /\ \A n \in Nat : /\ DOMAIN With(s, n) \subseteq Session
                           /\ \A t \in DOMAIN With(s, n) :
                                With(s, n)[t] \in Nat
         /\ DOMAIN Without(s) \subseteq Session
         /\ \A t \in DOMAIN Without(s) : Without(s)[t] \in Nat
         /\ \A stats \in Gets(s) : stats \in Nat
BY DEF RepoTypeOK, With, Without, Put, Drop, Restrict, Gets, Fresh, Cached

LEMMA RepoTypes ==
  ASSUME RepoTypeOK, CacheChanges \/ ChainChanges
  PROVE  RepoTypeOK'
<1> DEFINE E == {"opened", "closed"} \X Session
<1>1. CASE CacheChanges
  <2>1. DOMAIN <<>> = {}
    OBVIOUS
  <2>2. /\ DOMAIN cache' \subseteq Session
        /\ \A s \in DOMAIN cache' : cache'[s] \in Nat
    BY <1>1, <2>1, CacheTypes DEF CacheChanges, RepoTypeOK
  <2>3. events' \in Seq(E)
    <3>1. events \in Seq(E) /\ <<>> \in Seq(E)
      BY EmptySeq DEF RepoTypeOK
    <3>2. CASE events # <<>> /\ events' = Tail(events)
      BY <3>1, <3>2, HeadTailProperties
    <3>3. QED
      BY <1>1, <3>1, <3>2 DEF CacheChanges
  <2>4. QED
    BY <1>1, <2>2, <2>3 DEF CacheChanges, RepoTypeOK
<1>2. ASSUME NEW s \in Session, cache' = cache, OpensOnChain(s),
             UNCHANGED ended
      PROVE  RepoTypeOK'
  <2>1. <<"opened", s>> \in E /\ events \in Seq(E) /\ opened \in Seq(Session)
    BY DEF RepoTypeOK
  <2>2. events' \in Seq(E) /\ opened' \in Seq(Session)
    BY <1>2, <2>1, AppendProperties DEF OpensOnChain
  <2>3. QED
    BY <1>2, <2>2 DEF OpensOnChain, RepoTypeOK
<1>3. ASSUME NEW s \in Session, cache' = cache, ClosesOnChain(s),
             UNCHANGED ended
      PROVE  RepoTypeOK'
  <2>1. <<"closed", s>> \in E /\ events \in Seq(E)
    BY DEF RepoTypeOK
  <2>2. events' \in Seq(E)
    BY <1>3, <2>1, AppendProperties DEF ClosesOnChain
  <2>3. QED
    BY <1>3, <2>2 DEF ClosesOnChain, RepoTypeOK
<1>4. ASSUME NEW s \in Session, cache' = cache, Expire(s)
      PROVE  RepoTypeOK'
  BY <1>4 DEF Expire, RepoTypeOK
<1>5. QED
  BY <1>1, <1>2, <1>3, <1>4 DEF ChainChanges

\* What a prompt and its upload do.
Serving ==
  /\ CacheChanges
  /\ UNCHANGED <<chain, ended, policy, approved, users, blind>>
  /\ UNCHANGED activity \/ \E s \in Session : RecordActivity(s)

LEMMA ServesSessions ==
  ASSUME TypeOK, NEW q \in Prompt, Consumes(q) \/ Streams(q) \/ Serves(q)
  PROVE  Serving
<1>1. RepoTypeOK /\ (q \in Started => Of(q) \in Session)
  BY DEF TypeOK, ServingTypeOK, Of
<1>2. ASSUME q \in Started, ReadsSession(q)
      PROVE  CacheChanges
  BY <1>1, <1>2, CacheTypes DEF ReadsSession, CacheChanges
<1>3. ASSUME UNCHANGED repoVars
      PROVE  CacheChanges
  BY <1>3 DEF repoVars, CacheChanges
<1>4. ASSUME CacheChanges, UNCHANGED capacityVars
      PROVE  Serving
  BY <1>4 DEF capacityVars, CacheChanges, Serving
<1>5. ASSUME UNCHANGED unserved
      PROVE  Serving
  BY <1>3, <1>4, <1>5 DEF unserved
<1>6. CASE Consumes(q)
  BY <1>5, <1>6
     DEF Consumes, ClientAcquires, Send, SendFails, ReceiveChunk,
         ReceiveLast, ReceiveFails, EndOfStream, Timeout, TimedOut
<1>7. CASE Streams(q)
  BY <1>2, <1>3, <1>4, <1>7 DEF Streams
<1>8. ASSUME q \in Started, RecordActivity(Of(q)), UNCHANGED repoVars
      PROVE  Serving
  BY <1>1, <1>3, <1>8
     DEF RecordActivity, CacheChanges, Serving, repoVars
<1>9. ASSUME SaveStats(q)
      PROVE  CacheChanges /\ UNCHANGED capacityVars
  <2>1. q \in Started /\ exchange[q].stats \in Nat
    BY <1>9 DEF TypeOK, ServingTypeOK, SaveStats, ServerAt
  <2>2. PICK n \in Nat : n = exchange[q].stats + 1
    BY <2>1
  <2>3. QED
    BY <1>1, <1>9, <2>1, <2>2 DEF SaveStats, CacheChanges
<1>10. CASE Serves(q)
  <2>1. q \in Started
    BY <1>10
       DEF Serves, Handles, Admit, Refuse, Begin, BeginFails, Acquires,
           SaveStats, Verified, TeeRefused, SendChunk, EngineDone,
           EngineError, EngineFails, Answers, ServerAt
  <2>2. CASE Admit(q) \/ Refuse(q) \/ Begin(q) \/ BeginFails(q)
    BY <1>2, <1>3, <1>4, <2>1, <2>2
       DEF Admit, Refuse, Begin, BeginFails, ReadFails
  <2>3. CASE SaveStats(q)
    BY <1>4, <1>9, <2>3
  <2>4. CASE Verified(q) \/ TeeRefused(q) \/ EngineFails(q) \/ SendChunk(q)
    BY <1>3, <1>4, <1>5, <2>4 DEF Verified, TeeRefused, EngineFails, SendChunk
  <2>5. CASE EngineDone(q) \/ EngineError(q)
    BY <1>8, <2>1, <2>5 DEF EngineDone, EngineError
  <2>6. QED
    BY <1>10, <2>2, <2>3, <2>4, <2>5 DEF Serves, Handles
<1>11. QED
  BY <1>6, <1>7, <1>10

LEMMA ListensSessions ==
  ASSUME RepoTypeOK, Listens
  PROVE  CacheChanges
<1> DEFINE E == {"opened", "closed"} \X Session
<1>1. events # <<>>
  BY DEF Listens, EventSkipped, HandleSessionOpened, HandleSessionClosed,
         OpenedUnread
<1>2. events \in Seq(E)
  BY DEF RepoTypeOK
<1>3. Head(events) \in E
  BY <1>1, <1>2, HeadTailProperties
<1>4. Head(events)[2] \in Session
  BY <1>3
<1>5. CASE HandleSessionOpened
  BY <1>4, <1>5, CacheTypes DEF HandleSessionOpened, CacheChanges
<1>6. CASE HandleSessionClosed
  BY <1>4, <1>6 DEF HandleSessionClosed, CacheChanges
<1>7. CASE OpenedUnread \/ EventSkipped
  BY <1>1, <1>7 DEF EventSkipped, OpenedUnread, CacheChanges
<1>8. QED
  BY <1>5, <1>6, <1>7 DEF Listens

\* What happens to a session itself, ...
Moves(s) ==
  \/ SessionRequest(s)
  \/ ConsumerOpens(s)
  \/ ConsumerCloses(s)
  \/ ActivityAges(s)
  \/ Expire(s) /\ UNCHANGED capacityVars

\* ... and what the other steps do to what the node keeps.
Forgetting ==
  /\ CacheChanges
  /\ \/ UNCHANGED <<users, activity>>
     \/ users' = {} /\ activity' = [s \in Session |-> 0]
  /\ UNCHANGED <<policy, approved, blind>>

LEMMA NextSessions ==
  ASSUME TypeOK, [Next]_allVars
  PROVE  (\E s \in Session : Moves(s)) \/ Serving \/ Forgetting
<1>0. RepoTypeOK
  BY DEF TypeOK
<1>1. ASSUME UNCHANGED repoVars, UNCHANGED capacityVars
      PROVE  Forgetting
  BY <1>1 DEF repoVars, capacityVars, CacheChanges, Forgetting
<1>2. CASE Listens
  BY <1>0, <1>2, ListensSessions DEF Listens, capacityVars, Forgetting
<1>3. CASE Restart
  BY <1>3 DEF Restart, CacheChanges, Forgetting
<1>4. CASE Checks \/ UNCHANGED allVars
  BY <1>1, <1>4 DEF Checks, allVars
<1>5. ASSUME NEW s \in Session, Requested(s) \/ OnChain(s)
      PROVE  Moves(s)
  BY <1>5 DEF Requested, OnChain, Moves
<1>6. ASSUME NEW s \in Session, RequestRefused(s)
      PROVE  Forgetting
  BY <1>1, <1>6 DEF RequestRefused
<1>7. ASSUME NEW q \in Prompt, Prompts(q, Consumes(q))
             \/ Prompts(q, Streams(q)) \/ Prompts(q, Serves(q))
      PROVE  Serving
  BY <1>7, ServesSessions DEF Prompts
<1>8. QED
  BY <1>2, <1>3, <1>4, <1>5, <1>6, <1>7 DEF Next

LEMMA NextSessionTypes ==
  ASSUME TypeOK, [Next]_allVars
  PROVE  RepoTypeOK' /\ CapacityTypeOK'
<1>1. RepoTypeOK /\ CapacityTypeOK
  BY DEF TypeOK
<1>2. RepoTypeOK'
  <2>1. ASSUME NEW s \in Session, SessionRequest(s) \/ ActivityAges(s)
        PROVE  CacheChanges
    BY <2>1 DEF SessionRequest, ActivityAges, CacheChanges, repoVars
  <2>2. ASSUME NEW s \in Session, ConsumerOpens(s) \/ ConsumerCloses(s)
               \/ Expire(s)
        PROVE  ChainChanges
    BY <2>2 DEF ConsumerOpens, ConsumerCloses, ChainChanges, Expire
  <2>3. CacheChanges \/ ChainChanges
    BY <2>1, <2>2, NextSessions DEF Moves, Serving, Forgetting
  <2>4. QED
    BY <1>1, <2>3, RepoTypes
<1>3. CapacityTypeOK'
  <2>1. ASSUME UNCHANGED capacityVars
        PROVE  CapacityTypeOK'
    BY <1>1, <2>1 DEF capacityVars, CapacityTypeOK
  <2>2. ASSUME NEW s \in Session,
               activity' \in {[activity EXCEPT ![s] = activity[s] + 1],
                              [activity EXCEPT ![s] = activity[s] - 1]},
               activity' = [activity EXCEPT ![s] = activity[s] - 1]
                 => activity[s] > 0
        PROVE  activity' \in [Session -> Nat]
    <3>1. activity \in [Session -> Nat] /\ activity[s] \in Nat
      BY <1>1 DEF CapacityTypeOK
    <3>2. CASE activity' = [activity EXCEPT ![s] = activity[s] + 1]
      <4>1. PICK n \in Nat : n = activity[s] + 1
        BY <3>1
      <4>2. QED
        BY <3>1, <3>2, <4>1
    <3>3. CASE activity' = [activity EXCEPT ![s] = activity[s] - 1]
      <4>1. PICK n \in Nat : n = activity[s] - 1
        BY <2>2, <3>1, <3>3
      <4>2. QED
        BY <3>1, <3>3, <4>1
    <3>4. QED
      BY <2>2, <3>2, <3>3
  <2>3. ASSUME NEW s \in Session, SessionRequest(s)
        PROVE  CapacityTypeOK'
    <3>1. blind' \in BOOLEAN
      BY <1>1, <2>3, Zenon DEF SessionRequest, CapacityTypeOK
    <3>2. QED
      BY <1>1, <2>3, <3>1 DEF SessionRequest, CapacityTypeOK
  <2>4. ASSUME NEW s \in Session, ActivityAges(s)
        PROVE  CapacityTypeOK'
    <3>1. activity' \in [Session -> Nat]
      BY <2>2, <2>4 DEF ActivityAges
    <3>2. QED
      BY <1>1, <2>4, <3>1 DEF ActivityAges, CapacityTypeOK
  <2>5. CASE Serving
    <3>1. activity' \in [Session -> Nat]
      BY <1>1, <2>2, <2>5 DEF Serving, RecordActivity, CapacityTypeOK
    <3>2. QED
      BY <1>1, <2>5, <3>1 DEF Serving, CapacityTypeOK
  <2>6. CASE Forgetting
    <3>1. [s \in Session |-> 0] \in [Session -> Nat]
      OBVIOUS
    <3>2. QED
      BY <1>1, <2>6, <3>1 DEF Forgetting, CapacityTypeOK
  <2>7. QED
    BY <2>1, <2>3, <2>4, <2>5, <2>6, NextSessions
       DEF Moves, ConsumerOpens, ConsumerCloses
<1>4. QED
  BY <1>2, <1>3
-----------------------------------------------------------------------------
(* The slots *)

\* The sessions that run, and those that an approval may still open.
Claims == {s \in approved : chain[s] = "none"} \union Running

\* Were every approval given in full sight of the earlier ones, all the
\* sessions that they may open fit too.
SlotsInv ==
  policy = "simple" /\ Slots > 0 /\ ~blind => Cardinality(Claims) <= Slots

LEMMA ClaimsFinite ==
  ASSUME approved \subseteq Session
  PROVE  /\ IsFiniteSet(Claims) /\ Cardinality(Claims) \in Nat
         /\ IsFiniteSet(Running) /\ Cardinality(Running) \in Nat
         /\ Cardinality(Running) <= Cardinality(Claims)
<1>1. Claims \subseteq Session /\ Running \subseteq Claims
  BY DEF Claims, Running
<1>2. IsFiniteSet(Claims) /\ IsFiniteSet(Running)
  BY <1>1, SessionAssumption, FS_Subset
<1>3. QED
  BY <1>1, <1>2, FS_CardinalityType, FS_Subset

\* Fewer claims fit where more did.
LEMMA FewerClaims ==
  ASSUME CapacityTypeOK, SlotsInv, Claims' \subseteq Claims,
         policy' = policy, blind' = blind
  PROVE  SlotsInv'
<1>1. IsFiniteSet(Claims) /\ Cardinality(Claims) \in Nat
  BY ClaimsFinite DEF CapacityTypeOK
<1>2. /\ IsFiniteSet(Claims') /\ Cardinality(Claims') \in Nat
      /\ Cardinality(Claims') <= Cardinality(Claims)
  BY <1>1, FS_Subset, FS_CardinalityType
<1>3. Cardinality(Claims)' = Cardinality(Claims')
  OBVIOUS
<1>4. CASE policy = "simple" /\ Slots > 0 /\ ~blind
  BY <1>1, <1>2, <1>3, <1>4, SlotsAssumption DEF SlotsInv
<1>5. QED
  BY <1>4 DEF SlotsInv

\* An approval that sees them all finds a free slot.
LEMMA ApprovedFits ==
  ASSUME RepoTypeOK, CapacityTypeOK, NEW s \in Session, SessionRequest(s)
  PROVE  SlotsInv'
<1>1. SUFFICES ASSUME policy = "simple", Slots > 0, ~blind'
               PROVE  Cardinality(Claims') <= Slots
  BY DEF SlotsInv, SessionRequest
<1>2. Unseen = {}
  BY <1>1 DEF SessionRequest
<1>3. Claims = Running /\ Running \subseteq Active
  BY <1>2 DEF Unseen, Claims, Running, Active
<1>4. Claims' \subseteq Claims \union {s}
  BY DEF SessionRequest, Claims, Running, repoVars
<1>5. IsFiniteSet(Active) /\ Cardinality(Active) \in Nat
  <2>1. Active \subseteq Session
    BY DEF Active, RepoTypeOK
  <2>2. QED
    BY <2>1, SessionAssumption, FS_Subset, FS_CardinalityType
<1>6. Cardinality(Active) < Slots
  BY <1>1, SlotsAssumption DEF SessionRequest, HasCapacity, Fits, Occupied
<1>7. IsFiniteSet(Active \union {s})
      /\ Cardinality(Active \union {s}) <= Cardinality(Active) + 1
      /\ Cardinality(Active \union {s}) \in Nat
  BY <1>5, FS_AddElement, FS_CardinalityType
<1>8. Claims' \subseteq Active \union {s}
  BY <1>3, <1>4
<1>9. Cardinality(Claims') <= Cardinality(Active \union {s})
      /\ Cardinality(Claims') \in Nat
  BY <1>7, <1>8, FS_Subset, FS_CardinalityType
<1>10. QED
  BY <1>5, <1>6, <1>7, <1>9, SlotsAssumption

LEMMA NextSlots ==
  ASSUME TypeOK, SlotsInv, [Next]_allVars
  PROVE  SlotsInv'
<1>1. RepoTypeOK /\ CapacityTypeOK
  BY DEF TypeOK
<1>2. ASSUME UNCHANGED <<chain, ended, policy, approved, blind>>
      PROVE  SlotsInv'
  <2>1. Claims' \subseteq Claims
    BY <1>2 DEF Claims, Running
  <2>2. QED
    BY <1>1, <1>2, <2>1, FewerClaims
<1>3. ASSUME NEW s \in Session, SessionRequest(s)
      PROVE  SlotsInv'
  BY <1>1, <1>3, ApprovedFits
<1>4. ASSUME NEW s \in Session,
             ConsumerOpens(s) \/ ConsumerCloses(s)
             \/ (Expire(s) /\ UNCHANGED capacityVars)
      PROVE  SlotsInv'
  <2>1. approved' = approved /\ ended \subseteq ended'
    BY <1>4 DEF ConsumerOpens, ConsumerCloses, Expire, capacityVars
  <2>2. \A t \in Session :
          /\ chain'[t] = "none" => chain[t] = "none"
          /\ chain'[t] = "open" =>
               chain[t] = "open" \/ (t \in approved /\ chain[t] = "none")
    BY <1>1, <1>4
       DEF ConsumerOpens, ConsumerCloses, Expire, OpensOnChain,
           ClosesOnChain, RepoTypeOK
  <2>3. Claims' \subseteq Claims
    BY <1>1, <2>1, <2>2 DEF Claims, Running, CapacityTypeOK
  <2>4. policy' = policy /\ blind' = blind
    BY <1>4 DEF ConsumerOpens, ConsumerCloses, capacityVars
  <2>5. QED
    BY <1>1, <2>3, <2>4, FewerClaims
<1>5. QED
  BY <1>2, <1>3, <1>4, NextSessions
     DEF Moves, ActivityAges, Serving, Forgetting, CacheChanges, repoVars
-----------------------------------------------------------------------------
(* The health report *)

\* A streak is that of the last prompts that failed: all throttled, or not.
StreakOK(f, list) ==
  /\ f.count <= Len(list)
  /\ f.limited =>
       \A i \in Len(list) - f.count + 1 .. Len(list) : list[i] = TRUE
  /\ ~f.limited => FALSE \in Range(list)

HealthInv ==
  served \in DOMAIN failures => StreakOK(failures[served], failed)

\* What SessionErrorsReal says of one report.
ErrorsOK(r, list) ==
  r.kind = "session_errors" =>
    /\ Len(list) >= MaxErrors
    /\ r.status = "degraded" =>
         \E i \in 0 .. Len(list) - MaxErrors :
           \A j \in 1 .. MaxErrors : list[i + j] = TRUE
    /\ r.status = "unhealthy" => FALSE \in Range(list)

Streaks == [count : Nat, limited : BOOLEAN]

LEMMA LengthenedStreak ==
  ASSUME NEW f \in Streaks, NEW list \in Seq(BOOLEAN), NEW l \in BOOLEAN,
         StreakOK(f, list)
  PROVE  /\ Lengthened(f, l) \in [count : Nat \ {0}, limited : BOOLEAN]
         /\ Lengthened(f, l).count = f.count + 1
         /\ StreakOK(Lengthened(f, l), Append(list, l))
<1>1. PICK n \in Nat, b \in BOOLEAN :
        /\ n = f.count + 1
        /\ b = (f.limited /\ l)
  BY DEF Streaks
<1>2. Lengthened(f, l) = [count |-> n, limited |-> b]
  BY <1>1 DEF Lengthened
<1>3. n \in Nat \ {0} /\ f.count \in Nat /\ f.limited \in BOOLEAN
  BY <1>1 DEF Streaks
<1> DEFINE longer == Append(list, l)
<1>4. /\ Len(longer) = Len(list) + 1 /\ Len(list) \in Nat
      /\ \A i \in 1 .. Len(list) : longer[i] = list[i]
      /\ longer[Len(list) + 1] = l
      /\ DOMAIN list = 1 .. Len(list)
  BY AppendProperties, LenProperties
<1>5. Range(longer) = Range(list) \union {l}
  BY AppendRange
<1> HIDE DEF longer
<1>6. n <= Len(longer)
  BY <1>1, <1>3, <1>4 DEF StreakOK
<1>7. ASSUME b
      PROVE  \A i \in Len(longer) - n + 1 .. Len(longer) : longer[i] = TRUE
  <2>1. f.limited /\ l = TRUE
    BY <1>1, <1>7
  <2>2. \A i \in Len(list) - f.count + 1 .. Len(list) : list[i] = TRUE
    BY <2>1 DEF StreakOK
  <2>3. \A i \in Len(longer) - n + 1 .. Len(longer) :
          \/ i = Len(list) + 1
          \/ i \in Len(list) - f.count + 1 .. Len(list) /\ i \in 1 .. Len(list)
    <3>1. f.count <= Len(list)
      BY DEF StreakOK
    <3>2. ASSUME NEW k \in Nat, NEW m \in Nat, m <= k,
                 NEW i \in (k + 1) - (m + 1) + 1 .. k + 1
          PROVE  i = k + 1 \/ (i \in k - m + 1 .. k /\ i \in 1 .. k)
      BY <3>2
    <3>3. QED
      BY <1>1, <1>3, <1>4, <3>1, <3>2
  <2>4. QED
    BY <1>4, <2>1, <2>2, <2>3
<1>8. ASSUME ~b
      PROVE  FALSE \in Range(longer)
  <2>1. ~f.limited \/ l = FALSE
    BY <1>1, <1>3, <1>8
  <2>2. QED
    BY <1>5, <2>1 DEF StreakOK
<1>9. StreakOK([count |-> n, limited |-> b], longer)
  BY <1>6, <1>7, <1>8 DEF StreakOK
<1>10. QED
  BY <1>1, <1>2, <1>3, <1>9 DEF longer

\* One more failure takes nothing from a report, ...
LEMMA LaterErrors ==
  ASSUME NEW r, NEW list \in Seq(BOOLEAN), NEW l \in BOOLEAN,
         ErrorsOK(r, list)
  PROVE  ErrorsOK(r, Append(list, l))
<1> DEFINE longer == Append(list, l)
<1>1. /\ Len(longer) = Len(list) + 1 /\ Len(list) \in Nat
      /\ \A i \in 1 .. Len(list) : longer[i] = list[i]
      /\ Range(longer) = Range(list) \union {l}
  BY AppendProperties, AppendRange, LenProperties
<1> HIDE DEF longer
<1>2. ASSUME NEW i \in 0 .. Len(list) - MaxErrors,
             \A j \in 1 .. MaxErrors : list[i + j] = TRUE
      PROVE  /\ i \in 0 .. Len(longer) - MaxErrors
             /\ \A j \in 1 .. MaxErrors : longer[i + j] = TRUE
  <2>1. i \in 0 .. Len(longer) - MaxErrors
    BY ErrorsAssumption, <1>1
  <2>2. ASSUME NEW j \in 1 .. MaxErrors
        PROVE  longer[i + j] = TRUE
    <3>1. i + j \in 1 .. Len(list)
      BY ErrorsAssumption, <1>1
    <3>2. QED
      BY <1>1, <1>2, <3>1
  <2>3. QED
    BY <2>1, <2>2
<1>3. r.kind = "session_errors" => Len(longer) >= MaxErrors
  BY <1>1, ErrorsAssumption DEF ErrorsOK
<1>4. ErrorsOK(r, longer)
  BY <1>1, <1>2, <1>3 DEF ErrorsOK
<1>5. QED
  BY <1>4 DEF longer

\* ... and a streak that is long enough is one to report.
LEMMA StreakReported ==
  ASSUME NEW f \in Streaks, NEW list \in Seq(BOOLEAN), StreakOK(f, list),
         f.count >= MaxErrors, NEW status,
         status = IF f.limited THEN "degraded" ELSE "unhealthy"
  PROVE  ErrorsOK(Report(status, "session_errors"), list)
<1>1. f.count \in Nat /\ Len(list) \in Nat
  BY LenProperties DEF Streaks
<1>2. Len(list) >= MaxErrors
  BY <1>1, ErrorsAssumption DEF StreakOK
<1>3. ASSUME status = "degraded"
      PROVE  \E i \in 0 .. Len(list) - MaxErrors :
               \A j \in 1 .. MaxErrors : list[i + j] = TRUE
  <2>1. f.limited
    BY <1>3
  <2>2. PICK i \in 0 .. Len(list) - MaxErrors : i = Len(list) - MaxErrors
    BY <1>1, <1>2, ErrorsAssumption
  <2>3. \A j \in 1 .. MaxErrors :
          i + j \in Len(list) - f.count + 1 .. Len(list)
    BY <1>1, <2>2, ErrorsAssumption
  <2>4. QED
    BY <2>1, <2>2, <2>3 DEF StreakOK
<1>4. ASSUME status = "unhealthy"
      PROVE  FALSE \in Range(list)
  BY <1>4 DEF StreakOK
<1>5. QED
  BY <1>2, <1>3, <1>4 DEF ErrorsOK, Report

LEMMA BareItems ==
  ASSUME NEW list \in Seq(BOOLEAN)
  PROVE  \A i \in 0 .. Len(list) - MaxErrors : \A j \in 1 .. MaxErrors :
           list[i + j] <=> (list[i + j] = TRUE)
<1>1. Len(list) \in Nat /\ \A i \in 1 .. Len(list) : list[i] \in BOOLEAN
  BY LenProperties, ElementOfSeq
<1>2. \A i \in 0 .. Len(list) - MaxErrors : \A j \in 1 .. MaxErrors :
        i + j \in 1 .. Len(list)
  BY <1>1, ErrorsAssumption
<1>3. QED
  BY <1>1, <1>2

LEMMA ErrorsAreReal ==
  ASSUME failed \in Seq(BOOLEAN)
  PROVE  SessionErrorsReal <=>
           (served \in DOMAIN reports => ErrorsOK(reports[served], failed))
BY BareItems DEF SessionErrorsReal, ErrorsOK

Outcomes == {"none", "passed", "failed"}

\* What the steps do to the attestations and to the report.
Attesting ==
  \/ UNCHANGED snapshot
  \/ \E m \in Model, outcome \in Outcomes : AttestBackend(m, outcome)

Stopping ==
  /\ reports' = <<>> /\ failures' = <<>> /\ failed' = <<>>
  /\ sweep' \in {Off, Waiting} /\ swept' = FALSE

HealthMoves ==
  \/ UNCHANGED <<reports, failures, sweep, swept, failed>>
  \/ ReportTeeFailure(served)
  \/ SweepBegins
  \/ SweepGoesOn
  \/ ReportPromptSuccess(served)
  \/ \E limited \in BOOLEAN : ReportPromptFailure(served, limited)
  \/ Stopping

LEMMA ServesHealth ==
  ASSUME TypeOK, NEW q \in Prompt, Consumes(q) \/ Streams(q) \/ Serves(q)
  PROVE  Attesting /\ HealthMoves /\ UNCHANGED served
<1>1. served \in Model
  BY DEF TypeOK, ServingTypeOK
<1>2. ASSUME UNCHANGED healthVars, UNCHANGED served
      PROVE  Attesting /\ HealthMoves /\ UNCHANGED served
  BY <1>2 DEF healthVars, Attesting, HealthMoves
<1>3. ASSUME UNCHANGED unserved
      PROVE  Attesting /\ HealthMoves /\ UNCHANGED served
  BY <1>2, <1>3 DEF unserved
<1>4. CASE Consumes(q)
  BY <1>3, <1>4
     DEF Consumes, ClientAcquires, Send, SendFails, ReceiveChunk,
         ReceiveLast, ReceiveFails, EndOfStream, Timeout, TimedOut
<1>5. CASE Streams(q)
  BY <1>2, <1>5 DEF Streams
<1>6. CASE Handles(q)
  BY <1>2, <1>6
     DEF Handles, Admit, Refuse, Begin, BeginFails, SaveStats
<1>7. CASE SendChunk(q)
  BY <1>3, <1>7 DEF SendChunk
<1>8. CASE Verified(q)
  BY <1>1, <1>8 DEF Verified, FastVerified, Attesting, HealthMoves, Outcomes
<1>9. CASE TeeRefused(q)
  BY <1>1, <1>9
     DEF TeeRefused, FastVerifyFails, Attesting, HealthMoves, Outcomes
<1>10. ASSUME Untracked
       PROVE  UNCHANGED healthVars
  BY <1>10 DEF Untracked
<1>11. ASSUME \/ ReportPromptSuccess(served)
              \/ \E limited \in BOOLEAN : ReportPromptFailure(served, limited)
       PROVE  Attesting /\ HealthMoves
  BY <1>11
     DEF ReportPromptSuccess, ReportPromptFailure, Attesting, HealthMoves
<1>12. CASE EngineDone(q) \/ EngineError(q) \/ EngineFails(q)
  BY <1>2, <1>10, <1>11, <1>12 DEF EngineDone, EngineError, EngineFails
<1>13. QED
  BY <1>4, <1>5, <1>6, <1>7, <1>8, <1>9, <1>12 DEF Serves

LEMMA NextHealth ==
  ASSUME TypeOK, [Next]_allVars
  PROVE  Attesting /\ HealthMoves /\ UNCHANGED served
<1>1. served \in Model
  BY DEF TypeOK, ServingTypeOK
<1>2. ASSUME UNCHANGED healthVars, UNCHANGED served
      PROVE  Attesting /\ HealthMoves /\ UNCHANGED served
  BY <1>2 DEF healthVars, Attesting, HealthMoves
<1>3. CASE Listens \/ UNCHANGED allVars
  BY <1>2, <1>3 DEF Listens, allVars
<1>4. CASE Restart
  <2>1. Attesting
    BY <1>1, <1>4 DEF Restart, Attesting, Outcomes
  <2>2. Stopping /\ UNCHANGED served
    BY <1>4 DEF Restart, Stopping
  <2>3. QED
    BY <2>1, <2>2 DEF HealthMoves
<1>5. CASE Checks
  <2>1. SweepBegins \/ SweepGoesOn
    BY <1>5 DEF Checks
  <2>2. UNCHANGED snapshot \/ \E m \in Model : Examine(m)
    BY <2>1
       DEF SweepBegins, SweepGoesOn, Prune, Unprobed, TeeUnverified,
           NotProbed, ProbeBegins, ProbeFails, ProbePasses, SetHealthy,
           Reported
  <2>3. Attesting
    BY <2>2 DEF Examine, ReattestBackend, Attesting, Outcomes
  <2>4. QED
    BY <1>5, <2>1, <2>3 DEF Checks, HealthMoves
<1>6. ASSUME NEW s \in Session, Requested(s)
      PROVE  Attesting /\ HealthMoves /\ UNCHANGED served
  BY <1>1, <1>6 DEF Requested, FastVerified, Attesting, HealthMoves, Outcomes
<1>7. ASSUME NEW s \in Session, RequestRefused(s)
      PROVE  Attesting /\ HealthMoves /\ UNCHANGED served
  BY <1>1, <1>7
     DEF RequestRefused, FastVerifyFails, Attesting, HealthMoves, Outcomes
<1>8. ASSUME NEW s \in Session, OnChain(s)
      PROVE  Attesting /\ HealthMoves /\ UNCHANGED served
  BY <1>2, <1>8 DEF OnChain
<1>9. ASSUME NEW q \in Prompt, Prompts(q, Consumes(q))
             \/ Prompts(q, Streams(q)) \/ Prompts(q, Serves(q))
      PROVE  Attesting /\ HealthMoves /\ UNCHANGED served
  BY <1>9, ServesHealth DEF Prompts
<1>10. QED
  BY <1>3, <1>4, <1>5, <1>6, <1>7, <1>8, <1>9 DEF Next
Reports ==
  [status : {"healthy", "degraded", "unhealthy", "tee_unverified",
             "no_model_configured", "skipped", "no_bid"},
   kind : {"none", "rate_limited", "probe", "tee", "session_errors"}]
Sweeps ==
  [pc : {"off", "wait", "next", "check", "probe", "healthy"},
   todo : SUBSET Model, bids : SUBSET Model, probing : SUBSET Model,
   reattest : BOOLEAN]

ReportsOK ==
  /\ DOMAIN reports \subseteq Model
  /\ \A m \in DOMAIN reports : reports[m] \in Reports
FailuresOK ==
  /\ DOMAIN failures \subseteq Model
  /\ \A m \in DOMAIN failures :
       failures[m] \in [count : Nat \ {0}, limited : BOOLEAN]

LEMMA HealthTypes ==
  HealthTypeOK <=> /\ VerifierTypeOK /\ ReportsOK /\ FailuresOK
                   /\ sweep \in Sweeps /\ swept \in BOOLEAN
                   /\ failed \in Seq(BOOLEAN)
BY DEF HealthTypeOK, ReportsOK, FailuresOK, Reports, Sweeps

HealthOK == HealthTypeOK /\ HealthInv /\ SessionErrorsReal

\* A report that is not of a streak is replaced or added.
LEMMA OtherReport ==
  ASSUME ReportsOK, NEW m \in Model, NEW status, NEW kind,
         Report(status, kind) \in Reports, kind # "session_errors",
         SetReport(m, status, kind)
  PROVE  /\ ReportsOK'
         /\ \A n \in DOMAIN reports' :
              \/ n \in DOMAIN reports /\ reports'[n] = reports[n]
              \/ reports'[n].kind # "session_errors"
BY DEF ReportsOK, SetReport, Put, Report

\* Fewer reports, and fewer streaks, are as true as before.
LEMMA LessHealth ==
  ASSUME failed \in Seq(BOOLEAN), failed' \in Seq(BOOLEAN),
         HealthInv, SessionErrorsReal, served' = served,
         failed' = failed,
         \A n \in DOMAIN reports' :
           \/ n \in DOMAIN reports /\ reports'[n] = reports[n]
           \/ reports'[n].kind # "session_errors",
         \A n \in DOMAIN failures' :
           n \in DOMAIN failures /\ failures'[n] = failures[n]
  PROVE  HealthInv' /\ SessionErrorsReal'
<1>1. HealthInv'
  BY DEF HealthInv, StreakOK
<1>2. SessionErrorsReal'
  BY DEF SessionErrorsReal
<1>3. QED
  BY <1>1, <1>2

LEMMA ReportedHealth ==
  ASSUME HealthOK, served' = served, VerifierTypeOK', NEW m \in Model,
         NEW status, NEW kind, Report(status, kind) \in Reports,
         kind # "session_errors", Reported(m, status, kind)
  PROVE  HealthOK'
<1>1. /\ ReportsOK /\ FailuresOK /\ sweep \in Sweeps /\ swept \in BOOLEAN
      /\ failed \in Seq(BOOLEAN) /\ HealthInv /\ SessionErrorsReal
  BY HealthTypes DEF HealthOK
<1>2. /\ ReportsOK'
      /\ \A n \in DOMAIN reports' :
           \/ n \in DOMAIN reports /\ reports'[n] = reports[n]
           \/ reports'[n].kind # "session_errors"
  BY <1>1, OtherReport DEF Reported
<1>3. sweep' \in Sweeps
  <2>1. PICK T \in SUBSET Model : T = sweep.todo \ {m}
    BY <1>1 DEF Sweeps
  <2>2. sweep' = [sweep EXCEPT !.pc = "next", !.todo = T, !.probing = {}]
    BY <2>1 DEF Reported
  <2>3. QED
    BY <1>1, <2>2 DEF Sweeps
<1>4. /\ failures' = failures /\ failed' = failed /\ swept' = swept
  BY DEF Reported
<1>5. FailuresOK'
  BY <1>1, <1>4 DEF FailuresOK
<1>6. HealthInv' /\ SessionErrorsReal'
  BY <1>1, <1>2, <1>4, LessHealth
<1>7. HealthTypeOK'
  BY <1>1, <1>2, <1>3, <1>4, <1>5 DEF HealthTypeOK, Reports, Sweeps,
     ReportsOK, FailuresOK
<1>8. QED
  BY <1>6, <1>7 DEF HealthOK

LEMMA SweepHealth ==
  ASSUME HealthOK, served' = served, VerifierTypeOK',
         SweepBegins \/ SweepGoesOn
  PROVE  HealthOK'
<1>1. /\ ReportsOK /\ FailuresOK /\ sweep \in Sweeps /\ swept \in BOOLEAN
      /\ failed \in Seq(BOOLEAN) /\ HealthInv /\ SessionErrorsReal
  BY HealthTypes DEF HealthOK
<1>2. ASSUME ReportsOK', FailuresOK', sweep' \in Sweeps, swept' \in BOOLEAN,
             failed' = failed,
             \A n \in DOMAIN reports' :
               \/ n \in DOMAIN reports /\ reports'[n] = reports[n]
               \/ reports'[n].kind # "session_errors",
             \A n \in DOMAIN failures' :
               n \in DOMAIN failures /\ failures'[n] = failures[n]
      PROVE  HealthOK'
  <2>1. HealthInv' /\ SessionErrorsReal'
    BY <1>1, <1>2, LessHealth
  <2>2. HealthTypeOK'
    BY <1>1, <1>2 DEF HealthTypeOK, ReportsOK, FailuresOK, Reports, Sweeps
  <2>3. QED
    BY <2>1, <2>2 DEF HealthOK
<1>3. ASSUME UNCHANGED <<reports, failures, failed>>,
             sweep' \in Sweeps, swept' \in BOOLEAN
      PROVE  HealthOK'
  <2>1. ReportsOK' /\ FailuresOK'
    BY <1>1, <1>3 DEF ReportsOK, FailuresOK
  <2>2. QED
    BY <1>2, <1>3, <2>1
<1>4. CASE SweepBegins
  <2>1. PICK bids \in SUBSET Model :
          sweep' = [pc |-> "next", todo |-> Configured \union bids,
                    bids |-> bids, probing |-> {}, reattest |-> swept]
    BY <1>4 DEF SweepBegins
  <2>2. sweep' \in Sweeps
    BY <1>1, <2>1, ConfiguredAssumption DEF Sweeps
  <2>3. QED
    BY <1>3, <1>4, <2>2 DEF SweepBegins
<1>5. CASE Prune
  <2>1. /\ ReportsOK'
        /\ \A n \in DOMAIN reports' :
             n \in DOMAIN reports /\ reports'[n] = reports[n]
    BY <1>1, <1>5 DEF Prune, Restrict, ReportsOK
  <2>2. sweep' \in Sweeps
    BY <1>5 DEF Prune, Waiting, Sweeps
  <2>3. FailuresOK'
    BY <1>1, <1>5 DEF Prune, FailuresOK
  <2>4. QED
    BY <1>1, <1>2, <1>5, <2>1, <2>2, <2>3 DEF Prune
<1>6. ASSUME NEW m \in Model, Unprobed(m) \/ TeeUnverified(m)
             \/ NotProbed(m) \/ ProbeFails(m) \/ SetHealthy(m)
      PROVE  HealthOK'
  <2>1. \E status, kind :
          /\ Reported(m, status, kind) /\ kind # "session_errors"
          /\ Report(status, kind) \in Reports
    BY <1>6
       DEF Unprobed, TeeUnverified, NotProbed, ProbeFails, SetHealthy,
           Report, Reports
  <2>2. QED
    BY <2>1, ReportedHealth
<1>7. ASSUME NEW m \in Model, Examine(m) \/ ProbeBegins(m)
      PROVE  HealthOK'
  <2>1. \/ sweep' = [sweep EXCEPT !.pc = "check", !.probing = {m}]
        \/ sweep' = [sweep EXCEPT !.pc = "probe"]
    BY <1>7 DEF Examine, ProbeBegins
  <2>2. [sweep EXCEPT !.pc = "probe"] \in Sweeps
    BY <1>1 DEF Sweeps
  <2>3. PICK P \in SUBSET Model : P = {m}
    OBVIOUS
  <2>4. [sweep EXCEPT !.pc = "check", !.probing = P] \in Sweeps
    BY <1>1 DEF Sweeps
  <2>5. QED
    BY <1>1, <1>3, <1>7, <2>1, <2>2, <2>3, <2>4 DEF Examine, ProbeBegins
<1>8. ASSUME NEW m \in Model, ProbePasses(m)
      PROVE  HealthOK'
  <2>1. sweep' \in Sweeps
    BY <1>1, <1>8 DEF ProbePasses, Sweeps
  <2>2. /\ FailuresOK'
        /\ \A n \in DOMAIN failures' :
             n \in DOMAIN failures /\ failures'[n] = failures[n]
    BY <1>1, <1>8 DEF ProbePasses, ResetFailures, Drop, Restrict, FailuresOK
  <2>3. ReportsOK'
    BY <1>1, <1>8 DEF ProbePasses, ReportsOK
  <2>4. QED
    BY <1>1, <1>2, <1>8, <2>1, <2>2, <2>3 DEF ProbePasses
<1>9. QED
  BY <1>4, <1>5, <1>6, <1>7, <1>8 DEF SweepGoesOn
LEMMA FailureHealth ==
  ASSUME HealthOK, served' = served, VerifierTypeOK', served \in Model,
         NEW limited \in BOOLEAN, ReportPromptFailure(served, limited)
  PROVE  HealthOK'
<1>1. /\ ReportsOK /\ FailuresOK /\ sweep \in Sweeps /\ swept \in BOOLEAN
      /\ failed \in Seq(BOOLEAN) /\ HealthInv
      /\ served \in DOMAIN reports => ErrorsOK(reports[served], failed)
  BY HealthTypes, ErrorsAreReal DEF HealthOK
<1>2. PICK none \in Streaks : none = [count |-> 0, limited |-> TRUE]
  <2>1. PICK zero \in Nat : zero = 0
    OBVIOUS
  <2>2. [count |-> zero, limited |-> TRUE] \in Streaks
    BY DEF Streaks
  <2>3. QED
    BY <2>1, <2>2
<1> DEFINE old == IF served \in DOMAIN failures THEN failures[served]
                  ELSE [count |-> 0, limited |-> TRUE]
<1>3. old \in Streaks /\ StreakOK(old, failed)
  <2>1. CASE served \in DOMAIN failures
    BY <1>1, <2>1 DEF HealthInv, FailuresOK, Streaks
  <2>2. CASE served \notin DOMAIN failures
    <3>1. StreakOK(none, failed)
      <4>1. none.count = 0 /\ none.limited = TRUE /\ Len(failed) \in Nat
        BY <1>1, <1>2, LenProperties
      <4>2. /\ none.count <= Len(failed)
            /\ \A i \in Len(failed) - none.count + 1 .. Len(failed) :
                 failed[i] = TRUE
        BY <4>1
      <4>3. QED
        BY <4>1, <4>2, Zenon DEF StreakOK
    <3>2. QED
      BY <1>2, <2>2, <3>1
  <2>3. QED
    BY <2>1, <2>2
<1> HIDE DEF old
<1> DEFINE streak == Lengthened(old, limited)
           longer == Append(failed, limited)
<1>4. /\ streak \in [count : Nat \ {0}, limited : BOOLEAN]
      /\ StreakOK(streak, longer)
  BY <1>1, <1>3, LengthenedStreak
<1>5. longer \in Seq(BOOLEAN)
  BY <1>1, AppendProperties
<1>6. /\ failures' = Put(failures, served, streak)
      /\ \/ streak.count < MaxErrors /\ reports' = reports
         \/ /\ ~(streak.count < MaxErrors)
            /\ SetReport(served, IF streak.limited THEN "degraded"
                                 ELSE "unhealthy", "session_errors")
      /\ failed' = longer
      /\ UNCHANGED <<sweep, swept>>
  BY DEF ReportPromptFailure, old
<1> HIDE DEF streak, longer
<1>7. FailuresOK' /\ HealthInv'
  <2>1. /\ DOMAIN failures' = DOMAIN failures \union {served}
        /\ failures'[served] = streak
        /\ \A m \in DOMAIN failures : m # served =>
             failures'[m] = failures[m]
    BY <1>6 DEF Put
  <2>2. FailuresOK'
    BY <1>1, <1>4, <2>1 DEF FailuresOK
  <2>3. HealthInv'
    BY <1>4, <1>6, <2>1 DEF HealthInv
  <2>4. QED
    BY <2>2, <2>3
<1>8. /\ ReportsOK'
      /\ served \in DOMAIN reports' => ErrorsOK(reports'[served], longer)
  <2>1. CASE reports' = reports
    <3>1. ReportsOK'
      BY <1>1, <2>1 DEF ReportsOK
    <3>2. ASSUME served \in DOMAIN reports
          PROVE  ErrorsOK(reports[served], longer)
      BY <1>1, <3>2, LaterErrors DEF longer
    <3>3. QED
      BY <2>1, <3>1, <3>2
  <2>2. CASE ~(streak.count < MaxErrors)
             /\ SetReport(served, IF streak.limited THEN "degraded"
                                  ELSE "unhealthy", "session_errors")
    <3>1. PICK status : status = IF streak.limited THEN "degraded"
                                 ELSE "unhealthy"
      OBVIOUS
    <3>2. status \in {"degraded", "unhealthy"}
      BY <3>1
    <3>3. streak \in Streaks /\ streak.count \in Nat
      BY <1>4 DEF Streaks
    <3>4. streak.count >= MaxErrors
      BY <2>2, <3>3, ErrorsAssumption
    <3>5. ErrorsOK(Report(status, "session_errors"), longer)
      BY <1>4, <1>5, <3>1, <3>3, <3>4, StreakReported
    <3>6. Report(status, "session_errors") \in Reports
      BY <3>2 DEF Report, Reports
    <3>7. reports' = Put(reports, served, Report(status, "session_errors"))
      BY <2>2, <3>1 DEF SetReport
    <3>8. QED
      BY <1>1, <3>5, <3>6, <3>7 DEF ReportsOK, Put
  <2>3. QED
    BY <1>6, <2>1, <2>2
<1>9. failed' \in Seq(BOOLEAN)
  BY <1>5, <1>6
<1>10. SessionErrorsReal'
  <2>1. \A i \in 0 .. Len(failed') - MaxErrors : \A j \in 1 .. MaxErrors :
          failed'[i + j] <=> (failed'[i + j] = TRUE)
    BY <1>9, BareItems
  <2>2. served' \in DOMAIN reports' => ErrorsOK(reports'[served'], failed')
    BY <1>6, <1>8
  <2>3. QED
    BY <2>1, <2>2 DEF SessionErrorsReal, ErrorsOK
<1>11. HealthTypeOK'
  BY <1>1, <1>6, <1>7, <1>8, <1>9
     DEF HealthTypeOK, ReportsOK, FailuresOK, Reports, Sweeps
<1>12. QED
  BY <1>7, <1>10, <1>11 DEF HealthOK

LEMMA SuccessHealth ==
  ASSUME HealthOK, served' = served, VerifierTypeOK', served \in Model,
         ReportPromptSuccess(served)
  PROVE  HealthOK'
<1>1. /\ ReportsOK /\ FailuresOK /\ sweep \in Sweeps /\ swept \in BOOLEAN
  BY HealthTypes DEF HealthOK
<1>2. FailuresOK' /\ served \notin DOMAIN failures'
  BY <1>1
     DEF ReportPromptSuccess, ResetFailures, Drop, Restrict, FailuresOK
<1>3. /\ ReportsOK'
      /\ served \in DOMAIN reports' =>
           reports'[served].kind # "session_errors"
  <2>1. CASE UNCHANGED reports /\ ~(served \in DOMAIN reports
               /\ reports[served].kind = "session_errors")
    BY <1>1, <2>1 DEF ReportsOK
  <2>2. CASE SetReport(served, "healthy", "none")
    BY <1>1, <2>2 DEF ReportsOK, SetReport, Put, Report, Reports
  <2>3. QED
    BY <2>1, <2>2 DEF ReportPromptSuccess
<1>4. failed' \in Seq(BOOLEAN)
  BY EmptySeq DEF ReportPromptSuccess
<1>5. HealthInv' /\ SessionErrorsReal'
  BY <1>2, <1>3 DEF HealthInv, SessionErrorsReal
<1>6. HealthTypeOK'
  BY <1>1, <1>2, <1>3, <1>4
     DEF HealthTypeOK, ReportsOK, FailuresOK, Reports, Sweeps,
         ReportPromptSuccess
<1>7. QED
  BY <1>5, <1>6 DEF HealthOK

LEMMA NextHealthOK ==
  ASSUME TypeOK, HealthInv, SessionErrorsReal, [Next]_allVars
  PROVE  HealthOK'
<1>1. HealthOK /\ served \in Model /\ VerifierTypeOK
  BY DEF HealthOK, TypeOK, ServingTypeOK, HealthTypeOK
<1>2. Attesting /\ HealthMoves /\ served' = served
  BY NextHealth
<1>3. VerifierTypeOK'
  BY <1>1, <1>2 DEF Attesting, AttestBackend, Outcomes, VerifierTypeOK
<1>4. /\ ReportsOK /\ FailuresOK /\ sweep \in Sweeps /\ swept \in BOOLEAN
      /\ failed \in Seq(BOOLEAN) /\ HealthInv /\ SessionErrorsReal
  BY <1>1, HealthTypes DEF HealthOK
<1>5. CASE UNCHANGED <<reports, failures, sweep, swept, failed>>
  BY <1>2, <1>3, <1>4, <1>5
     DEF HealthOK, HealthTypeOK, ReportsOK, FailuresOK, Reports, Sweeps,
         HealthInv, SessionErrorsReal
<1>6. CASE ReportTeeFailure(served)
  <2>1. ReportsOK' /\ \A n \in DOMAIN reports' :
          \/ n \in DOMAIN reports /\ reports'[n] = reports[n]
          \/ reports'[n].kind # "session_errors"
    <3>1. CASE UNCHANGED reports
      BY <1>4, <3>1 DEF ReportsOK
    <3>2. CASE SetReport(served, "tee_unverified", "tee")
      <4>1. Report("tee_unverified", "tee") \in Reports
        BY DEF Report, Reports
      <4>2. QED
        BY <1>1, <1>4, <3>2, <4>1, OtherReport
    <3>3. QED
      BY <1>6, <3>1, <3>2 DEF ReportTeeFailure
  <2>2. /\ failures' = failures /\ failed' = failed /\ swept' = swept
        /\ sweep' = sweep
    BY <1>6 DEF ReportTeeFailure
  <2>3. HealthInv' /\ SessionErrorsReal'
    BY <1>2, <1>4, <2>1, <2>2, LessHealth
  <2>4. QED
    BY <1>3, <1>4, <2>1, <2>2, <2>3
       DEF HealthOK, HealthTypeOK, ReportsOK, FailuresOK, Reports, Sweeps
<1>7. CASE Stopping
  <2>1. sweep' \in Sweeps
    <3>1. Waiting \in Sweeps
      BY DEF Waiting, Sweeps
    <3>2. Off \in Sweeps
      BY <3>1 DEF Off, Sweeps
    <3>3. QED
      BY <1>7, <3>1, <3>2 DEF Stopping
  <2>2. /\ DOMAIN <<>> = {} /\ <<>> \in Seq(BOOLEAN)
    BY EmptySeq
  <2>3. DOMAIN reports' = {} /\ DOMAIN failures' = {} /\ swept' \in BOOLEAN
        /\ failed' \in Seq(BOOLEAN)
    BY <1>7, <2>2 DEF Stopping
  <2>4. QED
    BY <1>3, <2>1, <2>3
       DEF HealthOK, HealthTypeOK, Sweeps, HealthInv, SessionErrorsReal
<1>8. QED
  BY <1>1, <1>2, <1>3, <1>5, <1>6, <1>7, SweepHealth, SuccessHealth,
     FailureHealth
     DEF HealthMoves
-----------------------------------------------------------------------------
(* The connections *)

Frames == {"chunk", "done", "engine_error", "error", "torn"}
Lasts == {"done", "engine_error", "error"}

\* What the consumer has lost of a frame, and the chunks it has yet to read.
Torn(w) == w # <<>> /\ w[1] = "torn"
Chunks(w) == IF w # <<>> /\ w[Len(w)] \in Lasts THEN Len(w) - 1 ELSE Len(w)

\* A frame that ends the answer is the last one, and there only when the
\* provider is done.
Placed(server, w) ==
  /\ \A i \in 1 .. Len(w) :
       /\ w[i] = "torn" => i = 1
       /\ w[i] \in Lasts => i = Len(w)
       /\ w[i] \in {"done", "engine_error"} =>
            server \in {"saving", "served", "cut"}
       /\ w[i] = "error" => server \in {"failed", "cut"}
  /\ server = "failed" => w # <<>> /\ w[Len(w)] \in {"error", "torn"}

\* Every chunk sent has been read or is yet to be, unless the provider
\* stopped or a read timed out, which only the first one does.
Counted(server, w, sent, got) ==
  \/ Torn(w) /\ got = 0
  \/ got + Chunks(w) = sent
  \/ server = "cut" /\ got + Chunks(w) < sent

WireFits(client, server, w, sent, got) ==
  /\ client = "ready" =>
       server = "none" /\ w = <<>> /\ sent = 0 /\ got = 0
  /\ server = "none" => client \in {"ready", "failed"}
  /\ client = "answered" =>
       \/ server = "cut"
       \/ server \in {"saving", "served"} /\ got = sent
  /\ client = "reading" =>
       Placed(server, w) /\ Counted(server, w, sent, got)

WireOK(x) == WireFits(x.client, x.server, x.wire, x.sent, x.got)
WireInv == \A q \in Started : WireOK(exchange[q])

LEMMA OneFrame ==
  ASSUME NEW frame \in Frames
  PROVE  <<frame>> \in Seq(Frames)
OBVIOUS

LEMMA WireSeq ==
  ASSUME NEW w \in Seq(Frames)
  PROVE  /\ Len(w) \in Nat
         /\ w # <<>> <=> Len(w) > 0
         /\ \A i \in 1 .. Len(w) : w[i] \in Frames
         /\ Chunks(w) \in Nat
<1>1. Len(w) \in Nat /\ (w # <<>> <=> Len(w) > 0)
  BY LenProperties, EmptySeq
<1>2. \A i \in 1 .. Len(w) : w[i] \in Frames
  BY ElementOfSeq
<1>3. QED
  BY <1>1, <1>2 DEF Chunks

\* The next frame is read.
LEMMA ReadingOn ==
  ASSUME NEW w \in Seq(Frames), w # <<>>, Head(w) = "chunk", NEW server,
         NEW sent \in Nat, NEW got \in Nat,
         Placed(server, w), Counted(server, w, sent, got)
  PROVE  /\ Tail(w) \in Seq(Frames)
         /\ Placed(server, Tail(w)) /\ Counted(server, Tail(w), sent, got + 1)
         /\ got + 1 <= sent
<1> DEFINE t == Tail(w)
<1>0. /\ Len(w) \in Nat /\ Len(w) > 0
      /\ t \in Seq(Frames) /\ Len(t) = Len(w) - 1 /\ w[1] = "chunk"
      /\ \A i \in 1 .. Len(t) : t[i] = w[i + 1]
  BY HeadTailProperties, WireSeq
<1>1. /\ t \in Seq(Frames) /\ Len(t) = Len(w) - 1 /\ Len(w) \in Nat
      /\ Len(w) > 0 /\ w[1] = "chunk" /\ Len(t) \in Nat
      /\ \A i \in 1 .. Len(t) : t[i] = w[i + 1]
      /\ t # <<>> <=> Len(t) > 0
  <2> HIDE DEF t
  <2>1. QED
    BY <1>0, WireSeq
<1> HIDE DEF t
<1>2. "chunk" \notin Lasts /\ "chunk" # "torn"
  BY DEF Lasts
<1>3. \A i \in 1 .. Len(t) :
        /\ t[i] # "torn"
        /\ t[i] \in Lasts => i = Len(t)
        /\ t[i] \in {"done", "engine_error"} =>
             server \in {"saving", "served", "cut"}
        /\ t[i] = "error" => server \in {"failed", "cut"}
  <2>1. ASSUME NEW i \in 1 .. Len(t)
        PROVE  /\ t[i] = w[i + 1] /\ i + 1 \in 1 .. Len(w) /\ i + 1 # 1
               /\ i + 1 = Len(w) => i = Len(t)
    BY <1>1
  <2>2. QED
    BY <2>1 DEF Placed
<1>4. Len(w) > 1 => /\ t[Len(t)] = w[Len(w)] /\ Len(t) > 0
  BY <1>1
<1>5. server = "failed" => t # <<>> /\ t[Len(t)] \in {"error", "torn"}
  <2>1. ASSUME server = "failed"
        PROVE  Len(w) > 1
    <3>1. w[Len(w)] \in {"error", "torn"}
      BY <2>1 DEF Placed
    <3>2. QED
      BY <1>1, <3>1
  <2>2. QED
    BY <1>1, <1>4, <2>1 DEF Placed
<1>6. Placed(server, t)
  BY <1>3, <1>5 DEF Placed
<1>7. Chunks(w) = Chunks(t) + 1 /\ Chunks(t) \in Nat
  <2>1. CASE Len(w) > 1
    BY <1>1, <1>4, <2>1 DEF Chunks
  <2>2. CASE Len(w) = 1
    BY <1>1, <1>2, <2>2 DEF Chunks
  <2>3. QED
    BY <1>1, <2>1, <2>2
<1>8. ~Torn(w)
  BY <1>1 DEF Torn
<1>9. Counted(server, t, sent, got + 1) /\ got + 1 <= sent
  BY <1>7, <1>8 DEF Counted
<1>10. QED
  BY <1>1, <1>6, <1>9 DEF t

\* A frame is torn.
LEMMA TornApart ==
  ASSUME NEW w \in Seq(Frames), NEW server, NEW sent \in Nat,
         Placed(server, w), Counted(server, w, sent, 0),
         NEW v, v = IF w = <<>> THEN <<>> ELSE <<"torn">> \o Tail(w)
  PROVE  /\ v \in Seq(Frames)
         /\ Placed(server, v) /\ Counted(server, v, sent, 0)
<1>1. CASE w = <<>>
  BY <1>1
<1>2. CASE w # <<>>
  <2>1. /\ Tail(w) \in Seq(Frames) /\ Len(Tail(w)) = Len(w) - 1
        /\ Len(w) \in Nat /\ Len(w) > 0
        /\ \A i \in 1 .. Len(w) - 1 : Tail(w)[i] = w[i + 1]
    BY <1>2, HeadTailProperties, WireSeq
  <2>2. PICK u \in Seq(Frames) : u = <<"torn">>
    BY OneFrame DEF Frames
  <2>3. Len(u) = 1 /\ u[1] = "torn"
    BY <2>2
  <2>4. v = u \o Tail(w)
    BY <1>2, <2>2
  <2>5. /\ v \in Seq(Frames) /\ Len(v) = Len(w)
        /\ v[1] = "torn"
        /\ \A i \in 2 .. Len(w) : v[i] = w[i]
    <3>1. /\ v \in Seq(Frames) /\ Len(v) = Len(u) + Len(Tail(w))
          /\ \A i \in 1 .. Len(u) + Len(Tail(w)) :
               v[i] = IF i <= Len(u) THEN u[i] ELSE Tail(w)[i - Len(u)]
      BY <2>1, <2>2, <2>4, ConcatProperties
    <3>2. QED
      BY <2>1, <2>3, <3>1
  <2>6. v # <<>>
    BY <2>1, <2>5, WireSeq
  <2>7. "torn" \notin Lasts
    BY DEF Lasts
  <2>8. \A i \in 1 .. Len(v) : i = 1 \/ i \in 2 .. Len(w)
    BY <2>1, <2>5
  <2>9. \A i \in 1 .. Len(v) :
          /\ v[i] = "torn" => i = 1
          /\ v[i] \in Lasts => i = Len(v)
          /\ v[i] \in {"done", "engine_error"} =>
               server \in {"saving", "served", "cut"}
          /\ v[i] = "error" => server \in {"failed", "cut"}
    BY <2>1, <2>5, <2>7, <2>8 DEF Placed
  <2>10. server = "failed" => v[Len(v)] \in {"error", "torn"}
    <3>1. Len(w) = 1 \/ v[Len(v)] = w[Len(w)]
      BY <2>1, <2>5
    <3>2. Len(w) = 1 => v[Len(v)] = "torn"
      BY <2>5
    <3>3. server = "failed" => w[Len(w)] \in {"error", "torn"}
      BY DEF Placed
    <3>4. QED
      BY <3>1, <3>2, <3>3
  <2>11. QED
    BY <2>5, <2>6, <2>9, <2>10 DEF Placed, Counted, Torn
<1>3. QED
  BY <1>1, <1>2

\* A frame is added while the provider is at work.
LEMMA SendingOn ==
  ASSUME NEW w \in Seq(Frames), NEW frame \in Frames \ {"torn"},
         NEW server \in {"request", "queued", "verify", "engine"},
         NEW sent \in Nat, NEW got \in Nat,
         Placed(server, w), Counted(server, w, sent, got), NEW s
  PROVE  /\ w \o <<frame>> \in Seq(Frames)
         /\ \A i \in 1 .. Len(w) : w[i] \notin Lasts
         /\ Len(w \o <<frame>>) = Len(w) + 1
         /\ (w \o <<frame>>)[Len(w) + 1] = frame
         /\ \A i \in 1 .. Len(w) : (w \o <<frame>>)[i] = w[i]
         /\ frame = "chunk" =>
              Counted(server, w \o <<frame>>, sent + 1, got)
         /\ frame # "chunk" =>
              Counted(s, w \o <<frame>>, sent, got)
<1>1. PICK u \in Seq(Frames) : u = <<frame>>
  BY OneFrame
<1>2. Len(u) = 1 /\ u[1] = frame
  BY <1>1
<1> DEFINE v == w \o u
<1>3. Len(w) \in Nat /\ (w # <<>> <=> Len(w) > 0)
  BY WireSeq
<1>4. /\ v \in Seq(Frames) /\ Len(v) = Len(w) + 1
      /\ v[Len(w) + 1] = frame
      /\ \A i \in 1 .. Len(w) : v[i] = w[i]
  <2>1. /\ v \in Seq(Frames) /\ Len(v) = Len(w) + Len(u)
        /\ \A i \in 1 .. Len(w) + Len(u) :
             v[i] = IF i <= Len(w) THEN w[i] ELSE u[i - Len(w)]
    BY ConcatProperties
  <2> HIDE DEF v
  <2>2. QED
    BY <1>2, <1>3, <2>1
<1> HIDE DEF v
<1>5. \A i \in 1 .. Len(w) : w[i] \notin Lasts
  BY DEF Placed, Lasts
<1>6. Chunks(w) = Len(w)
  BY <1>3, <1>5 DEF Chunks
<1>7. v # <<>>
  BY <1>3, <1>4, WireSeq
<1>8. Chunks(v) = IF frame = "chunk" THEN Len(w) + 1 ELSE Len(w)
  BY <1>3, <1>4, <1>7 DEF Chunks, Lasts, Frames
<1>9. Torn(w) => Torn(v)
  BY <1>3, <1>4, <1>7 DEF Torn
<1>10. frame = "chunk" => Counted(server, v, sent + 1, got)
  BY <1>3, <1>6, <1>8, <1>9 DEF Counted
<1>11. frame # "chunk" => Counted(s, v, sent, got)
  BY <1>3, <1>6, <1>8, <1>9 DEF Counted
<1>12. QED
  BY <1>1, <1>4, <1>5, <1>10, <1>11 DEF v
Record ==
  [session : Session,
   client : {"ready", "reading", "answered", "failed"},
   server : {"none", "request", "queued", "verify", "engine", "saving",
             "served", "failed", "cut"},
   late : BOOLEAN, sent : 0 .. MaxChunks, got : 0 .. MaxChunks,
   retries : 0 .. MaxRetries, stats : Nat,
   wire : Seq(Frames), file : Seq(0 .. TotalChunks - 1)]

LEMMA ServingTypes ==
  ServingTypeOK <=> /\ served \in Model /\ Started \subseteq Prompt
                    /\ queue \in Seq(Started)
                    /\ \A q \in Started : exchange[q] \in Record
BY DEF ServingTypeOK, Record, Frames

WiresOK == ServingTypeOK /\ WireInv

\* A prompt's record after one of its steps.
LEMMA ExchangeReplaced ==
  ASSUME ServingTypeOK, WireInv, NEW q \in Started, NEW r \in Record,
         WireOK(r), exchange' = [exchange EXCEPT ![q] = r],
         served' = served, queue' \in Seq(Started)
  PROVE  WiresOK'
<1>1. /\ served \in Model /\ Started \subseteq Prompt
      /\ \A p \in Started : exchange[p] \in Record
  BY ServingTypes
<1>2. Started' = Started
  BY DEF Started
<1>3. \A p \in Started' : exchange'[p] \in Record /\ WireOK(exchange'[p])
  BY <1>1, <1>2 DEF Started, WireInv
<1>4. ServingTypeOK'
  BY <1>1, <1>2, <1>3 DEF ServingTypeOK, Record, Frames
<1>5. QED
  BY <1>3, <1>4 DEF WireInv, WiresOK

LEMMA ConsumerEnds ==
  ASSUME NEW x \in Record, NEW pc \in {"answered", "failed"},
         x.client \in {"ready", "reading"},
         x.server = "none" => pc = "failed",
         pc = "answered" =>
           \/ x.server = "cut"
           \/ x.server \in {"saving", "served"} /\ x.got = x.sent
  PROVE  Changed(x, Ends(pc)) \in Record /\ WireOK(Changed(x, Ends(pc)))
<1>1. <<>> \in Seq(Frames) /\ 0 \in 0 .. MaxRetries
  BY EmptySeq, ServingAssumption
<1>2. PICK w \in Seq(Frames), zero \in 0 .. MaxRetries :
        w = <<>> /\ zero = 0
  BY <1>1
<1>3. PICK c : c = [client |-> pc, wire |-> w, retries |-> zero]
  OBVIOUS
<1>4. c = Ends(pc)
  BY <1>2, <1>3 DEF Ends
<1> DEFINE r == Changed(x, c)
<1>5. /\ r \in Record /\ r.client = pc /\ r.server = x.server
      /\ r.sent = x.sent /\ r.got = x.got
  BY <1>3 DEF Changed, Record
<1> HIDE DEF r
<1>6. WireOK(r)
  BY <1>5 DEF WireOK, WireFits
<1>7. QED
  BY <1>4, <1>5, <1>6 DEF r

LEMMA ConsumesWire ==
  ASSUME ServingTypeOK, WireInv, ended \subseteq Session, NEW q \in Prompt,
         Consumes(q)
  PROVE  WiresOK'
<1>1. /\ served \in Model /\ Started \subseteq Prompt
      /\ queue \in Seq(Started)
      /\ \A p \in Started : exchange[p] \in Record
  BY ServingTypes
<1>2. UNCHANGED <<served, queue>>
  BY DEF Consumes, ClientAcquires, Send, SendFails, ReceiveChunk,
         ReceiveLast, ReceiveFails, EndOfStream, Timeout, TimedOut, unserved
<1>3. ASSUME NEW s \in Session, ClientAcquires(q, s)
      PROVE  WiresOK'
  <2>1. Exchange(s) \in Record /\ WireOK(Exchange(s))
    <3>1. /\ 0 \in 0 .. MaxChunks /\ 0 \in 0 .. MaxRetries
          /\ <<>> \in Seq(Frames) /\ <<>> \in Seq(0 .. TotalChunks - 1)
      BY EmptySeq, ServingAssumption
    <3>2. PICK zero \in 0 .. MaxChunks, naught \in 0 .. MaxRetries,
               w \in Seq(Frames), f \in Seq(0 .. TotalChunks - 1),
               n \in Nat :
            zero = 0 /\ naught = 0 /\ w = <<>> /\ f = <<>> /\ n = 0
      BY <3>1
    <3>3. Exchange(s) =
            [session |-> s, client |-> "ready", server |-> "none",
             late |-> FALSE, wire |-> w, sent |-> zero, got |-> zero,
             retries |-> naught, stats |-> n, file |-> f]
      BY <3>2 DEF Exchange, Fresh
    <3>4. Exchange(s) \in Record
      BY <3>3 DEF Record
    <3>5. QED
      BY <3>4 DEF Exchange, WireOK, WireFits
  <2>2. exchange' = Put(exchange, q, Exchange(s))
    BY <1>3 DEF ClientAcquires
  <2>3. Started' = Started \union {q}
        /\ \A p \in Started' : exchange'[p] \in Record /\ WireOK(exchange'[p])
    BY <1>1, <2>1, <2>2 DEF Put, Started, WireInv
  <2>4. queue' \in Seq(Started')
    BY <1>1, <1>2, <2>3, SeqMonotonic
  <2>5. ServingTypeOK'
    BY <1>1, <1>2, <2>3, <2>4 DEF ServingTypeOK, Record, Frames
  <2>6. QED
    BY <2>3, <2>5 DEF WireInv, WiresOK
<1>4. ASSUME q \in Started, NEW c, Changed(exchange[q], c) \in Record,
             WireOK(Changed(exchange[q], c)), To(q, c)
      PROVE  WiresOK'
  BY <1>1, <1>2, <1>4, ExchangeReplaced DEF To
<1> DEFINE x == exchange[q]
<1>5. CASE Send(q)
  <2>1. q \in Started /\ x \in Record /\ WireOK(x) /\ x.client = "ready"
    BY <1>1, <1>5 DEF Send, ClientAt, WireInv
  <2>2. PICK late \in BOOLEAN : late = (Of(q) \in ended)
    <3>1. (Of(q) \in ended) \in BOOLEAN
      OBVIOUS
    <3>2. QED
      BY <3>1, Zenon
  <2>3. PICK c : c = [client |-> "reading", server |-> "request",
                      late |-> late]
    OBVIOUS
  <2> DEFINE r == Changed(x, c)
  <2>4. /\ r \in Record /\ r.client = "reading" /\ r.server = "request"
        /\ r.sent = x.sent /\ r.got = x.got /\ r.wire = x.wire
    BY <2>1, <2>3 DEF Changed, Record
  <2>5. x.sent = 0 /\ x.got = 0 /\ x.wire = <<>>
    BY <2>1 DEF WireOK, WireFits
  <2> HIDE DEF r
  <2>6. WireOK(r)
    BY <2>4, <2>5 DEF WireOK, WireFits, Placed, Counted, Chunks
  <2>7. To(q, c)
    BY <1>5, <2>2, <2>3 DEF Send
  <2>8. QED
    BY <1>4, <2>1, <2>4, <2>6, <2>7 DEF r
<1>6. CASE SendFails(q) \/ ReceiveFails(q) \/ TimedOut(q)
  <2>1. /\ q \in Started /\ x \in Record /\ WireOK(x)
        /\ x.client \in {"ready", "reading"} /\ To(q, Ends("failed"))
    BY <1>1, <1>6
       DEF SendFails, ReceiveFails, TimedOut, Arrived, ClientAt, WireInv
  <2>2. QED
    BY <1>4, <2>1, ConsumerEnds
<1>7. CASE ReceiveLast(q)
  <2>1. /\ q \in Started /\ x \in Record /\ WireOK(x)
        /\ x.client = "reading" /\ x.wire # <<>>
        /\ Head(x.wire) \in {"done", "engine_error"}
        /\ To(q, Ends("answered"))
    BY <1>1, <1>7 DEF ReceiveLast, Arrived, Frame, ClientAt, WireInv
  <2>2. /\ x.wire \in Seq(Frames) /\ x.got \in Nat /\ x.sent \in Nat
        /\ Placed(x.server, x.wire)
        /\ Counted(x.server, x.wire, x.sent, x.got)
    BY <2>1, ServingAssumption DEF WireOK, WireFits, Record
  <2>3. Len(x.wire) \in Nat /\ Len(x.wire) > 0 /\ Head(x.wire) = x.wire[1]
    BY <2>1, <2>2, WireSeq
  <2>4. Len(x.wire) = 1 /\ x.server \in {"saving", "served", "cut"}
    <3>1. x.wire[1] \in {"done", "engine_error"} /\ 1 \in 1 .. Len(x.wire)
      BY <2>1, <2>3
    <3>2. x.wire[1] \in Lasts
      BY <3>1 DEF Lasts
    <3>3. QED
      BY <2>2, <3>1, <3>2 DEF Placed
  <2>5. Chunks(x.wire) = 0 /\ ~Torn(x.wire)
    BY <2>1, <2>3, <2>4 DEF Chunks, Torn, Lasts
  <2>6. x.server = "cut" \/ x.got = x.sent
    BY <2>2, <2>5 DEF Counted
  <2>7. QED
    BY <1>4, <2>1, <2>4, <2>6, ConsumerEnds
<1>8. CASE EndOfStream(q)
  <2>1. PICK pc \in {"answered", "failed"} : To(q, Ends(pc))
    BY <1>8 DEF EndOfStream
  <2>2. /\ q \in Started /\ x \in Record /\ WireOK(x)
        /\ x.client = "reading" /\ x.wire = <<>>
        /\ x.server \in {"served", "failed", "cut"}
    BY <1>1, <1>8 DEF EndOfStream, ClientAt, WireInv
  <2>3. /\ Placed(x.server, x.wire) /\ x.got \in Nat /\ x.sent \in Nat
        /\ Counted(x.server, x.wire, x.sent, x.got)
    BY <2>2, ServingAssumption DEF WireOK, WireFits, Record
  <2>4. Chunks(x.wire) = 0 /\ ~Torn(x.wire)
    BY <2>2 DEF Chunks, Torn
  <2>5. \/ x.server = "cut"
        \/ x.server = "served" /\ x.got = x.sent
    <3>1. x.server # "failed"
      BY <2>2, <2>3 DEF Placed
    <3>2. x.server = "cut" \/ x.got + Chunks(x.wire) = x.sent
      BY <2>3, <2>4 DEF Counted
    <3>3. QED
      BY <2>2, <2>3, <2>4, <3>1, <3>2
  <2>6. QED
    BY <1>4, <2>1, <2>2, <2>5, ConsumerEnds
<1>9. CASE ReceiveChunk(q)
  <2>1. /\ q \in Started /\ x \in Record /\ WireOK(x)
        /\ x.client = "reading" /\ x.wire # <<>> /\ Head(x.wire) = "chunk"
    BY <1>1, <1>9 DEF ReceiveChunk, Arrived, Frame, ClientAt, WireInv
  <2>2. /\ x.wire \in Seq(Frames) /\ x.got \in Nat /\ x.sent \in Nat
        /\ x.sent <= MaxChunks
        /\ Placed(x.server, x.wire)
        /\ Counted(x.server, x.wire, x.sent, x.got)
    BY <2>1, ServingAssumption DEF WireOK, WireFits, Record
  <2>3. PICK w \in Seq(Frames) : w = Tail(x.wire)
    BY <2>1, <2>2, ReadingOn
  <2>4. /\ Placed(x.server, w) /\ Counted(x.server, w, x.sent, x.got + 1)
        /\ x.got + 1 <= x.sent
    BY <2>1, <2>2, <2>3, ReadingOn
  <2>5. PICK n \in 0 .. MaxChunks : n = x.got + 1
    BY <2>2, <2>4, ServingAssumption
  <2>6. PICK c : c = [got |-> n, wire |-> w]
    OBVIOUS
  <2> DEFINE r == Changed(x, c)
  <2>7. /\ r \in Record /\ r.client = "reading" /\ r.server = x.server
        /\ r.sent = x.sent /\ r.got = n /\ r.wire = w
    BY <2>1, <2>6 DEF Changed, Record
  <2> HIDE DEF r
  <2>8. WireOK(r)
    BY <2>1, <2>4, <2>5, <2>7 DEF WireOK, WireFits
  <2>9. To(q, c)
    BY <1>9, <2>3, <2>5, <2>6 DEF ReceiveChunk
  <2>10. QED
    BY <1>4, <2>1, <2>7, <2>8, <2>9 DEF r
<1>10. CASE Timeout(q)
  <2>1. /\ q \in Started /\ x \in Record /\ WireOK(x)
        /\ x.client = "reading" /\ x.got = 0 /\ x.retries < MaxRetries
    BY <1>1, <1>10 DEF Timeout, ClientAt, WireInv
  <2>2. /\ x.wire \in Seq(Frames) /\ x.got \in Nat /\ x.sent \in Nat
        /\ x.retries \in Nat
        /\ Placed(x.server, x.wire)
        /\ Counted(x.server, x.wire, x.sent, 0)
    BY <2>1, ServingAssumption DEF WireOK, WireFits, Record
  <2>3. PICK v : v = IF x.wire = <<>> THEN <<>>
                     ELSE <<"torn">> \o Tail(x.wire)
    OBVIOUS
  <2>4. v \in Seq(Frames) /\ Placed(x.server, v)
        /\ Counted(x.server, v, x.sent, 0)
    BY <2>2, <2>3, TornApart
  <2>5. PICK n \in 0 .. MaxRetries : n = x.retries + 1
    BY <2>1, <2>2, ServingAssumption
  <2>6. PICK c : c = [retries |-> n, wire |-> v]
    OBVIOUS
  <2> DEFINE r == Changed(x, c)
  <2>7. /\ r \in Record /\ r.client = "reading" /\ r.server = x.server
        /\ r.sent = x.sent /\ r.got = x.got /\ r.wire = v
    BY <2>1, <2>4, <2>6 DEF Changed, Record
  <2> HIDE DEF r
  <2>8. WireOK(r)
    BY <2>1, <2>4, <2>7 DEF WireOK, WireFits
  <2>9. To(q, c)
    BY <1>10, <2>3, <2>5, <2>6 DEF Timeout
  <2>10. QED
    BY <1>4, <2>1, <2>7, <2>8, <2>9 DEF r
<1>11. QED
  BY <1>3, <1>5, <1>6, <1>7, <1>8, <1>9, <1>10 DEF Consumes
Working == {"request", "queued", "verify", "engine"}

\* While the provider is at work no frame that ends the answer is on its way.
LEMMA WorkingFits ==
  ASSUME NEW client \in {"ready", "reading", "answered", "failed"},
         NEW server \in Working, NEW w \in Seq(Frames),
         NEW sent \in Nat, NEW got \in Nat,
         WireFits(client, server, w, sent, got)
  PROVE  /\ client \in {"reading", "failed"}
         /\ \A s \in Working \union {"saving"} :
              WireFits(client, s, w, sent, got)
<1>1. client \in {"reading", "failed"}
  BY DEF WireFits, Working
<1>2. ASSUME client = "reading", NEW s \in Working \union {"saving"}
      PROVE  Placed(s, w) /\ Counted(s, w, sent, got)
  <2>1. Placed(server, w) /\ Counted(server, w, sent, got)
    BY <1>2 DEF WireFits
  <2>2. \A i \in 1 .. Len(w) :
          w[i] \notin {"done", "engine_error"} /\ w[i] # "error"
    BY <2>1 DEF Placed, Working
  <2>3. server # "cut" /\ s # "failed"
    BY DEF Working
  <2>4. QED
    BY <2>1, <2>2, <2>3 DEF Placed, Counted
<1>3. QED
  BY <1>1, <1>2 DEF WireFits, Working

\* What ends an answer.
LEMMA LastFits ==
  ASSUME NEW client \in {"ready", "reading", "answered", "failed"},
         NEW server \in Working, NEW w \in Seq(Frames),
         NEW sent \in Nat, NEW got \in Nat,
         WireFits(client, server, w, sent, got),
         NEW frame, NEW s,
         \/ frame = "error" /\ s = "failed"
         \/ frame \in {"done", "engine_error"} /\ s = "saving",
         NEW v, v = IF client = "reading" THEN w \o <<frame>> ELSE w
  PROVE  v \in Seq(Frames) /\ WireFits(client, s, v, sent, got)
<1>1. client \in {"reading", "failed"}
  BY WorkingFits
<1>2. frame \in Frames \ {"torn"} /\ frame # "chunk" /\ s # "none"
      /\ frame \in Lasts
  BY DEF Frames, Lasts
<1>3. CASE client = "failed"
  BY <1>2, <1>3 DEF WireFits
<1>4. CASE client = "reading"
  <2>1. Placed(server, w) /\ Counted(server, w, sent, got)
    BY <1>4 DEF WireFits
  <2>2. /\ v \in Seq(Frames) /\ Len(v) = Len(w) + 1
        /\ v[Len(w) + 1] = frame
        /\ \A i \in 1 .. Len(w) : v[i] = w[i] /\ w[i] \notin Lasts
        /\ Counted(s, v, sent, got)
    <3>1. server \in {"request", "queued", "verify", "engine"}
      BY DEF Working
    <3>2. v = w \o <<frame>>
      BY <1>4
    <3>3. /\ v \in Seq(Frames) /\ Len(v) = Len(w) + 1
          /\ v[Len(w) + 1] = frame
          /\ \A i \in 1 .. Len(w) : v[i] = w[i]
          /\ \A i \in 1 .. Len(w) : w[i] \notin Lasts
          /\ Counted(s, v, sent, got)
      BY <1>2, <2>1, <3>1, <3>2, SendingOn
    <3>4. QED
      BY <3>3
  <2>3. Len(w) \in Nat /\ v # <<>>
    BY <2>2, WireSeq
  <2>4. \A i \in 1 .. Len(v) : i = Len(w) + 1 \/ i \in 1 .. Len(w)
    BY <2>2, <2>3
  <2>5. ASSUME NEW i \in 1 .. Len(v)
        PROVE  /\ v[i] = "torn" => i = 1
               /\ v[i] \in Lasts => i = Len(v)
               /\ v[i] \in {"done", "engine_error"} =>
                    s \in {"saving", "served", "cut"}
               /\ v[i] = "error" => s \in {"failed", "cut"}
    <3>1. CASE i = Len(w) + 1
      BY <1>2, <2>2, <3>1
    <3>2. CASE i \in 1 .. Len(w)
      <4>1. v[i] = w[i] /\ w[i] \notin Lasts
        BY <2>2, <3>2
      <4>2. w[i] = "torn" => i = 1
        BY <2>1, <3>2 DEF Placed
      <4>3. QED
        BY <4>1, <4>2 DEF Lasts
    <3>3. QED
      BY <2>4, <3>1, <3>2
  <2>6. s = "failed" => v[Len(v)] \in {"error", "torn"}
    BY <2>2
  <2>7. Placed(s, v)
    BY <2>3, <2>5, <2>6 DEF Placed
  <2>8. QED
    BY <1>2, <1>4, <2>2, <2>7 DEF WireFits
<1>5. QED
  BY <1>1, <1>3, <1>4

LEMMA ChunkFits ==
  ASSUME NEW client \in {"ready", "reading", "answered", "failed"},
         NEW w \in Seq(Frames), NEW sent \in Nat, NEW got \in Nat,
         WireFits(client, "engine", w, sent, got),
         NEW v, v = IF client = "reading" THEN w \o <<"chunk">> ELSE w
  PROVE  v \in Seq(Frames) /\ WireFits(client, "engine", v, sent + 1, got)
<1>1. client \in {"reading", "failed"} /\ "engine" \in Working
  BY WorkingFits DEF Working
<1>2. "chunk" \in Frames \ {"torn"}
  BY DEF Frames
<1>3. CASE client = "failed"
  BY <1>3 DEF WireFits
<1>4. CASE client = "reading"
  <2>1. Placed("engine", w) /\ Counted("engine", w, sent, got)
    BY <1>4 DEF WireFits
  <2>2. /\ v \in Seq(Frames) /\ Len(v) = Len(w) + 1
        /\ v[Len(w) + 1] = "chunk"
        /\ \A i \in 1 .. Len(w) : v[i] = w[i] /\ w[i] \notin Lasts
        /\ Counted("engine", v, sent + 1, got)
    <3>1. PICK s \in {"request", "queued", "verify", "engine"},
               frame \in Frames \ {"torn"} : s = "engine" /\ frame = "chunk"
      BY <1>2
    <3>2. v = w \o <<frame>>
      BY <1>4, <3>1
    <3>3. /\ v \in Seq(Frames) /\ Len(v) = Len(w) + 1
          /\ v[Len(w) + 1] = frame
          /\ \A i \in 1 .. Len(w) : v[i] = w[i]
          /\ \A i \in 1 .. Len(w) : w[i] \notin Lasts
          /\ Counted(s, v, sent + 1, got)
      BY <2>1, <3>1, <3>2, SendingOn
    <3>4. QED
      BY <3>1, <3>3
  <2>3. Len(w) \in Nat
    BY WireSeq
  <2>4. ASSUME NEW i \in 1 .. Len(v)
        PROVE  v[i] \notin Lasts /\ (v[i] = "torn" => i = 1)
    <3>1. CASE i = Len(w) + 1
      BY <2>2, <3>1 DEF Lasts
    <3>2. CASE i \in 1 .. Len(w)
      BY <2>1, <2>2, <3>2 DEF Placed
    <3>3. QED
      BY <2>2, <2>3, <3>1, <3>2
  <2>5. Placed("engine", v)
    BY <2>4 DEF Placed, Lasts
  <2>6. QED
    BY <1>4, <2>2, <2>5 DEF WireFits
<1>5. QED
  BY <1>1, <1>3, <1>4

\* The answer is saved.
LEMMA SavedFits ==
  ASSUME NEW client, NEW w, NEW sent, NEW got,
         WireFits(client, "saving", w, sent, got)
  PROVE  WireFits(client, "served", w, sent, got)
BY DEF WireFits, Placed, Counted

\* The provider stops, with what it has sent or without.
LEMMA CutFits ==
  ASSUME NEW client \in {"ready", "reading", "answered", "failed"},
         NEW server, NEW w \in Seq(Frames),
         NEW sent \in Nat, NEW got \in Nat,
         server \notin {"none", "failed"},
         WireFits(client, server, w, sent, got)
  PROVE  /\ WireFits(client, "cut", w, sent, got)
         /\ WireFits(client, "cut", <<>>, sent, got)
<1>1. Len(w) \in Nat /\ Chunks(w) \in Nat
  BY WireSeq
<1>2. Chunks(<<>>) = 0
  BY DEF Chunks
<1>3. ASSUME client = "reading"
      PROVE  /\ Placed("cut", w) /\ Counted("cut", w, sent, got)
             /\ Placed("cut", <<>>) /\ Counted("cut", <<>>, sent, got)
  <2>1. Placed(server, w) /\ Counted(server, w, sent, got)
    BY <1>3 DEF WireFits
  <2>2. Counted("cut", <<>>, sent, got)
    BY <1>1, <1>2, <2>1 DEF Counted
  <2>3. Placed("cut", w) /\ Placed("cut", <<>>)
    BY <2>1 DEF Placed
  <2>4. QED
    BY <2>1, <2>2, <2>3 DEF Counted
<1>4. QED
  BY <1>3 DEF WireFits
LEMMA RemoveAtTypes ==
  ASSUME NEW S, NEW list \in Seq(S), NEW i \in DOMAIN list
  PROVE  RemoveAt(list, i) \in Seq(S)
<1>1. i \in 1 .. Len(list) /\ Len(list) \in Nat
  BY LenProperties
<1>2. /\ SubSeq(list, 1, i - 1) \in Seq(S)
      /\ SubSeq(list, i + 1, Len(list)) \in Seq(S)
  BY <1>1, SubSeqProperties
<1>3. QED
  BY <1>2, ConcatProperties DEF RemoveAt

\* What a provider's step makes of its prompt.
Steps(q, r) ==
  /\ q \in Started /\ r \in Record /\ WireOK(r)
  /\ exchange' = [exchange EXCEPT ![q] = r]

LEMMA StepReplaces ==
  ASSUME ServingTypeOK, WireInv, NEW q, NEW r, Steps(q, r),
         served' = served, queue' \in Seq(Started)
  PROVE  WiresOK'
BY ExchangeReplaced DEF Steps

LEMMA RecordFits ==
  ASSUME ServingTypeOK, WireInv, NEW q \in Started, NEW x, x = exchange[q]
  PROVE  /\ x \in Record
         /\ x.client \in {"ready", "reading", "answered", "failed"}
         /\ x.wire \in Seq(Frames) /\ x.sent \in Nat /\ x.got \in Nat
         /\ x.sent <= MaxChunks
         /\ WireFits(x.client, x.server, x.wire, x.sent, x.got)
<1>1. x \in Record
  BY ServingTypes
<1>2. WireOK(x)
  BY DEF WireInv
<1>3. QED
  BY <1>1, <1>2, ServingAssumption DEF Record, WireOK

\* The error ends the connection.
LEMMA ErrorSteps ==
  ASSUME ServingTypeOK, WireInv, NEW q \in Started,
         exchange[q].server \in Working, WithError(q)
  PROVE  \E r : Steps(q, r)
<1>1. PICK x : x = exchange[q]
  OBVIOUS
<1>2. PICK v : v = IF x.client = "reading" THEN x.wire \o <<"error">>
                   ELSE x.wire
  OBVIOUS
<1>3. PICK c : c = [server |-> "failed", wire |-> v]
  OBVIOUS
<1>4. To(q, c)
  BY <1>1, <1>2, <1>3 DEF WithError, Sending, ClientAt
<1>5. PICK frame, s : frame = "error" /\ s = "failed"
  OBVIOUS
<1>6. v \in Seq(Frames) /\ WireFits(x.client, s, v, x.sent, x.got)
  <2>1. v = IF x.client = "reading" THEN x.wire \o <<frame>> ELSE x.wire
    BY <1>2, <1>5
  <2>2. x.server \in Working
    BY <1>1
  <2>3. /\ x \in Record
        /\ x.client \in {"ready", "reading", "answered", "failed"}
        /\ x.wire \in Seq(Frames) /\ x.sent \in Nat /\ x.got \in Nat
        /\ WireFits(x.client, x.server, x.wire, x.sent, x.got)
    BY <1>1, RecordFits
  <2>4. PICK client \in {"ready", "reading", "answered", "failed"},
             server \in Working, w \in Seq(Frames), sent \in Nat,
             got \in Nat :
          /\ client = x.client /\ server = x.server /\ w = x.wire
          /\ sent = x.sent /\ got = x.got
          /\ WireFits(client, server, w, sent, got)
    BY <2>2, <2>3
  <2>5. v = IF client = "reading" THEN w \o <<frame>> ELSE w
    BY <2>1, <2>4
  <2>6. QED
    BY <1>5, <2>4, <2>5, LastFits
<1>7. PICK r : r = Changed(x, c)
  OBVIOUS
<1>8. /\ r \in Record /\ r.client = x.client /\ r.server = s
      /\ r.wire = v /\ r.sent = x.sent /\ r.got = x.got
  <2>1. x \in Record
    BY <1>1, RecordFits
  <2>2. QED
    BY <1>3, <1>5, <1>6, <1>7, <2>1 DEF Changed, Record
<1>9. WireOK(r)
  BY <1>6, <1>8 DEF WireOK
<1>10. QED
  BY <1>1, <1>4, <1>7, <1>8, <1>9 DEF Steps, To

\* A step from one of the provider's states at work to another.
LEMMA GoesOn ==
  ASSUME ServingTypeOK, WireInv, NEW q \in Started,
         exchange[q].server \in Working, NEW c, To(q, c),
         Changed(exchange[q], c) \in Record,
         Changed(exchange[q], c).server \in Working \union {"saving"},
         DOMAIN c \subseteq {"server", "stats", "file", "wire"},
         "wire" \in DOMAIN c => c.wire = exchange[q].wire
  PROVE  \E r : Steps(q, r)
<1>1. PICK x : x = exchange[q]
  OBVIOUS
<1>2. PICK r : r = Changed(x, c)
  OBVIOUS
<1>3. x \in Record /\ r \in Record /\ x.server \in Working
  BY <1>1, <1>2, RecordFits
<1>4. /\ r.client = x.client /\ r.wire = x.wire /\ r.sent = x.sent
      /\ r.got = x.got
  <2>1. /\ {"client", "wire", "sent", "got"} \subseteq DOMAIN x
        /\ "client" \notin DOMAIN c
        /\ "sent" \notin DOMAIN c /\ "got" \notin DOMAIN c
    BY <1>3 DEF Record
  <2>2. QED
    BY <1>1, <1>2, <2>1 DEF Changed
<1>5. \A s \in Working \union {"saving"} :
        WireFits(x.client, s, x.wire, x.sent, x.got)
  BY <1>1, <1>3, RecordFits, WorkingFits
<1>6. WireOK(r)
  BY <1>1, <1>2, <1>4, <1>5 DEF WireOK
<1>7. QED
  BY <1>1, <1>2, <1>3, <1>6 DEF Steps, To

\* The backend's answer or error is the last frame, or there is none.
LEMMA AnswerSteps ==
  ASSUME ServingTypeOK, WireInv, NEW q \in Started,
         exchange[q].server = "engine",
         NEW frame \in {"done", "engine_error"},
         To(q, [server |-> "saving", wire |-> Sending(q, <<frame>>)])
  PROVE  \E r : Steps(q, r)
<1>1. PICK x : x = exchange[q]
  OBVIOUS
<1>2. PICK v : v = IF x.client = "reading" THEN x.wire \o <<frame>>
                   ELSE x.wire
  OBVIOUS
<1>3. PICK c : c = [server |-> "saving", wire |-> v]
  OBVIOUS
<1>4. To(q, c)
  BY <1>1, <1>2, <1>3 DEF Sending, ClientAt
<1>5. PICK s : s = "saving"
  OBVIOUS
<1>6. v \in Seq(Frames) /\ WireFits(x.client, s, v, x.sent, x.got)
  <2>1. x.server \in Working
    BY <1>1 DEF Working
  <2>2. /\ x \in Record
        /\ x.client \in {"ready", "reading", "answered", "failed"}
        /\ x.wire \in Seq(Frames) /\ x.sent \in Nat /\ x.got \in Nat
        /\ WireFits(x.client, x.server, x.wire, x.sent, x.got)
    BY <1>1, RecordFits
  <2>3. PICK client \in {"ready", "reading", "answered", "failed"},
             server \in Working, w \in Seq(Frames), sent \in Nat,
             got \in Nat :
          /\ client = x.client /\ server = x.server /\ w = x.wire
          /\ sent = x.sent /\ got = x.got
          /\ WireFits(client, server, w, sent, got)
    BY <2>1, <2>2
  <2>4. v = IF client = "reading" THEN w \o <<frame>> ELSE w
    BY <1>2, <2>3
  <2>5. QED
    BY <1>5, <2>3, <2>4, LastFits
<1>7. PICK r : r = Changed(x, c)
  OBVIOUS
<1>8. /\ r \in Record /\ r.client = x.client /\ r.server = s
      /\ r.wire = v /\ r.sent = x.sent /\ r.got = x.got
  <2>1. x \in Record
    BY <1>1, RecordFits
  <2>2. QED
    BY <1>3, <1>5, <1>6, <1>7, <2>1 DEF Changed, Record
<1>9. WireOK(r)
  BY <1>6, <1>8 DEF WireOK
<1>10. QED
  BY <1>1, <1>4, <1>7, <1>8, <1>9 DEF Steps, To

LEMMA ChunkSteps ==
  ASSUME ServingTypeOK, WireInv, NEW q \in Started, SendChunk(q)
  PROVE  \E r : Steps(q, r)
<1>1. PICK x : x = exchange[q]
  OBVIOUS
<1>2. PICK v : v = IF x.client = "reading" THEN x.wire \o <<"chunk">>
                   ELSE x.wire
  OBVIOUS
<1>3. x.server = "engine" /\ x.sent < MaxChunks /\ x.sent \in Nat
  BY <1>1, RecordFits DEF SendChunk, Answers, ServerAt
<1>4. PICK n \in 0 .. MaxChunks : n = x.sent + 1
  BY <1>3, ServingAssumption
<1>5. PICK c : c = [sent |-> n, wire |-> v]
  OBVIOUS
<1>6. To(q, c)
  BY <1>1, <1>2, <1>4, <1>5 DEF SendChunk, Sending, ClientAt
<1>7. v \in Seq(Frames) /\ WireFits(x.client, "engine", v, n, x.got)
  <2>1. /\ x \in Record
        /\ x.client \in {"ready", "reading", "answered", "failed"}
        /\ x.wire \in Seq(Frames) /\ x.sent \in Nat /\ x.got \in Nat
        /\ WireFits(x.client, x.server, x.wire, x.sent, x.got)
    BY <1>1, RecordFits
  <2>2. WireFits(x.client, "engine", x.wire, x.sent, x.got)
    BY <1>3, <2>1
  <2>3. v \in Seq(Frames) /\ WireFits(x.client, "engine", v, x.sent + 1, x.got)
    BY <1>2, <2>1, <2>2, ChunkFits
  <2>4. QED
    BY <1>4, <2>3
<1>8. PICK r : r = Changed(x, c)
  OBVIOUS
<1>9. /\ r \in Record /\ r.client = x.client /\ r.server = "engine"
      /\ r.wire = v /\ r.sent = n /\ r.got = x.got
  <2>1. x \in Record
    BY <1>1, RecordFits
  <2>2. QED
    BY <1>3, <1>5, <1>7, <1>8, <2>1 DEF Changed, Record
<1>10. WireOK(r)
  BY <1>7, <1>9 DEF WireOK
<1>11. QED
  BY <1>1, <1>6, <1>8, <1>9, <1>10 DEF Steps, To
LEMMA ServesWire ==
  ASSUME ServingTypeOK, WireInv, RepoTypeOK, UploadTypeOK, NEW q \in Prompt,
         Serves(q)
  PROVE  WiresOK'
<1>1. queue \in Seq(Started) /\ \A p \in Started : exchange[p] \in Record
  BY ServingTypes
<1>2. q \in Started /\ served' = served
  BY DEF Serves, Handles, Admit, Refuse, Begin, BeginFails, Acquires,
         SaveStats, Verified, TeeRefused, SendChunk, EngineDone,
         EngineError, EngineFails, Answers, ServerAt, unserved
<1>3. ASSUME \E r : Steps(q, r), queue' \in Seq(Started)
      PROVE  WiresOK'
  BY <1>2, <1>3, StepReplaces
<1> DEFINE x == exchange[q]
<1>4. x \in Record
  BY <1>1, <1>2
<1>5. CASE Admit(q)
  <2>1. Of(q) \in Session /\ x.server = "request"
    BY <1>4, <1>5 DEF Of, Admit, ServerAt, Record
  <2>2. PICK stats \in Nat : To(q, [server |-> "queued", stats |-> stats])
    BY <1>5, <2>1, CacheTypes DEF Admit
  <2>3. PICK c : c = [server |-> "queued", stats |-> stats]
    OBVIOUS
  <2>4. Changed(x, c) \in Record /\ Changed(x, c).server = "queued"
    BY <1>4, <2>3 DEF Changed, Record
  <2>5. x.server \in Working /\ "queued" \in Working
    BY <2>1 DEF Working
  <2>6. \E r : Steps(q, r)
    BY <1>2, <2>2, <2>3, <2>4, <2>5, GoesOn
  <2>7. queue' \in Seq(Started)
    BY <1>1, <1>2, <1>5, AppendProperties DEF Admit
  <2>8. QED
    BY <1>3, <2>6, <2>7
<1>6. CASE Refuse(q) \/ TeeRefused(q) \/ EngineFails(q)
  <2>1. x.server \in Working /\ WithError(q) /\ queue' = queue
    BY <1>6 DEF Refuse, TeeRefused, EngineFails, ServerAt, Working
  <2>2. QED
    BY <1>1, <1>2, <1>3, <2>1, ErrorSteps
<1>7. ASSUME Acquires(q)
      PROVE  x.server = "queued" /\ queue' \in Seq(Started)
  <2>1. PICK i \in DOMAIN queue : queue' = RemoveAt(queue, i)
    BY <1>7 DEF Acquires
  <2>2. QED
    BY <1>1, <1>7, <2>1, RemoveAtTypes DEF Acquires, ServerAt
<1>8. CASE BeginFails(q)
  <2>1. x.server \in Working /\ WithError(q) /\ queue' \in Seq(Started)
    BY <1>7, <1>8 DEF BeginFails, Working
  <2>2. QED
    BY <1>2, <1>3, <2>1, ErrorSteps
<1>9. CASE Begin(q)
  <2>1. x.server = "queued" /\ queue' \in Seq(Started)
    BY <1>7, <1>9 DEF Begin
  <2>2. PICK file \in Seq(0 .. TotalChunks - 1) :
          file = IF q \in DOMAIN streams THEN streams[q] ELSE <<>>
    BY EmptySeq DEF UploadTypeOK
  <2>3. PICK isTee \in Tee :
          To(q, [server |-> IF isTee THEN "verify" ELSE "engine",
                 file |-> IF q \in DOMAIN streams THEN streams[q] ELSE <<>>])
    BY <1>9 DEF Begin
  <2>10. PICK s \in {"verify", "engine"} :
           s = IF isTee THEN "verify" ELSE "engine"
    OBVIOUS
  <2>4. PICK c : c = [server |-> s, file |-> file]
    OBVIOUS
  <2>5. To(q, c)
    BY <2>2, <2>3, <2>4, <2>10
  <2>6. Changed(x, c) \in Record /\ Changed(x, c).server = s
    BY <1>4, <2>4 DEF Changed, Record
  <2>7. x.server \in Working /\ s \in Working
    BY <2>1 DEF Working
  <2>8. \E r : Steps(q, r)
    BY <1>2, <2>4, <2>5, <2>6, <2>7, GoesOn
  <2>9. QED
    BY <1>3, <2>1, <2>8
<1>10. CASE Verified(q)
  <2>1. x.server \in Working /\ "engine" \in Working /\ queue' = queue
    BY <1>10 DEF Verified, ServerAt, Working
  <2>2. PICK c : c = [server |-> "engine"]
    OBVIOUS
  <2>3. Changed(x, c) \in Record /\ Changed(x, c).server = "engine"
    BY <1>4, <2>2 DEF Changed, Record
  <2>4. To(q, c)
    BY <1>10, <2>2 DEF Verified, Server
  <2>5. \E r : Steps(q, r)
    BY <1>2, <2>1, <2>2, <2>3, <2>4, GoesOn
  <2>6. QED
    BY <1>1, <1>3, <2>1, <2>5
<1>11. CASE SendChunk(q)
  BY <1>1, <1>2, <1>3, <1>11, ChunkSteps DEF SendChunk, unserved
<1>12. CASE EngineDone(q)
  <2>1. x.server = "engine" /\ queue' = queue
    BY <1>12 DEF EngineDone, Answers, ServerAt
  <2>2. CASE To(q, [server |-> "saving", wire |-> Sending(q, <<"done">>)])
    BY <1>1, <1>2, <1>3, <2>1, <2>2, AnswerSteps
  <2>3. CASE To(q, [server |-> "saving", wire |-> Sending(q, <<>>)])
    <3>1. x.wire \in Seq(Frames)
      BY <1>4 DEF Record
    <3>2. Sending(q, <<>>) = x.wire
      BY <3>1, ConcatEmptySeq DEF Sending
    <3>3. PICK c : c = [server |-> "saving", wire |-> x.wire]
      OBVIOUS
    <3>4. Changed(x, c) \in Record /\ Changed(x, c).server = "saving"
      BY <1>4, <3>1, <3>3 DEF Changed, Record
    <3>5. To(q, c) /\ x.server \in Working
      BY <2>1, <2>3, <3>2, <3>3 DEF Working
    <3>6. \E r : Steps(q, r)
      BY <1>2, <3>3, <3>4, <3>5, GoesOn
    <3>7. QED
      BY <1>1, <1>3, <2>1, <3>6
  <2>4. QED
    BY <1>12, <2>2, <2>3 DEF EngineDone
<1>13. CASE EngineError(q)
  <2>1. /\ x.server = "engine" /\ queue' = queue
        /\ To(q, [server |-> "saving",
                  wire |-> Sending(q, <<"engine_error">>)])
    BY <1>13 DEF EngineError, Answers, ServerAt
  <2>2. QED
    BY <1>1, <1>2, <1>3, <2>1, AnswerSteps
<1>14. CASE SaveStats(q)
  <2>1. x.server = "saving" /\ queue' = queue
    BY <1>14 DEF SaveStats, ServerAt
  <2>2. PICK file \in Seq(0 .. TotalChunks - 1), n \in Nat :
          file = <<>> /\ n = 0
    BY EmptySeq
  <2>3. PICK c : c = [server |-> "served", stats |-> n, file |-> file]
    OBVIOUS
  <2>4. PICK r : r = Changed(x, c)
    OBVIOUS
  <2>5. /\ r \in Record /\ r.client = x.client /\ r.server = "served"
        /\ r.wire = x.wire /\ r.sent = x.sent /\ r.got = x.got
    BY <1>4, <2>3, <2>4 DEF Changed, Record
  <2>6. WireFits(x.client, "saving", x.wire, x.sent, x.got)
    BY <1>2, <2>1, RecordFits
  <2>7. WireOK(r)
    BY <2>5, <2>6, SavedFits DEF WireOK
  <2>8. exchange' = [exchange EXCEPT ![q] = r]
    BY <1>14, <2>2, <2>3, <2>4 DEF SaveStats, To, Fresh
  <2>9. QED
    BY <1>1, <1>2, <1>3, <2>1, <2>5, <2>7, <2>8 DEF Steps
<1>15. QED
  BY <1>5, <1>6, <1>8, <1>9, <1>10, <1>11, <1>12, <1>13, <1>14
     DEF Serves, Handles

LEMMA RestartWire ==
  ASSUME ServingTypeOK, WireInv, Restart
  PROVE  WiresOK'
<1>1. PICK kept \in SUBSET Started :
        exchange' = [q \in Started |->
          IF exchange[q].server \in {"none", "served", "failed", "cut"}
          THEN exchange[q]
          ELSE [exchange[q] EXCEPT !.server = "cut",
                  !.wire = IF q \in kept THEN exchange[q].wire ELSE <<>>]]
  BY DEF Restart
<1>2. Started' = Started /\ served' = served /\ queue' = <<>>
  BY <1>1 DEF Started, Restart
<1>3. ASSUME NEW q \in Started
      PROVE  exchange'[q] \in Record /\ WireOK(exchange'[q])
  <2>1. PICK x : x = exchange[q]
    OBVIOUS
  <2>2. /\ x \in Record
        /\ x.client \in {"ready", "reading", "answered", "failed"}
        /\ x.wire \in Seq(Frames) /\ x.sent \in Nat /\ x.got \in Nat
        /\ WireFits(x.client, x.server, x.wire, x.sent, x.got)
    BY <1>3, <2>1, RecordFits
  <2>3. CASE x.server \in {"none", "served", "failed", "cut"}
    BY <1>1, <1>3, <2>1, <2>2, <2>3 DEF WireOK
  <2>4. CASE x.server \notin {"none", "served", "failed", "cut"}
    <3>1. PICK w \in Seq(Frames) : w = IF q \in kept THEN x.wire ELSE <<>>
      BY <2>2, EmptySeq
    <3>2. PICK r : r = [x EXCEPT !.server = "cut", !.wire = w]
      OBVIOUS
    <3>3. /\ r \in Record /\ r.client = x.client /\ r.server = "cut"
          /\ r.wire = w /\ r.sent = x.sent /\ r.got = x.got
      BY <2>2, <3>2 DEF Record
    <3>4. /\ WireFits(x.client, "cut", x.wire, x.sent, x.got)
          /\ WireFits(x.client, "cut", <<>>, x.sent, x.got)
      BY <2>2, <2>4, CutFits
    <3>5. WireOK(r)
      BY <3>1, <3>3, <3>4 DEF WireOK
    <3>6. exchange'[q] = r
      BY <1>1, <1>3, <2>1, <2>4, <3>1, <3>2
    <3>7. QED
      BY <3>3, <3>5, <3>6
  <2>5. QED
    BY <2>3, <2>4
<1>4. <<>> \in Seq(Started)
  BY EmptySeq
<1>5. ServingTypeOK'
  BY <1>2, <1>3, <1>4 DEF ServingTypeOK, Record, Frames
<1>6. WireInv'
  BY <1>2, <1>3 DEF WireInv
<1>7. QED
  BY <1>5, <1>6 DEF WiresOK

LEMMA NextWire ==
  ASSUME TypeOK, WireInv, [Next]_allVars
  PROVE  WiresOK'
<1>1. /\ ServingTypeOK /\ RepoTypeOK /\ UploadTypeOK /\ ended \subseteq Session
  BY DEF TypeOK, RepoTypeOK
<1>2. ASSUME UNCHANGED <<served, queue, exchange>>
      PROVE  WiresOK'
  BY <1>1, <1>2
     DEF WiresOK, ServingTypeOK, WireInv, Started
<1>3. CASE Listens \/ Checks \/ UNCHANGED allVars
  BY <1>2, <1>3 DEF Listens, Checks, allVars
<1>4. ASSUME NEW s \in Session, Requested(s) \/ RequestRefused(s)
                                \/ OnChain(s)
      PROVE  WiresOK'
  BY <1>2, <1>4 DEF Requested, RequestRefused, OnChain
<1>5. ASSUME NEW q \in Prompt, Streams(q)
      PROVE  WiresOK'
  BY <1>2, <1>5 DEF Streams
<1>6. ASSUME NEW q \in Prompt, Prompts(q, Consumes(q))
             \/ Prompts(q, Streams(q)) \/ Prompts(q, Serves(q))
      PROVE  WiresOK'
  BY <1>1, <1>5, <1>6, ConsumesWire, ServesWire DEF Prompts
<1>7. QED
  BY <1>1, <1>3, <1>4, <1>6, RestartWire DEF Next
-----------------------------------------------------------------------------
(* The audio files *)

InOrder(f) == \A i \in 1 .. Len(f) : f[i] = i - 1
Whole == [i \in 1 .. TotalChunks |-> i - 1]

\* A prompt has been sent only after the last chunk; while it is served its
\* stream is whole, and is the file that is read, unless it was removed.
AudioOK(x, pc, q, f) ==
  /\ x.server # "none" => pc = "end"
  /\ x.server \in {"queued", "verify", "engine"} /\ q \in DOMAIN f =>
       Len(f[q]) = TotalChunks
  /\ x.server \in {"verify", "engine"} /\ q \in DOMAIN f => x.file = f[q]
  /\ x.server = "saving" => x.file = Whole

StreamInv ==
  /\ \A q \in DOMAIN streams :
       InOrder(streams[q]) /\ Len(streams[q]) <= TotalChunks
  /\ \A q \in Started : IsAudio(q) =>
       AudioOK(exchange[q], upload[q].pc, q, streams)

LEMMA StreamsIntact == StreamInv => StreamIntact
BY DEF StreamInv, StreamIntact, AudioOK, Whole, Started

\* A complete stream in order is the whole file.
LEMMA WholeInOrder ==
  ASSUME NEW f \in Seq(0 .. TotalChunks - 1), InOrder(f),
         Len(f) = TotalChunks
  PROVE  f = Whole
<1>1. f = [i \in 1 .. Len(f) |-> f[i]]
  BY SeqDef
<1>2. QED
  BY <1>1, ChunksAssumption DEF InOrder, Whole

FewerStreams ==
  /\ DOMAIN streams' \subseteq DOMAIN streams
  /\ \A p \in DOMAIN streams' : streams'[p] = streams[p]

\* Only the prompt q takes a step, and streams are removed at most.
LEMMA OneStepStreams ==
  ASSUME StreamInv, UploadTypeOK, NEW q \in Started, Started' = Started,
         \A p \in Started : p # q => exchange'[p] = exchange[p],
         upload' = upload, FewerStreams,
         IsAudio(q) => AudioOK(exchange'[q], upload[q].pc, q, streams')
  PROVE  StreamInv' /\ UploadTypeOK'
<1>1. UploadTypeOK'
  BY DEF UploadTypeOK, FewerStreams
<1>2. \A p \in DOMAIN streams' :
        InOrder(streams'[p]) /\ Len(streams'[p]) <= TotalChunks
  BY DEF StreamInv, FewerStreams
<1>3. ASSUME NEW p \in Started, IsAudio(p)
      PROVE  AudioOK(exchange'[p], upload[p].pc, p, streams')
  <2>1. CASE p = q
    BY <1>3, <2>1
  <2>2. CASE p # q
    <3>1. AudioOK(exchange[p], upload[p].pc, p, streams)
      BY <1>3 DEF StreamInv
    <3>2. QED
      BY <2>2, <3>1 DEF AudioOK, FewerStreams
  <2>3. QED
    BY <2>1, <2>2
<1>4. QED
  BY <1>1, <1>2, <1>3 DEF StreamInv, IsAudio

LEMMA ToFields ==
  ASSUME NEW q \in Started, exchange[q] \in Record, NEW c, To(q, c)
  PROVE  /\ Started' = Started
         /\ \A p \in Started : p # q => exchange'[p] = exchange[p]
         /\ exchange'[q].server =
              IF "server" \in DOMAIN c THEN c.server ELSE exchange[q].server
         /\ exchange'[q].file =
              IF "file" \in DOMAIN c THEN c.file ELSE exchange[q].file
<1>1. PICK x : x = exchange[q]
  OBVIOUS
<1>2. PICK r : r = Changed(x, c)
  OBVIOUS
<1>3. exchange' = [exchange EXCEPT ![q] = r]
  BY <1>1, <1>2 DEF To
<1>4. {"server", "file"} \subseteq DOMAIN x
  BY <1>1 DEF Record
<1>5. /\ r.server = IF "server" \in DOMAIN c THEN c.server ELSE x.server
      /\ r.file = IF "file" \in DOMAIN c THEN c.file ELSE x.file
  BY <1>2, <1>4 DEF Changed
<1>6. QED
  BY <1>1, <1>3, <1>5 DEF Started

LEMMA ConsumesStreams ==
  ASSUME ServingTypeOK, UploadTypeOK, StreamInv, NEW q \in Prompt,
         Consumes(q)
  PROVE  StreamInv' /\ UploadTypeOK'
<1>1. \A p \in Started : exchange[p] \in Record
  BY ServingTypes
<1>2. UNCHANGED <<upload, streams>>
  BY DEF Consumes, ClientAcquires, Send, SendFails, ReceiveChunk,
         ReceiveLast, ReceiveFails, EndOfStream, Timeout, TimedOut, unserved,
         uploadVars
<1>3. FewerStreams
  BY <1>2 DEF FewerStreams
<1>4. ASSUME NEW s \in Session, ClientAcquires(q, s)
      PROVE  StreamInv' /\ UploadTypeOK'
  <2>1. /\ Started' = Started \union {q} /\ q \notin Started
        /\ exchange'[q] = Exchange(s)
        /\ \A p \in Started : exchange'[p] = exchange[p]
    BY <1>4 DEF ClientAcquires, Put, Started
  <2>2. AudioOK(exchange'[q], upload[q].pc, q, streams)
    BY <2>1 DEF Exchange, AudioOK
  <2>3. UploadTypeOK'
    BY <1>2 DEF UploadTypeOK
  <2>4. QED
    BY <1>2, <2>1, <2>2, <2>3 DEF StreamInv, IsAudio
<1>5. ASSUME q \in Started, NEW c, To(q, c),
             "file" \notin DOMAIN c, "server" \notin DOMAIN c
      PROVE  StreamInv' /\ UploadTypeOK'
  <2>1. /\ Started' = Started
        /\ \A p \in Started : p # q => exchange'[p] = exchange[p]
        /\ exchange'[q].server = exchange[q].server
        /\ exchange'[q].file = exchange[q].file
    BY <1>1, <1>5, ToFields
  <2>2. IsAudio(q) => AudioOK(exchange'[q], upload[q].pc, q, streams')
    BY <1>2, <1>5, <2>1 DEF StreamInv, AudioOK
  <2>3. QED
    BY <1>2, <1>3, <1>5, <2>1, <2>2, OneStepStreams
<1>6. CASE Send(q)
  <2>1. PICK c : c = [client |-> "reading", server |-> "request",
                      late |-> Of(q) \in ended]
    OBVIOUS
  <2>2. q \in Started /\ To(q, c) /\ (IsAudio(q) => upload[q].pc = "end")
    BY <1>6, <2>1 DEF Send, ClientAt
  <2>3. /\ Started' = Started
        /\ \A p \in Started : p # q => exchange'[p] = exchange[p]
        /\ exchange'[q].server = "request"
    BY <1>1, <2>1, <2>2, ToFields
  <2>4. IsAudio(q) => AudioOK(exchange'[q], upload[q].pc, q, streams')
    BY <2>2, <2>3 DEF AudioOK
  <2>5. QED
    BY <1>2, <1>3, <2>2, <2>3, <2>4, OneStepStreams
<1>7. CASE SendFails(q) \/ ReceiveFails(q) \/ TimedOut(q) \/ ReceiveLast(q)
           \/ EndOfStream(q)
  <2>1. q \in Started /\ \E pc : To(q, Ends(pc))
    BY <1>7
       DEF SendFails, ReceiveFails, TimedOut, ReceiveLast, EndOfStream,
           Arrived, ClientAt
  <2>2. QED
    BY <1>5, <2>1 DEF Ends
<1>8. CASE ReceiveChunk(q)
  <2>1. PICK c : c = [got |-> exchange[q].got + 1,
                      wire |-> Tail(exchange[q].wire)]
    OBVIOUS
  <2>2. q \in Started /\ To(q, c)
    BY <1>8, <2>1 DEF ReceiveChunk, Arrived, ClientAt
  <2>3. QED
    BY <1>5, <2>1, <2>2
<1>9. CASE Timeout(q)
  <2>1. PICK v : v = IF exchange[q].wire = <<>> THEN <<>>
                     ELSE <<"torn">> \o Tail(exchange[q].wire)
    OBVIOUS
  <2>2. PICK c : c = [retries |-> exchange[q].retries + 1, wire |-> v]
    OBVIOUS
  <2>3. q \in Started /\ To(q, c)
    BY <1>9, <2>1, <2>2 DEF Timeout, ClientAt
  <2>4. QED
    BY <1>5, <2>2, <2>3
<1>10. QED
  BY <1>4, <1>6, <1>7, <1>8, <1>9 DEF Consumes

LEMMA UploadsStreams ==
  ASSUME UploadTypeOK, StreamInv, NEW q \in Started, IsAudio(q),
         UNCHANGED exchange,
         UploadFails(q) \/ LastChunkSent(q) \/ StreamStart(q)
           \/ StreamChunk(q)
  PROVE  StreamInv' /\ UploadTypeOK'
<1>1. /\ q \in DOMAIN upload
      /\ upload[q] \in [pc : {"start", "chunks", "end", "failed"},
                        next : 0 .. TotalChunks]
  BY DEF IsAudio, UploadTypeOK
<1>2. upload[q].pc # "end" /\ exchange[q].server = "none"
  BY DEF UploadFails, LastChunkSent, StreamStart, StreamChunk, StreamInv,
         AudioOK
<1>3. /\ DOMAIN upload' = DOMAIN upload
      /\ \A p \in DOMAIN upload : p # q => upload'[p] = upload[p]
  BY DEF UploadFails, LastChunkSent, StreamStart, StreamChunk
<1>4. ASSUME \A p \in DOMAIN streams' : p # q =>
               p \in DOMAIN streams /\ streams'[p] = streams[p],
             q \in DOMAIN streams' =>
               /\ streams'[q] \in Seq(0 .. TotalChunks - 1)
               /\ InOrder(streams'[q]) /\ Len(streams'[q]) <= TotalChunks,
             upload'[q] \in [pc : {"start", "chunks", "end", "failed"},
                             next : 0 .. TotalChunks]
      PROVE  StreamInv' /\ UploadTypeOK'
  <2>1. UploadTypeOK'
    BY <1>1, <1>3, <1>4 DEF UploadTypeOK
  <2>2. \A p \in DOMAIN streams' :
          InOrder(streams'[p]) /\ Len(streams'[p]) <= TotalChunks
    BY <1>4 DEF StreamInv
  <2>3. ASSUME NEW p \in Started, IsAudio(p)
        PROVE  AudioOK(exchange[p], upload'[p].pc, p, streams')
    <3>1. CASE p = q
      BY <1>2, <3>1 DEF AudioOK
    <3>2. CASE p # q
      <4>1. AudioOK(exchange[p], upload[p].pc, p, streams)
        BY <2>3 DEF StreamInv
      <4>2. upload'[p] = upload[p]
        BY <1>3, <2>3, <3>2 DEF IsAudio
      <4>3. QED
        BY <1>4, <3>2, <4>1, <4>2 DEF AudioOK
    <3>3. QED
      BY <3>1, <3>2
  <2>4. QED
    BY <1>3, <2>1, <2>2, <2>3 DEF StreamInv, IsAudio, Started
<1>5. ASSUME NEW pc \in {"start", "chunks", "end", "failed"},
             upload' = [upload EXCEPT ![q].pc = pc]
      PROVE  upload'[q] \in [pc : {"start", "chunks", "end", "failed"},
                             next : 0 .. TotalChunks]
  BY <1>1, <1>5
<1>6. CASE UploadFails(q) \/ LastChunkSent(q)
  <2>1. streams' = streams
        /\ \E pc \in {"end", "failed"} : upload' = [upload EXCEPT ![q].pc = pc]
    BY <1>6 DEF UploadFails, LastChunkSent
  <2>2. QED
    BY <1>4, <1>5, <2>1 DEF UploadTypeOK, StreamInv
<1>7. CASE StreamStart(q)
  <2>1. PICK idle \in SUBSET DOMAIN streams :
          streams' = Put(Without2(streams, idle), q, <<>>)
    BY <1>7 DEF StreamStart
  <2>2. /\ \A p \in DOMAIN streams' : p # q =>
             p \in DOMAIN streams /\ streams'[p] = streams[p]
        /\ streams'[q] = <<>>
    BY <2>1 DEF Put, Without2, Restrict
  <2>3. /\ <<>> \in Seq(0 .. TotalChunks - 1) /\ InOrder(<<>>)
        /\ Len(<<>>) <= TotalChunks
    BY EmptySeq, ChunksAssumption DEF InOrder
  <2>4. QED
    BY <1>4, <1>5, <1>7, <2>2, <2>3 DEF StreamStart
<1>8. CASE StreamChunk(q)
  <2>1. /\ q \in DOMAIN streams /\ upload[q].next = Len(streams[q])
        /\ upload[q].next < TotalChunks
        /\ streams' = [streams EXCEPT ![q] =
                         Append(streams[q], upload[q].next)]
    BY <1>8 DEF StreamChunk, ChunksLeft
  <2>2. PICK n \in 0 .. TotalChunks - 1 : n = upload[q].next
    BY <1>1, <2>1, ChunksAssumption
  <2>3. PICK f \in Seq(0 .. TotalChunks - 1) : f = streams[q]
    BY <2>1 DEF UploadTypeOK
  <2>4. PICK g : g = Append(f, n)
    OBVIOUS
  <2>5. /\ g \in Seq(0 .. TotalChunks - 1) /\ Len(g) = Len(f) + 1
        /\ \A i \in 1 .. Len(f) : g[i] = f[i]
        /\ g[Len(f) + 1] = n /\ Len(f) \in Nat
    BY <2>4, AppendProperties, LenProperties
  <2>6. InOrder(f) /\ Len(f) = n
    BY <2>1, <2>2, <2>3 DEF StreamInv
  <2>7. InOrder(g)
    <3>1. ASSUME NEW i \in 1 .. Len(g)
          PROVE  g[i] = i - 1
      <4>1. CASE i = Len(f) + 1
        BY <2>5, <2>6, <4>1
      <4>2. CASE i \in 1 .. Len(f)
        BY <2>5, <2>6, <4>2 DEF InOrder
      <4>3. QED
        BY <2>5, <4>1, <4>2
    <3>2. QED
      BY <3>1 DEF InOrder
  <2>8. Len(g) <= TotalChunks
    BY <2>5, <2>6, ChunksAssumption
  <2>9. /\ DOMAIN streams' = DOMAIN streams /\ streams'[q] = g
        /\ \A p \in DOMAIN streams : p # q => streams'[p] = streams[p]
    BY <2>1, <2>2, <2>3, <2>4
  <2>10. upload'[q] \in [pc : {"start", "chunks", "end", "failed"},
                         next : 0 .. TotalChunks]
    <3>1. CASE upload' = [upload EXCEPT ![q].next = upload[q].next + 1]
      <4>1. PICK m \in 0 .. TotalChunks : m = upload[q].next + 1
        BY <2>1, <2>2, ChunksAssumption
      <4>2. upload' = [upload EXCEPT ![q].next = m]
        BY <3>1, <4>1
      <4>3. QED
        BY <1>1, <4>2
    <3>2. CASE upload' = [upload EXCEPT ![q].pc = "failed"]
      BY <1>5, <3>2
    <3>3. QED
      BY <1>8, <3>1, <3>2 DEF StreamChunk
  <2>11. QED
    BY <1>4, <2>5, <2>7, <2>8, <2>9, <2>10
<1>9. QED
  BY <1>6, <1>7, <1>8
LEMMA ServesStreams ==
  ASSUME ServingTypeOK, UploadTypeOK, StreamInv, NEW q \in Prompt,
         Serves(q)
  PROVE  StreamInv' /\ UploadTypeOK'
<1>1. \A p \in Started : exchange[p] \in Record
  BY ServingTypes
<1>2. q \in Started
  BY DEF Serves, Handles, Admit, Refuse, Begin, BeginFails, Acquires,
         SaveStats, Verified, TeeRefused, SendChunk, EngineDone,
         EngineError, EngineFails, Answers, ServerAt
<1>3. IsAudio(q) => AudioOK(exchange[q], upload[q].pc, q, streams)
  BY <1>2 DEF StreamInv
<1>4. ASSUME UNCHANGED <<upload, streams>>
             \/ (RemoveStream(q) /\ UNCHANGED upload)
      PROVE  upload' = upload /\ FewerStreams
  BY <1>4 DEF RemoveStream, Without2, Restrict, FewerStreams
<1>5. ASSUME NEW c, To(q, c), upload' = upload, FewerStreams,
             IsAudio(q) => AudioOK(exchange'[q], upload[q].pc, q, streams')
      PROVE  StreamInv' /\ UploadTypeOK'
  BY <1>1, <1>2, <1>5, ToFields, OneStepStreams
<1>6. ASSUME WithError(q), exchange[q].server # "none",
             upload' = upload, FewerStreams
      PROVE  StreamInv' /\ UploadTypeOK'
  <2>1. PICK c : c = [server |-> "failed", wire |-> Sending(q, <<"error">>)]
    OBVIOUS
  <2>2. To(q, c)
    BY <1>6, <2>1 DEF WithError
  <2>3. exchange'[q].server = "failed"
    BY <1>1, <1>2, <2>1, <2>2, ToFields
  <2>4. IsAudio(q) => AudioOK(exchange'[q], upload[q].pc, q, streams')
    BY <1>3, <1>6, <2>3 DEF AudioOK
  <2>5. QED
    BY <1>5, <1>6, <2>2, <2>4
<1>7. CASE Admit(q)
  <2>1. PICK stats : To(q, [server |-> "queued", stats |-> stats])
    BY <1>7 DEF Admit
  <2>2. PICK c : c = [server |-> "queued", stats |-> stats]
    OBVIOUS
  <2>3. To(q, c) /\ exchange'[q].server = "queued"
    BY <1>1, <1>2, <2>1, <2>2, ToFields
  <2>4. /\ exchange[q].server = "request"
        /\ IsAudio(q) => Len(streams[q]) = TotalChunks
        /\ UNCHANGED <<upload, streams>>
    BY <1>7 DEF Admit, Valid, Complete, ServerAt, uploadVars
  <2>5. IsAudio(q) => AudioOK(exchange'[q], upload[q].pc, q, streams')
    BY <1>3, <2>3, <2>4 DEF AudioOK
  <2>6. QED
    BY <1>4, <1>5, <2>3, <2>4, <2>5
<1>8. CASE Refuse(q) \/ BeginFails(q) \/ TeeRefused(q) \/ EngineFails(q)
  <2>1. /\ WithError(q) /\ exchange[q].server # "none"
        /\ UNCHANGED <<upload, streams>>
             \/ (RemoveStream(q) /\ UNCHANGED upload)
    BY <1>8
       DEF Refuse, BeginFails, TeeRefused, EngineFails, Acquires, ServerAt,
           uploadVars
  <2>2. QED
    BY <1>4, <1>6, <2>1
<1>9. CASE Begin(q)
  <2>1. PICK f : f = IF q \in DOMAIN streams THEN streams[q] ELSE <<>>
    OBVIOUS
  <2>9. PICK isTee \in Tee :
          To(q, [server |-> IF isTee THEN "verify" ELSE "engine",
                 file |-> IF q \in DOMAIN streams THEN streams[q] ELSE <<>>])
    BY <1>9 DEF Begin
  <2>2. PICK s \in {"verify", "engine"} :
          s = IF isTee THEN "verify" ELSE "engine"
    OBVIOUS
  <2>3. PICK c : c = [server |-> s, file |-> f]
    OBVIOUS
  <2>4. To(q, c)
    BY <2>1, <2>2, <2>3, <2>9
  <2>5. exchange'[q].server = s /\ exchange'[q].file = f
    BY <1>1, <1>2, <2>3, <2>4, ToFields
  <2>6. exchange[q].server = "queued" /\ UNCHANGED <<upload, streams>>
    BY <1>9 DEF Begin, Acquires, ServerAt, uploadVars
  <2>7. IsAudio(q) => AudioOK(exchange'[q], upload[q].pc, q, streams')
    BY <1>3, <2>1, <2>2, <2>5, <2>6 DEF AudioOK
  <2>8. QED
    BY <1>4, <1>5, <2>4, <2>6, <2>7
<1>10. CASE Verified(q)
  <2>1. PICK c : c = [server |-> "engine"]
    OBVIOUS
  <2>2. To(q, c) /\ exchange[q].server = "verify"
        /\ UNCHANGED <<upload, streams>>
    BY <1>10, <2>1 DEF Verified, Server, ServerAt, uploadVars
  <2>3. /\ exchange'[q].server = "engine"
        /\ exchange'[q].file = exchange[q].file
    BY <1>1, <1>2, <2>1, <2>2, ToFields
  <2>4. IsAudio(q) => AudioOK(exchange'[q], upload[q].pc, q, streams')
    BY <1>3, <2>2, <2>3 DEF AudioOK
  <2>5. QED
    BY <1>4, <1>5, <2>2, <2>4
<1>11. CASE SendChunk(q)
  <2>1. PICK c : c = [sent |-> exchange[q].sent + 1,
                      wire |-> Sending(q, <<"chunk">>)]
    OBVIOUS
  <2>2. To(q, c) /\ UNCHANGED <<upload, streams>>
    BY <1>11, <2>1 DEF SendChunk, unserved, uploadVars
  <2>3. /\ exchange'[q].server = exchange[q].server
        /\ exchange'[q].file = exchange[q].file
    BY <1>1, <1>2, <2>1, <2>2, ToFields
  <2>4. IsAudio(q) => AudioOK(exchange'[q], upload[q].pc, q, streams')
    BY <1>3, <2>2, <2>3 DEF AudioOK
  <2>5. QED
    BY <1>4, <1>5, <2>2, <2>4
<1>12. CASE EngineDone(q) \/ EngineError(q)
  <2>1. PICK frames : To(q, [server |-> "saving",
                             wire |-> Sending(q, frames)])
    BY <1>12 DEF EngineDone, EngineError
  <2>2. PICK c : c = [server |-> "saving", wire |-> Sending(q, frames)]
    OBVIOUS
  <2>3. /\ exchange[q].server = "engine"
        /\ IsAudio(q) => q \in DOMAIN streams
        /\ UNCHANGED <<upload, streams>>
    BY <1>12 DEF EngineDone, EngineError, Answers, ServerAt, uploadVars
  <2>4. /\ To(q, c) /\ exchange'[q].server = "saving"
        /\ exchange'[q].file = exchange[q].file
    BY <1>1, <1>2, <2>1, <2>2, ToFields
  <2>5. IsAudio(q) => exchange[q].file = Whole
    <3>1. ASSUME IsAudio(q)
          PROVE  exchange[q].file = streams[q] /\ streams[q] = Whole
      <4>1. /\ exchange[q].file = streams[q]
            /\ Len(streams[q]) = TotalChunks /\ q \in DOMAIN streams
        BY <1>3, <2>3, <3>1 DEF AudioOK
      <4>2. /\ streams[q] \in Seq(0 .. TotalChunks - 1)
            /\ InOrder(streams[q])
        BY <4>1 DEF UploadTypeOK, StreamInv
      <4>3. QED
        BY <4>1, <4>2, WholeInOrder
    <3>2. QED
      BY <3>1
  <2>6. IsAudio(q) => AudioOK(exchange'[q], upload[q].pc, q, streams')
    BY <1>3, <2>3, <2>4, <2>5 DEF AudioOK
  <2>7. QED
    BY <1>4, <1>5, <2>3, <2>4, <2>6
<1>13. CASE SaveStats(q)
  <2>1. PICK c : c = [server |-> "served", stats |-> Fresh, file |-> <<>>]
    OBVIOUS
  <2>2. /\ To(q, c) /\ exchange[q].server = "saving"
        /\ RemoveStream(q) /\ UNCHANGED upload
    BY <1>13, <2>1 DEF SaveStats, ServerAt
  <2>3. exchange'[q].server = "served"
    BY <1>1, <1>2, <2>1, <2>2, ToFields
  <2>4. IsAudio(q) => AudioOK(exchange'[q], upload[q].pc, q, streams')
    BY <1>3, <2>2, <2>3 DEF AudioOK
  <2>5. QED
    BY <1>4, <1>5, <2>2, <2>4
<1>14. QED
  BY <1>7, <1>8, <1>9, <1>10, <1>11, <1>12, <1>13 DEF Serves, Handles

LEMMA RestartStreams ==
  ASSUME ServingTypeOK, UploadTypeOK, StreamInv, Restart
  PROVE  StreamInv' /\ UploadTypeOK'
<1>1. /\ upload' = upload
      /\ DOMAIN streams' = {} /\ streams' = <<>>
  <2>1. DOMAIN <<>> = {}
    OBVIOUS
  <2>2. QED
    BY <2>1 DEF Restart
<1>2. Started' = Started
  BY DEF Restart, Started
<1>3. ASSUME NEW q \in Started
      PROVE  \/ exchange'[q] = exchange[q]
                /\ exchange[q].server \notin Working \union {"saving"}
             \/ exchange'[q].server = "cut" /\ exchange[q].server # "none"
  <2>1. exchange[q] \in Record
    BY ServingTypes
  <2>2. PICK w : \/ exchange'[q] = exchange[q]
                    /\ exchange[q].server \in {"none", "served", "failed",
                                               "cut"}
                 \/ /\ exchange[q].server # "none"
                    /\ exchange'[q] = [exchange[q] EXCEPT !.server = "cut",
                                                          !.wire = w]
    BY <1>3 DEF Restart
  <2>3. [exchange[q] EXCEPT !.server = "cut", !.wire = w].server = "cut"
    BY <2>1 DEF Record
  <2>4. QED
    BY <2>2, <2>3 DEF Working
<1>4. ASSUME NEW q \in Started, IsAudio(q)
      PROVE  AudioOK(exchange'[q], upload'[q].pc, q, streams')
  BY <1>1, <1>3, <1>4 DEF StreamInv, AudioOK, Working
<1>5. UploadTypeOK'
  BY <1>1 DEF UploadTypeOK
<1>6. QED
  BY <1>1, <1>2, <1>4, <1>5 DEF StreamInv, IsAudio

LEMMA NextStreams ==
  ASSUME TypeOK, StreamInv, [Next]_allVars
  PROVE  StreamInv' /\ UploadTypeOK'
<1>1. ServingTypeOK /\ UploadTypeOK
  BY DEF TypeOK
<1>2. ASSUME UNCHANGED <<exchange, upload, streams>>
      PROVE  StreamInv' /\ UploadTypeOK'
  BY <1>1, <1>2 DEF StreamInv, UploadTypeOK, Started, IsAudio
<1>3. CASE Listens \/ Checks \/ UNCHANGED allVars
  BY <1>2, <1>3 DEF Listens, Checks, allVars, uploadVars
<1>4. ASSUME NEW s \in Session, Requested(s) \/ RequestRefused(s)
                                \/ OnChain(s)
      PROVE  StreamInv' /\ UploadTypeOK'
  BY <1>2, <1>4 DEF Requested, RequestRefused, OnChain, uploadVars
<1>5. ASSUME NEW q \in Prompt, Streams(q)
      PROVE  StreamInv' /\ UploadTypeOK'
  BY <1>1, <1>5, UploadsStreams DEF Streams
<1>6. ASSUME NEW q \in Prompt, Prompts(q, Consumes(q))
             \/ Prompts(q, Streams(q)) \/ Prompts(q, Serves(q))
      PROVE  StreamInv' /\ UploadTypeOK'
  BY <1>1, <1>5, <1>6, ConsumesStreams, ServesStreams DEF Prompts
<1>7. QED
  BY <1>1, <1>3, <1>4, <1>6, RestartStreams DEF Next
-----------------------------------------------------------------------------
(* The node *)

NodeInv ==
  /\ TypeOK
  /\ WireInv /\ StreamInv
  /\ HealthInv /\ SessionErrorsReal
  /\ SlotsInv

Loads ==
  [served : Model, running : SUBSET Session, asked : SUBSET Session,
   prompts : SUBSET Prompt, queued : SUBSET Prompt, audio : SUBSET Prompt,
   policies : SUBSET {"simple", "idle_timeout"}, tracked : BOOLEAN,
   offers : SUBSET Model, sweeps : Nat, restarts : Nat, quiet : BOOLEAN]

LEMMA LoadTypes ==
  ASSUME NEW w \in Workloads
  PROVE  /\ w \in Loads
         /\ "simple" \in w.policies /\ Slots > 0 =>
              Cardinality(w.running) <= Slots
         /\ w.queued # {} => w.running # {}
         /\ IsFiniteSet(w.queued) /\ w.queued \intersect w.audio = {}
BY WorkloadAssumption DEF Loads

LEMMA InitSessions ==
  ASSUME Init
  PROVE  RepoTypeOK /\ CapacityTypeOK /\ SlotsInv
<1>1. PICK w \in Workloads : w = workload
  BY DEF Init
<1>2. w \in Loads
  BY LoadTypes
<1>3. /\ w.running \subseteq Session /\ IsFiniteSet(w.running)
      /\ w.policies \subseteq {"simple", "idle_timeout"}
  BY <1>2, SessionAssumption, FS_Subset DEF Loads
<1>4. opened \in Seq(Session)
  <2>1. opened = SetToSeq(w.running)
    BY <1>1 DEF Init
  <2>2. opened \in Seq(w.running)
    BY <1>3, <2>1, SetToSeqLists
  <2>3. QED
    BY <1>3, <2>2, SeqMonotonic
<1>5. /\ chain = [s \in Session |->
           IF s \in w.running THEN "open" ELSE "none"]
      /\ cache = [s \in w.running |-> Fresh] /\ ended = {}
      /\ events = <<>> /\ approved = w.running /\ users = w.running
      /\ policy \in w.policies
      /\ activity = [s \in Session |-> 0] /\ blind = FALSE
  BY <1>1 DEF Init, CapacityInit
<1>6. RepoTypeOK
  <2>1. events \in Seq({"opened", "closed"} \X Session)
    BY <1>5, EmptySeq
  <2>2. QED
    BY <1>3, <1>4, <1>5, <2>1 DEF RepoTypeOK, Fresh
<1>7. CapacityTypeOK
  <2>1. blind \in BOOLEAN
    BY <1>5
  <2>2. activity \in [Session -> Nat]
    BY <1>5
  <2>3. QED
    BY <1>3, <1>5, <2>1, <2>2 DEF CapacityTypeOK
<1>8. SlotsInv
  <2>1. Claims = w.running
    BY <1>3, <1>5 DEF Claims, Running
  <2>2. policy = "simple" /\ Slots > 0 => Cardinality(w.running) <= Slots
    BY <1>5, LoadTypes
  <2>3. QED
    BY <2>1, <2>2 DEF SlotsInv
<1>9. QED
  BY <1>6, <1>7, <1>8

LEMMA InitHealth == Init => HealthOK /\ served \in Model
<1> SUFFICES ASSUME Init
             PROVE  HealthOK /\ served \in Model
  OBVIOUS
<1>1. PICK w \in Workloads : w = workload
  BY DEF Init
<1>2. w \in Loads
  BY LoadTypes
<1>3. served \in Model
  BY <1>1, <1>2 DEF Init, Loads
<1>4. VerifierTypeOK
  BY DEF Init, HealthInit, VerifierTypeOK
<1>5. DOMAIN <<>> = {} /\ <<>> \in Seq(BOOLEAN)
  BY EmptySeq
<1>6. /\ DOMAIN reports = {} /\ DOMAIN failures = {} /\ swept \in BOOLEAN
      /\ failed \in Seq(BOOLEAN)
  BY <1>5 DEF Init, HealthInit
<1>7. sweep \in Sweeps
  <2>1. Waiting \in Sweeps
    BY DEF Waiting, Sweeps
  <2>2. Off \in Sweeps
    BY <2>1 DEF Off, Sweeps
  <2>3. QED
    BY <2>1, <2>2 DEF Init
<1>8. HealthTypeOK
  BY <1>4, <1>6, <1>7 DEF HealthTypeOK, Sweeps
<1>9. HealthInv /\ SessionErrorsReal
  BY <1>6 DEF HealthInv, SessionErrorsReal
<1>10. QED
  BY <1>3, <1>8, <1>9 DEF HealthOK

LEMMA InitServing ==
  ASSUME Init
  PROVE  WiresOK /\ UploadTypeOK /\ StreamInv
<1>1. PICK w \in Workloads : w = workload
  BY DEF Init
<1>2. w \in Loads
  BY LoadTypes
<1>3. /\ w.queued \subseteq Prompt /\ w.running \subseteq Session
      /\ IsFiniteSet(w.queued) /\ w.queued \intersect w.audio = {}
      /\ w.queued # {} => w.running # {}
  BY <1>2, LoadTypes DEF Loads
<1> DEFINE s == CHOOSE t \in workload.running : TRUE
<1>4. w.queued # {} => s \in Session
  BY <1>1, <1>3
<1>5. exchange = [q \in w.queued |->
        [Exchange(s) EXCEPT !.client = "failed", !.server = "queued"]]
  <2>1. exchange = [q \in workload.queued |->
          [Exchange(s) EXCEPT !.client = "failed", !.server = "queued"]]
    BY DEF Init
  <2> HIDE DEF s
  <2>2. QED
    BY <1>1, <2>1
<1> HIDE DEF s
<1>6. /\ upload = [q \in w.audio |-> NoUpload]
      /\ DOMAIN streams = {} /\ queue = SetToSeq(w.queued)
  <2>1. DOMAIN <<>> = {}
    OBVIOUS
  <2>2. QED
    BY <1>1, <2>1 DEF Init, UploadInit
<1>8. ASSUME s \in Session, NEW r,
             r = [Exchange(s) EXCEPT !.client = "failed",
                                     !.server = "queued"]
      PROVE  r \in Record /\ WireOK(r)
  <2>1. /\ 0 \in 0 .. MaxChunks /\ 0 \in 0 .. MaxRetries
        /\ <<>> \in Seq(Frames) /\ <<>> \in Seq(0 .. TotalChunks - 1)
    BY EmptySeq, ServingAssumption
  <2>2. PICK zero \in 0 .. MaxChunks, naught \in 0 .. MaxRetries,
             v \in Seq(Frames), f \in Seq(0 .. TotalChunks - 1),
             n \in Nat :
          zero = 0 /\ naught = 0 /\ v = <<>> /\ f = <<>> /\ n = 0
    BY <2>1
  <2>3. PICK no \in BOOLEAN : no = FALSE
    OBVIOUS
  <2>4. r = [session |-> s, client |-> "failed", server |-> "queued",
             late |-> no, wire |-> v, sent |-> zero, got |-> zero,
             retries |-> naught, stats |-> n, file |-> f]
    BY <1>8, <2>2, <2>3 DEF Exchange, Fresh
  <2>5. r \in Record
    BY <1>8, <2>4 DEF Record
  <2>6. QED
    BY <2>4, <2>5 DEF WireOK, WireFits
<1>9. Started = w.queued
      /\ \A q \in Started : exchange[q] \in Record /\ WireOK(exchange[q])
  BY <1>4, <1>5, <1>8 DEF Started
<1>10. queue \in Seq(Started)
  BY <1>3, <1>6, <1>9, SetToSeqLists
<1>11. ServingTypeOK
  BY <1>3, <1>9, <1>10, InitHealth, ServingTypes
<1>12. UploadTypeOK
  <2>1. PICK zero \in 0 .. TotalChunks : zero = 0
    BY ChunksAssumption
  <2>2. NoUpload = [pc |-> "start", next |-> zero]
    BY <2>1 DEF NoUpload
  <2>3. QED
    BY <1>6, <2>2 DEF UploadTypeOK
<1>13. StreamInv
  BY <1>3, <1>6, <1>9 DEF StreamInv, IsAudio
<1>14. QED
  BY <1>9, <1>11, <1>12, <1>13 DEF WiresOK, WireInv

LEMMA InitNode == Init => NodeInv
<1> SUFFICES ASSUME Init
             PROVE  NodeInv
  OBVIOUS
<1>1. workload \in Workloads /\ {sweepsLeft, restarts} \subseteq Nat
  <2>1. PICK w \in Workloads : w = workload
    BY DEF Init
  <2>2. w \in Loads
    BY LoadTypes
  <2>3. QED
    BY <2>1, <2>2 DEF Init, Loads
<1>2. QED
  BY <1>1, InitSessions, InitHealth, InitServing
     DEF NodeInv, TypeOK, HealthOK, WiresOK

LEMMA NextBounds ==
  ASSUME TypeOK, [Next]_allVars
  PROVE  workload' \in Workloads /\ {sweepsLeft, restarts}' \subseteq Nat
<1>1. workload \in Workloads /\ sweepsLeft \in Nat /\ restarts \in Nat
  BY DEF TypeOK
<1>2. ASSUME UNCHANGED bounds
      PROVE  workload' \in Workloads /\ {sweepsLeft, restarts}' \subseteq Nat
  BY <1>1, <1>2 DEF bounds
<1>3. CASE Checks \/ Restart
  <2>1. workload' = workload /\ sweepsLeft' \in Nat /\ restarts' \in Nat
    <3>1. CASE Checks
      <4>1. \/ sweepsLeft > 0 /\ sweepsLeft' = sweepsLeft - 1
            \/ sweepsLeft' = sweepsLeft
        BY <3>1 DEF Checks
      <4>2. QED
        BY <1>1, <3>1, <4>1 DEF Checks
    <3>2. CASE Restart
      <4>1. /\ restarts > 0 /\ restarts' = restarts - 1
            /\ UNCHANGED <<workload, sweepsLeft>>
        BY <3>2 DEF Restart
      <4>2. QED
        BY <1>1, <4>1
    <3>3. QED
      BY <1>3, <3>1, <3>2
  <2>2. QED
    BY <1>1, <2>1
<1>4. CASE Listens \/ UNCHANGED allVars
  BY <1>2, <1>4 DEF Listens, allVars
<1>5. ASSUME NEW s \in Session, Requested(s) \/ RequestRefused(s)
                                \/ OnChain(s)
      PROVE  UNCHANGED bounds
  BY <1>5 DEF Requested, RequestRefused, OnChain
<1>6. ASSUME NEW q \in Prompt, Prompts(q, Consumes(q))
             \/ Prompts(q, Streams(q)) \/ Prompts(q, Serves(q))
      PROVE  UNCHANGED bounds
  BY <1>6 DEF Prompts
<1>7. QED
  BY <1>2, <1>3, <1>4, <1>5, <1>6 DEF Next

LEMMA NextNode == NodeInv /\ [Next]_allVars => NodeInv'
<1> SUFFICES ASSUME NodeInv, [Next]_allVars
             PROVE  NodeInv'
  OBVIOUS
<1>1. /\ TypeOK /\ WireInv /\ StreamInv /\ HealthInv /\ SessionErrorsReal
      /\ SlotsInv
  BY DEF NodeInv
<1>2. TypeOK'
  BY <1>1, NextSessionTypes, NextHealthOK, NextStreams, NextWire, NextBounds
     DEF TypeOK, HealthOK, WiresOK
<1>3. QED
  BY <1>1, <1>2, NextSlots, NextHealthOK, NextStreams, NextWire
     DEF NodeInv, HealthOK, WiresOK

\* What the node and its consumers know of each other, of the streams, the
\* streaks and the slots is consistent after every step, restarts included.
THEOREM NodeInvariant == Spec => []NodeInv
<1>1. Init => NodeInv
  BY InitNode
<1>2. NodeInv /\ [Next]_allVars => NodeInv'
  BY NextNode
<1>3. QED
  BY <1>1, <1>2, PTL DEF Spec

\* The variables keep their types: the consumer reads no more chunks than
\* the backend may send, and the queue has only prompts that have begun.
THEOREM NodeTypes == Spec => []TypeOK
<1>1. NodeInv => TypeOK
  BY DEF NodeInv
<1>2. QED
  BY <1>1, NodeInvariant, PTL

\* An answer that the consumer takes for complete was served to its end, with
\* every chunk of it, unless the provider stopped: sendPromptV2 with its
\* retries, and the frames of the provider's handlers.
THEOREM AnswersServed == Spec => []AnswerMeansServed
<1>1. NodeInv => AnswerMeansServed
  BY DEF NodeInv, WireInv, WireOK, WireFits, AnswerMeansServed
<1>2. QED
  BY <1>1, NodeInvariant, PTL

\* The file that the backend transcribes is the file of the consumer, with
\* failed chunks, idle streams and restarts between its connections.
THEOREM StreamsWhole == Spec => []StreamIntact
<1>1. NodeInv => StreamIntact
  BY StreamsIntact DEF NodeInv
<1>2. QED
  BY <1>1, NodeInvariant, PTL

\* A report of session errors is of a streak that there was, whatever sweeps
\* and probes the prompts' results fall between.
THEOREM ErrorsReal == Spec => []SessionErrorsReal
<1>1. NodeInv => SessionErrorsReal
  BY DEF NodeInv
<1>2. QED
  BY <1>1, NodeInvariant, PTL

\* The simple policy keeps the running sessions to the slots, as long as each
\* approval is given in sight of the earlier ones.
THEOREM SlotsKept == Spec => []SlotsRespected
<1>1. NodeInv => SlotsRespected
  <2> SUFFICES ASSUME NodeInv, policy = "simple", Slots > 0, ~blind
               PROVE  Cardinality(Running) <= Slots
    BY DEF SlotsRespected
  <2>1. approved \subseteq Session
    BY DEF NodeInv, TypeOK, CapacityTypeOK
  <2>2. Cardinality(Claims) <= Slots
    BY DEF NodeInv, SlotsInv
  <2>3. QED
    BY <2>1, <2>2, ClaimsFinite, SlotsAssumption
<1>2. QED
  BY <1>1, NodeInvariant, PTL
=============================================================================
