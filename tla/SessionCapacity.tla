-------------------------- MODULE SessionCapacity --------------------------
(***************************************************************************)
(* How the provider fills the slots of a model: a request for a session is *)
(* approved while there is capacity, and the consumer opens the session    *)
(* with the approval when it likes.  The model's slots are the node's      *)
(* concurrentSlots; a session is named for the request.                    *)
(***************************************************************************)
EXTENDS SessionRepo, FiniteSetsExt

CONSTANT Slots          \* concurrentSlots; 0 is unlimited

ASSUME SlotsAssumption == Slots \in Nat

VARIABLES
  policy,               \* capacityPolicy
  approved,             \* the sessions that were approved
  users,                \* SessionStorage: the sessions whose user is stored
  activity,             \* the prompts that each session finished in the last
                        \* 15 minutes, two of one second being one
  blind                 \* history: an approval was given while an earlier
                        \* session had yet to open or to be seen

capacityVars == <<policy, approved, users, activity, blind>>

CapacityInit ==
  /\ activity = [s \in Session |-> 0]
  /\ blind = FALSE

Active == {s \in DOMAIN cache : s \notin ended}

\* HasCapacity of the two policies: the cached sessions that have not ended,
\* or the recent activities of those.
Occupied ==
  IF policy = "simple" THEN Cardinality(Active)
  ELSE MapThenSumSet(LAMBDA s : activity[s], Active)

UpToSlots(n) == Slots = 0 \/ n <= Slots                 \* mutant
Fits(n) == Slots = 0 \/ n < Slots

HasCapacity == Fits(Occupied)

Running == {s \in Session : chain[s] = "open" /\ s \notin ended}

\* Approvals that the node's capacity does not show.
Unseen == {s \in approved : chain[s] = "none"} \union (Running \ DOMAIN cache)

\* SessionRequest: nothing is reserved for the approval.
SessionRequest(s) ==
  /\ s \notin approved
  /\ HasCapacity
  /\ approved' = approved \union {s}
  /\ users' = users \union {s}
  /\ blind' = (blind \/ Unseen # {})
  /\ UNCHANGED <<repoVars, policy, activity>>

\* The consumer opens the session, or closes it.
ConsumerOpens(s) ==
  /\ s \in approved
  /\ chain[s] = "none"
  /\ OpensOnChain(s)
  /\ UNCHANGED <<ended, cache, capacityVars>>

ConsumerCloses(s) ==
  /\ ClosesOnChain(s)
  /\ UNCHANGED <<ended, cache, capacityVars>>

\* recordActivity: the key is the second and the session.
RecordActivity(s) ==
  /\ \/ activity' = [activity EXCEPT ![s] = @ + 1]
     \/ activity[s] > 0 /\ UNCHANGED activity
  /\ UNCHANGED <<policy, approved, users, blind>>

\* An activity is more than 15 minutes old.
ActivityAges(s) ==
  /\ activity[s] > 0
  /\ activity' = [activity EXCEPT ![s] = @ - 1]
  /\ UNCHANGED <<repoVars, policy, approved, users, blind>>

CapacityTypeOK ==
  /\ policy \in {"simple", "idle_timeout"}
  /\ approved \subseteq Session /\ users \subseteq Session
  /\ activity \in [Session -> Nat]
  /\ blind \in BOOLEAN
=============================================================================
