------------------------- MODULE ConsumerNodeProofs -------------------------
(***************************************************************************)
(* For any number of sessions, providers, prompts and restarts: a request  *)
(* pays for one session at most, an agent's allowance is exact but for the *)
(* races that raced names, the preferred health policy starves no open,    *)
(* and the node keeps every open session in sight, but for the failed      *)
(* reads and skipped events that dropped names and for a rehydration that  *)
(* ends early, which missed names.                                         *)
(*                                                                         *)
(* There are two inductive invariants: OpeningInv of the requests and the  *)
(* allowance, and NodeInv of the cache, the events, the expiry handler     *)
(* and the diamond's list, with the types.                                 *)
(***************************************************************************)
EXTENDS ConsumerNode, SumTheorems, SequenceTheorems

Unpaid == {"idle", "try", "check", "open"}
Owing == {"read", "take"}

\* A request has paid once it is past its transaction, and only an agent's
\* goes on to take the stake off an allowance.
RequestOK(r) ==
  /\ DOMAIN r = {"pc", "by", "todo", "read", "stats", "paid"}
  /\ r.paid \in {0, 1} /\ r.read \in Int
  /\ r.pc \in Unpaid => r.paid = 0
  /\ r.pc \in Owing => r.by = "agent"

Requests ==
  /\ DOMAIN call = Session
  /\ \A s \in Session : RequestOK(call[s])

Amounts ==
  /\ Allowed(allowances) \in Int /\ due \in Int
  /\ request \in Int
  /\ \A copy \in confirming : Allowed(copy) \in Int
  /\ raced \in BOOLEAN

OpeningInv == Requests /\ Amounts /\ AllowanceExact

\* The sessions whose stake is spent and not yet taken off.
Owes(r) == r.by = "agent" /\ r.pc \in Owing
OwedOf(calls) == {s \in Session : Owes(calls[s])}
-----------------------------------------------------------------------------
LEMMA OwedValue ==
  /\ Owed = Cardinality(OwedOf(call))
  /\ Owed' = Cardinality(OwedOf(call'))
BY DEF Owed, OwedOf, Owes, Owing

LEMMA OwedFinite ==
  ASSUME NEW calls
  PROVE  IsFiniteSet(OwedOf(calls)) /\ Cardinality(OwedOf(calls)) \in Nat
<1>1. OwedOf(calls) \subseteq Session
  BY DEF OwedOf
<1> QED
  BY <1>1, SessionAssumption, FS_Subset, FS_CardinalityType

LEMMA OwedNat == Owed \in Nat
BY OwedValue, OwedFinite

\* One request of the calls is replaced.
LEMMA RequestReplaced ==
  ASSUME Requests, NEW s \in Session, NEW r, RequestOK(r),
         call' = [call EXCEPT ![s] = r]
  PROVE  /\ Requests'
         /\ (Owes(r) <=> Owes(call[s])) => Owed' = Owed
         /\ Owes(r) /\ ~Owes(call[s]) => Owed' = Owed + 1
         /\ ~Owes(r) /\ Owes(call[s]) => Owed' = Owed - 1
<1>1. /\ DOMAIN call' = Session
      /\ call'[s] = r
      /\ \A t \in Session \ {s} : call'[t] = call[t]
  BY DEF Requests
<1>2. Requests'
  BY <1>1 DEF Requests
<1>3. ASSUME Owes(r) <=> Owes(call[s])
      PROVE  Owed' = Owed
  <2>1. OwedOf(call') = OwedOf(call)
    BY <1>1, <1>3 DEF OwedOf
  <2> QED
    BY <2>1, OwedValue
<1>4. ASSUME Owes(r), ~Owes(call[s])
      PROVE  Owed' = Owed + 1
  <2>1. OwedOf(call') = OwedOf(call) \union {s} /\ s \notin OwedOf(call)
    BY <1>1, <1>4 DEF OwedOf
  <2> QED
    BY <2>1, OwedValue, OwedFinite, FS_AddElement
<1>5. ASSUME ~Owes(r), Owes(call[s])
      PROVE  Owed' = Owed - 1
  <2>1. OwedOf(call') = OwedOf(call) \ {s} /\ s \in OwedOf(call)
    BY <1>1, <1>5 DEF OwedOf
  <2> QED
    BY <2>1, OwedValue, OwedFinite, FS_RemoveElement
<1> QED
  BY <1>2, <1>3, <1>4, <1>5
-----------------------------------------------------------------------------
\* The providers that a preferred open leaves out are not the only ones that
\* could serve it.
LEMMA PreferredServes ==
  ASSUME NEW attemptable \in SUBSET Provider, NEW pings \in Pings
  PROVE  ~Starves("preferred", attemptable, pings)
<1> DEFINE answering == Answering(attemptable, pings)
           classes == [p \in attemptable |-> ClassOf(pings[p])]
           kept == Kept("preferred", attemptable, pings)
<1> SUFFICES ASSUME answering # {}
             PROVE  kept \intersect answering # {}
  BY DEF Starves
<1>1. answering \subseteq attemptable
  BY DEF Answering
<1>2. CASE Cardinality(attemptable) <= 1
  <2>1. kept = attemptable
    BY <1>2 DEF Kept, PolicyFor
  <2> QED
    BY <1>1, <2>1
<1>3. CASE ~(Cardinality(attemptable) <= 1)
  <2>1. kept = ApplyHealthPolicy("preferred", classes)
    BY <1>3 DEF Kept, PolicyFor
  <2>2. DOMAIN classes = attemptable
    OBVIOUS
  <2>3. CASE \E p \in attemptable : classes[p] \in Serviceable
    <3>1. PICK p \in attemptable : classes[p] \in Serviceable
      BY <2>3
    <3>2. p \in kept
      BY <2>1, <2>2, <3>1 DEF ApplyHealthPolicy
    <3>3. p \in answering
      BY <3>1 DEF Answering, Serviceable
    <3> QED
      BY <3>2, <3>3
  <2>4. CASE ~\E p \in attemptable : classes[p] \in Serviceable
    <3>1. PICK p \in answering : TRUE
      OBVIOUS
    <3>2. p \in attemptable /\ classes[p] \notin {"blocked", "unreachable"}
      BY <3>1 DEF Answering
    <3>3. classes[p] \in Class
      BY <3>2 DEF ClassOf, ClassifyModelHealth, Class
    <3>4. classes[p] = "unknown"
      BY <2>4, <3>2, <3>3 DEF Serviceable, Class
    <3>5. p \in kept
      BY <2>1, <2>2, <2>4, <3>2, <3>4 DEF ApplyHealthPolicy
    <3> QED
      BY <3>1, <3>5
  <2> QED
    BY <2>3, <2>4
<1> QED
  BY <1>2, <1>3

LEMMA NoSelectionStarves ==
  ASSUME NEW chosen \in Selections
  PROVE  chosen.starved = FALSE
<1>1. PICK policy_ \in Policy, attemptable \in SUBSET Provider,
           pings \in Pings :
         chosen = Selection(policy_, attemptable, pings)
  BY DEF Selections
<1>2. policy_ = "preferred" => ~Starves(policy_, attemptable, pings)
  BY PreferredServes
<1> QED
  BY <1>1, <1>2 DEF Selection
-----------------------------------------------------------------------------
(* The record's map of allowances *)

\* What is stored under the key the node reads is what it finds.
LEMMA AllowedPut ==
  ASSUME NEW record, NEW amount
  PROVE  Allowed(Put(record, Key, amount)) = amount
BY DEF Allowed, Put

LEMMA NothingAllowed == Allowed(NoAllowances) = 0
<1>1. DOMAIN NoAllowances = {}
  BY DEF NoAllowances
<1> QED
  BY <1>1 DEF Allowed

\* What is stored under the other spelling is not found.
LEMMA AllowedAsked ==
  ASSUME NEW token, NEW amount
  PROVE  Allowed(Put(NoAllowances, token, amount)) \in {0, amount}
<1>1. DOMAIN NoAllowances = {}
  BY DEF NoAllowances
<1> QED
  BY <1>1 DEF Allowed, Put

\* Setting the allowances anew makes them exact.
LEMMA ResetExact ==
  ASSUME NEW record, Reset(record, Owed), Allowed(record) \in Int,
         Requests', Owed' = Owed, request' \in Int,
         \A copy \in confirming' : Allowed(copy) \in Int
  PROVE  OpeningInv'
<1>1. /\ allowances' = record
      /\ due' = Allowed(record) - Owed
      /\ raced' = FALSE
  BY DEF Reset
<1>2. raced' \in BOOLEAN
  BY <1>1, Zenon
<1>3. Allowed(allowances)' = Allowed(record)
  BY <1>1 DEF Allowed
<1> QED
  BY <1>1, <1>2, <1>3, OwedNat DEF OpeningInv, Amounts, AllowanceExact
-----------------------------------------------------------------------------
LEMMA InitOpeningInv == Init => OpeningInv
<1> SUFFICES ASSUME Init PROVE OpeningInv
  OBVIOUS
<1>1. \A s \in Session : RequestOK(call[s]) /\ ~Owes(call[s])
  BY DEF Init, Idle, AtTransaction, RequestOK, Unpaid, Owing, Owes, Fresh
<1>2. Requests
  BY <1>1 DEF Init, Requests
<1>3. Owed = 0
  <2>1. OwedOf(call) = {}
    BY <1>1 DEF OwedOf
  <2> QED
    BY <2>1, OwedValue, FS_EmptySet
<1>4. /\ request = -1 /\ confirming = {} /\ raced = FALSE
      /\ Allowed(allowances) = due /\ due \in Int
  <2>1. request = -1 /\ confirming = {} /\ raced = FALSE
    BY DEF Init, AllowanceInit, None
  <2>2. CASE workload.granted
    <3>1. allowances = Put(NoAllowances, Key, MaxGrant) /\ due = MaxGrant
      BY <2>2 DEF Init, AllowanceInit
    <3> QED
      BY <2>1, <3>1, AllowedPut, GrantAssumption
  <2>3. CASE ~workload.granted
    <3>1. allowances = NoAllowances /\ due = 0
      BY <2>3 DEF Init, AllowanceInit
    <3> QED
      BY <2>1, <3>1, NothingAllowed
  <2> QED
    BY <2>2, <2>3
<1>5. Amounts
  <2>1. raced \in BOOLEAN
    BY <1>4, Zenon
  <2> QED
    BY <1>4, <2>1 DEF Amounts
<1>6. AllowanceExact
  BY <1>3, <1>4 DEF AllowanceExact
<1> QED
  BY <1>2, <1>5, <1>6 DEF OpeningInv

\* A request goes on, and the allowance stays as it is.
LEMMA RequestGoesOn ==
  ASSUME OpeningInv, NEW s \in Session, NEW r, RequestOK(r),
         Owes(r) <=> Owes(call[s]),
         call' = [call EXCEPT ![s] = r],
         UNCHANGED allowanceVars
  PROVE  OpeningInv'
<1>1. Requests' /\ Owed' = Owed
  BY RequestReplaced DEF OpeningInv
<1> QED
  BY <1>1 DEF OpeningInv, Amounts, AllowanceExact, Allowed, allowanceVars

LEMMA OpenKeepsInv ==
  ASSUME OpeningInv, NEW s \in Session, Open(s)
  PROVE  OpeningInv'
<1> DEFINE old == call[s]
<1>0. RequestOK(old) /\ Requests
  BY DEF OpeningInv, Requests
<1>1. ASSUME NEW by \in {"admin", "agent"}, OpenSessionByModelId(s, by)
      PROVE  OpeningInv'
  <2>1. PICK chosen \in Selections :
          call' = [call EXCEPT ![s] =
            [old EXCEPT !.by = by, !.todo = chosen.todo,
              !.pc = IF chosen.todo = <<>> THEN "failed" ELSE "try"]]
    BY <1>1, <1>0 DEF OpenSessionByModelId, Requests
  <2> DEFINE r == [old EXCEPT !.by = by, !.todo = chosen.todo,
                     !.pc = IF chosen.todo = <<>> THEN "failed" ELSE "try"]
  <2>2. RequestOK(r) /\ ~Owes(r) /\ ~Owes(old)
    BY <1>0, <1>1 DEF OpenSessionByModelId, At, RequestOK, Owes, Owing, Unpaid
  <2>3. call' = [call EXCEPT ![s] = r] /\ UNCHANGED allowanceVars
    BY <1>1, <2>1 DEF OpenSessionByModelId
  <2> HIDE DEF r
  <2> QED
    BY <2>2, <2>3, RequestGoesOn
<1>2. ASSUME Refused(s)
      PROVE  OpeningInv'
  <2>1. RequestOK(TryNext(old)) /\ ~Owes(TryNext(old)) /\ ~Owes(old)
    BY <1>0, <1>2 DEF Refused, At, TryNext, RequestOK, Owes, Owing, Unpaid
  <2>2. call' = [call EXCEPT ![s] = TryNext(old)] /\ UNCHANGED allowanceVars
    BY <1>0, <1>2 DEF Refused, Requests
  <2> QED
    BY <2>1, <2>2, RequestGoesOn
<1>3. ASSUME NEW r, RequestOK(r), r.pc \notin Owing
      PROVE  RequestOK(GiveUp(r)) /\ ~Owes(GiveUp(r))
  BY <1>3 DEF GiveUp, RequestOK, Owes, Owing, Unpaid
<1>4. ASSUME TryFails(s) \/ OpenTxFails(s)
      PROVE  OpeningInv'
  <2>1. RequestOK(GiveUp(old)) /\ ~Owes(GiveUp(old)) /\ ~Owes(old)
    BY <1>0, <1>3, <1>4 DEF TryFails, OpenTxFails, At, Owes, Owing
  <2>2. call' = [call EXCEPT ![s] = GiveUp(old)] /\ UNCHANGED allowanceVars
    BY <1>0, <1>4 DEF TryFails, OpenTxFails, Requests
  <2> QED
    BY <2>1, <2>2, RequestGoesOn
<1>5. ASSUME Initiated(s)
      PROVE  OpeningInv'
  <2> DEFINE r == [old EXCEPT !.pc = "check"]
  <2>1. RequestOK(r) /\ ~Owes(r) /\ ~Owes(old)
    BY <1>0, <1>5 DEF Initiated, At, RequestOK, Owes, Owing, Unpaid
  <2>2. call' = [call EXCEPT ![s] = r]
    BY <1>0, <1>5 DEF Initiated, Goto, Requests
  <2>9. UNCHANGED allowanceVars
    BY <1>5 DEF Initiated
  <2> HIDE DEF r
  <2> QED
    BY <2>1, <2>2, <2>9, <1>0, RequestGoesOn
<1>6. ASSUME CheckAllowance(s)
      PROVE  OpeningInv'
  <2> DEFINE r == IF old.by = "agent" /\ ~IsAllowanceEnough
                  THEN GiveUp(old) ELSE [old EXCEPT !.pc = "open"]
  <2>1. RequestOK(r) /\ ~Owes(r) /\ ~Owes(old)
    BY <1>0, <1>3, <1>6
       DEF CheckAllowance, At, RequestOK, Owes, Owing, Unpaid
  <2>2. call' = [call EXCEPT ![s] = r]
    BY <1>0, <1>6 DEF CheckAllowance, Requests
  <2>9. UNCHANGED allowanceVars
    BY <1>6 DEF CheckAllowance
  <2> HIDE DEF r
  <2> QED
    BY <2>1, <2>2, <2>9, <1>0, RequestGoesOn
<1>7. ASSUME OpenMined(s)
      PROVE  OpeningInv'
  <2> DEFINE r == [old EXCEPT !.pc = "sent", !.paid = @ + 1]
  <2>1. RequestOK(r) /\ ~Owes(r) /\ ~Owes(old)
    BY <1>0, <1>7 DEF OpenMined, At, RequestOK, Owes, Owing, Unpaid
  <2>2. call' = [call EXCEPT ![s] = r]
    BY <1>0, <1>7 DEF OpenMined, Requests
  <2>3. UNCHANGED allowanceVars
    BY <1>7 DEF OpenMined
  <2> HIDE DEF r
  <2> QED
    BY <2>1, <2>2, <2>3, RequestGoesOn
<1>8. ASSUME OpenTxMined(s)
      PROVE  OpeningInv'
  <2> DEFINE r == [old EXCEPT !.pc = IF old.by = "agent" THEN "read"
                                     ELSE "poll"]
  <2>1. RequestOK(r) /\ (Owes(r) <=> old.by = "agent") /\ ~Owes(old)
    BY <1>0, <1>8 DEF OpenTxMined, At, RequestOK, Owes, Owing, Unpaid
  <2>2. call' = [call EXCEPT ![s] = r]
    BY <1>0, <1>8 DEF OpenTxMined, Goto, Requests
  <2>3. /\ Requests'
        /\ Owed' = IF old.by = "agent" THEN Owed + 1 ELSE Owed
    BY <2>1, <2>2, <1>0, RequestReplaced
  <2>4. due' = IF old.by = "agent" THEN due - 1 ELSE due
    BY <1>8 DEF OpenTxMined, Spent
  <2>5. UNCHANGED <<agent, allowances, request, confirming, raced>>
    BY <1>8 DEF OpenTxMined
  <2>6. Allowed(allowances)' = Allowed(allowances)
    BY <2>5 DEF Allowed
  <2> QED
    BY <2>3, <2>4, <2>5, <2>6, OwedNat
       DEF OpeningInv, Amounts, AllowanceExact
<1>9. ASSUME ReadAllowance(s)
      PROVE  OpeningInv'
  <2> DEFINE r == [old EXCEPT !.pc = "take", !.read = Allowed(allowances)]
  <2>1. RequestOK(r) /\ Owes(r) /\ Owes(old)
    BY <1>0, <1>9
       DEF ReadAllowance, At, RequestOK, Owes, Owing, Unpaid, OpeningInv,
           Amounts
  <2>2. call' = [call EXCEPT ![s] = r]
    BY <1>0, <1>9 DEF ReadAllowance, Requests
  <2>9. UNCHANGED allowanceVars
    BY <1>9 DEF ReadAllowance
  <2> HIDE DEF r
  <2> QED
    BY <2>1, <2>2, <2>9, <1>0, RequestGoesOn
<1>10. ASSUME DecreaseAllowance(s)
       PROVE  OpeningInv'
  <2> DEFINE r == [old EXCEPT !.pc = "poll", !.read = 0]
  <2>1. RequestOK(r) /\ ~Owes(r) /\ Owes(old)
    BY <1>0, <1>10 DEF DecreaseAllowance, At, RequestOK, Owes, Owing, Unpaid
  <2>2. call' = [call EXCEPT ![s] = r]
    BY <1>0, <1>10 DEF DecreaseAllowance, Requests
  <2>3. Requests' /\ Owed' = Owed - 1
    BY <2>1, <2>2, <1>0, RequestReplaced
  <2>4. /\ allowances' = Put(allowances, Key, old.read - 1)
        /\ old.read \in Int
        /\ UNCHANGED <<agent, request, confirming, due>>
    BY <1>0, <1>10 DEF DecreaseAllowance, TakeOff, Decreased, RequestOK
  <2>8. Allowed(allowances)' = old.read - 1
    <3>1. Allowed(allowances)' = Allowed(Put(allowances, Key, old.read - 1))
      BY <2>4 DEF Allowed
    <3> QED
      BY <3>1, AllowedPut
  <2>5. /\ raced' \in BOOLEAN
        /\ ~raced' => ~raced /\ old.read = Allowed(allowances)
    BY <1>10, Zenon DEF DecreaseAllowance, TakeOff
  <2>6. Amounts'
    BY <2>4, <2>5, <2>8 DEF OpeningInv, Amounts
  <2>7. AllowanceExact'
    BY <2>3, <2>4, <2>5, <2>8, OwedNat DEF OpeningInv, Amounts, AllowanceExact
  <2> QED
    BY <2>3, <2>6, <2>7 DEF OpeningInv
<1>11. ASSUME DecreaseFails(s)
       PROVE  OpeningInv'
  <2> DEFINE r == [old EXCEPT !.pc = "failed", !.read = 0]
  <2>1. RequestOK(r) /\ ~Owes(r) /\ Owes(old)
    BY <1>0, <1>11 DEF DecreaseFails, At, RequestOK, Owes, Owing, Unpaid
  <2>2. call' = [call EXCEPT ![s] = r]
    BY <1>0, <1>11 DEF DecreaseFails, Requests
  <2>3. Requests' /\ Owed' = Owed - 1
    BY <2>1, <2>2, <1>0, RequestReplaced
  <2>4. /\ due' = due + 1
        /\ UNCHANGED <<agent, allowances, request, confirming, raced>>
    BY <1>11 DEF DecreaseFails, Forgiven
  <2>5. Allowed(allowances)' = Allowed(allowances)
    BY <2>4 DEF Allowed
  <2> QED
    BY <2>3, <2>4, <2>5, OwedNat DEF OpeningInv, Amounts, AllowanceExact
<1>12. ASSUME Visible(s)
       PROVE  OpeningInv'
  <2>1. PICK stats \in Gets(s) :
          call' = [call EXCEPT ![s] = [old EXCEPT !.pc = "save",
                                                  !.stats = stats]]
    BY <1>0, <1>12 DEF Visible, Requests
  <2> DEFINE r == [old EXCEPT !.pc = "save", !.stats = stats]
  <2>2. RequestOK(r) /\ ~Owes(r) /\ ~Owes(old)
    BY <1>0, <1>12 DEF Visible, At, RequestOK, Owes, Owing, Unpaid
  <2>3. call' = [call EXCEPT ![s] = r] /\ UNCHANGED allowanceVars
    BY <1>12, <2>1 DEF Visible
  <2> HIDE DEF r
  <2> QED
    BY <2>2, <2>3, RequestGoesOn
<1>13. ASSUME NotVisible(s)
       PROVE  OpeningInv'
  <2> DEFINE r == [old EXCEPT !.pc = "failed"]
  <2>1. RequestOK(r) /\ ~Owes(r) /\ ~Owes(old)
    BY <1>0, <1>13 DEF NotVisible, At, RequestOK, Owes, Owing, Unpaid
  <2>2. call' = [call EXCEPT ![s] = r] /\ UNCHANGED allowanceVars
    BY <1>0, <1>13 DEF NotVisible, Goto, Requests
  <2> HIDE DEF r
  <2> QED
    BY <2>1, <2>2, RequestGoesOn
<1>14. ASSUME SaveOpened(s)
       PROVE  OpeningInv'
  <2> DEFINE r == [old EXCEPT !.pc = "done", !.stats = Fresh]
  <2>1. RequestOK(r) /\ ~Owes(r) /\ ~Owes(old)
    BY <1>0, <1>14 DEF SaveOpened, At, RequestOK, Owes, Owing, Unpaid
  <2>2. call' = [call EXCEPT ![s] = r] /\ UNCHANGED allowanceVars
    BY <1>0, <1>14 DEF SaveOpened, Requests
  <2> HIDE DEF r
  <2> QED
    BY <2>1, <2>2, RequestGoesOn
<1> QED
  BY <1>1, <1>2, <1>4, <1>5, <1>6, <1>7, <1>8, <1>9, <1>10, <1>11,
     <1>12, <1>13, <1>14 DEF Open

LEMMA AdministersKeepsInv ==
  ASSUME OpeningInv, AllowanceNext(Owed), UNCHANGED openingVars
  PROVE  OpeningInv'
<1>1. Requests' /\ Owed' = Owed
  BY DEF openingVars, OpeningInv, Requests, Owed
<1>0. /\ request \in Int /\ \A copy \in confirming : Allowed(copy) \in Int
      /\ Allowed(allowances) \in Int
  BY DEF OpeningInv, Amounts
<1>2. ASSUME NEW token \in Spellings, NEW amount \in 0 .. MaxGrant,
             RequestAgentUser(token, amount, Owed)
      PROVE  OpeningInv'
  <2>1. PICK record : record = Put(NoAllowances, token, amount)
    OBVIOUS
  <2>2. Reset(record, Owed) /\ UNCHANGED <<request, confirming>>
    BY <1>2, <2>1 DEF RequestAgentUser
  <2>3. Allowed(record) \in Int
    BY <2>1, AllowedAsked, GrantAssumption
  <2> QED
    BY <1>0, <1>1, <2>2, <2>3, ResetExact
<1>8. ASSUME NEW amount \in 0 .. MaxGrant, RequestAllowance(amount)
      PROVE  OpeningInv'
  <2>1. /\ request' = amount
        /\ UNCHANGED <<agent, allowances, due, confirming, raced>>
    BY <1>8 DEF RequestAllowance, Replaced
  <2> QED
    BY <1>1, <2>1, GrantAssumption
       DEF OpeningInv, Amounts, AllowanceExact, Allowed
<1>3. CASE ReadToConfirm
  <2>1. /\ confirming' = {allowances}
        /\ UNCHANGED <<agent, allowances, request, due, raced>>
    BY <1>3 DEF ReadToConfirm
  <2>2. Allowed(allowances)' = Allowed(allowances)
    BY <2>1 DEF Allowed
  <2> QED
    BY <1>0, <1>1, <2>1, <2>2 DEF OpeningInv, Amounts, AllowanceExact
<1>4. CASE WriteConfirmed
  <2>1. PICK read \in confirming : allowances' = read
    BY <1>4 DEF WriteConfirmed
  <2>2. /\ Allowed(allowances)' = Allowed(read)
        /\ confirming' = {}
        /\ UNCHANGED <<request, due>>
    BY <1>4, <2>1 DEF WriteConfirmed, Allowed
  <2>3. /\ raced' \in BOOLEAN
        /\ ~raced' => ~raced /\ confirming = {allowances} /\ agent # "none"
    BY <1>4, Zenon DEF WriteConfirmed
  <2>4. Amounts'
    BY <1>0, <2>1, <2>2, <2>3 DEF OpeningInv, Amounts
  <2>5. AllowanceExact'
    BY <1>1, <2>1, <2>2, <2>3 DEF OpeningInv, AllowanceExact
  <2> QED
    BY <1>1, <2>4, <2>5 DEF OpeningInv
<1>5. CASE DeclineAgentUser(Owed) \/ RemoveAgentUser(Owed)
  <2>1. PICK record : record = NoAllowances
    OBVIOUS
  <2>2. Reset(record, Owed) /\ UNCHANGED <<request, confirming>>
    BY <1>5, <2>1 DEF DeclineAgentUser, RemoveAgentUser
  <2>3. Allowed(record) \in Int
    BY <2>1, NothingAllowed
  <2> QED
    BY <1>0, <1>1, <2>2, <2>3, ResetExact
<1>6. ASSUME NEW amount \in Int, SetAllowance(amount, Owed),
             UNCHANGED <<request, confirming>>
      PROVE  OpeningInv'
  <2>1. PICK record : record = Put(allowances, Key, amount)
    OBVIOUS
  <2>2. Reset(record, Owed)
    <3>1. Key = ToLower("mixed")
      BY DEF Key
    <3> QED
      BY <1>6, <2>1, <3>1 DEF SetAllowance
  <2>3. Allowed(record) \in Int
    BY <2>1, AllowedPut
  <2> QED
    BY <1>0, <1>1, <1>6, <2>2, <2>3, ResetExact
<1>9. CASE ConfirmAllowance(Owed)
  BY <1>0, <1>6, <1>9 DEF ConfirmAllowance
<1>10. CASE RevokeAllowance(Owed)
  BY <1>6, <1>10 DEF RevokeAllowance
<1>7. CASE DeleteRequest \/ DeclineAllowance
  <2>1. /\ request' = -1
        /\ UNCHANGED <<agent, allowances, due, confirming, raced>>
    BY <1>7 DEF DeleteRequest, DeclineAllowance, None
  <2> QED
    BY <1>1, <2>1 DEF OpeningInv, Amounts, AllowanceExact, Allowed
<1> QED
  BY <1>2, <1>3, <1>4, <1>5, <1>7, <1>8, <1>9, <1>10 DEF AllowanceNext

\* A stop ends every request; a transaction in flight may have been mined.
LEMMA StopKeepsInv ==
  ASSUME OpeningInv, Stop
  PROVE  OpeningInv'
<1>1. PICK mined \in SUBSET {s \in Session : At(s, "open")} :
        call' = [s \in Session |->
          Stopped(IF s \in mined THEN [call[s] EXCEPT !.paid = @ + 1]
                  ELSE call[s])]
  BY DEF Stop
<1>2. ASSUME NEW s \in Session
      PROVE  RequestOK(call'[s]) /\ ~Owes(call'[s])
  <2>1. RequestOK(call[s])
    BY DEF OpeningInv, Requests
  <2>2. CASE s \in mined
    <3> DEFINE r == [call[s] EXCEPT !.paid = @ + 1]
    <3>1. call'[s] = [r EXCEPT !.pc = "failed", !.read = 0, !.stats = Fresh]
      BY <1>1, <2>1, <2>2 DEF Stopped, At, RequestOK
    <3> QED
      BY <3>1, <2>1, <2>2 DEF At, RequestOK, Owes, Owing, Unpaid
  <2>3. CASE s \notin mined /\ call[s].pc \in {"idle", "done", "failed"}
    <3>1. call'[s] = call[s]
      BY <1>1, <2>3 DEF Stopped
    <3> QED
      BY <3>1, <2>1, <2>3 DEF Owes, Owing
  <2>4. CASE s \notin mined /\ call[s].pc \notin {"idle", "done", "failed"}
    <3>1. call'[s] = [call[s] EXCEPT !.pc = "failed", !.read = 0,
                                     !.stats = Fresh]
      BY <1>1, <2>4 DEF Stopped
    <3> QED
      BY <3>1, <2>1 DEF RequestOK, Owes, Owing, Unpaid
  <2> QED
    BY <2>2, <2>3, <2>4
<1>3. Requests'
  BY <1>1, <1>2 DEF Requests
<1>4. Owed' = 0
  <2>1. OwedOf(call') = {}
    BY <1>2 DEF OwedOf
  <2> QED
    BY <2>1, OwedValue, FS_EmptySet
<1>5. confirming' = {}
  BY DEF Stop
<1>6. CASE /\ raced' = (raced \/ Owed > 0)
           /\ UNCHANGED <<cache, knows, agent, login, allowances, request,
                         due>>
  <2>1. raced' \in BOOLEAN /\ (~raced' => ~raced /\ ~(Owed > 0))
    BY <1>6, Zenon
  <2>2. UNCHANGED <<agent, allowances, request, due>>
    BY <1>6
  <2>5. Allowed(allowances)' = Allowed(allowances)
    BY <2>2 DEF Allowed
  <2>3. Amounts'
    BY <1>5, <2>1, <2>2, <2>5 DEF OpeningInv, Amounts
  <2>4. AllowanceExact'
    BY <1>4, <2>1, <2>2, <2>5, OwedNat DEF OpeningInv, Amounts, AllowanceExact
  <2> QED
    BY <1>3, <2>3, <2>4 DEF OpeningInv
<1>7. CASE /\ agent' = "none" /\ allowances' = NoAllowances
           /\ request' = None /\ due' = 0 /\ raced' = FALSE
  <2>1. raced' \in BOOLEAN
    BY <1>7, Zenon
  <2>2. Allowed(allowances)' = 0
    <3>1. Allowed(allowances)' = Allowed(NoAllowances)
      BY <1>7 DEF Allowed
    <3> QED
      BY <3>1, NothingAllowed
  <2> QED
    BY <1>3, <1>5, <1>7, <2>1, <2>2
       DEF OpeningInv, Amounts, AllowanceExact, None
<1> QED
  BY <1>6, <1>7 DEF Stop

LEMMA OthersKeepInv ==
  ASSUME OpeningInv, UNCHANGED <<allowanceVars, openingVars>>
  PROVE  OpeningInv'
<1>1. Requests' /\ Owed' = Owed
  BY DEF openingVars, OpeningInv, Requests, Owed
<1> QED
  BY <1>1 DEF allowanceVars, OpeningInv, Amounts, AllowanceExact, Allowed

LEMMA NextKeepsInv ==
  ASSUME OpeningInv, [Next]_allVars
  PROVE  OpeningInv'
<1>1. ASSUME NEW s \in Session, Opens(s)
      PROVE  OpeningInv'
  BY <1>1, OpenKeepsInv DEF Opens
<1>2. CASE Administers
  BY <1>2, AdministersKeepsInv DEF Administers
<1>3. CASE Stop
  BY <1>3, StopKeepsInv
<1>4. ASSUME NEW s \in Session,
             TimePasses(s) \/ ClosesByRequest(s) \/ ClosedElsewhere(s)
      PROVE  OpeningInv'
  BY <1>4, OthersKeepInv
     DEF TimePasses, ClosesByRequest, Handles, ClosedElsewhere
<1>5. ASSUME NEW q \in Prompt, Prompts(q)
      PROVE  OpeningInv'
  BY <1>5, OthersKeepInv DEF Prompts
<1>6. CASE Listens \/ ListensInVain \/ EventSkipped \/ Handles(Closer) \/ Start
  BY <1>6, OthersKeepInv
     DEF Listens, ListensInVain, EventSkipped, Handles, Start
<1>7. CASE UNCHANGED allVars
  BY <1>7, OthersKeepInv DEF allVars
<1> QED
  BY <1>1, <1>2, <1>3, <1>4, <1>5, <1>6, <1>7 DEF Next
-----------------------------------------------------------------------------
\* The inductive invariant of the requests that open sessions and of the
\* agent's record, through every step of the consumer node and its stops.
THEOREM OpeningInvariant == Spec => []OpeningInv
<1>1. Init => OpeningInv
  BY InitOpeningInv
<1>2. OpeningInv /\ [Next]_allVars => OpeningInv'
  BY NextKeepsInv
<1> QED
  BY <1>1, <1>2, PTL DEF Spec

\* A request pays for one session at most, although the loop over the
\* providers goes on after most errors and transactions that failed may have
\* been mined (OpenSessionByModelId, tryOpenSession).
THEOREM OneSessionEach == Spec => []OneSessionPerCall
<1>1. OpeningInv => OneSessionPerCall
  BY DEF OpeningInv, Requests, RequestOK, OneSessionPerCall
<1> QED
  BY <1>1, OpeningInvariant, PTL

\* For any number of requests at once what the agent is allowed, under the
\* lower-case key that all but RequestAgentUser use, is what it was set to
\* last, less the stakes taken off since, unless a handler has written over
\* what changed since it read (IsAllowanceEnough, DecreaseAllowance,
\* ConfirmAgentUser, RequestAgentUser).
THEOREM AllowancesExact == Spec => []AllowanceExact
<1>1. OpeningInv => AllowanceExact
  BY DEF OpeningInv
<1> QED
  BY <1>1, OpeningInvariant, PTL

LEMMA OpenStarvesNobody ==
  ASSUME starved = FALSE, NEW s \in Session, Open(s)
  PROVE  starved' = FALSE
<1>1. ASSUME NEW by \in {"admin", "agent"}, OpenSessionByModelId(s, by)
      PROVE  starved' = FALSE
  <2>1. PICK chosen \in Selections : starved' = (starved \/ chosen.starved)
    BY <1>1 DEF OpenSessionByModelId
  <2>2. chosen.starved = FALSE
    BY NoSelectionStarves
  <2> QED
    BY <2>1, <2>2, Zenon
<1>2. CASE \/ Refused(s) \/ TryFails(s) \/ Initiated(s) \/ CheckAllowance(s)
           \/ OpenMined(s) \/ OpenTxFails(s) \/ OpenTxMined(s)
           \/ ReadAllowance(s) \/ DecreaseAllowance(s) \/ DecreaseFails(s)
           \/ Visible(s) \/ NotVisible(s) \/ SaveOpened(s)
  BY <1>2 DEF Refused, TryFails, Initiated, CheckAllowance, OpenMined,
       OpenTxFails, OpenTxMined, ReadAllowance, DecreaseAllowance,
       DecreaseFails, Visible, NotVisible, SaveOpened
<1> QED
  BY <1>1, <1>2 DEF Open

\* For any number of providers and whatever they report, the preferred policy
\* tries one that would serve whenever there is one (applyHealthPolicy and the
\* exception for a single provider).
THEOREM NoOpenStarves == Spec => []PreferredNeverStarves
<1> DEFINE Served == starved = FALSE
<1>1. Init => Served
  BY DEF Init
<1>2. ASSUME Served, [Next]_allVars
      PROVE  Served'
  <2>1. ASSUME NEW s \in Session, Opens(s)
        PROVE  Served'
    BY <1>2, <2>1, OpenStarvesNobody DEF Opens
  <2>2. CASE Stop
    BY <1>2, <2>2 DEF Stop
  <2>3. CASE UNCHANGED openingVars
    BY <1>2, <2>3 DEF openingVars
  <2> QED
    BY <1>2, <2>1, <2>2, <2>3
       DEF Next, TimePasses, ClosesByRequest, Handles, ClosedElsewhere,
           Prompts, Administers, Listens, ListensInVain, EventSkipped, Start,
           allVars
<1>3. Served => PreferredNeverStarves
  BY DEF PreferredNeverStarves
<1> QED
  BY <1>1, <1>2, <1>3, PTL DEF Spec
-----------------------------------------------------------------------------
(* The providers that an open tries *)

\* best[n] are those kept of the first n bids.
KeepsOf(best, kept, m) ==
  best = [n \in 0 .. m |->
            IF n = 0 THEN <<>>
            ELSE IF Bids[n] \in kept THEN Append(best[n - 1], Bids[n])
                 ELSE best[n - 1]]

LEMMA KeepsExist ==
  ASSUME NEW kept, NEW m \in Nat
  PROVE  \E best : KeepsOf(best, kept, m)
<1> DEFINE Bad == {n \in Nat : ~ \E best : KeepsOf(best, kept, n)}
<1>1. SUFFICES ASSUME Bad # {} PROVE FALSE
  OBVIOUS
<1>2. PICK n \in Bad : \A k \in Bad : n <= k
  <2>1. Bad \subseteq Nat
    OBVIOUS
  <2> HIDE DEF Bad
  <2>2. QED
    BY <1>1, <2>1, LeastNat
<1>3. n # 0
  <2>1. KeepsOf([i \in 0 .. 0 |-> <<>>], kept, 0)
    BY DEF KeepsOf
  <2>2. QED
    BY <2>1
<1>4. n - 1 \in Nat /\ n - 1 \notin Bad
  BY <1>2, <1>3
<1>5. PICK g : KeepsOf(g, kept, n - 1)
  BY <1>4
<1> DEFINE Value(f, i) == IF i = 0 THEN <<>>
                          ELSE IF Bids[i] \in kept
                               THEN Append(f[i - 1], Bids[i])
                               ELSE f[i - 1]
           h == [i \in 0 .. n |-> IF i = n THEN Value(g, n) ELSE g[i]]
<1>6. \A i \in 0 .. n - 1 : g[i] = Value(g, i)
  BY <1>5, <1>4 DEF KeepsOf
<1>7. \A i \in 0 .. n : h[i] = Value(h, i)
  BY <1>3, <1>6
<1>8. h = [i \in 0 .. n |-> Value(h, i)]
  BY <1>7
<1>9. KeepsOf(h, kept, n)
  <2> HIDE DEF h
  <2>1. QED
    BY <1>8 DEF KeepsOf
<1>10. QED
  BY <1>9

LEMMA CandidatesAreProviders ==
  ASSUME NEW policy, NEW attemptable, NEW pings
  PROVE  Candidates(policy, attemptable, pings) \in Seq(Provider)
<1> DEFINE kept == Kept(policy, attemptable, pings)
           m == Len(Bids)
           best == CHOOSE best : KeepsOf(best, kept, m)
<1>1. Candidates(policy, attemptable, pings) = best[m]
  BY DEF Candidates, KeepsOf
<1>2. m \in Nat /\ \A i \in 1 .. m : Bids[i] \in Provider
  BY BidsAssumption
<1>3. KeepsOf(best, kept, m)
  BY <1>2, KeepsExist
<1> HIDE DEF best, kept
<1>4. \A n \in 0 .. m :
        best[n] = IF n = 0 THEN <<>>
                  ELSE IF Bids[n] \in kept THEN Append(best[n - 1], Bids[n])
                       ELSE best[n - 1]
  BY <1>3 DEF KeepsOf
<1> DEFINE Bad == {n \in Nat : n <= m /\ best[n] \notin Seq(Provider)}
<1>5. Bad = {}
  <2>1. SUFFICES ASSUME Bad # {} PROVE FALSE
    OBVIOUS
  <2>2. PICK n \in Bad : \A k \in Bad : n <= k
    <3>1. Bad \subseteq Nat
      OBVIOUS
    <3> HIDE DEF Bad
    <3>2. QED
      BY <2>1, <3>1, LeastNat
  <2>3. n \in 0 .. m /\ best[n] \notin Seq(Provider)
    BY <1>2
  <2>4. n # 0
    <3>1. 0 \in 0 .. m /\ <<>> \in Seq(Provider)
      BY <1>2
    <3>2. best[0] = <<>>
      BY <1>4, <3>1
    <3>3. QED
      BY <2>3, <3>1, <3>2
  <2>5. best[n - 1] \in Seq(Provider)
    <3>1. n - 1 \notin Bad
      BY <2>2, <2>3, <2>4
    <3>2. QED
      BY <1>2, <2>3, <2>4, <3>1
  <2>6. Bids[n] \in Provider
    BY <1>2, <2>3, <2>4
  <2>7. \/ best[n] = Append(best[n - 1], Bids[n])
        \/ best[n] = best[n - 1]
    BY <1>4, <2>3, <2>4
  <2>8. Append(best[n - 1], Bids[n]) \in Seq(Provider)
    <3> HIDE DEF Bad
    <3>1. QED
      BY <2>5, <2>6, AppendProperties
  <2>9. QED
    BY <2>3, <2>5, <2>7, <2>8
<1>6. QED
  BY <1>1, <1>2, <1>5
-----------------------------------------------------------------------------
(* Types *)

LEMMA CacheTypes ==
  ASSUME RepoTypeOK, NEW s \in Session
  PROVE  /\ \A n \in Nat : /\ DOMAIN With(s, n) = DOMAIN cache \union {s}
                           /\ DOMAIN With(s, n) \subseteq Session
                           /\ \A t \in DOMAIN With(s, n) :
                                With(s, n)[t] \in Nat
         /\ DOMAIN Without(s) = DOMAIN cache \ {s}
         /\ DOMAIN Without(s) \subseteq Session
         /\ \A t \in DOMAIN Without(s) : Without(s)[t] \in Nat
         /\ \A stats \in Gets(s) : stats \in Nat
BY DEF RepoTypeOK, With, Without, Put, Drop, Restrict, Gets, Fresh, Cached

\* What the steps do to the chain and to what the node keeps of it.
CacheChanges ==
  /\ \/ cache' = cache
     \/ \E s \in Session : \/ \E n \in Nat : cache' = With(s, n)
                           \/ cache' = Without(s)
  /\ \/ UNCHANGED <<chain, ended, opened, events>>
     \/ /\ events # <<>> /\ events' = Tail(events)
        /\ UNCHANGED <<chain, ended, opened>>

ChainChanges ==
  /\ cache' = cache
  /\ \/ \E s \in Session : OpensOnChain(s) /\ UNCHANGED ended
     \/ \E s \in Session : ClosesOnChain(s) /\ UNCHANGED ended
     \/ \E s \in Session : Expire(s)
     \/ \E s \in Session : /\ chain' = [chain EXCEPT ![s] = "closed"]
                           /\ UNCHANGED <<ended, opened, events>>

LEMMA RepoTypes ==
  ASSUME RepoTypeOK, CacheChanges \/ ChainChanges
  PROVE  RepoTypeOK'
<1> DEFINE E == {"opened", "closed"} \X Session
<1>1. CASE CacheChanges
  <2>1. /\ DOMAIN cache' \subseteq Session
        /\ \A s \in DOMAIN cache' : cache'[s] \in Nat
    BY <1>1, CacheTypes DEF CacheChanges, RepoTypeOK
  <2>2. events' \in Seq(E)
    <3>1. CASE events' = events
      BY <3>1 DEF RepoTypeOK
    <3>2. CASE events # <<>> /\ events' = Tail(events)
      BY <3>2, HeadTailProperties DEF RepoTypeOK
    <3>3. QED
      BY <1>1, <3>1, <3>2 DEF CacheChanges
  <2>3. QED
    BY <1>1, <2>1, <2>2 DEF CacheChanges, RepoTypeOK
<1>2. ASSUME NEW s \in Session, cache' = cache, OpensOnChain(s),
             UNCHANGED ended
      PROVE  RepoTypeOK'
  <2>1. <<"opened", s>> \in E /\ events \in Seq(E) /\ opened \in Seq(Session)
    BY DEF RepoTypeOK
  <2>2. events' \in Seq(E) /\ opened' \in Seq(Session)
    BY <1>2, <2>1, AppendProperties DEF OpensOnChain
  <2>3. QED
    BY <1>2, <2>2 DEF OpensOnChain, RepoTypeOK
<1>3. ASSUME NEW s \in Session, cache' = cache, ClosesOnChain(s),
             UNCHANGED ended
      PROVE  RepoTypeOK'
  <2>1. <<"closed", s>> \in E /\ events \in Seq(E)
    BY DEF RepoTypeOK
  <2>2. events' \in Seq(E)
    BY <1>3, <2>1, AppendProperties DEF ClosesOnChain
  <2>3. QED
    BY <1>3, <2>2 DEF ClosesOnChain, RepoTypeOK
<1>4. ASSUME NEW s \in Session, cache' = cache, Expire(s)
      PROVE  RepoTypeOK'
  BY <1>4 DEF Expire, RepoTypeOK
<1>5. ASSUME NEW s \in Session, cache' = cache,
             chain' = [chain EXCEPT ![s] = "closed"],
             UNCHANGED <<ended, opened, events>>
      PROVE  RepoTypeOK'
  BY <1>5 DEF RepoTypeOK
<1>6. QED
  BY <1>1, <1>2, <1>3, <1>4, <1>5 DEF ChainChanges

CallRecord ==
  [pc : {"idle", "try", "check", "open", "sent", "read", "take", "poll",
         "save", "done", "failed"},
   by : {"admin", "agent"}, todo : Seq(Provider), read : Int,
   stats : Nat, paid : Nat]

Calls ==
  /\ call \in [Session -> CallRecord]
  /\ \A s \in Session : At(s, "try") => call[s].todo # <<>>
  /\ knows \subseteq Provider
  /\ starved \in BOOLEAN

\* A request's record after one of its steps.
LEMMA CallReplaced ==
  ASSUME Calls, NEW s \in Session, NEW r \in CallRecord,
         r.pc = "try" => r.todo # <<>>,
         call' = [call EXCEPT ![s] = r],
         knows' \subseteq Provider, starved' \in BOOLEAN
  PROVE  Calls'
BY DEF Calls, At

LEMMA TryNextTypes ==
  ASSUME NEW r \in CallRecord, r.todo # <<>>
  PROVE  /\ TryNext(r) \in CallRecord
         /\ TryNext(r).pc = "try" => TryNext(r).todo # <<>>
<1> DEFINE rest == Tail(r.todo)
<1>1. r.todo \in Seq(Provider)
  BY DEF CallRecord
<1>2. rest \in Seq(Provider)
  BY <1>1, HeadTailProperties
<1> HIDE DEF rest
<1>3. TryNext(r) = [r EXCEPT !.todo = rest,
                            !.pc = IF rest = <<>> THEN "failed" ELSE "try"]
  BY DEF TryNext, rest
<1>4. QED
  BY <1>2, <1>3 DEF CallRecord

LEMMA GiveUpTypes ==
  ASSUME NEW r \in CallRecord
  PROVE  GiveUp(r) \in CallRecord /\ GiveUp(r).pc = "failed"
<1> DEFINE left == IF r.paid = 0 THEN <<>> ELSE r.todo
<1>1. left \in Seq(Provider)
  <2>1. <<>> \in Seq(Provider) /\ r.todo \in Seq(Provider)
    BY DEF CallRecord
  <2>2. QED
    BY <2>1
<1>2. GiveUp(r) = [r EXCEPT !.pc = "failed", !.todo = left]
  BY DEF GiveUp
<1> HIDE DEF left
<1>3. QED
  BY <1>1, <1>2 DEF CallRecord

LEMMA PutTypes ==
  ASSUME NEW record, AllowancesOK(record), NEW token \in Spellings,
         NEW amount \in Int
  PROVE  AllowancesOK(Put(record, token, amount))
BY DEF AllowancesOK, Put

LEMMA NoneTypes == AllowancesOK(NoAllowances)
<1>1. DOMAIN NoAllowances = {}
  BY DEF NoAllowances
<1>2. QED
  BY <1>1 DEF AllowancesOK

LEMMA AllowedTypes ==
  ASSUME NEW record, AllowancesOK(record)
  PROVE  Allowed(record) \in Int
BY DEF AllowancesOK, Allowed

LEMMA KeySpelled == Key \in Spellings
BY DEF Key, ToLower, Spellings

LEMMA OpenTypes ==
  ASSUME Calls, RepoTypeOK, AllowanceTypeOK, NEW s \in Session, Open(s)
  PROVE  Calls' /\ RepoTypeOK' /\ AllowanceTypeOK'
<1> DEFINE old == call[s]
<1>0. /\ old \in CallRecord
      /\ old.pc = "try" => old.todo # <<>>
      /\ call \in [Session -> CallRecord]
      /\ knows \subseteq Provider /\ starved \in BOOLEAN
  BY DEF Calls, At
<1>1. ASSUME UNCHANGED repoVars
      PROVE  RepoTypeOK'
  BY <1>1 DEF RepoTypeOK, repoVars
<1>2. ASSUME UNCHANGED allowanceVars
      PROVE  AllowanceTypeOK'
  BY <1>2 DEF AllowanceTypeOK, AllowancesOK, allowanceVars
<1>3. ASSUME NEW r \in CallRecord, r.pc # "try",
             call' = [call EXCEPT ![s] = r],
             knows' \subseteq Provider, UNCHANGED starved
      PROVE  Calls'
  BY <1>0, <1>3, CallReplaced
<1>4. ASSUME NEW by \in {"admin", "agent"}, OpenSessionByModelId(s, by)
      PROVE  Calls' /\ RepoTypeOK' /\ AllowanceTypeOK'
  <2>1. PICK chosen \in Selections :
          /\ call' = [call EXCEPT ![s] =
               [old EXCEPT !.by = by, !.todo = chosen.todo,
                 !.pc = IF chosen.todo = <<>> THEN "failed" ELSE "try"]]
          /\ starved' = (starved \/ chosen.starved)
    BY <1>4, <1>0 DEF OpenSessionByModelId
  <2>2. chosen.todo \in Seq(Provider) /\ chosen.starved = FALSE
    <3>1. PICK policy_ \in Policy, attemptable \in SUBSET Provider,
               pings \in Pings :
             chosen = Selection(policy_, attemptable, pings)
      BY DEF Selections
    <3>2. chosen.todo = Candidates(policy_, attemptable, pings)
      BY <3>1 DEF Selection
    <3>3. QED
      BY <3>2, CandidatesAreProviders, NoSelectionStarves
  <2> DEFINE r == [old EXCEPT !.by = by, !.todo = chosen.todo,
                     !.pc = IF chosen.todo = <<>> THEN "failed" ELSE "try"]
  <2>3. r \in CallRecord /\ (r.pc = "try" => r.todo # <<>>)
    BY <1>0, <2>2 DEF CallRecord
  <2>4. starved' = starved
    BY <1>0, <2>1, <2>2, Zenon
  <2>5. knows' \subseteq Provider
    BY <1>0, <1>4 DEF OpenSessionByModelId
  <2>6. call' = [call EXCEPT ![s] = r]
    BY <2>1
  <2> HIDE DEF r
  <2>7. Calls'
    BY <1>0, <2>3, <2>4, <2>5, <2>6, CallReplaced
  <2>8. QED
    BY <1>1, <1>2, <1>4, <2>7 DEF OpenSessionByModelId
<1>5. ASSUME Refused(s)
      PROVE  Calls' /\ RepoTypeOK' /\ AllowanceTypeOK'
  <2>1. /\ TryNext(old) \in CallRecord
        /\ TryNext(old).pc = "try" => TryNext(old).todo # <<>>
    BY <1>0, <1>5, TryNextTypes DEF Refused, At
  <2>2. call' = [call EXCEPT ![s] = TryNext(old)]
    BY <1>0, <1>5 DEF Refused
  <2>3. knows' \subseteq Provider /\ starved' \in BOOLEAN
    BY <1>0, <1>5 DEF Refused
  <2>4. Calls'
    BY <2>1, <2>2, <2>3, CallReplaced
  <2>5. QED
    BY <1>1, <1>2, <1>5, <2>4 DEF Refused
<1>6. ASSUME TryFails(s) \/ OpenTxFails(s)
      PROVE  Calls' /\ RepoTypeOK' /\ AllowanceTypeOK'
  <2>1. GiveUp(old) \in CallRecord /\ GiveUp(old).pc # "try"
    BY <1>0, GiveUpTypes
  <2>2. call' = [call EXCEPT ![s] = GiveUp(old)]
    BY <1>0, <1>6 DEF TryFails, OpenTxFails
  <2>3. knows' \subseteq Provider /\ UNCHANGED starved
    BY <1>0, <1>6 DEF TryFails, OpenTxFails
  <2>4. Calls'
    BY <1>3, <2>1, <2>2, <2>3
  <2>5. QED
    BY <1>1, <1>2, <1>6, <2>4 DEF TryFails, OpenTxFails
<1>7. ASSUME Initiated(s)
      PROVE  Calls' /\ RepoTypeOK' /\ AllowanceTypeOK'
  <2> DEFINE r == [old EXCEPT !.pc = "check"]
  <2>1. r \in CallRecord /\ r.pc # "try"
    BY <1>0 DEF CallRecord
  <2>2. call' = [call EXCEPT ![s] = r]
    BY <1>0, <1>7 DEF Initiated, Goto
  <2>3. ProviderOf(s) \in Provider
    <3>1. old.todo \in Seq(Provider) /\ old.todo # <<>>
      BY <1>0, <1>7 DEF Initiated, At, CallRecord
    <3>2. Head(old.todo) \in Provider
      BY <3>1, HeadTailProperties
    <3>3. QED
      BY <3>2 DEF ProviderOf
  <2>4. knows' \subseteq Provider /\ UNCHANGED starved
    BY <1>0, <1>7, <2>3 DEF Initiated
  <2> HIDE DEF r
  <2>5. Calls'
    BY <1>3, <2>1, <2>2, <2>4
  <2>6. QED
    BY <1>1, <1>2, <1>7, <2>5 DEF Initiated
<1>8. ASSUME CheckAllowance(s)
      PROVE  Calls' /\ RepoTypeOK' /\ AllowanceTypeOK'
  <2> DEFINE next == [old EXCEPT !.pc = "open"]
             r == IF old.by = "agent" /\ ~IsAllowanceEnough
                  THEN GiveUp(old) ELSE next
  <2>1. r \in CallRecord /\ r.pc # "try"
    <3>1. next \in CallRecord /\ next.pc # "try"
      BY <1>0 DEF CallRecord
    <3> HIDE DEF next
    <3>2. QED
      BY <1>0, <3>1, GiveUpTypes
  <2>2. call' = [call EXCEPT ![s] = r]
    BY <1>0, <1>8 DEF CheckAllowance
  <2>3. knows' \subseteq Provider /\ UNCHANGED starved
    BY <1>0, <1>8 DEF CheckAllowance
  <2>4. PICK x : x = r
    OBVIOUS
  <2> HIDE DEF r
  <2>5. Calls'
    BY <1>3, <2>1, <2>2, <2>3, <2>4
  <2>6. QED
    BY <1>1, <1>2, <1>8, <2>5 DEF CheckAllowance
<1>9. ASSUME OpenMined(s)
      PROVE  Calls' /\ RepoTypeOK' /\ AllowanceTypeOK'
  <2> DEFINE n == old.paid + 1
             r == [old EXCEPT !.pc = "sent", !.paid = n]
  <2>1. r \in CallRecord /\ r.pc # "try"
    <3>1. n \in Nat
      BY <1>0 DEF CallRecord
    <3> HIDE DEF n
    <3>2. QED
      BY <1>0, <3>1 DEF CallRecord
  <2>2. call' = [call EXCEPT ![s] = r]
    BY <1>0, <1>9 DEF OpenMined
  <2>3. knows' \subseteq Provider /\ UNCHANGED starved
    BY <1>0, <1>9 DEF OpenMined
  <2> HIDE DEF r
  <2>4. Calls'
    BY <1>3, <2>1, <2>2, <2>3
  <2>5. RepoTypeOK'
    BY <1>9, RepoTypes DEF OpenMined, ChainChanges
  <2>6. QED
    BY <1>2, <1>9, <2>4, <2>5 DEF OpenMined
<1>10. ASSUME OpenTxMined(s)
       PROVE  Calls' /\ RepoTypeOK' /\ AllowanceTypeOK'
  <2> DEFINE r == [old EXCEPT !.pc = IF old.by = "agent" THEN "read"
                                     ELSE "poll"]
  <2>1. r \in CallRecord /\ r.pc # "try"
    BY <1>0 DEF CallRecord
  <2>2. call' = [call EXCEPT ![s] = r]
    BY <1>0, <1>10 DEF OpenTxMined, Goto
  <2>3. knows' \subseteq Provider /\ UNCHANGED starved
    BY <1>0, <1>10 DEF OpenTxMined
  <2> HIDE DEF r
  <2>4. Calls'
    BY <1>3, <2>1, <2>2, <2>3
  <2>6. due' = due \/ due' = due - 1
    BY <1>10 DEF OpenTxMined, Spent
  <2>7. AllowanceTypeOK'
    BY <1>10, <2>6 DEF OpenTxMined, AllowanceTypeOK
  <2>8. QED
    BY <1>1, <1>10, <2>4, <2>7 DEF OpenTxMined
<1>11. ASSUME ReadAllowance(s)
       PROVE  Calls' /\ RepoTypeOK' /\ AllowanceTypeOK'
  <2>0. PICK read \in Int : read = Allowed(allowances)
    BY AllowedTypes DEF AllowanceTypeOK
  <2> DEFINE r == [old EXCEPT !.pc = "take", !.read = read]
  <2>1. r \in CallRecord /\ r.pc # "try"
    BY <1>0 DEF CallRecord
  <2>2. call' = [call EXCEPT ![s] = r]
    BY <1>0, <1>11, <2>0 DEF ReadAllowance
  <2>3. knows' \subseteq Provider /\ UNCHANGED starved
    BY <1>0, <1>11 DEF ReadAllowance
  <2> HIDE DEF r
  <2>5. Calls'
    BY <1>3, <2>1, <2>2, <2>3
  <2>6. QED
    BY <1>1, <1>2, <1>11, <2>5 DEF ReadAllowance
<1>12. ASSUME DecreaseAllowance(s) \/ DecreaseFails(s)
       PROVE  Calls' /\ RepoTypeOK' /\ AllowanceTypeOK'
  <2>1. PICK pc \in {"poll", "failed"} :
          call' = [call EXCEPT ![s] = [old EXCEPT !.pc = pc, !.read = 0]]
    BY <1>0, <1>12 DEF DecreaseAllowance, DecreaseFails
  <2> DEFINE r == [old EXCEPT !.pc = pc, !.read = 0]
  <2>2. r \in CallRecord /\ r.pc # "try"
    <3>1. pc = "poll" \/ pc = "failed"
      OBVIOUS
    <3>9. PICK zero \in Int : zero = 0
      OBVIOUS
    <3> DEFINE r0(next) == [old EXCEPT !.pc = next, !.read = zero]
    <3>2. r0("poll") \in CallRecord /\ r0("poll").pc = "poll"
      BY <1>0 DEF CallRecord
    <3>3. r0("failed") \in CallRecord /\ r0("failed").pc = "failed"
      BY <1>0 DEF CallRecord
    <3>4. r = r0(pc)
      BY <3>9
    <3> HIDE DEF r0, r
    <3>5. QED
      BY <3>1, <3>2, <3>3, <3>4
  <2>3. call' = [call EXCEPT ![s] = r]
    BY <2>1
  <2>4. knows' \subseteq Provider /\ UNCHANGED starved
    BY <1>0, <1>12 DEF DecreaseAllowance, DecreaseFails
  <2> HIDE DEF r
  <2>5. Calls'
    BY <1>3, <2>2, <2>3, <2>4
  <2>6. AllowanceTypeOK'
    <3>1. ASSUME DecreaseAllowance(s)
          PROVE  AllowanceTypeOK'
      <4>1. AllowancesOK(allowances)'
        <5>1. PICK n \in Int : allowances' = Put(allowances, Key, n)
          BY <1>0, <3>1
             DEF DecreaseAllowance, TakeOff, Decreased, CallRecord
        <5>2. AllowancesOK(Put(allowances, Key, n))
          BY KeySpelled, PutTypes DEF AllowanceTypeOK
        <5>3. QED
          BY <5>1, <5>2 DEF AllowancesOK
      <4>2. raced' \in BOOLEAN
        BY <3>1, Zenon DEF DecreaseAllowance, TakeOff
      <4>3. QED
        BY <3>1, <4>1, <4>2 DEF DecreaseAllowance, AllowanceTypeOK
    <3>2. ASSUME DecreaseFails(s)
          PROVE  AllowanceTypeOK'
      <4>1. due' \in Int
        BY <3>2 DEF DecreaseFails, Forgiven, AllowanceTypeOK
      <4>2. QED
        BY <3>2, <4>1 DEF DecreaseFails, AllowanceTypeOK
    <3>3. QED
      BY <1>12, <3>1, <3>2
  <2>7. QED
    BY <1>1, <1>12, <2>5, <2>6 DEF DecreaseAllowance, DecreaseFails
<1>13. ASSUME Visible(s)
       PROVE  Calls' /\ RepoTypeOK' /\ AllowanceTypeOK'
  <2>1. PICK stats \in Gets(s) :
          /\ cache' = With(s, stats)
          /\ call' = [call EXCEPT ![s] = [old EXCEPT !.pc = "save",
                                                     !.stats = stats]]
    BY <1>0, <1>13 DEF Visible
  <2>2. stats \in Nat
    BY CacheTypes
  <2> DEFINE r == [old EXCEPT !.pc = "save", !.stats = stats]
  <2>3. r \in CallRecord /\ r.pc # "try"
    BY <1>0, <2>2 DEF CallRecord
  <2>4. call' = [call EXCEPT ![s] = r]
    BY <2>1
  <2>5. knows' \subseteq Provider /\ UNCHANGED starved
    BY <1>0, <1>13 DEF Visible
  <2> HIDE DEF r
  <2>6. Calls'
    BY <1>3, <2>3, <2>4, <2>5
  <2>7. CacheChanges
    BY <1>13, <2>1, <2>2 DEF Visible, CacheChanges
  <2>8. QED
    BY <1>2, <1>13, <2>6, <2>7, RepoTypes DEF Visible
<1>14. ASSUME NotVisible(s)
       PROVE  Calls' /\ RepoTypeOK' /\ AllowanceTypeOK'
  <2> DEFINE r == [old EXCEPT !.pc = "failed"]
  <2>1. r \in CallRecord /\ r.pc # "try"
    BY <1>0 DEF CallRecord
  <2>2. call' = [call EXCEPT ![s] = r]
    BY <1>0, <1>14 DEF NotVisible, Goto
  <2>3. knows' \subseteq Provider /\ UNCHANGED starved
    BY <1>0, <1>14 DEF NotVisible
  <2> HIDE DEF r
  <2>4. Calls'
    BY <1>3, <2>1, <2>2, <2>3
  <2>5. QED
    BY <1>1, <1>2, <1>14, <2>4 DEF NotVisible
<1>15. ASSUME SaveOpened(s)
       PROVE  Calls' /\ RepoTypeOK' /\ AllowanceTypeOK'
  <2> DEFINE r == [old EXCEPT !.pc = "done", !.stats = Fresh]
  <2>1. r \in CallRecord /\ r.pc # "try"
    BY <1>0 DEF CallRecord, Fresh
  <2>2. call' = [call EXCEPT ![s] = r]
    BY <1>0, <1>15 DEF SaveOpened
  <2>3. knows' \subseteq Provider /\ UNCHANGED starved
    BY <1>0, <1>15 DEF SaveOpened
  <2> HIDE DEF r
  <2>4. Calls'
    BY <1>3, <2>1, <2>2, <2>3
  <2>5. old.stats \in Nat
    BY <1>0 DEF CallRecord
  <2>6. CacheChanges
    BY <1>15, <2>5 DEF SaveOpened, CacheChanges
  <2>7. QED
    BY <1>2, <1>15, <2>4, <2>6, RepoTypes DEF SaveOpened
<1>16. QED
  BY <1>4, <1>5, <1>6, <1>7, <1>8, <1>9, <1>10, <1>11, <1>12, <1>13,
     <1>14, <1>15 DEF Open

\* The record is set anew.
LEMMA ResetTypes ==
  ASSUME AllowanceTypeOK, NEW record, AllowancesOK(record),
         Reset(record, Owed)
  PROVE  /\ AllowancesOK(allowances)' /\ due' \in Int
         /\ raced' \in BOOLEAN
<1>1. allowances' = record /\ due' = Allowed(record) - Owed
  BY DEF Reset
<1>2. AllowancesOK(allowances)'
  BY <1>1 DEF AllowancesOK
<1>3. raced' \in BOOLEAN
  BY Zenon DEF Reset
<1>4. QED
  BY <1>1, <1>2, <1>3, OwedNat, AllowedTypes

LEMMA AdministersTypes ==
  ASSUME AllowanceTypeOK, AllowanceNext(Owed)
  PROVE  AllowanceTypeOK'
<1>0. MaxGrant \in Nat /\ None \in None .. MaxGrant
  BY GrantAssumption DEF None
<1>00. 0 .. MaxGrant \subseteq None .. MaxGrant /\ 0 .. MaxGrant \subseteq Int
  BY GrantAssumption DEF None
<1>01. /\ AllowancesOK(allowances)
       /\ \A copy \in confirming : AllowancesOK(copy)
  BY DEF AllowanceTypeOK
<1>1. ASSUME NEW token \in Spellings, NEW amount \in 0 .. MaxGrant,
             RequestAgentUser(token, amount, Owed)
      PROVE  AllowanceTypeOK'
  <2>1. PICK record : record = Put(NoAllowances, token, amount)
    OBVIOUS
  <2>2. AllowancesOK(record) /\ Reset(record, Owed)
    BY <1>00, <1>1, <2>1, NoneTypes, PutTypes DEF RequestAgentUser
  <2>3. AllowancesOK(allowances)' /\ due' \in Int /\ raced' \in BOOLEAN
    BY <2>2, ResetTypes
  <2>4. QED
    BY <1>1, <2>3 DEF RequestAgentUser, Handler, AllowanceTypeOK
<1>2. ASSUME NEW amount \in 0 .. MaxGrant, RequestAllowance(amount)
      PROVE  AllowanceTypeOK'
  <2>1. request' \in None .. MaxGrant
    BY <1>00, <1>2 DEF RequestAllowance, Replaced
  <2>2. adminOps' \in Nat
    BY <1>2 DEF RequestAllowance, Handler, AllowanceTypeOK
  <2>3. QED
    BY <1>2, <2>1, <2>2 DEF RequestAllowance, AllowanceTypeOK, AllowancesOK
<1>3. CASE ReadToConfirm
  <2>1. \A copy \in confirming' : AllowancesOK(copy)
    BY <1>01, <1>3 DEF ReadToConfirm
  <2>2. AllowancesOK(allowances)'
    BY <1>01, <1>3 DEF ReadToConfirm, AllowancesOK
  <2>3. QED
    BY <1>3, <2>1, <2>2 DEF ReadToConfirm, Handler, AllowanceTypeOK
<1>4. CASE WriteConfirmed
  <2>1. AllowancesOK(allowances)'
    <3>1. PICK read \in confirming : allowances' = read
      BY <1>4 DEF WriteConfirmed
    <3>2. QED
      BY <1>01, <3>1 DEF AllowancesOK
  <2>2. raced' \in BOOLEAN
    BY <1>4, Zenon DEF WriteConfirmed
  <2>3. QED
    BY <1>4, <2>1, <2>2 DEF WriteConfirmed, AllowanceTypeOK
<1>5. CASE DeclineAgentUser(Owed) \/ RemoveAgentUser(Owed)
  <2>1. PICK record : record = NoAllowances
    OBVIOUS
  <2>2. AllowancesOK(record) /\ Reset(record, Owed)
    BY <1>5, <2>1, NoneTypes DEF DeclineAgentUser, RemoveAgentUser
  <2>3. AllowancesOK(allowances)' /\ due' \in Int /\ raced' \in BOOLEAN
    BY <2>2, ResetTypes
  <2>4. login' \in BOOLEAN
    <3>1. login \in BOOLEAN
      BY DEF AllowanceTypeOK
    <3>2. login' = login \/ login' = FALSE
      BY <1>5, Zenon DEF DeclineAgentUser, RemoveAgentUser
    <3>3. QED
      BY <3>1, <3>2, Zenon
  <2>5. QED
    BY <1>5, <2>3, <2>4
       DEF DeclineAgentUser, RemoveAgentUser, Handler, AllowanceTypeOK
<1>6. ASSUME NEW amount \in Int, SetAllowance(amount, Owed)
      PROVE  AllowancesOK(allowances)' /\ due' \in Int /\ raced' \in BOOLEAN
  <2>1. PICK record : record = Put(allowances, Key, amount)
    OBVIOUS
  <2>2. AllowancesOK(record) /\ Reset(record, Owed)
    BY <1>01, <1>6, <2>1, KeySpelled, PutTypes DEF SetAllowance
  <2>3. QED
    BY <2>2, ResetTypes
<1>7. CASE ConfirmAllowance(Owed)
  <2>1. request \in Int
    BY <1>0 DEF AllowanceTypeOK, None
  <2>2. AllowancesOK(allowances)' /\ due' \in Int /\ raced' \in BOOLEAN
    BY <1>6, <1>7, <2>1 DEF ConfirmAllowance
  <2>3. QED
    BY <1>7, <2>2 DEF ConfirmAllowance, Handler, AllowanceTypeOK
<1>8. CASE DeleteRequest \/ DeclineAllowance
  <2>1. AllowancesOK(allowances)' /\ request' \in None .. MaxGrant
    <3>1. UNCHANGED allowances /\ request' = None
      BY <1>8 DEF DeleteRequest, DeclineAllowance
    <3>2. QED
      BY <1>0, <1>01, <3>1 DEF AllowancesOK
  <2>2. accepting' \in BOOLEAN /\ adminOps' \in Nat
    <3>1. accepting \in BOOLEAN /\ adminOps \in Nat
      BY DEF AllowanceTypeOK
    <3>2. CASE DeleteRequest
      <4>1. adminOps' = adminOps /\ accepting' = FALSE
        BY <3>2, Zenon DEF DeleteRequest
      <4>2. QED
        BY <3>1, <4>1, Zenon
    <3>3. CASE DeclineAllowance
      BY <3>1, <3>3 DEF DeclineAllowance, Handler
    <3>4. QED
      BY <1>8, <3>2, <3>3
  <2>3. UNCHANGED <<agent, login, confirming, due, raced>>
    BY <1>8 DEF DeleteRequest, DeclineAllowance
  <2>4. QED
    BY <2>1, <2>2, <2>3 DEF AllowanceTypeOK
<1>9. CASE RevokeAllowance(Owed)
  <2>1. AllowancesOK(allowances)' /\ due' \in Int /\ raced' \in BOOLEAN
    BY <1>6, <1>9 DEF RevokeAllowance
  <2>2. QED
    BY <1>9, <2>1 DEF RevokeAllowance, Handler, AllowanceTypeOK
<1>10. QED
  BY <1>1, <1>2, <1>3, <1>4, <1>5, <1>7, <1>8, <1>9 DEF AllowanceNext

\* A page of the diamond's list has no more than PageSize sessions, and
\* nothing above it and up to the offset is left out.
LEMMA PageParts ==
  ASSUME RepoTypeOK, CloserTypeOK
  PROVE  /\ Page \subseteq Session
         /\ Cardinality(Page) \in Nat /\ Cardinality(Page) <= PageSize
         /\ \A i \in 1 .. Len(opened) - closer.offset :
              \/ opened[i] \in Page
              \/ i <= Len(opened) - closer.offset - Cardinality(Page)
<1> DEFINE last == Len(opened) - closer.offset
           J == {j \in DOMAIN opened : last - PageSize < j /\ j <= last}
           I == (last - PageSize + 1) .. last
           f == [i \in J |-> opened[i]]
<1>1. /\ Len(opened) \in Nat /\ DOMAIN opened = 1 .. Len(opened)
      /\ \A i \in DOMAIN opened : opened[i] \in Session
      /\ PageSize \in Nat \ {0} /\ last \in Int /\ last <= Len(opened)
  BY PageAssumption DEF RepoTypeOK, CloserTypeOK
<1>2. Page = {opened[i] : i \in J}
  BY DEF Page
<1>3. Page \subseteq Session
  BY <1>1, <1>2
<1>4. IsFiniteSet(I) /\ Cardinality(I) = PageSize
  <2>1. PICK low \in Int : low = last - PageSize + 1
    BY <1>1
  <2> HIDE DEF last
  <2>2. low <= last /\ last - low + 1 = PageSize
    BY <1>1, <2>1
  <2>3. /\ IsFiniteSet(low .. last)
        /\ Cardinality(low .. last)
             = IF low > last THEN 0 ELSE last - low + 1
    BY <1>1, FS_Interval
  <2>4. QED
    BY <1>1, <2>1, <2>2, <2>3
<1>5. J \subseteq I
  BY <1>1
<1>6. IsFiniteSet(J) /\ Cardinality(J) <= PageSize
  <2> HIDE DEF I, J
  <2>1. QED
    BY <1>4, <1>5, FS_Subset
<1>7. f \in Surjection(J, Page)
  <2> HIDE DEF J
  <2>1. f \in [J -> Page] /\ \A t \in Page : \E j \in J : f[j] = t
    BY <1>2
  <2> HIDE DEF f
  <2>2. QED
    BY <2>1 DEF Surjection
<1>8. IsFiniteSet(Page) /\ Cardinality(Page) <= Cardinality(J)
  <2> HIDE DEF f, J
  <2>1. QED
    BY <1>6, <1>7, FS_Surjection
<1>9. Cardinality(Page) \in Nat /\ Cardinality(J) \in Nat
  <2> HIDE DEF J
  <2>1. QED
    BY <1>6, <1>8, FS_CardinalityType
<1>10. Cardinality(Page) <= PageSize
  <2> HIDE DEF J
  <2>1. QED
    BY <1>1, <1>6, <1>8, <1>9
<1>11. ASSUME NEW i \in 1 .. last
       PROVE  opened[i] \in Page \/ i <= last - Cardinality(Page)
  <2>1. CASE last - PageSize < i
    <3>1. i \in J
      BY <1>1, <2>1
    <3>2. QED
      BY <1>2, <3>1
  <2>2. CASE i <= last - PageSize
    <3> HIDE DEF last
    <3>1. QED
      BY <1>1, <1>9, <1>10, <2>2
  <2>3. QED
    BY <1>1, <2>1, <2>2
<1>12. QED
  BY <1>3, <1>9, <1>10, <1>11

\* The handler has a session in hand when it examines one, and none left of
\* a page when it asks for the next.
Handling ==
  /\ closer.pc = "page" => closer.todo = {}
  /\ closer.pc \in {"report", "tx", "remove"} => closer.todo # {}

CloserRecord ==
  [pc : {"page", "store", "scan", "report", "tx", "remove"},
   todo : SUBSET Session, offset : Nat, allClosed : Nat]

LEMMA InHandMember ==
  ASSUME closer.todo # {}
  PROVE  InHand \in closer.todo
BY DEF InHand

LEMMA CloserTypes ==
  ASSUME RepoTypeOK, CloserTypeOK, Handling, Closer
  PROVE  RepoTypeOK' /\ CloserTypeOK' /\ Handling'
<1>0. closer \in CloserRecord /\ apiClosing \subseteq Session
        /\ dropped \subseteq Session /\ missed \subseteq Session
  BY DEF CloserTypeOK, CloserRecord
<1>1. ASSUME UNCHANGED repoVars
      PROVE  RepoTypeOK'
  BY <1>1 DEF RepoTypeOK, repoVars
<1>2. ASSUME closer' \in CloserRecord, UNCHANGED apiClosing,
             dropped' \subseteq Session, missed' \subseteq Session
      PROVE  CloserTypeOK'
  BY <1>0, <1>2 DEF CloserTypeOK, CloserRecord
<1>3. OpenSessions \subseteq Session
  BY DEF OpenSessions
<1>4. ASSUME NEW todo \in SUBSET Session, Scan(todo)
      PROVE  closer' \in CloserRecord /\ Handling'
  BY <1>0, <1>4 DEF Scan, CloserRecord, Handling
<1>5. closer.todo \subseteq Session
  BY <1>0 DEF CloserRecord
<1>6. Rest \subseteq Session
  BY <1>5 DEF Rest
<1>7. /\ [Starting EXCEPT !.pc = "scan"] \in CloserRecord
      /\ [Starting EXCEPT !.pc = "scan"].pc = "scan"
  BY DEF Starting, CloserRecord
<1>8. ASSUME FetchPage
      PROVE  RepoTypeOK' /\ CloserTypeOK' /\ Handling'
  <2>1. Cardinality(Page) \in Nat
    BY PageParts
  <2>2. /\ closer.offset + Cardinality(Page) \in Nat
        /\ AllClosedPages(Page) \in Nat
    BY <1>0, <2>1 DEF CloserRecord, AllClosedPages
  <2>3. Page \intersect OpenSessions \in SUBSET Session
    BY <1>3
  <2>4. closer' \in CloserRecord /\ closer'.pc = "store"
    BY <1>8, <2>2, <2>3 DEF FetchPage, CloserRecord
  <2>5. QED
    BY <1>0, <1>1, <1>2, <1>8, <2>4 DEF FetchPage, Handling
<1>9. ASSUME Rehydrated \/ TerminatedEarly \/ RehydrationFails
      PROVE  RepoTypeOK' /\ CloserTypeOK' /\ Handling'
  <2>1. closer' = [Starting EXCEPT !.pc = "scan"]
    BY <1>9 DEF Rehydrated, TerminatedEarly, RehydrationFails
  <2>2. /\ dropped' \subseteq Session /\ missed' \subseteq Session
        /\ UNCHANGED <<repoVars, apiClosing>>
    BY <1>0, <1>3, <1>9 DEF Rehydrated, TerminatedEarly, RehydrationFails
  <2>3. closer' \in CloserRecord /\ Handling'
    BY <1>7, <2>1 DEF Handling
  <2>4. QED
    BY <1>1, <1>2, <2>2, <2>3
<1>10. ASSUME StoreSession
       PROVE  RepoTypeOK' /\ CloserTypeOK' /\ Handling'
  <2>1. PICK s \in closer.todo :
          /\ cache' = With(s, Fresh)
          /\ closer' = [closer EXCEPT !.todo = @ \ {s}]
    BY <1>10 DEF StoreSession
  <2>2. CacheChanges
    BY <1>5, <1>10, <2>1 DEF StoreSession, CacheChanges, Fresh
  <2> DEFINE left == closer.todo \ {s}
  <2>3. left \in SUBSET Session /\ closer' = [closer EXCEPT !.todo = left]
    BY <1>5, <2>1
  <2> HIDE DEF left
  <2>4. closer' \in CloserRecord /\ closer'.pc = "store"
    BY <1>0, <1>10, <2>3 DEF CloserRecord, StoreSession
  <2>5. QED
    BY <1>0, <1>2, <1>10, <2>2, <2>4, RepoTypes DEF StoreSession, Handling
<1>11. ASSUME PageStored
       PROVE  RepoTypeOK' /\ CloserTypeOK' /\ Handling'
  <2>1. /\ closer' \in CloserRecord /\ closer'.pc = "page"
        /\ closer'.todo = {}
    BY <1>0, <1>11 DEF CloserRecord, PageStored
  <2>2. QED
    BY <1>0, <1>1, <1>2, <1>11, <2>1 DEF PageStored, Handling
<1>12. ASSUME Tick
       PROVE  RepoTypeOK' /\ CloserTypeOK' /\ Handling'
  <2>1. closer' \in CloserRecord /\ Handling'
    BY <1>4, <1>12 DEF Tick, RepoTypeOK
  <2>2. QED
    BY <1>0, <1>1, <1>2, <1>12, <2>1 DEF Tick
<1>13. ASSUME NotYetEnded \/ NoReport
       PROVE  RepoTypeOK' /\ CloserTypeOK' /\ Handling'
  <2>1. closer' \in CloserRecord /\ Handling'
    BY <1>4, <1>6, <1>13 DEF NotYetEnded, NoReport
  <2>2. QED
    BY <1>0, <1>1, <1>2, <1>13, <2>1 DEF NotYetEnded, NoReport
<1>14. ASSUME Unreadable \/ AlreadyClosed \/ CloseTxFails \/ RemoveClosed
       PROVE  RepoTypeOK' /\ CloserTypeOK' /\ Handling'
  <2>1. closer' \in CloserRecord /\ Handling'
    BY <1>4, <1>6, <1>14
       DEF Unreadable, AlreadyClosed, CloseTxFails, RemoveClosed
  <2>2. InHand \in Session
    BY <1>5, <1>14, InHandMember
       DEF Unreadable, AlreadyClosed, CloseTxFails, RemoveClosed, Examining,
           Handling
  <2>3. CacheChanges
    BY <1>14, <2>2
       DEF Unreadable, AlreadyClosed, CloseTxFails, RemoveClosed,
           CacheChanges, Forgotten, KeptForRetry
  <2>4. /\ dropped' \subseteq Session /\ missed' \subseteq Session
        /\ UNCHANGED apiClosing
    BY <1>0, <1>3, <1>14
       DEF Unreadable, AlreadyClosed, CloseTxFails, RemoveClosed
  <2>5. QED
    BY <1>2, <2>1, <2>3, <2>4, RepoTypes
<1>15. ASSUME StillOpen
       PROVE  RepoTypeOK' /\ CloserTypeOK' /\ Handling'
  <2>1. /\ closer' \in CloserRecord /\ closer'.pc = "report"
        /\ closer'.todo # {}
    BY <1>0, <1>15 DEF CloserRecord, StillOpen, Examining
  <2>2. QED
    BY <1>0, <1>1, <1>2, <1>15, <2>1 DEF StillOpen, Handling
<1>16. ASSUME Report
       PROVE  RepoTypeOK' /\ CloserTypeOK' /\ Handling'
  <2>1. /\ closer' \in CloserRecord /\ closer'.pc = "tx"
        /\ closer'.todo # {}
    BY <1>0, <1>16 DEF CloserRecord, Report, Handling
  <2>2. InHand \in Session
    BY <1>5, <1>16, InHandMember DEF Report, Handling
  <2>3. CacheChanges
    BY <1>16, <2>2, CacheTypes DEF Report, CacheChanges
  <2>4. QED
    BY <1>0, <1>2, <1>16, <2>1, <2>3, RepoTypes DEF Report, Handling
<1>17. ASSUME CloseMinedUnknown \/ CloseTxMined
       PROVE  RepoTypeOK' /\ CloserTypeOK' /\ Handling'
  <2>1. closer' \in CloserRecord /\ Handling'
    <3>1. CASE CloseMinedUnknown
      BY <1>4, <1>6, <3>1 DEF CloseMinedUnknown
    <3>2. CASE CloseTxMined
      <4>1. /\ closer' \in CloserRecord /\ closer'.pc = "remove"
            /\ closer'.todo # {}
        BY <1>0, <3>2 DEF CloserRecord, CloseTxMined, Handling
      <4>2. QED
        BY <4>1 DEF Handling
    <3>3. QED
      BY <1>17, <3>1, <3>2
  <2>2. InHand \in Session
    BY <1>5, <1>17, InHandMember DEF CloseMinedUnknown, CloseTxMined, Handling
  <2>3. ChainChanges
    BY <1>17, <2>2 DEF CloseMinedUnknown, CloseTxMined, ChainChanges
  <2>4. QED
    BY <1>0, <1>2, <1>17, <2>1, <2>3, RepoTypes
       DEF CloseMinedUnknown, CloseTxMined
<1>18. QED
  BY <1>8, <1>9, <1>10, <1>11, <1>12, <1>13, <1>14, <1>15, <1>16, <1>17
     DEF Closer

LEMMA ApiCloseTypes ==
  ASSUME RepoTypeOK, CloserTypeOK, Handling, NEW s \in Session, ApiClose(s)
  PROVE  RepoTypeOK' /\ CloserTypeOK' /\ Handling'
<1>1. CloserTypeOK' /\ Handling'
  BY DEF ApiClose, ApiReport, ApiCloseMined, ApiCloseFails, CloserTypeOK,
         Handling
<1>2. CASE ApiReport(s)
  BY <1>1, <1>2, RepoTypes, CacheTypes DEF ApiReport, CacheChanges
<1>3. CASE ApiCloseMined(s)
  BY <1>1, <1>3, RepoTypes DEF ApiCloseMined, ChainChanges
<1>4. CASE ApiCloseFails(s)
  BY <1>1, <1>4 DEF ApiCloseFails, RepoTypeOK, repoVars
<1>5. QED
  BY <1>2, <1>3, <1>4 DEF ApiClose

PromptRecord ==
  [pc : {"queued", "sending", "done"}, session : Session, stats : Nat]

LEMMA PromptReplaced ==
  ASSUME PromptTypeOK, NEW q \in Prompt, NEW r \in PromptRecord
  PROVE  /\ prompt' = Put(prompt, q, r) => PromptTypeOK'
         /\ q \in DOMAIN prompt /\ prompt' = [prompt EXCEPT ![q] = r]
              => PromptTypeOK'
BY DEF PromptTypeOK, PromptRecord, Put

LEMMA PromptTypes ==
  ASSUME RepoTypeOK, PromptTypeOK, NEW q \in Prompt, Prompts(q)
  PROVE  RepoTypeOK' /\ PromptTypeOK'
<1>1. ASSUME UNCHANGED repoVars
      PROVE  RepoTypeOK'
  BY <1>1 DEF RepoTypeOK, repoVars
<1>2. \A s \in Session : NoPrompt(s) \in PromptRecord
  BY DEF NoPrompt, PromptRecord, Fresh
<1>3. ASSUME NEW s \in Session, Validated(q, s) \/ Rejected(q, s)
      PROVE  RepoTypeOK' /\ PromptTypeOK'
  <2>1. PICK stats \in Gets(s) :
          /\ cache' = With(s, stats)
          /\ \/ prompt' = Put(prompt, q, [pc |-> "queued", session |-> s,
                                          stats |-> stats])
             \/ prompt' = Put(prompt, q, NoPrompt(s))
    BY <1>3 DEF Validated, Rejected
  <2>2. stats \in Nat
    BY CacheTypes
  <2>3. [pc |-> "queued", session |-> s, stats |-> stats] \in PromptRecord
    BY <2>2 DEF PromptRecord
  <2>4. PromptTypeOK'
    BY <1>2, <2>1, <2>3, PromptReplaced
  <2>5. CacheChanges
    BY <1>3, <2>1, <2>2 DEF Validated, Rejected, CacheChanges
  <2>6. QED
    BY <2>4, <2>5, RepoTypes
<1>4. ASSUME q \in DOMAIN prompt, Acquire(q) \/ PromptFails(q)
      PROVE  RepoTypeOK' /\ PromptTypeOK'
  <2>1. prompt[q] \in PromptRecord
    BY <1>4 DEF PromptTypeOK, PromptRecord
  <2>2. /\ [prompt[q] EXCEPT !.pc = "sending"] \in PromptRecord
        /\ [prompt[q] EXCEPT !.pc = "done"] \in PromptRecord
    BY <2>1 DEF PromptRecord
  <2>3. \/ prompt' = [prompt EXCEPT ![q] = [prompt[q] EXCEPT !.pc = "sending"]]
        \/ prompt' = [prompt EXCEPT ![q] = [prompt[q] EXCEPT !.pc = "done"]]
    BY <1>4 DEF Acquire, PromptFails
  <2>4. PromptTypeOK'
    BY <1>4, <2>2, <2>3, PromptReplaced
  <2>5. QED
    BY <1>1, <1>4, <2>4 DEF Acquire, PromptFails
<1>5. ASSUME q \in DOMAIN prompt, Answered(q)
      PROVE  RepoTypeOK' /\ PromptTypeOK'
  <2>1. PICK s \in Session, n \in Nat : s = prompt[q].session
          /\ n = prompt[q].stats + 1
    BY <1>5 DEF PromptTypeOK
  <2>2. CacheChanges
    BY <1>5, <2>1 DEF Answered, CacheChanges
  <2>3. PromptTypeOK'
    BY <1>2, <1>5, <2>1, PromptReplaced DEF Answered
  <2>4. QED
    BY <2>2, <2>3, RepoTypes
<1>6. QED
  BY <1>3, <1>4, <1>5 DEF Prompts

LEMMA ListensTypes ==
  ASSUME RepoTypeOK,
         Listens \/ ListensInVain \/ EventSkipped
  PROVE  RepoTypeOK'
<1> DEFINE E == {"opened", "closed"} \X Session
<1>1. events # <<>>
  BY DEF Listens, ListensInVain, EventSkipped, HandleSessionOpened,
         HandleSessionClosed, OpenedUnread
<1>2. events \in Seq(E)
  BY DEF RepoTypeOK
<1>3. Head(events) \in E
  BY <1>1, <1>2, HeadTailProperties
<1>4. Head(events)[2] \in Session
  BY <1>3
<1>5. CacheChanges
  <2>1. CASE HandleSessionOpened
    BY <1>4, <2>1, CacheTypes DEF HandleSessionOpened, CacheChanges
  <2>2. CASE HandleSessionClosed
    BY <1>4, <2>2 DEF HandleSessionClosed, CacheChanges
  <2>3. CASE ListensInVain \/ EventSkipped
    BY <1>1, <2>3 DEF ListensInVain, EventSkipped, OpenedUnread, CacheChanges
  <2>4. QED
    BY <2>1, <2>2, <2>3 DEF Listens
<1>6. QED
  BY <1>5, RepoTypes

\* The sessions whose transactions are mined although the node has stopped.
LEMMA StopMines ==
  ASSUME RepoTypeOK, Stop
  PROVE  \E mined \in SUBSET {s \in Session : At(s, "open")} :
           /\ chain' = [s \in Session |->
                          IF s \in mined THEN "open" ELSE chain[s]]
           /\ call' = [s \in Session |->
                Stopped(IF s \in mined THEN [call[s] EXCEPT !.paid = @ + 1]
                        ELSE call[s])]
           /\ opened' \in Seq(Session)
           /\ Range(opened') = Range(opened) \union mined
<1>1. PICK mined \in SUBSET {s \in Session : At(s, "open")} :
        /\ chain' = [s \in Session |->
                       IF s \in mined THEN "open" ELSE chain[s]]
        /\ opened' = opened \o SetToSeq(mined)
        /\ call' = [s \in Session |->
             Stopped(IF s \in mined THEN [call[s] EXCEPT !.paid = @ + 1]
                     ELSE call[s])]
  BY DEF Stop
<1>2. IsFiniteSet(mined) /\ mined \subseteq Session
  BY SessionAssumption, FS_Subset
<1> DEFINE tail == SetToSeq(mined)
<1>3. tail \in Seq(mined) /\ Range(tail) = mined
  BY <1>2, SetToSeqLists
<1> HIDE DEF tail
<1>4. tail \in Seq(Session) /\ opened \in Seq(Session)
  BY <1>2, <1>3, SeqMonotonic DEF RepoTypeOK
<1>5. /\ opened \o tail \in Seq(Session)
      /\ Range(opened \o tail) = Range(opened) \union Range(tail)
  BY <1>4, ConcatProperties, RangeConcatenation
<1>6. opened' = opened \o tail
  BY <1>1 DEF tail
<1>7. QED
  BY <1>1, <1>3, <1>5, <1>6

LEMMA StopTypes ==
  ASSUME TypeOK, Calls, Stop
  PROVE  TypeOK' /\ Calls' /\ Handling'
<1>1. PICK mined \in SUBSET {s \in Session : At(s, "open")} :
        /\ chain' = [s \in Session |->
                       IF s \in mined THEN "open" ELSE chain[s]]
        /\ call' = [s \in Session |->
             Stopped(IF s \in mined THEN [call[s] EXCEPT !.paid = @ + 1]
                     ELSE call[s])]
        /\ opened' \in Seq(Session)
  BY StopMines DEF TypeOK
<1>2. RepoTypeOK'
  <2>1. chain' \in [Session -> {"none", "open", "closed"}]
    BY <1>1 DEF TypeOK, RepoTypeOK
  <2>2. cache' = cache \/ cache' = <<>>
    BY DEF Stop
  <2>3. /\ DOMAIN cache' \subseteq Session
        /\ \A s \in DOMAIN cache' : cache'[s] \in Nat
    BY <2>2 DEF TypeOK, RepoTypeOK
  <2>4. /\ ended' \subseteq Session
        /\ events' \in Seq({"opened", "closed"} \X Session)
    BY DEF Stop, TypeOK, RepoTypeOK
  <2>5. QED
    BY <1>1, <2>1, <2>3, <2>4 DEF RepoTypeOK
<1>3. AllowanceTypeOK'
  <2>1. confirming' = {} /\ accepting' = FALSE /\ adminOps' \in Nat
    BY DEF Stop, TypeOK, AllowanceTypeOK
  <2>2. raced' \in BOOLEAN /\ accepting' \in BOOLEAN
    BY <2>1, Zenon DEF Stop
  <2>3. CASE UNCHANGED <<agent, login, allowances, request, due>>
    BY <2>1, <2>2, <2>3 DEF TypeOK, AllowanceTypeOK, AllowancesOK
  <2>4. CASE /\ agent' = "none" /\ login' = FALSE
             /\ allowances' = NoAllowances
             /\ request' = None /\ due' = 0
    <3>1. login' \in BOOLEAN
      BY <2>4, Zenon
    <3>2. request' \in None .. MaxGrant
      BY <2>4, GrantAssumption DEF None
    <3>3. AllowancesOK(allowances)'
      BY <2>4, NoneTypes DEF AllowancesOK
    <3>4. QED
      BY <2>1, <2>2, <2>4, <3>1, <3>2, <3>3 DEF AllowanceTypeOK
  <2>5. QED
    BY <2>3, <2>4 DEF Stop
<1>4. Calls'
  <2>1. ASSUME NEW r \in CallRecord
        PROVE  Stopped(r) \in CallRecord /\ Stopped(r).pc # "try"
    <3>1. PICK zero \in Int : zero = 0 /\ zero \in Nat
      OBVIOUS
    <3> DEFINE halted == [r EXCEPT !.pc = "failed", !.read = zero,
                                   !.stats = zero]
    <3>2. halted \in CallRecord /\ halted.pc = "failed"
      BY <2>1, <3>1 DEF CallRecord
    <3>3. Stopped(r) = IF r.pc \in {"idle", "done", "failed"} THEN r
                       ELSE halted
      BY <3>1 DEF Stopped, Fresh
    <3> HIDE DEF halted
    <3>4. QED
      BY <2>1, <3>2, <3>3
  <2>2. ASSUME NEW r \in CallRecord
        PROVE  [r EXCEPT !.paid = @ + 1] \in CallRecord
    <3>1. PICK n \in Nat : n = r.paid + 1
      BY <2>2 DEF CallRecord
    <3>2. [r EXCEPT !.paid = n] \in CallRecord
      BY <2>2 DEF CallRecord
    <3>3. QED
      BY <3>1, <3>2
  <2>3. ASSUME NEW s \in Session
        PROVE  call'[s] \in CallRecord /\ call'[s].pc # "try"
    <3>1. call[s] \in CallRecord
      BY DEF Calls
    <3>2. \/ call'[s] = Stopped([call[s] EXCEPT !.paid = @ + 1])
          \/ call'[s] = Stopped(call[s])
      BY <1>1
    <3>3. QED
      BY <2>1, <2>2, <3>1, <3>2
  <2>4. call' \in [Session -> CallRecord]
    <3>1. /\ DOMAIN call' = Session
          /\ call' = [s \in Session |-> call'[s]]
      BY <1>1
    <3>2. QED
      BY <2>3, <3>1
  <2>5. knows' \subseteq Provider
    BY DEF Stop, Calls
  <2>6. starved' \in BOOLEAN
    BY DEF Stop, Calls
  <2>7. QED
    BY <2>3, <2>4, <2>5, <2>6 DEF Calls, At
<1>5. CloserTypeOK' /\ Handling'
  <2>1. /\ closer' = Starting
        /\ apiClosing' = {} /\ dropped' = {} /\ missed' = {}
    BY DEF Stop
  <2>2. QED
    BY <2>1 DEF Starting, CloserTypeOK, Handling
<1>6. PromptTypeOK'
  BY DEF Stop, TypeOK, PromptTypeOK, NoPrompt, Fresh
<1>7. up' \in BOOLEAN /\ workload' \in Workloads /\ restarts' \in Nat
  <2>1. up' \in BOOLEAN
    BY Zenon DEF Stop
  <2>2. QED
    BY <2>1 DEF Stop, TypeOK
<1>8. OpeningTypeOK'
  BY <1>4 DEF Calls, CallRecord, OpeningTypeOK
<1>9. QED
  BY <1>2, <1>3, <1>4, <1>5, <1>6, <1>7, <1>8 DEF TypeOK

TypeInv == TypeOK /\ Calls /\ Handling

LEMMA InitTypes == Init => TypeInv
<1> SUFFICES ASSUME Init PROVE TypeInv
  OBVIOUS
<1>1. RepoTypeOK
  BY DEF Init, RepoInit, RepoTypeOK
<1>2. AllowanceTypeOK
  <2>1. login \in BOOLEAN /\ accepting \in BOOLEAN /\ raced \in BOOLEAN
    <3>1. workload.granted \in BOOLEAN
      BY WorkloadAssumption DEF Init
    <3>2. QED
      BY <3>1, Zenon DEF Init, AllowanceInit
  <2>2. request \in None .. MaxGrant
    BY GrantAssumption DEF Init, AllowanceInit, None
  <2>3. adminOps \in Nat
    BY WorkloadAssumption DEF Init
  <2>4. AllowancesOK(allowances) /\ due \in Int
    <3>1. CASE workload.granted
      <4>1. allowances = Put(NoAllowances, Key, MaxGrant) /\ due = MaxGrant
        BY <3>1 DEF Init, AllowanceInit
      <4>2. QED
        BY <4>1, NoneTypes, KeySpelled, PutTypes, GrantAssumption
    <3>2. CASE ~workload.granted
      BY <3>2, NoneTypes DEF Init, AllowanceInit
    <3>3. QED
      BY <3>1, <3>2
  <2>5. agent \in {"none", "requested", "confirmed"} /\ confirming = {}
    BY DEF Init, AllowanceInit
  <2>6. QED
    BY <2>1, <2>2, <2>3, <2>4, <2>5 DEF AllowanceTypeOK
<1>3. Idle \in CallRecord /\ Idle.pc # "try"
  <2>1. <<>> \in Seq(Provider)
    OBVIOUS
  <2>2. QED
    BY <2>1 DEF Idle, CallRecord, Fresh
<1>4. ASSUME workload.initiated # {}
      PROVE  /\ Bids[1] \in Provider
             /\ AtTransaction \in CallRecord /\ AtTransaction.pc # "try"
  <2>1. Bids # <<>> /\ Bids \in Seq(Provider)
    BY <1>4, WorkloadAssumption, BidsAssumption DEF Init
  <2>2. Bids[1] \in Provider
    <3>1. Head(Bids) \in Provider /\ Head(Bids) = Bids[1]
      BY <2>1, HeadTailProperties
    <3>2. QED
      BY <3>1
  <2>3. <<Bids[1]>> \in Seq(Provider)
    BY <2>2
  <2>4. PICK todo \in Seq(Provider) : todo = <<Bids[1]>>
    BY <2>3
  <2>5. AtTransaction = [Idle EXCEPT !.pc = "open", !.todo = todo]
    BY <2>4 DEF AtTransaction
  <2>6. AtTransaction \in CallRecord /\ AtTransaction.pc # "try"
    BY <1>3, <2>5 DEF CallRecord, Idle
  <2>7. QED
    BY <2>2, <2>6
<1>5. Calls
  <2>1. ASSUME NEW s \in Session
        PROVE  call[s] \in CallRecord /\ call[s].pc # "try"
    <3>1. \/ call[s] = Idle
          \/ s \in workload.initiated /\ call[s] = AtTransaction
      BY DEF Init
    <3>2. QED
      BY <1>3, <1>4, <3>1
  <2>2. DOMAIN call = Session /\ call = [s \in Session |-> call[s]]
    BY DEF Init
  <2>3. call \in [Session -> CallRecord]
    BY <2>1, <2>2
  <2>4. knows \subseteq Provider
    BY <1>4 DEF Init
  <2>5. starved \in BOOLEAN
    BY DEF Init
  <2>6. QED
    BY <2>1, <2>3, <2>4, <2>5 DEF Calls, At
<1>6. OpeningTypeOK
  BY <1>5 DEF Calls, CallRecord, OpeningTypeOK
<1>7. CloserTypeOK /\ Handling
  BY DEF Init, CloserInit, Starting, CloserTypeOK, Handling
<1>8. PromptTypeOK
  BY DEF Init, PromptInit, PromptTypeOK
<1>9. up \in BOOLEAN /\ workload \in Workloads /\ restarts \in Nat
  BY WorkloadAssumption DEF Init
<1>10. QED
  BY <1>1, <1>2, <1>5, <1>6, <1>7, <1>8, <1>9 DEF TypeInv, TypeOK

LEMMA NextTypes ==
  ASSUME TypeInv, [Next]_allVars
  PROVE  TypeInv'
<1>0. /\ RepoTypeOK /\ AllowanceTypeOK /\ Calls /\ CloserTypeOK /\ Handling
      /\ PromptTypeOK
  BY DEF TypeInv, TypeOK
<1> DEFINE Nodes == \/ UNCHANGED nodeVars
                    \/ up' = TRUE /\ UNCHANGED <<workload, restarts>>
<1>1. ASSUME RepoTypeOK', AllowanceTypeOK', Calls', CloserTypeOK', Handling',
             PromptTypeOK', Nodes
      PROVE  TypeInv'
  <2>1. OpeningTypeOK'
    BY <1>1 DEF Calls, CallRecord, OpeningTypeOK
  <2>2. up' \in BOOLEAN /\ workload' \in Workloads /\ restarts' \in Nat
    BY <1>1 DEF nodeVars, TypeInv, TypeOK
  <2>3. QED
    BY <1>1, <2>1, <2>2 DEF TypeInv, TypeOK
<1>2. ASSUME UNCHANGED repoVars PROVE RepoTypeOK'
  BY <1>0, <1>2 DEF RepoTypeOK, repoVars
<1>3. ASSUME UNCHANGED allowanceVars PROVE AllowanceTypeOK'
  BY <1>0, <1>3 DEF AllowanceTypeOK, AllowancesOK, allowanceVars
<1>4. ASSUME UNCHANGED openingVars PROVE Calls'
  BY <1>0, <1>4 DEF Calls, openingVars, At
<1>5. ASSUME UNCHANGED closer PROVE Handling'
  BY <1>0, <1>5 DEF Handling
<1>6. ASSUME UNCHANGED closerVars PROVE CloserTypeOK' /\ Handling'
  BY <1>0, <1>6 DEF CloserTypeOK, Handling, closerVars
<1>7. ASSUME UNCHANGED promptVars PROVE PromptTypeOK'
  BY <1>0, <1>7 DEF PromptTypeOK, promptVars
<1>8. ASSUME NEW s \in Session, Opens(s)
      PROVE  TypeInv'
  BY <1>0, <1>1, <1>6, <1>7, <1>8, OpenTypes DEF Opens
<1>9. ASSUME NEW s \in Session, TimePasses(s) \/ ClosedElsewhere(s)
      PROVE  TypeInv'
  <2>1. ChainChanges
    BY <1>9 DEF TimePasses, Expire, ClosedElsewhere, ChainChanges
  <2>2. RepoTypeOK'
    BY <1>0, <2>1, RepoTypes
  <2>3. QED
    BY <1>1, <1>3, <1>4, <1>6, <1>7, <1>9, <2>2
       DEF TimePasses, ClosedElsewhere
<1>10. ASSUME NEW s \in Session, ClosesByRequest(s)
       PROVE  TypeInv'
  BY <1>0, <1>1, <1>3, <1>4, <1>7, <1>10, ApiCloseTypes
     DEF ClosesByRequest, Handles
<1>11. ASSUME NEW q \in Prompt, Prompts(q)
       PROVE  TypeInv'
  BY <1>0, <1>1, <1>3, <1>4, <1>6, <1>11, PromptTypes DEF Prompts
<1>12. ASSUME Administers
       PROVE  TypeInv'
  BY <1>0, <1>1, <1>2, <1>4, <1>6, <1>7, <1>12, AdministersTypes
     DEF Administers
<1>13. ASSUME Listens \/ ListensInVain \/ EventSkipped
       PROVE  TypeInv'
  <2>1. RepoTypeOK'
    BY <1>0, <1>13, ListensTypes
  <2>2. /\ UNCHANGED <<allowanceVars, openingVars, closer, apiClosing,
                       promptVars, nodeVars>>
        /\ dropped' \subseteq dropped \union OpenSessions
        /\ UNCHANGED missed
    BY <1>13 DEF Listens, ListensInVain, EventSkipped, closerVars
  <2>3. CloserTypeOK'
    BY <1>0, <2>2 DEF CloserTypeOK, OpenSessions
  <2>4. QED
    BY <1>1, <1>3, <1>4, <1>5, <1>7, <2>1, <2>2, <2>3
<1>14. ASSUME Handles(Closer)
       PROVE  TypeInv'
  BY <1>0, <1>1, <1>3, <1>4, <1>7, <1>14, CloserTypes DEF Handles
<1>15. ASSUME Stop
       PROVE  TypeInv'
  BY <1>0, <1>15, StopTypes DEF TypeInv
<1>16. ASSUME Start
       PROVE  TypeInv'
  BY <1>1, <1>2, <1>3, <1>4, <1>6, <1>7, <1>16 DEF Start
<1>17. ASSUME UNCHANGED allVars
       PROVE  TypeInv'
  BY <1>1, <1>2, <1>3, <1>4, <1>6, <1>7, <1>17 DEF allVars
<1>18. QED
  BY <1>8, <1>9, <1>10, <1>11, <1>12, <1>13, <1>14, <1>15, <1>16, <1>17
     DEF Next
-----------------------------------------------------------------------------
(* Open sessions stay in sight *)

Sighted(s) ==
  \/ Cached(s)
  \/ <<"opened", s>> \in Range(events)
  \/ Coming(s)
  \/ s \in dropped
  \/ s \in missed

\* Only sessions that were closed have closed events, ...
ClosedEvents ==
  \A i \in DOMAIN events :
    events[i][1] = "closed" => chain[events[i][2]] = "closed"

\* ... and only they are removed.
RemovesClosed == closer.pc = "remove" => chain[InHand] = "closed"

\* Open sessions are in sight; a request opens a session that was not there,
\* and the diamond's list has what is open.
Followed ==
  /\ \A s \in Session : call[s].pc \in Unpaid => chain[s] = "none"
  /\ ClosedEvents
  /\ OpenSessions \subseteq Range(opened)
  /\ RemovesClosed
  /\ \A s \in OpenSessions : Sighted(s)

\* The requests do not go back to before their transactions.
RequestsAdvance ==
  \A s \in Session : call'[s].pc \in Unpaid => call[s].pc \in Unpaid

LEMMA QuietFollowed ==
  ASSUME Followed, RequestsAdvance, UNCHANGED <<chain, opened>>,
         ClosedEvents', RemovesClosed',
         \A s \in OpenSessions : Sighted(s) => Sighted(s)'
  PROVE  Followed'
<1>1. OpenSessions' = OpenSessions
  BY DEF OpenSessions, IsOpen
<1>2. \A s \in OpenSessions' : Sighted(s)'
  BY <1>1 DEF Followed
<1>3. QED
  BY <1>1, <1>2 DEF Followed, RequestsAdvance

LEMMA SameClosedEvents ==
  ASSUME ClosedEvents, UNCHANGED <<chain, events>>
  PROVE  ClosedEvents'
BY DEF ClosedEvents

LEMMA SameRemoves ==
  ASSUME RemovesClosed, UNCHANGED closer,
         \A s : chain[s] = "closed" => chain'[s] = "closed"
  PROVE  RemovesClosed'
BY DEF RemovesClosed, InHand

\* Nothing but the cache changes, and it does not lose anything.
LEMMA CacheFollowed ==
  ASSUME Followed, RequestsAdvance,
         UNCHANGED <<chain, opened, events, closer, dropped, missed>>,
         DOMAIN cache \subseteq DOMAIN cache'
  PROVE  Followed'
<1>1. ClosedEvents' /\ RemovesClosed'
  BY SameClosedEvents, SameRemoves DEF Followed
<1>2. \A s \in OpenSessions : Sighted(s) => Sighted(s)'
  BY DEF Sighted, Cached, Coming
<1>3. QED
  BY <1>1, <1>2, QuietFollowed

LEMMA ComingOpened ==
  ASSUME RepoTypeOK, CloserTypeOK, NEW s \in Session, NEW t \in Session,
         UNCHANGED closer, opened' = Append(opened, t), Coming(s)
  PROVE  Coming(s)'
<1>1. opened \in Seq(Session) /\ Len(opened) \in Nat /\ closer.offset \in Nat
  BY DEF RepoTypeOK, CloserTypeOK
<1>2. /\ Len(opened') = Len(opened) + 1
      /\ \A i \in 1 .. Len(opened) : opened'[i] = opened[i]
  BY <1>1, AppendProperties
<1>3. \A i \in 1 .. Len(opened) - closer.offset :
        /\ i \in 1 .. Len(opened') - closer.offset
        /\ i \in 1 .. Len(opened)
  BY <1>1, <1>2
<1>4. QED
  BY <1>2, <1>3 DEF Coming

LEMMA OpensFollowed ==
  ASSUME Followed, RepoTypeOK, CloserTypeOK, NEW s \in Session,
         chain[s] = "none", OpensOnChain(s),
         UNCHANGED <<cache, closer, dropped, missed>>,
         RequestsAdvance, call'[s].pc \notin Unpaid
  PROVE  Followed'
<1> DEFINE E == {"opened", "closed"} \X Session
<1>1. /\ events \in Seq(E) /\ <<"opened", s>> \in E /\ opened \in Seq(Session)
      /\ chain \in [Session -> {"none", "open", "closed"}]
  BY DEF RepoTypeOK
<1>2. /\ chain'[s] = "open" /\ \A t \in Session \ {s} : chain'[t] = chain[t]
      /\ \A t : chain[t] = "closed" => chain'[t] = "closed"
      /\ opened' = Append(opened, s)
      /\ events' = Append(events, <<"opened", s>>)
  BY <1>1 DEF OpensOnChain
<1>3. /\ Range(opened') = Range(opened) \union {s}
      /\ Range(events') = Range(events) \union {<<"opened", s>>}
  <2>1. Range(opened') = Range(opened) \union {s}
    BY <1>1, <1>2, AppendRange
  <2>2. PICK e \in E : e = <<"opened", s>>
    BY <1>1
  <2> HIDE DEF E
  <2>3. events \in Seq(E)
    BY <1>1
  <2>4. Range(Append(events, e)) = Range(events) \union {e}
    BY <2>3, AppendRange
  <2>5. QED
    BY <1>2, <2>1, <2>2, <2>4
<1>4. OpenSessions' = OpenSessions \union {s}
  BY <1>1, <1>2 DEF OpenSessions, IsOpen
<1>5. \A t \in Session : call'[t].pc \in Unpaid => chain'[t] = "none"
  BY <1>2 DEF Followed, RequestsAdvance
<1>6. ClosedEvents'
  <2>1. SUFFICES ASSUME NEW i \in DOMAIN events', events'[i][1] = "closed"
                 PROVE  chain'[events'[i][2]] = "closed"
    BY DEF ClosedEvents
  <2>2. DOMAIN events = 1 .. Len(events) /\ Len(events) \in Nat
    BY <1>1
  <2>3. /\ DOMAIN events' = 1 .. Len(events) + 1
        /\ \A j \in DOMAIN events : events'[j] = events[j]
        /\ events'[Len(events) + 1] = <<"opened", s>>
    BY <1>1, <1>2, AppendRange
  <2>4. i \in DOMAIN events /\ events'[i] = events[i]
    BY <2>1, <2>2, <2>3
  <2>5. QED
    BY <1>2, <2>1, <2>4 DEF Followed, ClosedEvents
<1>7. RemovesClosed'
  BY <1>2, SameRemoves DEF Followed
<1>8. ASSUME NEW t \in OpenSessions'
      PROVE  Sighted(t)'
  <2>1. CASE t = s
    BY <1>3, <2>1 DEF Sighted
  <2>2. CASE t # s
    <3>1. t \in OpenSessions /\ Sighted(t) /\ t \in Session
      BY <1>4, <1>8, <2>2 DEF Followed, OpenSessions
    <3>2. Coming(t) => Coming(t)'
      BY <1>2, <3>1, ComingOpened
    <3>3. QED
      BY <1>3, <3>1, <3>2 DEF Sighted, Cached
  <2>3. QED
    BY <2>1, <2>2
<1>9. QED
  BY <1>3, <1>4, <1>5, <1>6, <1>7, <1>8 DEF Followed

\* A session is closed, by whomever.
LEMMA ClosesFollowed ==
  ASSUME Followed, RepoTypeOK, NEW s \in Session,
         chain[s] = "open", chain' = [chain EXCEPT ![s] = "closed"],
         events' \in {events, Append(events, <<"closed", s>>)},
         UNCHANGED <<cache, opened, dropped, missed, call>>,
         RemovesClosed',
         \A t \in Session : Coming(t) => Coming(t)'
  PROVE  Followed'
<1> DEFINE E == {"opened", "closed"} \X Session
<1>1. /\ events \in Seq(E) /\ <<"closed", s>> \in E
      /\ chain \in [Session -> {"none", "open", "closed"}]
  BY DEF RepoTypeOK
<1>2. /\ chain'[s] = "closed" /\ \A t \in Session \ {s} : chain'[t] = chain[t]
      /\ \A t : chain[t] = "closed" => chain'[t] = "closed"
  BY <1>1
<1>3. /\ Range(events) \subseteq Range(events')
      /\ DOMAIN events = 1 .. Len(events) /\ Len(events) \in Nat
      /\ \A i \in DOMAIN events' :
           \/ i \in DOMAIN events /\ events'[i] = events[i]
           \/ events'[i] = <<"closed", s>>
  <2>1. CASE events' = events
    BY <1>1, <2>1
  <2>2. CASE events' = Append(events, <<"closed", s>>)
    <3>1. /\ Range(events') = Range(events) \union {<<"closed", s>>}
          /\ DOMAIN events' = 1 .. Len(events) + 1
          /\ \A j \in DOMAIN events : events'[j] = events[j]
          /\ events'[Len(events) + 1] = <<"closed", s>>
      BY <1>1, <2>2, AppendRange
    <3>2. DOMAIN events = 1 .. Len(events) /\ Len(events) \in Nat
      BY <1>1
    <3>3. \A i \in 1 .. Len(events) + 1 :
            i \in 1 .. Len(events) \/ i = Len(events) + 1
      BY <3>2
    <3>4. QED
      BY <3>1, <3>2, <3>3
  <2>3. QED
    BY <2>1, <2>2
<1>4. OpenSessions' = OpenSessions \ {s}
  BY <1>1, <1>2 DEF OpenSessions, IsOpen
<1>5. \A t \in Session : call'[t].pc \in Unpaid => chain'[t] = "none"
  BY <1>2 DEF Followed
<1>6. ClosedEvents'
  <2>1. SUFFICES ASSUME NEW i \in DOMAIN events', events'[i][1] = "closed"
                 PROVE  chain'[events'[i][2]] = "closed"
    BY DEF ClosedEvents
  <2>2. CASE i \in DOMAIN events /\ events'[i] = events[i]
    BY <1>2, <2>1, <2>2 DEF Followed, ClosedEvents
  <2>3. CASE events'[i] = <<"closed", s>>
    BY <1>2, <2>3
  <2>4. QED
    BY <1>3, <2>2, <2>3
<1>7. \A t \in OpenSessions' : Sighted(t)'
  <2>1. \A t \in OpenSessions : t \in Session /\ Sighted(t)
    BY DEF Followed, OpenSessions
  <2>2. QED
    BY <1>3, <1>4, <2>1 DEF Sighted, Cached
<1>8. QED
  BY <1>4, <1>5, <1>6, <1>7 DEF Followed

LEMMA OpenAdvances ==
  ASSUME Calls, NEW s \in Session, Open(s)
  PROVE  /\ RequestsAdvance
         /\ \/ /\ UNCHANGED <<chain, opened, events>>
               /\ UNCHANGED cache \/ \E n : cache' = With(s, n)
            \/ /\ At(s, "open") /\ OpensOnChain(s) /\ UNCHANGED cache
               /\ call'[s].pc \notin Unpaid
<1>1. call \in [Session -> CallRecord]
  BY DEF Calls
<1>2. call[s] \in CallRecord
  BY <1>1
<1>3. ASSUME \A t \in Session \ {s} : call'[t] = call[t],
             call'[s].pc \in Unpaid => call[s].pc \in Unpaid
      PROVE  RequestsAdvance
  BY <1>3 DEF RequestsAdvance
<1>4. CASE \/ OpenSessionByModelId(s, "admin")
           \/ OpenSessionByModelId(s, "agent")
  <2>1. /\ call[s].pc = "idle" /\ UNCHANGED repoVars
        /\ \A t \in Session \ {s} : call'[t] = call[t]
    BY <1>1, <1>4 DEF OpenSessionByModelId, At
  <2>2. QED
    BY <1>3, <2>1 DEF Unpaid, repoVars
<1>5. CASE Refused(s) \/ TryFails(s) \/ Initiated(s) \/ CheckAllowance(s)
  <2>1. call[s].pc \in {"try", "check"} /\ UNCHANGED repoVars
    BY <1>5 DEF Refused, TryFails, Initiated, CheckAllowance, At
  <2>2. \A t \in Session \ {s} : call'[t] = call[t]
    BY <1>1, <1>5
       DEF Refused, TryFails, Initiated, CheckAllowance, Goto
  <2>3. QED
    BY <1>3, <2>1, <2>2 DEF Unpaid, repoVars
<1>6. CASE OpenTxFails(s)
  <2>1. GiveUp(call[s]).pc = "failed"
    BY <1>2 DEF GiveUp, CallRecord
  <2>2. call'[s].pc = "failed" /\ \A t \in Session \ {s} : call'[t] = call[t]
    BY <1>1, <1>6, <2>1 DEF OpenTxFails
  <2>3. QED
    BY <1>3, <1>6, <2>2 DEF OpenTxFails, Unpaid, repoVars
<1>7. CASE OpenMined(s)
  <2>1. /\ call'[s].pc = "sent"
        /\ \A t \in Session \ {s} : call'[t] = call[t]
    BY <1>1, <1>2, <1>7 DEF OpenMined, CallRecord
  <2>2. QED
    BY <1>3, <1>7, <2>1 DEF OpenMined, Unpaid
<1>8. CASE \/ OpenTxMined(s) \/ ReadAllowance(s) \/ DecreaseAllowance(s)
           \/ DecreaseFails(s) \/ NotVisible(s)
  <2>1. /\ call'[s].pc \in {"read", "take", "poll", "failed"}
        /\ \A t \in Session \ {s} : call'[t] = call[t]
    BY <1>1, <1>2, <1>8
       DEF OpenTxMined, ReadAllowance, DecreaseAllowance, DecreaseFails,
           NotVisible, Goto, CallRecord
  <2>2. UNCHANGED repoVars
    BY <1>8 DEF OpenTxMined, ReadAllowance, DecreaseAllowance, DecreaseFails,
         NotVisible
  <2>3. QED
    BY <1>3, <2>1, <2>2 DEF Unpaid, repoVars
<1>9. CASE Visible(s) \/ SaveOpened(s)
  <2>1. /\ call'[s].pc \in {"save", "done"}
        /\ \A t \in Session \ {s} : call'[t] = call[t]
    BY <1>1, <1>2, <1>9 DEF Visible, SaveOpened, CallRecord
  <2>2. /\ UNCHANGED <<chain, opened, events>>
        /\ \E n : cache' = With(s, n)
    BY <1>9 DEF Visible, SaveOpened
  <2>3. QED
    BY <1>3, <2>1, <2>2 DEF Unpaid
<1>10. QED
  BY <1>4, <1>5, <1>6, <1>7, <1>8, <1>9 DEF Open

LEMMA CacheGrows ==
  ASSUME NEW s \in Session, NEW n, cache' = With(s, n)
  PROVE  DOMAIN cache \subseteq DOMAIN cache' /\ Cached(s)'
BY DEF With, Put, Cached

LEMMA OpenFollowed ==
  ASSUME TypeInv, Followed, NEW s \in Session, Opens(s)
  PROVE  Followed'
<1>1. Calls /\ RepoTypeOK /\ CloserTypeOK /\ Open(s)
        /\ UNCHANGED <<closer, dropped, missed>>
  BY DEF TypeInv, TypeOK, Opens, closerVars
<1>2. RequestsAdvance
  BY <1>1, OpenAdvances
<1>3. CASE /\ UNCHANGED <<chain, opened, events>>
           /\ UNCHANGED cache \/ \E n : cache' = With(s, n)
  <2>1. DOMAIN cache \subseteq DOMAIN cache'
    BY <1>3, CacheGrows
  <2>2. QED
    BY <1>1, <1>2, <1>3, <2>1, CacheFollowed
<1>4. CASE /\ At(s, "open") /\ OpensOnChain(s) /\ UNCHANGED cache
           /\ call'[s].pc \notin Unpaid
  <2>1. chain[s] = "none"
    BY <1>4 DEF At, Unpaid, Followed
  <2>2. QED
    BY <1>1, <1>2, <1>4, <2>1, OpensFollowed
<1>5. QED
  BY <1>1, <1>3, <1>4, OpenAdvances

LEMMA PromptFollowed ==
  ASSUME TypeInv, Followed, NEW q \in Prompt, Prompts(q)
  PROVE  Followed'
<1>1. /\ UNCHANGED <<chain, opened, events, closer, dropped, missed, call>>
      /\ UNCHANGED cache \/ \E s \in Session : \E n : cache' = With(s, n)
  <2>1. UNCHANGED <<closer, dropped, missed, call>>
    BY DEF Prompts, closerVars, openingVars
  <2>2. ASSUME NEW s \in Session, Validated(q, s) \/ Rejected(q, s)
        PROVE  /\ UNCHANGED <<chain, opened, events>>
               /\ \E n : cache' = With(s, n)
    BY <2>2 DEF Validated, Rejected
  <2>3. ASSUME Acquire(q) \/ PromptFails(q)
        PROVE  UNCHANGED <<chain, opened, events, cache>>
    BY <2>3 DEF Acquire, PromptFails, repoVars
  <2>4. ASSUME q \in DOMAIN prompt, Answered(q)
        PROVE  /\ UNCHANGED <<chain, opened, events>>
               /\ \E s \in Session : \E n : cache' = With(s, n)
    <3>1. prompt[q].session \in Session
      BY <2>4 DEF TypeInv, TypeOK, PromptTypeOK
    <3>2. QED
      BY <2>4, <3>1 DEF Answered
  <2>5. QED
    BY <2>1, <2>2, <2>3, <2>4 DEF Prompts
<1>2. DOMAIN cache \subseteq DOMAIN cache'
  BY <1>1, CacheGrows
<1>3. RequestsAdvance
  BY <1>1 DEF RequestsAdvance
<1>4. QED
  BY <1>1, <1>2, <1>3, CacheFollowed

LEMMA ApiCloseFollowed ==
  ASSUME TypeInv, Followed, NEW s \in Session, ClosesByRequest(s)
  PROVE  Followed'
<1>1. UNCHANGED <<closer, dropped, missed, call>> /\ RequestsAdvance
  BY DEF ClosesByRequest, Handles, ApiClose, ApiReport, ApiCloseMined,
         ApiCloseFails, openingVars, RequestsAdvance
<1>2. CASE ApiReport(s)
  <2>1. DOMAIN cache \subseteq DOMAIN cache'
    BY <1>2, CacheGrows DEF ApiReport
  <2>2. QED
    BY <1>1, <1>2, <2>1, CacheFollowed DEF ApiReport
<1>3. CASE ApiCloseMined(s)
  <2>1. /\ chain[s] = "open" /\ chain' = [chain EXCEPT ![s] = "closed"]
        /\ events' \in {events, Append(events, <<"closed", s>>)}
        /\ UNCHANGED <<cache, opened>>
    BY <1>3 DEF ApiCloseMined, ClosesOnChain
  <2>2. \A t : chain[t] = "closed" => chain'[t] = "closed"
    BY <2>1 DEF TypeInv, TypeOK, RepoTypeOK
  <2>3. RemovesClosed'
    BY <1>1, <2>2, SameRemoves DEF Followed
  <2>4. \A t \in Session : Coming(t) => Coming(t)'
    BY <1>1, <2>1 DEF Coming
  <2>5. RepoTypeOK
    BY DEF TypeInv, TypeOK
  <2>6. QED
    BY <1>1, <2>1, <2>3, <2>4, <2>5, ClosesFollowed
<1>4. CASE ApiCloseFails(s)
  BY <1>1, <1>4, CacheFollowed DEF ApiCloseFails, repoVars
<1>5. QED
  BY <1>2, <1>3, <1>4 DEF ClosesByRequest, Handles, ApiClose

LEMMA ElsewhereFollowed ==
  ASSUME TypeInv, Followed, NEW s \in Session, ClosedElsewhere(s)
  PROVE  Followed'
<1>1. UNCHANGED <<closer, dropped, missed, call, cache, opened, events>>
  BY DEF ClosedElsewhere, closerVars, openingVars
<1>2. /\ chain[s] = "open" /\ chain' = [chain EXCEPT ![s] = "closed"]
      /\ events' \in {events, Append(events, <<"closed", s>>)}
  BY <1>1 DEF ClosedElsewhere, IsOpen
<1>3. \A t : chain[t] = "closed" => chain'[t] = "closed"
  BY <1>2 DEF TypeInv, TypeOK, RepoTypeOK
<1>4. RemovesClosed'
  BY <1>1, <1>3, SameRemoves DEF Followed
<1>5. \A t \in Session : Coming(t) => Coming(t)'
  BY <1>1 DEF Coming
<1>6. RepoTypeOK
  BY DEF TypeInv, TypeOK
<1>7. QED
  BY <1>1, <1>2, <1>4, <1>5, <1>6, ClosesFollowed

LEMMA ListensFollowed ==
  ASSUME TypeInv, Followed, Listens \/ ListensInVain \/ EventSkipped
  PROVE  Followed'
<1> DEFINE E == {"opened", "closed"} \X Session
<1>0. PICK s : s = Head(events)[2]
  OBVIOUS
<1>1. /\ events # <<>> /\ events' = Tail(events)
      /\ UNCHANGED <<chain, opened, closer, call>>
  BY DEF Listens, ListensInVain, EventSkipped, HandleSessionOpened,
         HandleSessionClosed, OpenedUnread, openingVars, closerVars
<1>2. events \in Seq(E)
  BY DEF TypeInv, TypeOK, RepoTypeOK
<1>3. /\ Range(events) = Range(events') \union {Head(events)}
      /\ \A i \in DOMAIN events' :
           i + 1 \in DOMAIN events /\ events'[i] = events[i + 1]
      /\ 1 \in DOMAIN events /\ Head(events) = events[1]
  <2> HIDE DEF E
  <2>1. QED
    BY <1>1, <1>2, TailRange
<1>4. Head(events) \in E /\ s \in Session
  <2>1. Head(events) \in E
    <3> HIDE DEF E
    <3>1. QED
      BY <1>1, <1>2, HeadTailProperties
  <2>2. QED
    BY <1>0, <2>1
<1>5. ClosedEvents'
  BY <1>1, <1>3 DEF Followed, ClosedEvents
<1>6. RemovesClosed'
  BY <1>1, SameRemoves DEF Followed
<1>7. RequestsAdvance
  BY <1>1 DEF RequestsAdvance
<1>8. ASSUME NEW t \in OpenSessions, Sighted(t)
      PROVE  Sighted(t)'
  <2>1. Coming(t) => Coming(t)'
    BY <1>1 DEF Coming
  <2>2. CASE HandleSessionOpened /\ UNCHANGED <<dropped, missed>>
    <3>1. DOMAIN cache \subseteq DOMAIN cache' /\ Cached(s)'
      BY <1>0, <1>4, <2>2, CacheGrows DEF HandleSessionOpened
    <3>2. <<"opened", t>> = Head(events) => t = s
      BY <1>0
    <3>3. QED
      BY <1>3, <1>8, <2>1, <2>2, <3>1, <3>2 DEF Sighted, Cached
  <2>3. CASE HandleSessionClosed /\ UNCHANGED <<dropped, missed>>
    <3>1. Head(events)[1] = "closed" /\ chain[s] = "closed"
      BY <1>0, <1>3, <2>3 DEF HandleSessionClosed, Followed, ClosedEvents
    <3>2. t # s /\ <<"opened", t>> # Head(events)
      BY <1>8, <3>1 DEF OpenSessions, IsOpen
    <3>3. DOMAIN cache' = DOMAIN cache \ {s}
      BY <1>0, <2>3 DEF HandleSessionClosed, Without, Drop, Restrict
    <3>4. QED
      BY <1>3, <1>8, <2>1, <2>3, <3>2, <3>3 DEF Sighted, Cached
  <2>4. CASE ListensInVain \/ EventSkipped
    <3>1. /\ UNCHANGED cache
          /\ dropped' = dropped \union ({s} \intersect OpenSessions)
          /\ UNCHANGED missed
      BY <1>0, <2>4 DEF ListensInVain, EventSkipped, OpenedUnread
    <3>2. <<"opened", t>> = Head(events) => t = s
      BY <1>0
    <3>3. QED
      BY <1>3, <1>8, <2>1, <3>1, <3>2 DEF Sighted, Cached
  <2>5. QED
    BY <2>2, <2>3, <2>4 DEF Listens, closerVars
<1>9. QED
  BY <1>1, <1>5, <1>6, <1>7, <1>8, QuietFollowed

\* Rehydration goes on to the next page: what it has yet to come to is on the
\* page, or further down.
LEMMA FetchFollowed ==
  ASSUME TypeInv, Followed, FetchPage
  PROVE  \A s \in OpenSessions : Coming(s) => Coming(s)'
<1> SUFFICES ASSUME NEW s \in OpenSessions, Coming(s)
             PROVE  Coming(s)'
  OBVIOUS
<1>1. /\ closer.pc = "page" /\ closer.todo = {}
      /\ closer'.pc = "store" /\ closer'.todo = Page \intersect OpenSessions
      /\ closer'.offset = closer.offset + Cardinality(Page)
      /\ opened' = opened
  BY DEF FetchPage, TypeInv, Handling, repoVars
<1>2. /\ Len(opened) \in Nat /\ closer.offset \in Nat
      /\ Cardinality(Page) \in Nat
      /\ \A i \in 1 .. Len(opened) - closer.offset :
           \/ opened[i] \in Page
           \/ i <= Len(opened) - closer.offset - Cardinality(Page)
  BY PageParts DEF TypeInv, TypeOK, RepoTypeOK, CloserTypeOK
<1>3. PICK i \in 1 .. Len(opened) - closer.offset : opened[i] = s
  BY <1>1 DEF Coming
<1>4. CASE opened[i] \in Page
  <2>1. s \in closer'.todo
    BY <1>1, <1>3, <1>4
  <2>2. QED
    BY <1>1, <2>1 DEF Coming
<1>5. CASE i <= Len(opened) - closer.offset - Cardinality(Page)
  <2>1. i \in 1 .. Len(opened') - closer'.offset /\ opened'[i] = s
    BY <1>1, <1>2, <1>3, <1>5
  <2>2. QED
    BY <1>1, <2>1 DEF Coming
<1>6. QED
  BY <1>2, <1>4, <1>5

LEMMA RehydratedFollowed ==
  ASSUME TypeInv, Followed, Rehydrated
  PROVE  \A s \in OpenSessions : ~Coming(s)
<1> SUFFICES ASSUME NEW s \in OpenSessions, Coming(s)
             PROVE  FALSE
  OBVIOUS
<1>1. closer.todo = {} /\ Page = {}
  BY DEF Rehydrated, TypeInv, Handling
<1>2. PICK i \in 1 .. Len(opened) - closer.offset : opened[i] = s
  BY <1>1 DEF Coming
<1>3. Cardinality(Page) = 0
  BY <1>1, FS_EmptySet
<1>4. /\ Len(opened) \in Nat /\ closer.offset \in Nat
  BY DEF TypeInv, TypeOK, RepoTypeOK, CloserTypeOK
<1> DEFINE last == Len(opened) - closer.offset
<1>5. last \in 1 .. last
  BY <1>2, <1>4
<1>6. last \in DOMAIN opened
  <2>1. DOMAIN opened = 1 .. Len(opened)
    BY DEF TypeInv, TypeOK, RepoTypeOK
  <2>2. QED
    BY <1>4, <1>5, <2>1
<1>7. opened[last] \in Page
  <2>1. last - PageSize < last
    BY <1>4, PageAssumption
  <2>2. QED
    BY <1>4, <1>6, <2>1 DEF Page
<1>8. QED
  BY <1>1, <1>7

LEMMA CloserFollowed ==
  ASSUME TypeInv, Followed, Handles(Closer)
  PROVE  Followed'
<1>0. /\ Closer /\ UNCHANGED call /\ RequestsAdvance
      /\ RepoTypeOK /\ CloserTypeOK /\ Handling
  BY DEF Handles, openingVars, RequestsAdvance, TypeInv, TypeOK
<1>1. ASSUME UNCHANGED <<chain, opened, events>>, closer'.pc # "remove",
             \A s \in OpenSessions : Sighted(s) => Sighted(s)'
      PROVE  Followed'
  <2>1. RemovesClosed'
    BY <1>1 DEF RemovesClosed
  <2>2. ClosedEvents'
    BY <1>1, SameClosedEvents DEF Followed
  <2>3. QED
    BY <1>0, <1>1, <2>1, <2>2, QuietFollowed
<1>2. CASE FetchPage
  <2>1. closer'.pc = "store" /\ UNCHANGED <<repoVars, dropped, missed>>
    BY <1>2 DEF FetchPage
  <2>2. \A s \in OpenSessions : Sighted(s) => Sighted(s)'
    BY <1>2, <2>1, FetchFollowed DEF Sighted, Cached, repoVars
  <2>3. QED
    BY <1>1, <2>1, <2>2 DEF repoVars
<1>3. CASE Rehydrated
  <2>1. closer'.pc = "scan" /\ UNCHANGED <<repoVars, dropped, missed>>
    BY <1>3 DEF Rehydrated, Starting
  <2>2. \A s \in OpenSessions : Sighted(s) => Sighted(s)'
    BY <1>3, <2>1, RehydratedFollowed DEF Sighted, Cached, repoVars
  <2>3. QED
    BY <1>1, <2>1, <2>2 DEF repoVars
<1>4. CASE TerminatedEarly \/ RehydrationFails
  <2>1. /\ closer'.pc = "scan" /\ UNCHANGED repoVars
        /\ dropped \subseteq dropped' /\ missed \subseteq missed'
        /\ OpenSessions \ DOMAIN cache \subseteq dropped' \union missed'
    BY <1>4 DEF TerminatedEarly, RehydrationFails, Starting
  <2>2. \A s \in OpenSessions : Sighted(s)'
    BY <2>1 DEF Sighted, Cached, repoVars
  <2>3. QED
    BY <1>1, <2>1, <2>2 DEF repoVars
<1>5. CASE StoreSession
  <2>1. PICK s \in closer.todo :
          /\ cache' = With(s, Fresh)
          /\ closer' = [closer EXCEPT !.todo = @ \ {s}]
    BY <1>5 DEF StoreSession
  <2>2. s \in Session
    BY <1>0, <2>1 DEF CloserTypeOK
  <2>3. DOMAIN cache \subseteq DOMAIN cache' /\ s \in DOMAIN cache'
    BY <2>1, <2>2, CacheGrows DEF Cached
  <2>4. /\ closer.pc = "store" /\ closer'.pc = "store"
        /\ closer'.todo = closer.todo \ {s}
        /\ closer'.offset = closer.offset
    BY <1>0, <1>5, <2>1 DEF StoreSession, CloserTypeOK
  <2>5. UNCHANGED <<chain, opened, events, dropped, missed>>
    BY <1>5 DEF StoreSession
  <2>6. \A t \in OpenSessions : Sighted(t) => Sighted(t)'
    BY <2>3, <2>4, <2>5 DEF Sighted, Cached, Coming
  <2>7. QED
    BY <1>1, <2>4, <2>5, <2>6
<1>6. CASE PageStored
  <2>1. /\ closer.pc = "store" /\ closer'.pc = "page"
        /\ closer'.todo = closer.todo /\ closer'.offset = closer.offset
        /\ UNCHANGED <<repoVars, dropped, missed>>
    BY <1>0, <1>6 DEF PageStored, CloserTypeOK
  <2>2. \A t \in OpenSessions : Sighted(t) => Sighted(t)'
    BY <2>1 DEF Sighted, Cached, Coming, repoVars
  <2>3. QED
    BY <1>1, <2>1, <2>2 DEF repoVars
<1>7. ASSUME closer.pc \notin {"page", "store"}
      PROVE  \A s : ~Coming(s)
  BY <1>7 DEF Coming
<1>8. CASE Tick \/ NotYetEnded \/ NoReport
  <2>1. /\ closer.pc \notin {"page", "store"} /\ closer'.pc = "scan"
        /\ UNCHANGED <<repoVars, dropped, missed>>
    BY <1>0, <1>8 DEF Tick, NotYetEnded, NoReport, Scan, CloserTypeOK
  <2>2. \A t \in OpenSessions : Sighted(t) => Sighted(t)'
    BY <1>7, <2>1 DEF Sighted, Cached, repoVars
  <2>3. QED
    BY <1>1, <2>1, <2>2 DEF repoVars
<1>9. CASE StillOpen
  <2>1. /\ closer.pc \notin {"page", "store"} /\ closer'.pc = "report"
        /\ UNCHANGED <<repoVars, dropped, missed>>
    BY <1>0, <1>9 DEF StillOpen, Examining, CloserTypeOK
  <2>2. \A t \in OpenSessions : Sighted(t) => Sighted(t)'
    BY <1>7, <2>1 DEF Sighted, Cached, repoVars
  <2>3. QED
    BY <1>1, <2>1, <2>2 DEF repoVars
<1>10. CASE Report
  <2>1. InHand \in Session
    BY <1>0, <1>10, InHandMember DEF Report, Handling, CloserTypeOK
  <2>2. DOMAIN cache \subseteq DOMAIN cache'
    BY <1>10, <2>1, CacheGrows DEF Report
  <2>3. /\ closer.pc \notin {"page", "store"} /\ closer'.pc = "tx"
        /\ UNCHANGED <<chain, opened, events, dropped, missed>>
    BY <1>0, <1>10 DEF Report, CloserTypeOK
  <2>4. \A t \in OpenSessions : Sighted(t) => Sighted(t)'
    BY <1>7, <2>2, <2>3 DEF Sighted, Cached
  <2>5. QED
    BY <1>1, <2>3, <2>4
<1>11. CASE Unreadable \/ AlreadyClosed \/ CloseTxFails \/ RemoveClosed
  <2>1. /\ closer.pc \notin {"page", "store"} /\ closer'.pc = "scan"
        /\ UNCHANGED <<chain, opened, events, missed>>
    BY <1>0, <1>11
       DEF Unreadable, AlreadyClosed, CloseTxFails, RemoveClosed, Examining,
           Scan, CloserTypeOK
  <2>2. ASSUME NEW t \in OpenSessions, Cached(t) \/ t \in dropped
        PROVE  Cached(t)' \/ t \in dropped'
    <3>1. CASE Unreadable
      <4>1. /\ DOMAIN cache' = DOMAIN cache \ {InHand}
            /\ dropped' = dropped \union ({InHand} \intersect OpenSessions)
        BY <3>1 DEF Unreadable, Without, Drop, Restrict
      <4>2. QED
        BY <2>2, <4>1 DEF Cached
    <3>2. CASE AlreadyClosed
      <4>1. /\ DOMAIN cache' = DOMAIN cache \ {InHand} /\ dropped' = dropped
            /\ InHand \notin OpenSessions
        BY <3>2
           DEF AlreadyClosed, Forgotten, Without, Drop, Restrict, OpenSessions
      <4>2. QED
        BY <2>2, <4>1 DEF Cached
    <3>3. CASE CloseTxFails
      BY <2>2, <3>3 DEF CloseTxFails, KeptForRetry, Cached
    <3>4. CASE RemoveClosed
      <4>1. /\ DOMAIN cache' = DOMAIN cache \ {InHand} /\ dropped' = dropped
            /\ chain[InHand] = "closed"
        BY <3>4
           DEF RemoveClosed, Without, Drop, Restrict, Followed, RemovesClosed
      <4>2. QED
        BY <2>2, <4>1 DEF Cached, OpenSessions, IsOpen
    <3>5. QED
      BY <1>11, <3>1, <3>2, <3>3, <3>4
  <2>3. \A t \in OpenSessions : Sighted(t) => Sighted(t)'
    BY <1>7, <2>1, <2>2 DEF Sighted
  <2>4. QED
    BY <1>1, <2>1, <2>3
<1>12. CASE CloseMinedUnknown \/ CloseTxMined
  <2>1. PICK s \in Session : s = InHand
    BY <1>0, <1>12, InHandMember
       DEF CloseMinedUnknown, CloseTxMined, Handling, CloserTypeOK
  <2>2. /\ chain[s] = "open" /\ chain' = [chain EXCEPT ![s] = "closed"]
        /\ events' \in {events, Append(events, <<"closed", s>>)}
        /\ UNCHANGED <<cache, opened, dropped, missed>>
        /\ closer.pc = "tx"
    BY <1>12, <2>1 DEF CloseMinedUnknown, CloseTxMined, ClosesOnChain
  <2>3. RemovesClosed'
    <3>1. CASE CloseMinedUnknown
      BY <1>0, <3>1 DEF CloseMinedUnknown, Scan, CloserTypeOK, RemovesClosed
    <3>2. CASE CloseTxMined
      <4>1. closer'.todo = closer.todo
        BY <1>0, <3>2 DEF CloseTxMined, CloserTypeOK
      <4>2. InHand' = s
        BY <2>1, <4>1 DEF InHand
      <4>3. chain'[s] = "closed"
        BY <1>0, <2>2 DEF RepoTypeOK
      <4>4. QED
        BY <4>2, <4>3 DEF RemovesClosed
    <3>3. QED
      BY <1>12, <3>1, <3>2
  <2>4. \A t \in Session : Coming(t) => Coming(t)'
    BY <1>7, <2>2
  <2>5. QED
    BY <1>0, <2>2, <2>3, <2>4, ClosesFollowed
<1>13. QED
  BY <1>0, <1>2, <1>3, <1>4, <1>5, <1>6, <1>8, <1>9, <1>10, <1>11, <1>12
     DEF Closer

\* After a stop everything that is open is in the diamond's list, which the
\* rehydration reads from its end.
LEMMA StopFollowed ==
  ASSUME TypeInv, Followed, Stop
  PROVE  Followed'
<1>1. PICK mined \in SUBSET {s \in Session : At(s, "open")} :
        /\ chain' = [s \in Session |->
                       IF s \in mined THEN "open" ELSE chain[s]]
        /\ call' = [s \in Session |->
             Stopped(IF s \in mined THEN [call[s] EXCEPT !.paid = @ + 1]
                     ELSE call[s])]
        /\ opened' \in Seq(Session)
        /\ Range(opened') = Range(opened) \union mined
  BY StopMines DEF TypeInv, TypeOK
<1>2. closer' = Starting /\ events' = <<>>
  BY DEF Stop
<1>3. ASSUME NEW s \in Session, call'[s].pc \in Unpaid
      PROVE  chain'[s] = "none"
  <2>1. call[s] \in CallRecord
    BY DEF TypeInv, Calls
  <2>2. CASE s \in mined
    <3>1. [call[s] EXCEPT !.paid = @ + 1].pc = "open"
      BY <1>1, <2>1, <2>2 DEF At, CallRecord
    <3>2. Stopped([call[s] EXCEPT !.paid = @ + 1]).pc = "failed"
      BY <2>1, <3>1 DEF Stopped, CallRecord
    <3>3. QED
      BY <1>1, <1>3, <2>2, <3>2 DEF Unpaid
  <2>3. CASE s \notin mined
    <3>1. call'[s] = Stopped(call[s]) /\ chain'[s] = chain[s]
      BY <1>1, <2>3
    <3>2. Stopped(call[s]).pc = "failed" \/ Stopped(call[s]) = call[s]
      BY <2>1 DEF Stopped, CallRecord
    <3>3. QED
      BY <1>3, <3>1, <3>2 DEF Followed, Unpaid
  <2>4. QED
    BY <2>2, <2>3
<1>4. ClosedEvents'
  BY <1>2 DEF ClosedEvents
<1>5. OpenSessions' \subseteq Range(opened')
  <2>1. OpenSessions' \subseteq OpenSessions \union mined
    BY <1>1 DEF OpenSessions, IsOpen
  <2>2. QED
    BY <1>1, <2>1 DEF Followed
<1>6. RemovesClosed'
  BY <1>2 DEF RemovesClosed, Starting
<1>7. ASSUME NEW s \in OpenSessions'
      PROVE  Sighted(s)'
  <2>1. PICK i \in DOMAIN opened' : opened'[i] = s
    BY <1>5 DEF Range
  <2>2. DOMAIN opened' = 1 .. Len(opened') /\ Len(opened') \in Nat
    BY <1>1
  <2>3. closer'.offset = 0 /\ closer'.pc = "page"
    BY <1>2 DEF Starting
  <2>4. i \in 1 .. Len(opened') - closer'.offset
    BY <2>1, <2>2, <2>3
  <2>5. Coming(s)'
    BY <2>1, <2>3, <2>4 DEF Coming
  <2>6. QED
    BY <2>5 DEF Sighted
<1>8. QED
  BY <1>3, <1>4, <1>5, <1>6, <1>7 DEF Followed

NodeInv == TypeInv /\ Followed

LEMMA InitFollowed == Init => Followed
<1> SUFFICES ASSUME Init PROVE Followed
  OBVIOUS
<1>1. \A s \in Session : chain[s] = "none"
  BY DEF Init, RepoInit
<1>2. events = <<>> /\ closer.pc = "scan"
  BY DEF Init, RepoInit, CloserInit, Starting
<1>3. QED
  BY <1>1, <1>2
     DEF Followed, OpenSessions, IsOpen, ClosedEvents, RemovesClosed

LEMMA NextFollowed ==
  ASSUME NodeInv, [Next]_allVars
  PROVE  Followed'
<1>0. TypeInv /\ Followed
  BY DEF NodeInv
<1>1. ASSUME UNCHANGED <<chain, opened, events, cache, closer, dropped,
                         missed, call>>
      PROVE  Followed'
  BY <1>0, <1>1, CacheFollowed DEF RequestsAdvance
<1>2. ASSUME NEW s \in Session, TimePasses(s)
      PROVE  Followed'
  BY <1>1, <1>2 DEF TimePasses, Expire, closerVars, openingVars
<1>3. ASSUME Administers \/ Start \/ UNCHANGED allVars
      PROVE  Followed'
  BY <1>1, <1>3
     DEF Administers, Start, allVars, repoVars, closerVars, openingVars
<1>4. QED
  BY <1>0, <1>2, <1>3, OpenFollowed, PromptFollowed, ApiCloseFollowed,
     ElsewhereFollowed, ListensFollowed, CloserFollowed, StopFollowed
     DEF Next

\* The inductive invariant of the sessions' cache, of the handler that closes
\* them and of everything that feeds it, through every step of the node and
\* its stops.
THEOREM NodeInvariant == Spec => []NodeInv
<1>1. Init => NodeInv
  BY InitTypes, InitFollowed DEF NodeInv
<1>2. NodeInv /\ [Next]_allVars => NodeInv'
  BY NextTypes, NextFollowed DEF NodeInv
<1>3. QED
  BY <1>1, <1>2, PTL DEF Spec

\* Every variable of the consumer node keeps its type: every session that is
\* cached, listed or reported is one of the wallet's, and every request still
\* has a provider to try when it tries one (tryOpenSession).
THEOREM NodeTypes == Spec => []TypeOK
<1>1. NodeInv => TypeOK
  BY DEF NodeInv, TypeInv
<1>2. QED
  BY <1>1, NodeInvariant, PTL

\* For any number of sessions and stops, whichever requests and closes fail
\* and whoever writes a record back late: an open session is in the cache, or
\* its event is on the way, or rehydration has yet to come to it, unless since
\* the node started its event was skipped, a read of it failed, or
\* rehydration has ended early without it, as it may with nothing failing
\* (SessionExpiryHandler, GetSession, handleSessionOpened,
\* handleSessionClosed).
THEOREM OpenTracked == Spec => []OpenIsTracked
<1>1. NodeInv => OpenIsTracked
  BY DEF NodeInv, Followed, Sighted, OpenIsTracked
<1>2. QED
  BY <1>1, NodeInvariant, PTL
=============================================================================
