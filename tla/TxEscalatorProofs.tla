------------------------- MODULE TxEscalatorProofs -------------------------
(***************************************************************************)
(* For any number of calls, attempts, refreshes and any lag: the account's *)
(* nonces have no gap, a call overlooks none of its transactions that is   *)
(* mined when it looks at them, and the transactions of a call are bounded. *)
(***************************************************************************)
EXTENDS TxEscalator, FiniteSetTheorems, TLAPS

\* The nonce a call holds was free when it asked, and everything below it was
\* taken; transactions do not leave the pool, so that it stays so.
HeldFilled ==
  \A c \in Calls, k \in Nonces : k < nonce[c] => tx[k] # NoTx
MinedFilled == \A k \in Nonces : k < mined => tx[k] # NoTx

Sending == {"nonce", "send", "resend"}

\* One known transaction for every attempt that is over.
KnownBudget ==
  \A c \in Calls :
    /\ IsFiniteSet(submittedTxs[c])
    /\ Cardinality(submittedTxs[c])
         <= attempt[c] + (IF pc[c] \in Sending THEN 0 ELSE 1)

\* Every attempt that is over has used at most one transaction and one more
\* for each refresh.
PerAttempt == 1 + MaxNonceRefreshes
SentBudget ==
  \A c \in Calls :
    sent[c] <= attempt[c] * PerAttempt
                 + (IF pc[c] \in {"nonce", "send"} THEN nonceRefreshCount[c]
                    ELSE IF pc[c] = "resend" THEN nonceRefreshCount[c] + 1
                    ELSE PerAttempt)

\* The price is bumped with every attempt.
BumpsCountAttempts == \A c \in Calls : bumps[c] = attempt[c]

EscalatorInv ==
  TypeOK /\ NoGap /\ HeldFilled /\ MinedFilled /\ NoMinedOverlooked
    /\ KnownBudget /\ SentBudget /\ BumpsCountAttempts
-----------------------------------------------------------------------------
\* No transaction of the pool is taken for the absence of one.
LEMMA TxIsNotNoTx ==
  ASSUME NEW c \in Calls, NEW b
  PROVE  [call |-> c, bumps |-> b] # NoTx
BY EscalatorAssumption DEF NoTx

LEMMA PerAttemptNat == PerAttempt \in Nat \ {0}
BY EscalatorAssumption DEF PerAttempt

\* The budget of the next attempt.
LEMMA NextAttempt ==
  ASSUME NEW a \in Nat
  PROVE  /\ a * PerAttempt \in Nat
         /\ (a + 1) * PerAttempt = a * PerAttempt + PerAttempt
BY PerAttemptNat

LEMMA InitEscalatorInv == Init => EscalatorInv
<1> SUFFICES ASSUME Init PROVE EscalatorInv
  OBVIOUS
<1> USE EscalatorAssumption DEF Init
<1>1. TypeOK
  BY DEF TypeOK, Txs, NoTx, Nonces
<1>2. NoGap /\ HeldFilled /\ MinedFilled /\ NoMinedOverlooked
  BY DEF NoGap, HeldFilled, MinedFilled, NoMinedOverlooked,
    Nonces
<1>3. KnownBudget
  BY FS_EmptySet DEF KnownBudget, Sending
<1>4. SentBudget
  BY PerAttemptNat, NextAttempt DEF SentBudget
<1>5. BumpsCountAttempts
  BY DEF BumpsCountAttempts
<1> QED
  BY <1>1, <1>2, <1>3, <1>4, <1>5 DEF EscalatorInv
-----------------------------------------------------------------------------
\* The receipts a call finds are of its own mined transactions.
LEMMA MinedOfType ==
  ASSUME TypeOK, NEW c \in Calls
  PROVE  MinedOf(c) \in SUBSET (Nonces \X Nat)
<1> SUFFICES ASSUME NEW n \in Nonces, tx[n].call = c
             PROVE  tx[n].bumps \in Nat
  BY DEF MinedOf
<1> QED
  BY EscalatorAssumption DEF TypeOK, Txs, NoTx

LEMMA TypeStep ==
  ASSUME EscalatorInv, [Next]_vars
  PROVE  TypeOK'
<1> USE EscalatorAssumption DEF EscalatorInv, TypeOK
<1>1. CASE Mine
  <2>1. minedSince' \in [Calls -> SUBSET (Nonces \X Nat)]
    BY <1>1 DEF Mine
  <2> QED
    BY <1>1, <2>1 DEF Mine, Nonces
<1>2. ASSUME NEW c \in Calls, Step(c)
      PROVE  TypeOK'
  <2>0. ASSUME FindsNothing(c)
        PROVE  minedSince' \in [Calls -> SUBSET (Nonces \X Nat)]
    BY <2>0 DEF FindsNothing
  <2>1. CASE GetNonce(c)
    BY <2>1 DEF GetNonce, PendingNonces, chainVars
  <2>2. ASSUME Accept(c)
        PROVE  tx' \in [Nonces -> Txs] /\ sent' \in [Calls -> Nat]
    BY <2>2 DEF Accept, Txs
  <2>3. CASE SendAccepted(c)
    <3>1. <<nonce[c], bumps[c]>> \in Nonces \X Nat
      OBVIOUS
    <3>2. submittedTxs' \in [Calls -> SUBSET (Nonces \X Nat)]
      BY <2>3, <3>1 DEF SendAccepted
    <3> QED
      BY <2>2, <2>3, <3>2 DEF SendAccepted, Accept
  <2>4. CASE SendUnseen(c)
    BY <2>2, <2>4 DEF SendUnseen, Accept
  <2>5. CASE SendTooLowMined(c)
    <3>1. CheckSubmittedTxs(c) \subseteq Nonces \X Nat
      BY DEF CheckSubmittedTxs
    <3>2. receipt' \in [Calls -> SUBSET (Nonces \X Nat)]
      BY <2>5, <3>1 DEF SendTooLowMined
    <3> QED
      BY <2>5, <3>2 DEF SendTooLowMined, Rejected, chainVars
  <2>6. CASE SendTooLow(c)
    <3>1. nonceRefreshCount' \in [Calls -> 0 .. MaxNonceRefreshes]
      BY <2>6 DEF SendTooLow, MayRefresh, Refreshed
    <3> QED
      BY <2>0, <2>6, <3>1 DEF SendTooLow, Rejected, chainVars
  <2>7. CASE SendUnderpriced(c)
    <3>1. attempt' \in [Calls -> 0 .. MaxAttempts - 1]
      BY <2>7 DEF SendUnderpriced
    <3>2. bumps' \in [Calls -> 0 .. MaxAttempts - 1]
      BY <2>7 DEF SendUnderpriced, BumpsCountAttempts
    <3> QED
      BY <2>7, <3>1, <3>2 DEF SendUnderpriced, Rejected, chainVars
  <2>8. CASE WaitMined(c)
    <3>1. receipt' \in [Calls -> SUBSET (Nonces \X Nat)]
      BY <2>8 DEF WaitMined
    <3> QED
      BY <2>8, <3>1 DEF WaitMined, chainVars
  <2>9. CASE CheckMined(c)
    <3>1. CheckSubmittedTxs(c) \subseteq Nonces \X Nat
      BY DEF CheckSubmittedTxs
    <3>2. receipt' \in [Calls -> SUBSET (Nonces \X Nat)]
      BY <2>9, <3>1 DEF CheckMined
    <3> QED
      BY <2>9, <3>2 DEF CheckMined, chainVars
  <2>10. CASE Escalate(c)
    <3>1. /\ attempt' \in [Calls -> 0 .. MaxAttempts - 1]
          /\ bumps' \in [Calls -> 0 .. MaxAttempts - 1]
      BY <2>10 DEF Escalate, AttemptsLeft, BumpsCountAttempts
    <3> QED
      BY <2>0, <2>10, <3>1 DEF Escalate, chainVars
  <2>11. CASE Fail(c)
    BY <2>11 DEF Fail, chainVars
  <2>12. CASE RefreshesSpent(c)
    BY <2>0, <2>12 DEF RefreshesSpent, Rejected, chainVars
  <2> QED
    BY <1>2, <2>1, <2>3, <2>4, <2>5, <2>6, <2>7, <2>8, <2>9, <2>10, <2>11,
       <2>12
       DEF Step
<1>3. CASE UNCHANGED vars
  BY <1>3 DEF vars
<1> QED
  BY <1>1, <1>2, <1>3 DEF Next
-----------------------------------------------------------------------------
(* What a step does to the pool *)

\* Nothing leaves the pool, what is mined stays as it is, and a nonce is only
\* ever taken by the call that holds it.
LEMMA PoolStep ==
  ASSUME EscalatorInv, [Next]_vars
  PROVE  /\ \A k \in Nonces : tx[k] # NoTx => tx'[k] # NoTx
         /\ \A k \in Nonces : k < mined => tx'[k] = tx[k]
         /\ mined' >= mined
         /\ \A k \in Nonces : tx'[k] # NoTx =>
              tx[k] # NoTx \/ \E c \in Calls : nonce[c] = k
<1> USE EscalatorAssumption DEF EscalatorInv, TypeOK
<1>1. CASE UNCHANGED <<tx, mined>> \/ Mine
  BY <1>1 DEF Mine, Nonces
<1>2. CASE \E c \in Calls : Accept(c)
  <2> PICK c \in Calls : Accept(c)
    BY <1>2
  <2>1. /\ tx' = [tx EXCEPT ![nonce[c]] = [call |-> c, bumps |-> bumps[c]]]
        /\ ~(nonce[c] < mined)
        /\ mined' = mined
    BY DEF Accept, NonceTooLow
  <2>2. [call |-> c, bumps |-> bumps[c]] # NoTx
    BY TxIsNotNoTx
  <2> QED
    BY <2>1, <2>2 DEF Nonces
<1> QED
  BY <1>1, <1>2 DEF Next, Step, GetNonce, SendAccepted, SendUnseen,
    SendTooLowMined, SendTooLow, RefreshesSpent, SendUnderpriced, WaitMined,
    CheckMined, Escalate, Fail, Rejected, chainVars, vars

LEMMA NoGapStep ==
  ASSUME EscalatorInv, [Next]_vars
  PROVE  NoGap' /\ MinedFilled' /\ HeldFilled'
<1> USE EscalatorAssumption DEF EscalatorInv, TypeOK
<1>1. NoGap'
  <2> SUFFICES ASSUME NEW n \in Nonces, NEW k \in Nonces,
                      k < n, tx'[n] # NoTx
               PROVE  tx'[k] # NoTx
    BY DEF NoGap
  <2>1. CASE tx[n] # NoTx
    BY <2>1, PoolStep DEF NoGap
  <2>2. CASE \E c \in Calls : nonce[c] = n
    BY <2>2, PoolStep DEF HeldFilled
  <2> QED
    BY <2>1, <2>2, PoolStep
<1>2. MinedFilled'
  <2> SUFFICES ASSUME NEW k \in Nonces, k < mined' PROVE tx'[k] # NoTx
    BY DEF MinedFilled
  <2>1. CASE mined' = mined
    BY <2>1, PoolStep DEF MinedFilled
  <2>2. CASE Mine
    <3>1. mined' = mined + 1 /\ mined \in Nonces /\ tx[mined] # NoTx
      BY <2>2 DEF Mine
    <3>2. tx[k] # NoTx
      <4>1. CASE k < mined
        BY <4>1 DEF MinedFilled
      <4>2. k < mined \/ k = mined
        BY <3>1 DEF Nonces
      <4> QED
        BY <3>1, <4>1, <4>2
    <3> QED
      BY <3>2, PoolStep
  <2> QED
    BY <2>1, <2>2 DEF Next, Step, GetNonce, SendAccepted, SendUnseen,
      SendTooLowMined, SendTooLow, RefreshesSpent, SendUnderpriced,
      WaitMined, CheckMined, Escalate, Fail, Accept, Rejected, chainVars,
      vars
<1>3. HeldFilled'
  <2> SUFFICES ASSUME NEW c \in Calls, NEW k \in Nonces, k < nonce'[c]
               PROVE  tx'[k] # NoTx
    BY DEF HeldFilled
  <2>1. CASE nonce' = nonce
    BY <2>1, PoolStep DEF HeldFilled
  <2>2. CASE \E d \in Calls : GetNonce(d)
    BY <2>2 DEF GetNonce, PendingNonces, HeldFilled, chainVars
  <2> QED
    BY <2>1, <2>2 DEF Next, Step, Mine, SendAccepted, SendUnseen,
      SendTooLowMined, SendTooLow, RefreshesSpent, SendUnderpriced,
      WaitMined, CheckMined, Escalate, Fail, callVars, vars
<1> QED
  BY <1>1, <1>2, <1>3

\* A step adds to what a call does not report only what is mined in it.
LEMMA OverlookedStep ==
  ASSUME EscalatorInv, [Next]_vars
  PROVE  NoMinedOverlooked'
<1> USE EscalatorAssumption DEF EscalatorInv, TypeOK
<1> SUFFICES ASSUME NEW c \in Calls, receipt'[c] = {},
                    NEW n \in Nonces, n < mined', tx'[n].call = c,
                    <<n, tx'[n].bumps>> \in submittedTxs'[c]
             PROVE  <<n, tx'[n].bumps>> \in minedSince'[c]
  BY DEF NoMinedOverlooked, MinedOf
<1>0. n \in Int /\ mined \in Int /\ mined' \in Int
  <2>1. mined' \in 0 .. MaxNonce + 1
    BY TypeStep
  <2> QED
    BY <2>1 DEF Nonces
<1>1. ASSUME receipt[c] = {}, n < mined, tx'[n] = tx[n],
             <<n, tx[n].bumps>> \in submittedTxs[c]
      PROVE  /\ <<n, tx[n].bumps>> \in CheckSubmittedTxs(c)
             /\ <<n, tx[n].bumps>> \in minedSince[c]
  BY <1>1 DEF NoMinedOverlooked, MinedOf, CheckSubmittedTxs
<1>2. CASE Mine
  <2>1. /\ tx' = tx /\ submittedTxs' = submittedTxs /\ receipt' = receipt
        /\ mined' = mined + 1
        /\ minedSince'[c] = minedSince[c] \union
             {t \in submittedTxs[c] :
                tx[mined].call = c /\ t = <<mined, tx[mined].bumps>>}
    BY <1>2 DEF Mine
  <2>2. CASE n < mined
    BY <1>1, <2>1, <2>2
  <2>3. CASE n = mined
    BY <2>1, <2>3
  <2> QED
    BY <1>0, <2>1, <2>2, <2>3
<1>3. CASE UNCHANGED <<mined, tx, submittedTxs[c], receipt[c], minedSince[c]>>
  BY <1>1, <1>3
<1>4. ASSUME NEW d \in Calls, Accept(d)
      PROVE  n < mined /\ tx'[n] = tx[n] /\ n # nonce[d]
  BY <1>0, <1>4 DEF Accept, NonceTooLow
<1>5. ASSUME NEW d \in Calls, SendAccepted(d) \/ SendUnseen(d)
      PROVE  <<n, tx'[n].bumps>> \in minedSince'[c]
  <2>1. Accept(d) /\ receipt' = receipt /\ minedSince' = minedSince
    BY <1>5 DEF SendAccepted, SendUnseen
  <2>2. \/ submittedTxs'[c] = submittedTxs[c]
        \/ submittedTxs'[c] = submittedTxs[c] \union {<<nonce[d], bumps[d]>>}
    BY <1>5 DEF SendAccepted, SendUnseen
  <2> QED
    BY <1>1, <1>4, <2>1, <2>2
<1>6. ASSUME NEW d \in Calls, FindsNothing(d),
             UNCHANGED <<chainVars, submittedTxs, receipt>>
      PROVE  <<n, tx'[n].bumps>> \in minedSince'[c]
  <2>1. /\ <<n, tx[n].bumps>> \in CheckSubmittedTxs(c)
        /\ <<n, tx[n].bumps>> \in minedSince[c]
    BY <1>1, <1>6 DEF chainVars
  <2>2. minedSince'[c] = minedSince[c]
    BY <1>6, <2>1 DEF FindsNothing
  <2> QED
    BY <1>6, <2>1, <2>2 DEF chainVars
<1>7. ASSUME NEW d \in Calls, NEW t,
             UNCHANGED <<chainVars, submittedTxs, minedSince>>,
             receipt' = [receipt EXCEPT ![d] = {t}]
      PROVE  <<n, tx'[n].bumps>> \in minedSince'[c]
  <2>1. receipt[c] = {}
    BY <1>7
  <2> QED
    BY <1>1, <1>7, <2>1 DEF chainVars
<1>8. ASSUME NEW d \in Calls, Step(d)
      PROVE  <<n, tx'[n].bumps>> \in minedSince'[c]
  <2>1. CASE GetNonce(d) \/ SendUnderpriced(d) \/ Fail(d)
    BY <1>3, <2>1 DEF GetNonce, SendUnderpriced, Fail, Rejected, chainVars
  <2>2. CASE SendTooLow(d) \/ RefreshesSpent(d) \/ Escalate(d)
    BY <1>6, <2>2 DEF SendTooLow, RefreshesSpent, Escalate, Rejected, chainVars
  <2>3. CASE SendTooLowMined(d)
    BY <1>7, <2>3 DEF SendTooLowMined, Rejected
  <2>4. CASE CheckMined(d)
    BY <1>7, <2>4 DEF CheckMined
  <2>5. CASE WaitMined(d)
    BY <1>7, <2>5 DEF WaitMined
  <2> QED
    BY <1>5, <1>8, <2>1, <2>2, <2>3, <2>4, <2>5 DEF Step
<1> QED
  BY <1>2, <1>3, <1>8 DEF Next, vars

LEMMA BumpsStep ==
  ASSUME EscalatorInv, [Next]_vars
  PROVE  BumpsCountAttempts'
<1> USE DEF EscalatorInv, TypeOK, BumpsCountAttempts
<1>1. CASE UNCHANGED <<bumps, attempt>>
  BY <1>1
<1>2. CASE \E c \in Calls :
             /\ bumps' = [bumps EXCEPT ![c] = @ + 1]
             /\ attempt' = [attempt EXCEPT ![c] = @ + 1]
  BY <1>2
<1> QED
  BY <1>1, <1>2 DEF Next, Step, Mine, GetNonce, SendAccepted, SendUnseen,
    SendTooLowMined, SendTooLow, RefreshesSpent, SendUnderpriced, WaitMined,
    CheckMined, Escalate, Fail, callVars, vars
-----------------------------------------------------------------------------
(* The budgets: how a step moves one call, and that it moves no other *)

LEMMA KnownBudgetStep ==
  ASSUME EscalatorInv, [Next]_vars
  PROVE  KnownBudget'
<1> USE DEF EscalatorInv, TypeOK
<1> DEFINE Known(c) ==
      /\ IsFiniteSet(submittedTxs[c])
      /\ Cardinality(submittedTxs[c])
           <= attempt[c] + (IF pc[c] \in Sending THEN 0 ELSE 1)
<1> SUFFICES ASSUME NEW c \in Calls PROVE Known(c)'
  BY DEF KnownBudget
<1>0. Known(c) /\ Cardinality(submittedTxs[c]) \in Nat
  BY FS_CardinalityType DEF KnownBudget
<1>1. CASE /\ submittedTxs'[c] = submittedTxs[c]
           /\ attempt'[c] = attempt[c]
           /\ pc'[c] \in Sending => pc[c] \in Sending
  BY <1>0, <1>1
<1>2. CASE /\ submittedTxs'[c] = submittedTxs[c]
           /\ attempt'[c] = attempt[c] + 1
  BY <1>0, <1>2
<1>3. CASE /\ submittedTxs'[c] = submittedTxs[c] \union {<<nonce[c], bumps[c]>>}
           /\ attempt'[c] = attempt[c]
           /\ pc[c] = "send" /\ pc'[c] = "wait"
  <2> DEFINE S == submittedTxs[c]
             t == <<nonce[c], bumps[c]>>
  <2>0. /\ IsFiniteSet(S \union {t})
        /\ \/ Cardinality(S \union {t}) = Cardinality(S)
           \/ Cardinality(S \union {t}) = Cardinality(S) + 1
    <3> HIDE DEF S, t
    <3>1. IsFiniteSet(S)
      BY <1>0 DEF S
    <3> QED
      BY <3>1, FS_AddElement
  <2>1. /\ IsFiniteSet(submittedTxs'[c])
        /\ Cardinality(submittedTxs'[c]) <= Cardinality(submittedTxs[c]) + 1
    BY <1>0, <1>3, <2>0
  <2>2. Cardinality(submittedTxs'[c]) \in Nat
    BY <2>1, FS_CardinalityType
  <2> QED
    BY <1>0, <1>3, <2>1, <2>2 DEF Sending
<1>4. ASSUME NEW d \in Calls, Step(d), d # c
      PROVE  UNCHANGED <<submittedTxs[c], attempt[c], pc[c]>>
  BY <1>4 DEF Step, GetNonce, SendAccepted, SendUnseen, SendTooLowMined,
    SendTooLow, RefreshesSpent, SendUnderpriced, WaitMined, CheckMined,
    Escalate, Fail
<1>5. CASE Step(c)
  BY <1>1, <1>2, <1>3, <1>5 DEF Step, GetNonce, SendAccepted, SendUnseen,
    SendTooLowMined, SendTooLow, RefreshesSpent, SendUnderpriced, WaitMined,
    CheckMined, Escalate, Fail, Rejected, Sending
<1> QED
  BY <1>1, <1>4, <1>5 DEF Next, Mine, callVars, vars

LEMMA SentBudgetStep ==
  ASSUME EscalatorInv, [Next]_vars
  PROVE  SentBudget'
<1> USE DEF EscalatorInv, TypeOK
<1> DEFINE Allowed(c) ==
      IF pc[c] \in {"nonce", "send"} THEN nonceRefreshCount[c]
      ELSE IF pc[c] = "resend" THEN nonceRefreshCount[c] + 1
      ELSE PerAttempt
<1> SUFFICES ASSUME NEW c \in Calls
             PROVE  (sent[c] <= attempt[c] * PerAttempt + Allowed(c))'
  BY DEF SentBudget
<1> DEFINE spent == attempt[c] * PerAttempt
<1>0. /\ sent[c] <= spent + Allowed(c)
      /\ spent \in Nat
      /\ PerAttempt \in Nat
      /\ nonceRefreshCount[c] + 1 <= PerAttempt
      /\ nonceRefreshCount[c] \in Nat
      /\ nonceRefreshCount'[c] \in Nat
      /\ (attempt[c] + 1) * PerAttempt = spent + PerAttempt
  <2>1. attempt[c] \in Nat /\ nonceRefreshCount[c] \in 0 .. MaxNonceRefreshes
    BY EscalatorAssumption
  <2>2. nonceRefreshCount'[c] \in Nat
    BY TypeStep, EscalatorAssumption
  <2>3. sent[c] <= spent + Allowed(c)
    BY DEF SentBudget
  <2>4. /\ spent \in Nat
        /\ (attempt[c] + 1) * PerAttempt = spent + PerAttempt
    BY <2>1, NextAttempt
  <2>5. PerAttempt \in Nat /\ nonceRefreshCount[c] + 1 <= PerAttempt
    BY <2>1, EscalatorAssumption DEF PerAttempt
  <2> QED
    BY <2>1, <2>2, <2>3, <2>4, <2>5
<1> HIDE DEF spent
<1>1. CASE /\ sent'[c] = sent[c] + 1
           /\ attempt'[c] = attempt[c]
           /\ pc[c] = "send"
           /\ \/ pc'[c] = "wait"
              \/ pc'[c] = "resend" /\ nonceRefreshCount'[c] = nonceRefreshCount[c]
  <2>1. attempt'[c] * PerAttempt = spent
    BY <1>1 DEF spent
  <2> QED
    BY <1>0, <1>1, <2>1
<1>2. CASE /\ sent'[c] = sent[c]
           /\ attempt'[c] = attempt[c] + 1
           /\ pc'[c] = "nonce"
  <2>1. attempt'[c] * PerAttempt = spent + PerAttempt
    BY <1>0, <1>2
  <2> QED
    BY <1>0, <1>2, <2>1
<1>3. CASE /\ sent'[c] = sent[c]
           /\ attempt'[c] = attempt[c]
           /\ \/ /\ pc'[c] = pc[c]
                 /\ nonceRefreshCount'[c] = nonceRefreshCount[c]
              \/ /\ pc[c] = "nonce" /\ pc'[c] = "send"
                 /\ nonceRefreshCount'[c] = nonceRefreshCount[c]
              \/ /\ pc[c] \in {"send", "resend"} /\ pc'[c] = "nonce"
                 /\ nonceRefreshCount'[c] = nonceRefreshCount[c] + 1
              \/ pc'[c] = "done"
  <2>1. attempt'[c] * PerAttempt = spent
    BY <1>3 DEF spent
  <2> QED
    BY <1>0, <1>3, <2>1
<1>4. ASSUME NEW d \in Calls, Step(d), d # c
      PROVE  UNCHANGED <<sent[c], attempt[c], pc[c], nonceRefreshCount[c]>>
  BY <1>4 DEF Step, GetNonce, SendAccepted, SendUnseen, SendTooLowMined,
    SendTooLow, RefreshesSpent, SendUnderpriced, WaitMined, CheckMined,
    Escalate, Fail, Accept, Rejected
<1>5. CASE Step(c)
  BY <1>1, <1>2, <1>3, <1>5 DEF Step, GetNonce, SendAccepted, SendUnseen,
    SendTooLowMined, SendTooLow, RefreshesSpent, SendUnderpriced, WaitMined,
    CheckMined, Escalate, Fail, Accept, Rejected, Refreshed
<1> QED
  BY <1>3, <1>4, <1>5 DEF Next, Mine, callVars, vars
-----------------------------------------------------------------------------
LEMMA BudgetImplied == EscalatorInv => TxBudget
<1> SUFFICES ASSUME EscalatorInv, NEW c \in Calls
             PROVE  /\ Cardinality(submittedTxs[c]) <= MaxAttempts
                    /\ sent[c] <= MaxAttempts * (1 + MaxNonceRefreshes)
  BY DEF TxBudget
<1> USE EscalatorAssumption DEF EscalatorInv, TypeOK
<1>1. Cardinality(submittedTxs[c]) <= MaxAttempts
  <2>1. Cardinality(submittedTxs[c]) \in Nat
    BY FS_CardinalityType DEF KnownBudget
  <2>2. Cardinality(submittedTxs[c]) <= attempt[c] + 1
    BY <2>1 DEF KnownBudget
  <2>3. attempt[c] \in 0 .. MaxAttempts - 1
    OBVIOUS
  <2> QED
    BY <2>1, <2>2, <2>3
<1>2. sent[c] <= (attempt[c] + 1) * PerAttempt
  BY NextAttempt, PerAttemptNat DEF SentBudget, PerAttempt
<1>3. ASSUME NEW a \in Nat, NEW b \in Nat, NEW m \in Nat, a <= b
      PROVE  a * m <= b * m /\ a * m \in Nat /\ b * m \in Nat
  BY <1>3
<1>4. attempt[c] + 1 \in Nat /\ attempt[c] + 1 <= MaxAttempts
  OBVIOUS
<1>5. sent[c] <= MaxAttempts * PerAttempt
  BY <1>2, <1>3, <1>4, PerAttemptNat
<1> QED
  BY <1>1, <1>5 DEF PerAttempt

\* The inductive invariant of the escalator.
THEOREM EscalatorInvariant == Spec => []EscalatorInv
<1>1. ASSUME EscalatorInv, [Next]_vars
      PROVE  EscalatorInv'
  BY <1>1, TypeStep, NoGapStep, OverlookedStep, KnownBudgetStep,
     SentBudgetStep, BumpsStep DEF EscalatorInv
<1> QED
  BY InitEscalatorInv, <1>1, PTL DEF Spec

\* The variables of calls and pool keep their types.
THEOREM EscalatorTypes == Spec => []TypeOK
<1>1. EscalatorInv => TypeOK
  BY DEF EscalatorInv
<1> QED
  BY <1>1, EscalatorInvariant, PTL

\* The nonces that concurrent, lagging and failing calls use have no gap.
THEOREM NoncesWithoutGap == Spec => []NoGap
<1>1. EscalatorInv => NoGap
  BY DEF EscalatorInv
<1> QED
  BY <1>1, EscalatorInvariant, PTL

\* A call that goes on or fails overlooks none of the transactions it knows
\* of, whatever other calls and blocks do between its looks.
THEOREM NothingMinedOverlooked == Spec => []NoMinedOverlooked
<1>1. EscalatorInv => NoMinedOverlooked
  BY DEF EscalatorInv
<1> QED
  BY <1>1, EscalatorInvariant, PTL

\* The number of transactions of a call is bounded.
THEOREM TxsBounded == Spec => []TxBudget
  BY BudgetImplied, EscalatorInvariant, PTL
=============================================================================
