---------------------------- MODULE TxEscalator ----------------------------
(***************************************************************************)
(* The proxy-router's TransactionEscalator: calls that send transactions   *)
(* from the one account of the node, and resubmit them with a higher gas   *)
(* price while they are not mined, with the nodes' pool and the chain      *)
(* under them.  The calls run concurrently (the HTTP handlers, the expiry  *)
(* handler and the stake claimer share the account).                       *)
(*                                                                         *)
(* Gas prices are the number of bumps on a common starting price: a bump   *)
(* is at least the 10% a node asks of a replacement.  The deployed         *)
(* configuration has no maximal gas price.                                 *)
(***************************************************************************)
EXTENDS Integers, FiniteSets

CONSTANTS
  Calls,                \* calls of SendWithEscalation
  NoCall,
  MaxAttempts,          \* config.MaxAttempts
  MaxNonceRefreshes,    \* maxNonceRefreshes
  MaxLag,               \* transactions an endpoint may not have heard of
  MaxNonce              \* bound on the account's nonces

ASSUME EscalatorAssumption ==
  /\ NoCall \notin Calls
  /\ MaxAttempts \in Nat \ {0}
  /\ MaxNonceRefreshes \in Nat
  /\ MaxLag \in Nat
  /\ MaxNonce \in Nat

VARIABLES
  tx,                   \* the transaction holding each nonce, if any
  mined,                \* the account's nonce: all below it are mined
  pc,                   \* where a call is in SendWithEscalation
  attempt,
  nonce,
  bumps,                \* how often gasPrices was bumped
  nonceRefreshCount,
  submittedTxs,         \* the accepted transactions it knows of
  sent,                 \* history: how many of its transactions were accepted
  minedSince,           \* history: those it knows of that were mined since
                        \* its last look at the receipts of all of them
  receipt               \* the transactions whose receipts it returned

chainVars == <<tx, mined>>
callVars == <<pc, attempt, nonce, bumps, nonceRefreshCount, submittedTxs,
              sent, minedSince, receipt>>
vars == <<tx, mined, pc, attempt, nonce, bumps, nonceRefreshCount,
          submittedTxs, sent, minedSince, receipt>>

Nonces == 0 .. MaxNonce
NoTx == [call |-> NoCall, bumps |-> 0]
Txs == [call : Calls, bumps : Nat] \union {NoTx}

\* A call knows its transactions by their hashes, which a nonce and a price
\* determine; the one that holds the nonce may be another call's by now.
MinedOf(c) ==
  {<<n, tx[n].bumps>> : n \in {k \in Nonces : k < mined /\ tx[k].call = c}}
-----------------------------------------------------------------------------
(* The endpoints *)

\* PendingNonceAt: the first nonce that no known transaction holds.  The
\* endpoint asked may be behind by MaxLag transactions.
PendingNonces ==
  {n \in Nonces : /\ \A k \in Nonces : k < n => tx[k] # NoTx
                  /\ \E k \in Nonces : k <= n + MaxLag /\ tx[k] = NoTx}

NonceTooLow(n) == n < mined

\* A pool takes a transaction in the place of another with the same nonce
\* only for a higher price.
Underpriced(n, price) == tx[n] # NoTx /\ price <= tx[n].bumps

\* A block mines the account's transactions in the order of their nonces.
Mine ==
  /\ mined \in Nonces
  /\ tx[mined] # NoTx
  /\ mined' = mined + 1
  /\ minedSince' = [c \in Calls |-> minedSince[c] \union
       {t \in submittedTxs[c] :
          tx[mined].call = c /\ t = <<mined, tx[mined].bumps>>}]
  /\ UNCHANGED <<tx, pc, attempt, nonce, bumps, nonceRefreshCount,
                 submittedTxs, sent, receipt>>
-----------------------------------------------------------------------------
(* SendWithEscalation *)

Init ==
  /\ tx = [n \in Nonces |-> NoTx]
  /\ mined = 0
  /\ pc = [c \in Calls |-> "nonce"]
  /\ attempt = [c \in Calls |-> 0]
  /\ nonce = [c \in Calls |-> 0]
  /\ bumps = [c \in Calls |-> 0]
  /\ nonceRefreshCount = [c \in Calls |-> 0]
  /\ submittedTxs = [c \in Calls |-> {}]
  /\ sent = [c \in Calls |-> 0]
  /\ minedSince = [c \in Calls |-> {}]
  /\ receipt = [c \in Calls |-> {}]

\* (As if nonces were counted up from the first attempt's.)
GetNonceOnce(c) ==                                      \* mutant
  /\ pc[c] = "nonce"
  /\ IF attempt[c] = 0
     THEN \E n \in PendingNonces : nonce' = [nonce EXCEPT ![c] = n]
     ELSE nonce' = [nonce EXCEPT ![c] = @ + 1]
  /\ pc' = [pc EXCEPT ![c] = "send"]
  /\ UNCHANGED <<chainVars, attempt, bumps, nonceRefreshCount, submittedTxs,
                 sent, minedSince, receipt>>
\* Every attempt asks for a fresh nonce, to keep clear of other calls.
GetNonce(c) ==
  /\ pc[c] = "nonce"
  /\ \E n \in PendingNonces : nonce' = [nonce EXCEPT ![c] = n]
  /\ pc' = [pc EXCEPT ![c] = "send"]
  /\ UNCHANGED <<chainVars, attempt, bumps, nonceRefreshCount, submittedTxs,
                 sent, minedSince, receipt>>

\* The transaction enters the pool.
Accept(c) ==
  /\ ~NonceTooLow(nonce[c])
  /\ ~Underpriced(nonce[c], bumps[c])
  /\ tx' = [tx EXCEPT ![nonce[c]] = [call |-> c, bumps |-> bumps[c]]]
  /\ sent' = [sent EXCEPT ![c] = @ + 1]
  /\ UNCHANGED mined

\* SendTransaction succeeds.
SendAccepted(c) ==
  /\ pc[c] = "send"
  /\ Accept(c)
  /\ nonceRefreshCount' = [nonceRefreshCount EXCEPT ![c] = 0]
  /\ submittedTxs' = [submittedTxs EXCEPT
                        ![c] = @ \union {<<nonce[c], bumps[c]>>}]
  /\ pc' = [pc EXCEPT ![c] = "wait"]
  /\ UNCHANGED <<attempt, nonce, bumps, minedSince, receipt>>

\* A transaction accepted while its answer is lost: the RPC client repeats
\* the call at another endpoint, where the same transaction is known by then
\* (or mined, and its nonce too low).  The call never learns it was accepted.
SendUnseen(c) ==
  /\ pc[c] = "send"
  /\ Accept(c)
  /\ pc' = [pc EXCEPT ![c] = "resend"]
  /\ UNCHANGED <<attempt, nonce, bumps, nonceRefreshCount, submittedTxs,
                 minedSince, receipt>>

Rejected(c) == pc[c] \in {"send", "resend"} /\ UNCHANGED <<chainVars, sent>>

LatestSubmitted(c) ==                                   \* mutant
  submittedTxs[c] \intersect MinedOf(c) \intersect {<<nonce[c], bumps[c]>>}
\* checkSubmittedTxs: any of them may be the one that was mined.
CheckSubmittedTxs(c) == submittedTxs[c] \intersect MinedOf(c)

\* It finds nothing: none of them is mined, or a receipt cannot be read, which
\* counts as none.
FindsNothing(c) ==
  \/ /\ CheckSubmittedTxs(c) = {}
     /\ minedSince' = [minedSince EXCEPT ![c] = {}]
  \/ UNCHANGED minedSince

\* "nonce too low" when one of the transactions it knows of was mined
SendTooLowMined(c) ==
  /\ Rejected(c)
  /\ NonceTooLow(nonce[c])
  /\ \E t \in CheckSubmittedTxs(c) : receipt' = [receipt EXCEPT ![c] = {t}]
  /\ pc' = [pc EXCEPT ![c] = "done"]
  /\ UNCHANGED <<attempt, nonce, bumps, nonceRefreshCount, submittedTxs,
                 minedSince>>

MayAlwaysRefresh(c) == TRUE                             \* mutant
MayRefresh(c) == nonceRefreshCount[c] < MaxNonceRefreshes

Uncounted(c) == nonceRefreshCount[c]                    \* mutant
Refreshed(c) == nonceRefreshCount[c] + 1

\* "nonce too low" and no receipt found: again, without counting the attempt...
SendTooLow(c) ==
  /\ Rejected(c)
  /\ NonceTooLow(nonce[c])
  /\ FindsNothing(c)
  /\ MayRefresh(c)
  /\ nonceRefreshCount' = [nonceRefreshCount EXCEPT ![c] = Refreshed(c)]
  /\ pc' = [pc EXCEPT ![c] = "nonce"]
  /\ UNCHANGED <<attempt, nonce, bumps, submittedTxs, receipt>>

\* ... but not without end.
RefreshesSpent(c) ==
  /\ Rejected(c)
  /\ NonceTooLow(nonce[c])
  /\ FindsNothing(c)
  /\ ~MayRefresh(c)
  /\ pc' = [pc EXCEPT ![c] = "done"]
  /\ UNCHANGED <<attempt, nonce, bumps, nonceRefreshCount, submittedTxs,
                 receipt>>

\* What IsReplacementError recognises: "replacement transaction underpriced"
\* or "already known", but also a price below the block's base fee or above
\* the account's means, so at any time.  The price is bumped.
SendUnderpriced(c) ==
  /\ Rejected(c)
  /\ ~NonceTooLow(nonce[c])
  /\ attempt[c] < MaxAttempts - 1
  /\ bumps' = [bumps EXCEPT ![c] = @ + 1]
  /\ attempt' = [attempt EXCEPT ![c] = @ + 1]
  /\ pc' = [pc EXCEPT ![c] = "nonce"]
  /\ UNCHANGED <<nonce, nonceRefreshCount, submittedTxs, minedSince, receipt>>

\* Any other error, a price still too low at the last attempt, or a builder
\* or nonce request that fails: the call returns an error at once, without a
\* look at the transactions it submitted.  (A wait never ends it: the caller's
\* cancelled context makes the look fail, then the next request.)
Fail(c) ==
  /\ pc[c] \in {"nonce", "send", "resend"}
  /\ pc' = [pc EXCEPT ![c] = "done"]
  /\ UNCHANGED <<chainVars, attempt, nonce, bumps, nonceRefreshCount,
                 submittedTxs, sent, minedSince, receipt>>

\* waitForMining looks for the receipt of the latest transaction only.
WaitMined(c) ==
  /\ pc[c] = "wait"
  /\ <<nonce[c], bumps[c]>> \in MinedOf(c)
  /\ receipt' = [receipt EXCEPT ![c] = {<<nonce[c], bumps[c]>>}]
  /\ pc' = [pc EXCEPT ![c] = "done"]
  /\ UNCHANGED <<chainVars, attempt, nonce, bumps, nonceRefreshCount,
                 submittedTxs, sent, minedSince>>

\* The interval is over (the deadline of the whole escalation is reported the
\* same way, so that it does not end the loop): a transaction it knows of was
\* mined...
CheckMined(c) ==
  /\ pc[c] = "wait"
  /\ \E t \in CheckSubmittedTxs(c) : receipt' = [receipt EXCEPT ![c] = {t}]
  /\ pc' = [pc EXCEPT ![c] = "done"]
  /\ UNCHANGED <<chainVars, attempt, nonce, bumps, nonceRefreshCount,
                 submittedTxs, sent, minedSince>>

MoreAttempts(c) == attempt[c] < MaxAttempts             \* mutant
AttemptsLeft(c) == attempt[c] < MaxAttempts - 1

\* ... or none is seen to be, and the price is bumped for the next attempt;
\* after the last one the final check, no different from this one, has found
\* nothing either and the call fails.
Escalate(c) ==
  /\ pc[c] = "wait"
  /\ FindsNothing(c)
  /\ IF AttemptsLeft(c)
     THEN /\ bumps' = [bumps EXCEPT ![c] = @ + 1]
          /\ attempt' = [attempt EXCEPT ![c] = @ + 1]
          /\ pc' = [pc EXCEPT ![c] = "nonce"]
     ELSE /\ pc' = [pc EXCEPT ![c] = "done"]
          /\ UNCHANGED <<bumps, attempt>>
  /\ UNCHANGED <<chainVars, nonce, nonceRefreshCount, submittedTxs, sent,
                 receipt>>

Step(c) ==
  \/ GetNonce(c) \/ SendAccepted(c) \/ SendUnseen(c) \/ SendTooLowMined(c)
  \/ SendTooLow(c) \/ RefreshesSpent(c) \/ SendUnderpriced(c)
  \/ WaitMined(c) \/ CheckMined(c) \/ Escalate(c) \/ Fail(c)

Next == Mine \/ \E c \in Calls : Step(c)

Spec == Init /\ [][Next]_vars

\* The runtime keeps scheduling every call's goroutine and every wait has a
\* timeout; whether blocks mine the transactions is open.
FairSpec == Spec /\ \A c \in Calls : WF_vars(Step(c))
-----------------------------------------------------------------------------
TypeOK ==
  /\ tx \in [Nonces -> Txs]
  /\ mined \in 0 .. MaxNonce + 1
  /\ pc \in [Calls -> {"nonce", "send", "resend", "wait", "done"}]
  /\ attempt \in [Calls -> 0 .. MaxAttempts - 1]
  /\ nonce \in [Calls -> Nonces]
  /\ bumps \in [Calls -> 0 .. MaxAttempts - 1]
  /\ nonceRefreshCount \in [Calls -> 0 .. MaxNonceRefreshes]
  /\ submittedTxs \in [Calls -> SUBSET (Nonces \X Nat)]
  /\ sent \in [Calls -> Nat]
  /\ minedSince \in [Calls -> SUBSET (Nonces \X Nat)]
  /\ receipt \in [Calls -> SUBSET (Nonces \X Nat)]

\* The account's nonces are used without a gap: no call, whatever it gave up
\* or was told of the pool by an endpoint that lags, leaves a transaction of
\* its own or of another call waiting for a nonce that nobody sends.
NoGap ==
  \A n \in Nonces, k \in Nonces : k < n /\ tx[n] # NoTx => tx[k] # NoTx

\* A call that goes on, or returns an error, overlooks none of the
\* transactions it knows of: whichever of its attempts is mined, under another
\* nonce or price than the latest, before a lost race for a nonce or after it,
\* the next look at the receipts that all can be read ends the call with it.
\* So the failure that is reported although the request was carried out (its
\* callers repeat the request) is confined to what was mined since that look.
NoMinedOverlooked ==
  \A c \in Calls : receipt[c] = {} =>
    submittedTxs[c] \intersect MinedOf(c) \subseteq minedSince[c]

\* A call pays gas for a bounded number of transactions: at most MaxAttempts
\* that it knows of, and with the ones it never hears of no more than that
\* for each refresh of the nonce.
TxBudget ==
  \A c \in Calls :
    /\ Cardinality(submittedTxs[c]) <= MaxAttempts
    /\ sent[c] <= MaxAttempts * (1 + MaxNonceRefreshes)

\* A call returns, also when it loses every race for a nonce and no block is
\* mined: refreshing the nonce does not count as an attempt, and is bounded
\* on its own.
EveryCallReturns == \A c \in Calls : <>(pc[c] = "done")

\* "TransactionEscalator handles resubmission of stuck transactions with
\* higher gas" (tx_escalator.go:106), by the bump nodes ask of a replacement
\* (tx_escalator.go:18): the same transaction again, which is mined once.
\* The fresh nonce of every attempt makes it another one instead.
MinedOnce == \A c \in Calls : Cardinality(MinedOf(c)) <= 1
=============================================================================
