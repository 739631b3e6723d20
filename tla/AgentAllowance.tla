--------------------------- MODULE AgentAllowance ---------------------------
(***************************************************************************)
(* The node's API users other than its admin ("agents"): an admin confirms *)
(* them and allows them to spend so much of a token.  The record of an     *)
(* agent is read and written by HTTP handlers that run concurrently; a     *)
(* single storage operation is atomic, a handler is not.                   *)
(*                                                                         *)
(* One agent and one token, MOR, whose address is the key of a map: it may *)
(* be spelled in lower case or with the capitals of a checksum.  Opening a *)
(* session costs one unit of it.                                           *)
(***************************************************************************)
EXTENDS Maps, Integers

CONSTANT MaxGrant       \* bound on what is asked for at once

ASSUME GrantAssumption == MaxGrant \in Nat

None == -1

VARIABLES
  agent,                \* the agent's record: "none", "requested", "confirmed"
  login,                \* whether the agent is in the auth files
  allowances,           \* Allowances of the record, by the token's spelling
  request,              \* the stored AllowanceRequest, or None
  confirming,           \* {the allowances in ConfirmAgentUser's copy}, or {}
  accepting,            \* ConfirmOrDeclineAllowanceRequest has yet to delete
  adminOps,             \* bound: how many more requests to the handlers

  due,                  \* history: what was allowed last, less the spends of
                        \* which the node learned since
  raced                 \* history: since then a handler has written over what
                        \* changed since it read, or a stop has cut one short

allowanceVars == <<agent, login, allowances, request, confirming, accepting,
                   adminOps, due, raced>>

Spellings == {"lower", "mixed"}

ToLower(token) == "lower"

\* morTokenAddr.Hex() has the capitals; all but RequestAgentUser lower them.
Key == ToLower("mixed")

NoAllowances == [token \in {} |-> 0]

\* What the record allows: that of no key is Go's zero value.
Allowed(record) ==
  IF Key \in DOMAIN record THEN record[Key] ELSE 0

\* An agent that the admin has granted an allowance, or none.
AllowanceInit(granted) ==
  /\ agent = IF granted THEN "confirmed" ELSE "none"
  /\ login = granted
  /\ allowances = IF granted THEN Put(NoAllowances, Key, MaxGrant)
                  ELSE NoAllowances
  /\ request = None
  /\ confirming = {}
  /\ accepting = FALSE
  /\ due = IF granted THEN MaxGrant ELSE 0
  /\ raced = FALSE

Handler == adminOps > 0 /\ adminOps' = adminOps - 1

\* The record's allowances are set anew, while owed units are spent but not
\* taken off.
Reset(record, owed) ==
  /\ allowances' = record
  /\ due' = Allowed(record) - owed
  /\ raced' = FALSE

\* SetAllowance of the auth storage; the token comes in lower case.
SetAllowance(amount, owed) ==
  /\ agent # "none"
  /\ Reset(Put(allowances, Key, amount), owed)
-----------------------------------------------------------------------------
\* The token is stored as the agent spells it; only in lower case is the
\* amount ever found.
RequestAgentUser(token, amount, owed) ==
  /\ Handler
  /\ agent = "none"
  /\ agent' = "requested"
  /\ Reset(Put(NoAllowances, token, amount), owed)
  /\ UNCHANGED <<login, request, confirming, accepting>>

\* ConfirmAgentUser reads the record and adds the user, ...
ReadToConfirm ==
  /\ Handler
  /\ agent # "none"
  /\ confirming = {}
  /\ login' = TRUE
  /\ confirming' = {allowances}
  /\ UNCHANGED <<agent, allowances, request, accepting, due, raced>>

\* ... and writes the record back, as it was read.
WriteConfirmed ==
  /\ confirming # {}
  /\ agent' = "confirmed"
  /\ \E read \in confirming : allowances' = read
  /\ raced' = (raced \/ confirming # {allowances} \/ agent = "none")
  /\ confirming' = {}
  /\ UNCHANGED <<login, request, accepting, adminOps, due>>

\* DeclineAgentUser deletes the record of a confirmed agent too.
DeclineAgentUser(owed) ==
  /\ Handler
  /\ agent' = "none"
  /\ Reset(NoAllowances, owed)
  /\ UNCHANGED <<login, request, confirming, accepting>>

RemoveAgentUser(owed) ==
  /\ Handler
  /\ login
  /\ login' = FALSE
  /\ agent' = "none"
  /\ Reset(NoAllowances, owed)
  /\ UNCHANGED <<request, confirming, accepting>>

AddedUp(amount) ==                                      \* mutant
  IF request = None THEN amount ELSE request + amount
Replaced(amount) == amount

\* AddAllowanceRequest: a pending request is replaced.
RequestAllowance(amount) ==
  /\ Handler
  /\ request' = Replaced(amount)
  /\ UNCHANGED <<agent, login, allowances, confirming, accepting, due, raced>>

\* ConfirmOrDeclineAllowanceRequest, confirmed: the allowance is replaced by
\* the amount of the request, ...
ConfirmAllowance(owed) ==
  /\ Handler
  /\ request # None
  /\ ~accepting
  /\ SetAllowance(request, owed)
  /\ accepting' = TRUE
  /\ UNCHANGED <<agent, login, request, confirming>>

\* ... and the request deleted, or a later one in its place.
DeleteRequest ==
  /\ accepting
  /\ request' = None
  /\ accepting' = FALSE
  /\ UNCHANGED <<agent, login, allowances, confirming, adminOps, due, raced>>

DeclineAllowance ==
  /\ Handler
  /\ request # None
  /\ request' = None
  /\ UNCHANGED <<agent, login, allowances, confirming, accepting, due, raced>>

RevokeAllowance(owed) ==
  /\ Handler
  /\ SetAllowance(0, owed)
  /\ UNCHANGED <<agent, login, request, confirming, accepting>>

AllowanceNext(owed) ==
  \/ \E amount \in 0 .. MaxGrant :
       \/ \E token \in Spellings : RequestAgentUser(token, amount, owed)
       \/ RequestAllowance(amount)
  \/ ReadToConfirm \/ WriteConfirmed
  \/ DeclineAgentUser(owed) \/ RemoveAgentUser(owed)
  \/ ConfirmAllowance(owed) \/ DeleteRequest \/ DeclineAllowance
  \/ RevokeAllowance(owed)
-----------------------------------------------------------------------------
\* IsAllowanceEnough
IsAllowanceEnough == agent # "none" /\ Allowed(allowances) >= 1

\* A spend is on the chain: it is to be taken off, ...
Spent == due' = due - 1

\* ... or not: there is nothing it could be taken off.
Forgiven == due' = due + 1

HasAllowance == Key \in DOMAIN allowances

Clamped(read) == IF read > 0 THEN read - 1 ELSE 0       \* mutant
Decreased(read) == read - 1

\* DecreaseAllowance, its write: what was read, less one.
TakeOff(read) ==
  /\ agent # "none"
  /\ allowances' = Put(allowances, Key, Decreased(read))
  /\ raced' = (raced \/ read # Allowed(allowances))

AllowancesOK(record) ==
  /\ DOMAIN record \subseteq Spellings
  /\ \A token \in DOMAIN record : record[token] \in Int

AllowanceTypeOK ==
  /\ agent \in {"none", "requested", "confirmed"}
  /\ login \in BOOLEAN
  /\ AllowancesOK(allowances)
  /\ request \in None .. MaxGrant
  /\ \A copy \in confirming : AllowancesOK(copy)
  /\ accepting \in BOOLEAN
  /\ adminOps \in Nat
  /\ due \in Int
  /\ raced \in BOOLEAN
=============================================================================
