SPECIFICATION Spec
CONSTANTS
  c1 = c1  c2 = c2
  Calls = {c1}
  NoCall = NoCall
  MaxAttempts = 2
  MaxNonceRefreshes = 3
  MaxLag = 0
  MaxNonce = 3
INVARIANTS MinedOnce
CHECK_DEADLOCK FALSE
