SPECIFICATION Spec
CONSTANTS
  MaxReconnects = 2
  MaxLag = 0
  MaxHead = 3
  MaxLogs = 1
INVARIANTS EveryEventDelivered
CHECK_DEADLOCK FALSE
