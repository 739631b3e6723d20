SPECIFICATION FairWatchersSpec
CONSTANTS
  MaxReconnects = 2
  MaxLag = 1
  MaxHead = 4
  MaxLogs = 2
INVARIANTS WatchersTypeOK NothingElseMissed
PROPERTIES StreamSpec WatchesOn
CHECK_DEADLOCK FALSE
