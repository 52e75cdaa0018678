CONSTANT
  Timeout = 3
SPECIFICATION FairSpec
INVARIANTS OneOperationPerDirection WatchdogsArmed
PROPERTY ImplementsSession
CHECK_DEADLOCK FALSE
