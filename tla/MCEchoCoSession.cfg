CONSTANT
  Timeout = 3
SPECIFICATION CoFairSpec
INVARIANT CoTypeOK
PROPERTIES CoStopsForCause CoImplementsSession
