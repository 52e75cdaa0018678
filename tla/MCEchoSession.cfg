CONSTANT
  Timeout = 3
SPECIFICATION FairSpec
INVARIANTS TypeOK OneOperation Watched
PROPERTIES StopsForCause ImplementsSession
