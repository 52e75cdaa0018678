CONSTANTS
  Threads = {t1, t2, t3}
  Items = {x}
  NoItem = NoItem
  Capacity = 1
  MaxCalls = 4
  MaxThrows = 1
SPECIFICATION FairSpec
PROPERTIES CloseReleasesAll TimedCallsReturn
CHECK_DEADLOCK FALSE
