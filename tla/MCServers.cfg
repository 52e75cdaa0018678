CONSTANTS
  Loops = {l1, l2}
  Workers = {w1, w2, w3}
  Served = {s1, s2}
  MaxThrows = 2
SPECIFICATION ServerFairSpec
INVARIANT EndsForCause
PROPERTIES SessionsLeave ServerEnds
CHECK_DEADLOCK FALSE
