CONSTANTS
  Threads = {t1, t2, t3, t4}
  Items = {x, y}
  NoItem = NoItem
  Capacity = 2
  MaxCalls = 6
  MaxThrows = 1
SPECIFICATION Spec
INVARIANTS NoLostWakeup NulloptIsFinal
PROPERTY ImplementsFifo
SYMMETRY ThreadAndItemSymmetry
CHECK_DEADLOCK FALSE
