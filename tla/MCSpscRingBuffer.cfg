\* Four slots, six pushes: the indices wrap around and each slot is reused.
SPECIFICATION Spec
CONSTANTS
  Capacity = 3
  MaxPushes = 6
  Items = {x, y}
  NoItem = NoItem
SYMMETRY ItemSymmetry
INVARIANTS TypeOK NoDataRace SizeIsConservative NoRefusalAfterSize
PROPERTY ImplementsFifo
