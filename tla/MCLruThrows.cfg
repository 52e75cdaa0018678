CONSTANTS
  Clients = {c1, c2}
  Keys = {k1, k2, k3}
  Values = {u}
  NoValue = NoValue
  Nodes = {n1, n2, n3}
  None = None
  Capacity = 2
  MaxThrows = 2
SPECIFICATION Spec
INVARIANTS MapAgreesWithList PointerOutlivesOtherKeys
SYMMETRY NodeSymmetry
