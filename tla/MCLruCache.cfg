CONSTANTS
  Clients = {c1}
  Keys = {k1, k2, k3, k4}
  Values = {u, v}
  NoValue = NoValue
  Nodes = {n1, n2, n3, n4}
  None = None
  Capacity = 3
  MaxThrows = 0
SPECIFICATION Spec
PROPERTY ImplementsLru
SYMMETRY NodeSymmetry
