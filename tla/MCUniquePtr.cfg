CONSTANTS
  Variables = {v1, v2}
  Objects = {o1, o2, o3}
  Deleters = {d}
  None = None
SPECIFICATION Spec
INVARIANTS OwnedOnce DeletedByItsOwn
SYMMETRY HandleSymmetry
