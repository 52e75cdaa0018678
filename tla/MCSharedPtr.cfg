CONSTANTS
  Threads = {t1, t2, t3}
  SharedPtrs = {s1, s2}
  WeakPtrs = {w1, w2}
  Blocks = {b1, b2}
  Null = Null
SPECIFICATION Spec
INVARIANTS CountsExact NoUseAfterFree NoLeak DisposedAfterUses
PROPERTY NoResurrection
SYMMETRY HandleSymmetry
