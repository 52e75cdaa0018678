---------------------------- MODULE MCSharedPtr ----------------------------
(* Model values and symmetry for the runs of SharedPtr.                    *)
EXTENDS SharedPtr, TLC

HandleSymmetry ==
  Permutations(Threads) \cup Permutations(SharedPtrs) \cup Permutations(WeakPtrs)
    \cup Permutations(Blocks)
============================================================================
