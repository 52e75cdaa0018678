---------------------------- MODULE MCUniquePtr ----------------------------
(* Model values and symmetry for the run of UniquePtr.                     *)
EXTENDS UniquePtr, TLC

HandleSymmetry == Permutations(Variables) \cup Permutations(Objects)
============================================================================
