---------------------------- MODULE MCLruCache ----------------------------
(* Model values and symmetry for the runs of LruCache.                     *)
EXTENDS LruCache, TLC

NodeSymmetry ==
  Permutations(Clients) \cup Permutations(Values) \cup Permutations(Nodes)
============================================================================
