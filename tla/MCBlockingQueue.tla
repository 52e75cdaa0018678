---------------------------- MODULE MCBlockingQueue ----------------------------
(* Model values and symmetry for the runs of ConcurrentBlockingQueue.          *)
EXTENDS ConcurrentBlockingQueue, TLC

ThreadAndItemSymmetry == Permutations(Threads) \cup Permutations(Items)
============================================================================
