------------------------- MODULE MCSpscRingBuffer -------------------------
(* SpscRingBuffer with two interchangeable values of T.                    *)
EXTENDS SpscRingBuffer, TLC

ItemSymmetry == Permutations(Items)
============================================================================
