---------------------------- MODULE MCMallocHeap ----------------------------
(* MallocHeap for TLC: pages of 4 addresses, an arena of up to 9 pages.    *)
EXTENDS MallocHeap, TLC

MCHeapEnds == {84, 92, 96, 98, 116}
MCLens == {4, 8}
MCBigLens == {3, 5}

Symmetry == Permutations(Ids)
=============================================================================
