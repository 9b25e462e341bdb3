------------------------------- MODULE MCHeap -------------------------------
(* Heap for TLC, scaled down: a page of 4 addresses, .bss ending inside a  *)
(* page, at most 4 pages of heap, an address space of 128.                  *)
EXTENDS Heap, TLC

MCHeapEnds == {84, 92, 96}
MCLens == {-1, 0, 1, 4, 5, 7}         \* below the length at which the sum wraps
MCAddrs == 80 .. 98

Symmetry == Permutations(Ids)

(* No action reads ret; of the properties only TypeOK does, and            *)
(* HeapTypeOK proves it.                                                   *)
View == <<heap_cur, heap_end, maps, taken>>
=============================================================================
