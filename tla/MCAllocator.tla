---------------------------- MODULE MCAllocator ----------------------------
(* The allocator on a one-page arena of 12 bytes with 1-byte headers:    *)
(* InitMyMalloc leaves a free node of 7 bytes at offset 4, enough for    *)
(* three small blocks and a remainder, or for using the arena up.        *)
EXTENDS Allocator

MCHeapSizes == {0, 5, 12}
MCSizes == {1, 2, 8}
MCStrategies == {BEST_FIT, WORST_FIT, FIRST_FIT, NEXT_FIT, 4}
=============================================================================
