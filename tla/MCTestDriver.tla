---------------------------- MODULE MCTestDriver ----------------------------
(* conductTests with the sizes of an x86-64 build: sizeof(Node) = 24,    *)
(* sizeof(FreeList) = 16, sizeof(pthread_mutex_t) = 40, 4096-byte pages. *)
EXTENDS TestDriver

MCForkSizes == {10, 5000}
MCForkStrategies == {BEST_FIT, WORST_FIT, FIRST_FIT, NEXT_FIT}
=============================================================================
