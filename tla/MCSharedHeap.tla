---------------------------- MODULE MCSharedHeap ----------------------------
EXTENDS SharedHeap

MCSizes == {1, 2}
MCStrategies == {BEST_FIT, WORST_FIT, FIRST_FIT, NEXT_FIT}
=============================================================================
