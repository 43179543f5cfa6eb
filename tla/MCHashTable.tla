---------------------------- MODULE MCHashTable ----------------------------
(* TLC instance of HashTable, and its refinement of KVMap.                 *)
EXTENDS HashTableRefinement, TLC

CONSTANTS t1, t2, n1, n2, n3, v1, v2

MCThreads == {t1, t2}
MCNodes   == {n1, n2, n3}
MCValues  == {v1, v2}
MCKeys    == {<<1>>, <<3>>, <<1, 2>>}   \* buckets 1, 1 and 0 of 2

Symmetry == Permutations(Threads) \cup Permutations(Nodes) \cup Permutations(Values)
=============================================================================
