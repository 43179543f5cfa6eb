------------------------------ MODULE MCRWLock ------------------------------
(* TLC instance of RWLock: the threads are model values.                   *)
EXTENDS RWLockRefinement

CONSTANTS t1, t2, t3

MCThreads == {t1, t2, t3}
AllKinds == {QUICK, READ, WRITE}
=============================================================================
