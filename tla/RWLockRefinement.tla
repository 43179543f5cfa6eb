-------------------------- MODULE RWLockRefinement --------------------------
(* The ticket lock implements FifoLock: a thread's place in the line is the *)
(* distance of its ticket from now_serving.                                 *)
EXTENDS RWLock

aheadBar ==
  [t \in Threads |->
     IF pc[t] \in {READ, WRITE}
     THEN {s \in Owners : Dist(ticket[s]) < Dist(ticket[t])}
     ELSE {}]

Abstract == INSTANCE FifoLock WITH state <- pc, ahead <- aheadBar

\* Every step of the ticket lock is a step of the first-come first-served lock
\* or changes nothing it can see (a re-check that fails, a spurious wake-up).
ImplementsFifoLock == Abstract!Spec
=============================================================================
