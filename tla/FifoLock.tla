------------------------------ MODULE FifoLock ------------------------------
(***************************************************************************)
(* What the lock of rwlock.c promises, without tickets, counters or a      *)
(* condition variable: shared reads, exclusive writes, reads and writes    *)
(* granted in the order of their requests, and quick reads that wait for   *)
(* an active writer only.  ahead[t] is the set of threads that asked       *)
(* before t and whose turn is not over.                                    *)
(***************************************************************************)
CONSTANTS Threads, Kinds

VARIABLES state,  \* "idle", the kind of a waiting request, or the kind of hold
          ahead

vars == <<state, ahead>>

Holding(kind) == IF kind = "write" THEN "writing" ELSE "reading"
NoWriter == \A s \in Threads : state[s] # "writing"
NoReader == \A s \in Threads : state[s] # "reading"

Init ==
  /\ state = [t \in Threads |-> "idle"]
  /\ ahead = [t \in Threads |-> {}]

\* A request of a kind that has the threads of A before it can be granted.
Grantable(kind, A) ==
  /\ kind = "quick" => NoWriter
  /\ kind # "quick" => A = {}
  /\ kind = "write" => NoReader

\* Those a new request queues behind; a writer keeps its turn while it writes.
Line(kind) ==
  IF kind = "quick" THEN {}
  ELSE {s \in Threads : state[s] \in {"read", "write", "writing"}}

\* t leaves the line: readers when they enter, a writer when it unlocks.
Leave(t) == [s \in Threads |-> IF s = t THEN {} ELSE ahead[s] \ {t}]

Wait(t, kind) ==
  /\ state[t] = "idle" /\ kind \in Kinds
  /\ ~ Grantable(kind, Line(kind))
  /\ state' = [state EXCEPT ![t] = kind]
  /\ ahead' = [ahead EXCEPT ![t] = Line(kind)]

Enter(t, kind) ==
  /\ state[t] = "idle" /\ kind \in Kinds
  /\ Grantable(kind, Line(kind))
  /\ state' = [state EXCEPT ![t] = Holding(kind)]
  /\ UNCHANGED ahead

Grant(t) ==
  /\ state[t] \in {"quick", "read", "write"}
  /\ Grantable(state[t], ahead[t])
  /\ state' = [state EXCEPT ![t] = Holding(state[t])]
  /\ ahead' = IF state[t] = "read" THEN Leave(t) ELSE ahead

Release(t) ==
  /\ state[t] \in {"reading", "writing"}
  /\ state' = [state EXCEPT ![t] = "idle"]
  /\ ahead' = IF state[t] = "writing" THEN Leave(t) ELSE ahead

Next ==
  \E t \in Threads :
    \/ \E kind \in Kinds : Wait(t, kind) \/ Enter(t, kind)
    \/ Grant(t)
    \/ Release(t)

Spec == Init /\ [][Next]_vars
=============================================================================
