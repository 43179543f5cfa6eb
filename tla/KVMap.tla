------------------------------- MODULE KVMap -------------------------------
(***************************************************************************)
(* What hashtable.h promises: a map from keys to values whose operations   *)
(* take effect at one instant between their call and their return, and     *)
(* answer 1, 0 (collision or no such key) or -1 (internal error).          *)
(***************************************************************************)
EXTENDS Integers

CONSTANTS Threads, NoValue, NoReply, Operations

VARIABLES store,    \* key -> value or NoValue
          request,  \* the last operation each thread called
          pending,  \* threads between call and return
          reply     \* the answer, once the operation has taken effect

vars == <<store, request, pending, reply>>

StoreKeys == {o.key : o \in Operations}

Init ==
  /\ store = [k \in StoreKeys |-> NoValue]
  /\ request \in [Threads -> Operations]
  /\ pending = {}
  /\ reply = [t \in Threads |-> NoReply]

Call(t, o) ==
  /\ t \notin pending
  /\ pending' = pending \cup {t}
  /\ request' = [request EXCEPT ![t] = o]
  /\ UNCHANGED <<store, reply>>

Answer(t, r, v) == reply' = [reply EXCEPT ![t] = [ret |-> r, dst |-> v]]

Present(o) == store[o.key] # NoValue
Stores(o) == \/ o.name = "insert" /\ ~ Present(o)
             \/ o.name = "update" /\ Present(o)
Refused(o) == IF o.name = "insert" THEN Present(o) ELSE ~ Present(o)

\* The instant at which the operation of t takes effect.
Apply(t) ==
  LET o == request[t] IN
  /\ t \in pending /\ reply[t] = NoReply
  /\ UNCHANGED <<request, pending>>
  /\ \/ /\ Stores(o)
        /\ store' = [store EXCEPT ![o.key] = o.value]
        /\ Answer(t, 1, NoValue)
     \/ /\ o.name = "delete" /\ Present(o)
        /\ store' = [store EXCEPT ![o.key] = NoValue]
        /\ Answer(t, 1, NoValue)
     \/ /\ o.name = "read" /\ Present(o)
        /\ Answer(t, 1, store[o.key])
        /\ UNCHANGED store
     \/ /\ Refused(o)
        /\ Answer(t, 0, NoValue)
        /\ UNCHANGED store
     \/ /\ Stores(o)             \* out of memory
        /\ Answer(t, -1, NoValue)
        /\ UNCHANGED store

Return(t) ==
  /\ t \in pending /\ reply[t] # NoReply
  /\ pending' = pending \ {t}
  /\ reply' = [reply EXCEPT ![t] = NoReply]
  /\ UNCHANGED <<store, request>>

Next == \E t \in Threads :
          Apply(t) \/ Return(t) \/ \E o \in Operations : Call(t, o)

Spec == Init /\ [][Next]_vars
=============================================================================
