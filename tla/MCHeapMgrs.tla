----------------------------- MODULE MCHeapMgrs -----------------------------
(* TLC instance of HeapMgrs. *)
EXTENDS HeapMgrs

MCMaxUnits ==
  [m \in Managers |-> CASE m = "heapmgr1" -> 12 [] m = "heapmgr2" -> 12
                        [] m = "heapmgrbase" -> 8 [] m = "heapmgrkr" -> 8]
MCGrowth == [m \in Managers |-> 2]
MCRequests == 1 .. 3
=============================================================================
