------------------------------ MODULE HeapMgrs ------------------------------
(***************************************************************************)
(* A program linked with one of the four implementations of heapmgr.h, as  *)
(* testheapmgr is (test/, reference/heapmgr.h): it calls heapmgr_malloc    *)
(* and heapmgr_free in any order, and writes all of what it is given.      *)
(***************************************************************************)
EXTENDS Integers, FiniteSets

Managers == {"heapmgr1", "heapmgr2", "heapmgrbase", "heapmgrkr"}

CONSTANTS MaxUnits,   \* bound: sbrk fails beyond it, for each manager
          Growth,     \* SYS_MIN_ALLOC_UNITS or NALLOC of each
          EXACT_BINS, LOG_BINS,
          Requests    \* the sizes asked for

ASSUME UnitsOK == /\ MaxUnits \in [Managers -> Nat]
                  /\ Growth \in [Managers -> Nat \ {0}]
                  /\ EXACT_BINS \in Nat \ {0} /\ LOG_BINS \in Nat \ {0}
                  /\ Requests \subseteq Nat \ {0}

VARIABLES manager,     \* the one the program is linked with
          heap,        \* the memory and the static variables of the manager
          s_heap_hi,   \* the end of the heap
          live         \* what the program has: where and how much

vars == <<manager, heap, s_heap_hi, live>>

Mgr1 == INSTANCE HeapMgr1 WITH
          MaxUnits <- MaxUnits["heapmgr1"], SYS_MIN_ALLOC_UNITS <- Growth["heapmgr1"]
Mgr2 == INSTANCE HeapMgr2 WITH
          MaxUnits <- MaxUnits["heapmgr2"], SYS_MIN_ALLOC_UNITS <- Growth["heapmgr2"]
Base == INSTANCE HeapMgrBase WITH
          MaxUnits <- MaxUnits["heapmgrbase"],
          SYS_MIN_ALLOC_UNITS <- Growth["heapmgrbase"]
KR   == INSTANCE HeapMgrKR WITH
          MaxUnits <- MaxUnits["heapmgrkr"], NALLOC <- Growth["heapmgrkr"],
          brk <- s_heap_hi

Init ==
  \/ manager = "heapmgr1"    /\ Mgr1!Init
  \/ manager = "heapmgr2"    /\ Mgr2!Init
  \/ manager = "heapmgrbase" /\ Base!Init
  \/ manager = "heapmgrkr"   /\ KR!Init

Next ==
  /\ UNCHANGED manager
  /\ \/ manager = "heapmgr1"    /\ Mgr1!Next
     \/ manager = "heapmgr2"    /\ Mgr2!Next
     \/ manager = "heapmgrbase" /\ Base!Next
     \/ manager = "heapmgrkr"   /\ KR!Next

Spec == Init /\ [][Next]_vars

-----------------------------------------------------------------------------
(* Properties *)

\* check_heap_validity, after any calls: the blocks lead from one end of the heap
\* to the other, with what is written at both ends of each in agreement, and free
\* neighbours have been joined; and, which the checks in the code do not ask, each
\* block is either the program's and large enough, or on the list it belongs to,
\* once, in the list's order.
HeapValid ==
  /\ manager = "heapmgr1"    => Mgr1!HeapValid
  /\ manager = "heapmgr2"    => Mgr2!HeapValid
  /\ manager = "heapmgrbase" => Base!HeapValid
  /\ manager = "heapmgrkr"   => KR!HeapValid

\* What the program wrote and still has.
writtenBar ==
  CASE manager = "heapmgr1"    -> Mgr1!writtenBar
    [] manager = "heapmgr2"    -> Mgr2!writtenBar
    [] manager = "heapmgrbase" -> Base!writtenBar
    [] manager = "heapmgrkr"   -> KR!writtenBar

Contract == INSTANCE Allocator WITH
              written <- writtenBar,
              Addresses <- UNION {0 .. MaxUnits[m] - 1 : m \in Managers}

\* heapmgr.h: whatever is split, joined and grown, each call gives the program
\* space of its own, and what it has written there stays until it frees it.
ImplementsAllocator == Contract!Spec

\* "heapmgr_malloc() should check blocks from the free list before allocate new
\* memory": the heap grows only if no free block, on any list, was large enough.
GrowsIfNeeded ==
  [][s_heap_hi' # s_heap_hi =>
       CASE manager = "heapmgr1"    -> Mgr1!NoBlockFits
         [] manager = "heapmgr2"    -> Mgr2!NoBlockFits
         [] manager = "heapmgrbase" -> Base!NoBlockFits
         [] manager = "heapmgrkr"   -> KR!NoBlockFits]_vars
=============================================================================
