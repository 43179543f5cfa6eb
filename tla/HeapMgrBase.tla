---------------------------- MODULE HeapMgrBase ----------------------------
(***************************************************************************)
(* The baseline heap manager of lab 3 (reference/heapmgrbase.c): one free  *)
(* list, linked in one direction and ordered by address, over blocks that  *)
(* have a header and no footer (reference/chunkbase.c).                    *)
(***************************************************************************)
EXTENDS Chunk

CONSTANTS SYS_MIN_ALLOC_UNITS,
          Requests             \* the sizes asked for; of size 0, malloc gives NULL

VARIABLES heap,        \* the memory and s_free_head
          s_heap_hi,   \* s_heap_lo is 0
          live         \* what the program has: where and how much

vars == <<heap, s_heap_hi, live>>

Init ==
  /\ heap = [mem |-> [u \in Addresses |-> Data], head |-> NULL]
  /\ s_heap_hi = 0
  /\ live = {}

-----------------------------------------------------------------------------
(* The free list; end is s_heap_hi at the time of the call. *)

set_span_units(m, c, span) == [m EXCEPT ![c].second = span]

adjacent(m, c, end) == next_phys(m, c, end)

\* b is joined to a and taken off the list.
coalesce_two(m, a, b) ==
  set_next_free(set_span_units(m, a, get_span(m, a) + get_span(m, b)),
                a, get_next_free(m, b))

push_front(h, c, end) ==
  LET m == set_next_free(set_status(h.mem, c, CHUNK_FREE), c, h.head) IN
  [mem |-> IF h.head # NULL /\ adjacent(m, c, end) = h.head
           THEN coalesce_two(m, c, h.head) ELSE m,
   head |-> c]

\* MUTANT of joined_upper: the successor's status is not asked.
joined_upperAny(m, c, end) ==
  LET n == adjacent(m, c, end) IN
  IF n # NULL THEN coalesce_two(m, c, n) ELSE m

joined_upper(m, c, end) ==
  LET n == adjacent(m, c, end) IN
  IF n # NULL /\ get_status(m, n) = CHUNK_FREE THEN coalesce_two(m, c, n) ELSE m

\* c is linked behind e, and joined to e and to the free block above it.
insert_after(h, e, c, end) ==
  LET m     == set_status(set_next_free(set_next_free(h.mem, c, get_next_free(h.mem, e)),
                                        e, c), c, CHUNK_FREE)
      lower == adjacent(m, e, end) = c
      block == IF lower THEN e ELSE c
  IN [heap  |-> [h EXCEPT !.mem =
                   joined_upper(IF lower THEN coalesce_two(m, e, c) ELSE m, block, end)],
      block |-> block]

detach(h, prev, c) ==
  LET n == get_next_free(h.mem, c)
      m == IF prev = NULL THEN h.mem ELSE set_next_free(h.mem, prev, n)
  IN [mem  |-> set_status(set_next_free(m, c, NULL), c, CHUNK_USED),
      head |-> IF prev = NULL THEN n ELSE h.head]

-----------------------------------------------------------------------------
(* heapmgr_malloc *)

payload(m, c) == get_span(m, c) - 1

\* The back of c; its front stays on the list.
split_for_alloc(h, c, n) ==
  LET rest  == get_span(h.mem, c) - (n + 1)
      alloc == c + rest
      m     == set_span_units(set_span_units(h.mem, c, rest), alloc, n + 1)
  IN [heap  |-> [h EXCEPT !.mem = set_next_free(set_status(m, alloc, CHUNK_USED), alloc,
                                                get_next_free(m, c))],
      block |-> alloc]

\* MUTANT of take: a block that fits exactly is split too.
takeSplit(h, prev, c, n) == split_for_alloc(h, c, n)

take(h, prev, c, n) ==
  IF payload(h.mem, c) > n THEN split_for_alloc(h, c, n)
                           ELSE [heap |-> detach(h, prev, c), block |-> c]

\* The list in order, 0 its head; and the node before each.
ListOf(h) ==
  LET at == ListFrom(h.mem, h.head)
  IN [i \in {j \in 0 .. MaxUnits : at[j] # NULL} |-> at[i]]
before(list, i) == IF i = 0 THEN NULL ELSE list[i - 1]

Fitting(list, n) == {i \in DOMAIN list : payload(heap.mem, list[i]) >= n}

grow_span(n) == 1 + IF n < SYS_MIN_ALLOC_UNITS THEN SYS_MIN_ALLOC_UNITS ELSE n

\* The new block, put on the list behind prev or joined to prev.
sys_grow_and_link(h, prev, n) ==
  LET c   == s_heap_hi
      end == s_heap_hi + grow_span(n)
      m   == set_status(set_next_free(set_span_units(h.mem, c, grow_span(n)), c, NULL),
                        c, CHUNK_USED)
      new == [h EXCEPT !.mem = m]
  IN IF h.head = NULL THEN [heap |-> push_front(new, c, end), block |-> c]
                      ELSE insert_after(new, prev, c, end)

\* The program has the payload, and writes all of what it asked for.
Give(a, n) ==
  LET p == a.block + 1 IN
  /\ heap' = [a.heap EXCEPT !.mem = [u \in Addresses |->
                 IF u \in p .. p + n - 1 THEN Data ELSE a.heap.mem[u]]]
  /\ live' = live \cup {[at |-> p, n |-> n]}

MallocFits(n) ==
  LET list == ListOf(heap) IN
  /\ \E i \in Fitting(list, n) :
       /\ \A j \in Fitting(list, n) : i <= j
       /\ Give(take(heap, before(list, i), list[i], n), n)
  /\ UNCHANGED s_heap_hi

\* The node before the block that has grown: of the list's last node, if the
\* new block was joined to that, the one before it.
before_grown(list, c) ==
  LET last == Cardinality(DOMAIN list) - 1 IN
  IF last >= 0 /\ c = list[last] THEN before(list, last) ELSE before(list, last + 1)

\* If sbrk fails, the call returns NULL and changes nothing.
MallocGrows(n) ==
  LET list == ListOf(heap)
      g    == sys_grow_and_link(heap, before(list, Cardinality(DOMAIN list)), n)
  IN /\ Fitting(list, n) = {}
     /\ s_heap_hi + grow_span(n) <= MaxUnits
     /\ s_heap_hi' = s_heap_hi + grow_span(n)
     /\ Give(take(g.heap, before_grown(list, g.block), g.block, n), n)

-----------------------------------------------------------------------------
(* heapmgr_free *)

Free(a) ==
  LET c    == a.at - 1
      list == ListOf(heap)
      from == {i \in DOMAIN list : c < list[i]}   \* the search stops at the first
      stop == IF from = {} THEN Cardinality(DOMAIN list)
                           ELSE CHOOSE i \in from : \A j \in from : i <= j
      prev == before(list, stop)
  IN /\ heap' = IF prev = NULL THEN push_front(heap, c, s_heap_hi)
                               ELSE insert_after(heap, prev, c, s_heap_hi).heap
     /\ live' = live \ {a}
     /\ UNCHANGED s_heap_hi

Next ==
  \/ \E n \in Requests : MallocFits(n) \/ MallocGrows(n)
  \/ \E a \in live : Free(a)

Spec == Init /\ [][Next]_vars

-----------------------------------------------------------------------------
(* Properties *)

TypeOK ==
  /\ heap.mem \in [Addresses -> [first : {-7, CHUNK_FREE, CHUNK_USED},
                                 second : {-7} \cup 0 .. MaxUnits,
                                 ptr : {-7, NULL} \cup Addresses]]
  /\ heap.head \in {NULL} \cup Addresses
  /\ s_heap_hi \in 0 .. MaxUnits
  /\ live \subseteq [at : Addresses, n : Requests]

\* The blocks met from the start of the heap on.
TheBlocks ==
  LET from[c \in 0 .. MaxUnits] ==
        IF c >= s_heap_hi THEN {}
        ELSE {c} \cup IF c + get_span(heap.mem, c) \in c + 1 .. s_heap_hi
                      THEN from[c + get_span(heap.mem, c)] ELSE {}
  IN from[0]
FreeBlocks == {c \in TheBlocks : get_status(heap.mem, c) = CHUNK_FREE}

\* check_heap_validity, after any calls: the spans lead from one end of the heap
\* to the other and no two free blocks adjoin; and, which the check in the code
\* does not ask, the list has every free block, once and by address, and every
\* other block is the program's and large enough.
HeapValid ==
  LET at == ListFrom(heap.mem, heap.head) list == ListOf(heap) IN
  /\ TypeOK
  /\ \A c \in TheBlocks :
       LET n == c + get_span(heap.mem, c) IN
       /\ n \in c + 1 .. s_heap_hi
       /\ c \in FreeBlocks => n \notin FreeBlocks
  /\ at[MaxUnits] = NULL
  /\ {list[i] : i \in DOMAIN list} = FreeBlocks
  /\ \A i, j \in DOMAIN list : i < j => list[i] < list[j]
  /\ {a.at - 1 : a \in live} = TheBlocks \ FreeBlocks
  /\ \A a \in live : get_span(heap.mem, a.at - 1) >= a.n + 1

\* What the program wrote and still has.
writtenBar ==
  {u \in Addresses : heap.mem[u] = Data
                       /\ \E a \in live : u \in a.at .. a.at + a.n - 1}

\* No free block had room for what the program is given.
NoBlockFits ==
  \A a \in live' \ live, c \in FreeBlocks : get_span(heap.mem, c) < a.n + 1
=============================================================================
