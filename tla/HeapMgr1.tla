------------------------------ MODULE HeapMgr1 ------------------------------
(***************************************************************************)
(* The heap manager of lab 3 with one doubly-linked free list and boundary *)
(* tags (heapmgr1.c), over the memory of Chunk.  Both functions are calls  *)
(* of one thread, so each is one step; sizes are counted in units.         *)
(***************************************************************************)
EXTENDS Chunk

CONSTANTS SYS_MIN_ALLOC_UNITS,
          Requests             \* the sizes asked for; of size 0, malloc gives NULL

VARIABLES heap,        \* the memory and s_free_head
          s_heap_hi,   \* s_heap_lo is 0
          live         \* what the program has: where and how much

vars == <<heap, s_heap_hi, live>>

s_heap_lo == 0

Init ==
  /\ heap = [mem |-> [u \in Addresses |-> Data], head |-> NULL]
  /\ s_heap_hi = s_heap_lo
  /\ live = {}

-----------------------------------------------------------------------------
(* The free list *)

insert_head(h, c) ==
  LET m == set_prev_free(set_next_free(set_status(h.mem, c, CHUNK_FREE), c, h.head),
                         c, NULL)
  IN [mem |-> IF h.head # NULL THEN set_prev_free(m, h.head, c) ELSE m, head |-> c]

\* MUTANT of linked: the next block keeps its prev.
linkedForward(h, prev, next) ==
  [mem |-> IF prev # NULL THEN set_next_free(h.mem, prev, next) ELSE h.mem,
   head |-> IF prev # NULL THEN h.head ELSE next]

\* prev and next become neighbours in the list.
linked(h, prev, next) ==
  LET m == IF prev # NULL THEN set_next_free(h.mem, prev, next) ELSE h.mem IN
  [mem |-> IF next # NULL THEN set_prev_free(m, next, prev) ELSE m,
   head |-> IF prev # NULL THEN h.head ELSE next]

detach(h, c) ==
  LET l == linked(h, get_prev_free(h.mem, c), get_next_free(h.mem, c)) IN
  [l EXCEPT !.mem = set_status(unlinked(l.mem, c), c, CHUNK_USED)]

-----------------------------------------------------------------------------
(* heapmgr_malloc *)

need_span(n) == n + 2

splits(rest) == rest >= 2

\* The front of cur stays in the free list, with its new footer; the block that
\* is returned is its back, or all of cur.
do_alloc(h, cur, need) ==
  LET rest  == get_span(h.mem, cur) - need
      front == set_prev_free(set_span(h.mem, cur, rest), cur, get_prev_free(h.mem, cur))
      alloc == cur + rest
      back  == unlinked(set_status(set_span(front, alloc, need), alloc, CHUNK_USED), alloc)
  IN IF splits(rest) THEN [heap |-> [h EXCEPT !.mem = back], block |-> alloc]
     ELSE [heap |-> detach(h, cur), block |-> cur]

fits(m, c, need) == get_span(m, c) >= need

\* The first block of the list that fits, or NULL.
first_fit(h, need) ==
  LET at == ListFrom(h.mem, h.head)
      found == {i \in 0 .. MaxUnits : at[i] # NULL /\ fits(h.mem, at[i], need)}
  IN IF found = {} THEN NULL
     ELSE at[CHOOSE i \in found : \A j \in found : i <= j]

grow_span(n) == 2 + IF n < SYS_MIN_ALLOC_UNITS THEN SYS_MIN_ALLOC_UNITS ELSE n

\* The new block, or the free block before it with the new one joined to it, at
\* the head of the list.
sys_grow(h, n) ==
  LET c    == s_heap_hi
      m    == unlinked(set_status(set_span(h.mem, c, grow_span(n)), c, CHUNK_FREE), c)
      prev == prev_phys(m, c, s_heap_lo)
      d    == detach([h EXCEPT !.mem = m], prev)
  IN IF prev # NULL /\ get_status(m, prev) = CHUNK_FREE
     THEN insert_head([d EXCEPT !.mem = set_span(d.mem, prev, get_span(d.mem, prev)
                                                                + grow_span(n))], prev)
     ELSE insert_head([h EXCEPT !.mem = m], c)

\* The program has the payload, and writes all of what it asked for.
Give(a, n) ==
  LET p == a.block + 1 IN
  /\ heap' = [a.heap EXCEPT !.mem = [u \in Addresses |->
                 IF u \in p .. p + n - 1 THEN Data ELSE a.heap.mem[u]]]
  /\ live' = live \cup {[at |-> p, n |-> n]}

MallocFits(n) ==
  LET cur == first_fit(heap, need_span(n)) IN
  /\ cur # NULL
  /\ Give(do_alloc(heap, cur, need_span(n)), n)
  /\ UNCHANGED s_heap_hi

\* If sbrk fails, the call returns NULL and changes nothing.
MallocGrows(n) ==
  LET g == sys_grow(heap, n) IN
  /\ first_fit(heap, need_span(n)) = NULL
  /\ s_heap_hi + grow_span(n) <= MaxUnits
  /\ s_heap_hi' = s_heap_hi + grow_span(n)
  /\ Give(do_alloc(g, g.head, need_span(n)), n)

-----------------------------------------------------------------------------
(* heapmgr_free *)

\* MUTANT of right_joined: the neighbour is not asked for its status.
right_joinedAny(h, c) ==
  LET n == next_phys(h.mem, c, s_heap_hi)
      d == detach(h, n)
  IN IF n # NULL
     THEN [d EXCEPT !.mem = set_span(d.mem, c, get_span(d.mem, c) + get_span(d.mem, n))]
     ELSE h

\* c with its right neighbour, if that is free.
right_joined(h, c) ==
  LET n == next_phys(h.mem, c, s_heap_hi)
      d == detach(h, n)
  IN IF n # NULL /\ get_status(h.mem, n) = CHUNK_FREE
     THEN [d EXCEPT !.mem = set_span(d.mem, c, get_span(d.mem, c) + get_span(d.mem, n))]
     ELSE h

\* The left neighbour, if it is free, with c, at the head of the list.
free_joined(h, c) ==
  LET n == prev_phys(h.mem, c, s_heap_lo)
      d == detach(h, n)
  IN IF n # NULL /\ get_status(h.mem, n) = CHUNK_FREE
     THEN insert_head([d EXCEPT !.mem = set_span(d.mem, n, get_span(d.mem, n)
                                                            + get_span(d.mem, c))], n)
     ELSE insert_head(h, c)

Free(a) ==
  LET c == a.at - 1 IN
  /\ heap' = free_joined(right_joined(heap, c), c)
  /\ live' = live \ {a}
  /\ UNCHANGED s_heap_hi

Next ==
  \/ \E n \in Requests : MallocFits(n) \/ MallocGrows(n)
  \/ \E a \in live : Free(a)

Spec == Init /\ [][Next]_vars

-----------------------------------------------------------------------------
(* Properties *)

TheBlocks == Blocks(heap.mem, s_heap_hi)
FreeBlocks == {c \in TheBlocks : get_status(heap.mem, c) = CHUNK_FREE}

TypeOK ==
  /\ heap.mem \in [Addresses -> [first : {-7} \cup 0 .. MaxUnits,
                                 second : {-7} \cup 0 .. MaxUnits,
                                 ptr : {-7, NULL} \cup Addresses]]
  /\ heap.head \in {NULL} \cup Addresses
  /\ s_heap_hi \in 0 .. MaxUnits
  /\ live \subseteq [at : Addresses, n : Requests]

\* The free list holds exactly the free blocks, in both directions; the
\* validity check would not miss a free block that is on no list.
FreeListExact == ListSound(heap.mem, heap.head) /\ OnList(heap.mem, heap.head) = FreeBlocks

\* The used blocks are those that the program has, each large enough: none of
\* the heap is lost.
UsedExact ==
  /\ {a.at - 1 : a \in live} = TheBlocks \ FreeBlocks
  /\ \A a, b \in live : a.at = b.at => a = b
  /\ \A a \in live : get_span(heap.mem, a.at - 1) >= a.n + 2

\* check_heap_validity, after any calls: the tags of the blocks agree from one
\* end of the heap to the other and free neighbours have been joined; and, which
\* the check in the code does not ask, every block is on its list or in use.
HeapValid == TypeOK /\ HeapSound(heap.mem, s_heap_hi) /\ FreeListExact /\ UsedExact

\* What the program wrote and still has.
writtenBar ==
  {u \in Addresses : heap.mem[u] = Data
                       /\ \E a \in live : u \in a.at .. a.at + a.n - 1}

\* No free block had room for what the program is given.
NoBlockFits ==
  \A a \in live' \ live, c \in FreeBlocks : get_span(heap.mem, c) < a.n + 2
=============================================================================
