------------------------------ MODULE HeapMgr2 ------------------------------
(***************************************************************************)
(* The heap manager of lab 3 with many doubly-linked free lists, the bins, *)
(* and boundary tags (heapmgr2.c), over the memory of Chunk.  Bins of one  *)
(* span each come before bins of spans that double from one to the next.   *)
(***************************************************************************)
EXTENDS Chunk

CONSTANTS SYS_MIN_ALLOC_UNITS,
          EXACT_BINS, LOG_BINS,
          Requests             \* the sizes asked for; of size 0, malloc gives NULL

VARIABLES heap,        \* the memory and s_bins
          s_heap_hi,   \* s_heap_lo is 0
          live         \* what the program has: where and how much

vars == <<heap, s_heap_hi, live>>

s_heap_lo == 0

Bins == 0 .. EXACT_BINS + LOG_BINS - 1

Init ==
  /\ heap = [mem |-> [u \in Addresses |-> Data], bins |-> [b \in Bins |-> NULL]]
  /\ s_heap_hi = s_heap_lo
  /\ live = {}

-----------------------------------------------------------------------------
(* The bins *)

\* How often s can be halved before it is 1.
halvings[s \in 0 .. MaxUnits] == IF s <= 1 THEN 0 ELSE 1 + halvings[s \div 2]

\* The shift by 6 is the division by EXACT_BINS = 64.
get_bin_index(span) ==
  IF span < 2 + EXACT_BINS THEN span - 2
  ELSE LET k == halvings[span \div EXACT_BINS]
       IN EXACT_BINS + IF k < LOG_BINS THEN k ELSE LOG_BINS - 1

\* MUTANT of get_search_bin: a bin whose blocks are all large enough.
get_search_binAll(need) == get_bin_index(need) + 1

get_search_bin(need) == get_bin_index(need)

insert(h, c) ==
  LET b == get_bin_index(get_span(h.mem, c))
      m == set_prev_free(set_next_free(set_status(h.mem, c, CHUNK_FREE), c, h.bins[b]),
                         c, NULL)
  IN [mem  |-> IF h.bins[b] # NULL THEN set_prev_free(m, h.bins[b], c) ELSE m,
      bins |-> [h.bins EXCEPT ![b] = c]]

\* prev and next become neighbours in bin b.
linked(h, prev, next, b) ==
  LET m == IF prev # NULL THEN set_next_free(h.mem, prev, next) ELSE h.mem IN
  [mem  |-> IF next # NULL THEN set_prev_free(m, next, prev) ELSE m,
   bins |-> IF prev # NULL THEN h.bins ELSE [h.bins EXCEPT ![b] = next]]

detach(h, c) ==
  LET l == linked(h, get_prev_free(h.mem, c), get_next_free(h.mem, c),
                  get_bin_index(get_span(h.mem, c)))
  IN [l EXCEPT !.mem = set_status(unlinked(l.mem, c), c, CHUNK_USED)]

-----------------------------------------------------------------------------
(* heapmgr_malloc *)

need_span(n) == n + 2

splits(rest) == rest >= 2

\* The block that is returned is the front of cur, or all of it; the back goes
\* to its bin.
do_alloc(h, cur, need) ==
  LET rest  == get_span(h.mem, cur) - need
      d     == detach(h, cur)
      front == unlinked(set_status(set_span(d.mem, cur, need), cur, CHUNK_USED), cur)
      back  == unlinked(set_span(front, cur + need, rest), cur + need)
  IN [heap |-> IF splits(rest) THEN insert([d EXCEPT !.mem = back], cur + need) ELSE d,
      block |-> cur]

fits(m, c, need) == get_span(m, c) >= need

\* The first block that is large enough in the lowest bin that has one, from
\* the bin of the span on; or NULL.
first_fit(h, need) ==
  LET found(b) == {i \in 0 .. MaxUnits : LET c == ListFrom(h.mem, h.bins[b])[i]
                                         IN c # NULL /\ fits(h.mem, c, need)}
      bins == {b \in Bins : b >= get_search_bin(need) /\ found(b) # {}}
  IN IF bins = {} THEN NULL
     ELSE LET b == CHOOSE b \in bins : \A a \in bins : b <= a
          IN ListFrom(h.mem, h.bins[b])[CHOOSE i \in found(b) : \A j \in found(b) : i <= j]

grow_span(n) == 2 + IF n < SYS_MIN_ALLOC_UNITS THEN SYS_MIN_ALLOC_UNITS ELSE n

\* The new block, or the free block before it with the new one joined to it.
sys_grow(h, n) ==
  LET c    == s_heap_hi
      m    == unlinked(set_status(set_span(h.mem, c, grow_span(n)), c, CHUNK_FREE), c)
      prev == prev_phys(m, c, s_heap_lo)
      d    == detach([h EXCEPT !.mem = m], prev)
      join == set_span(d.mem, prev, get_span(d.mem, prev) + grow_span(n))
  IN IF prev # NULL /\ get_status(m, prev) = CHUNK_FREE
     THEN [heap |-> insert([d EXCEPT !.mem = join], prev), block |-> prev]
     ELSE [heap |-> insert([h EXCEPT !.mem = m], c), block |-> c]

\* The program has the payload, and writes all of what it asked for.
Give(a, n) ==
  LET p == a.block + 1 IN
  /\ heap' = [a.heap EXCEPT !.mem = [u \in Addresses |->
                 IF u \in p .. p + n - 1 THEN Data ELSE a.heap.mem[u]]]
  /\ live' = live \cup {[at |-> p, n |-> n]}

MallocFits(n) ==
  LET cur == first_fit(heap, need_span(n)) IN
  /\ cur # NULL
  /\ Give(do_alloc(heap, cur, need_span(n)), n)
  /\ UNCHANGED s_heap_hi

\* If sbrk fails, the call returns NULL and changes nothing.
MallocGrows(n) ==
  LET g == sys_grow(heap, n) IN
  /\ first_fit(heap, need_span(n)) = NULL
  /\ s_heap_hi + grow_span(n) <= MaxUnits
  /\ s_heap_hi' = s_heap_hi + grow_span(n)
  /\ Give(do_alloc(g.heap, g.block, need_span(n)), n)

-----------------------------------------------------------------------------
(* heapmgr_free *)

\* MUTANT of right_joined: the span is set before the bin is looked up by it.
right_joinedLate(h, c) ==
  LET n == next_phys(h.mem, c, s_heap_hi)
      m == set_span(h.mem, n, get_span(h.mem, c) + get_span(h.mem, n))
  IN IF n # NULL /\ get_status(h.mem, n) = CHUNK_FREE
     THEN LET l == linked(h, get_prev_free(h.mem, n), get_next_free(h.mem, n),
                          get_bin_index(get_span(m, n)))
          IN [l EXCEPT !.mem = set_span(@, c, get_span(m, n))]
     ELSE h

\* c with its right neighbour, if that is free.
right_joined(h, c) ==
  LET n == next_phys(h.mem, c, s_heap_hi)
      d == detach(h, n)
  IN IF n # NULL /\ get_status(h.mem, n) = CHUNK_FREE
     THEN [d EXCEPT !.mem = set_span(d.mem, c, get_span(d.mem, c) + get_span(d.mem, n))]
     ELSE h

\* MUTANT of free_joined: the left neighbour's status is not asked.
free_joinedAny(h, c) ==
  LET n == prev_phys(h.mem, c, s_heap_lo)
      m == set_span(h.mem, n, get_span(h.mem, n) + get_span(h.mem, c))
  IN IF n # NULL THEN insert([h EXCEPT !.mem = m], n) ELSE insert(h, c)

\* The left neighbour, if it is free, with c, in its bin.
free_joined(h, c) ==
  LET n == prev_phys(h.mem, c, s_heap_lo)
      d == detach(h, n)
  IN IF n # NULL /\ get_status(h.mem, n) = CHUNK_FREE
     THEN insert([d EXCEPT !.mem = set_span(d.mem, n, get_span(d.mem, n)
                                                       + get_span(d.mem, c))], n)
     ELSE insert(h, c)

Free(a) ==
  LET c == a.at - 1 IN
  /\ heap' = free_joined(right_joined(heap, c), c)
  /\ live' = live \ {a}
  /\ UNCHANGED s_heap_hi

Next ==
  \/ \E n \in Requests : MallocFits(n) \/ MallocGrows(n)
  \/ \E a \in live : Free(a)

Spec == Init /\ [][Next]_vars

-----------------------------------------------------------------------------
(* Properties *)

TheBlocks == Blocks(heap.mem, s_heap_hi)
FreeBlocks == {c \in TheBlocks : get_status(heap.mem, c) = CHUNK_FREE}

TypeOK ==
  /\ heap.mem \in [Addresses -> [first : {-7} \cup 0 .. MaxUnits,
                                 second : {-7} \cup 0 .. MaxUnits,
                                 ptr : {-7, NULL} \cup Addresses]]
  /\ heap.bins \in [Bins -> {NULL} \cup Addresses]
  /\ s_heap_hi \in 0 .. MaxUnits
  /\ live \subseteq [at : Addresses, n : Requests]

\* Each bin's list holds exactly the free blocks whose span is the bin's, so
\* that a block is taken off the list that it is on.
FreeListsExact ==
  \A b \in Bins :
    /\ ListSound(heap.mem, heap.bins[b])
    /\ OnList(heap.mem, heap.bins[b])
         = {c \in FreeBlocks : get_bin_index(get_span(heap.mem, c)) = b}

\* The used blocks are those that the program has, each large enough: none of
\* the heap is lost.
UsedExact ==
  /\ {a.at - 1 : a \in live} = TheBlocks \ FreeBlocks
  /\ \A a, b \in live : a.at = b.at => a = b
  /\ \A a \in live : get_span(heap.mem, a.at - 1) >= a.n + 2

\* check_heap_validity, after any calls: the tags of the blocks agree from one
\* end of the heap to the other and free neighbours have been joined; and, which
\* the check in the code does not ask, every block is on its list or in use.
HeapValid == TypeOK /\ HeapSound(heap.mem, s_heap_hi) /\ FreeListsExact /\ UsedExact

\* What the program wrote and still has.
writtenBar ==
  {u \in Addresses : heap.mem[u] = Data
                       /\ \E a \in live : u \in a.at .. a.at + a.n - 1}

\* No free block had room for what the program is given.
NoBlockFits ==
  \A a \in live' \ live, c \in FreeBlocks : get_span(heap.mem, c) < a.n + 2
=============================================================================
