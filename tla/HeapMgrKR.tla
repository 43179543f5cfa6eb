----------------------------- MODULE HeapMgrKR -----------------------------
(***************************************************************************)
(* The heap manager of Kernighan and Ritchie (reference/heapmgrkr.c): one  *)
(* circular free list in the order of the addresses, through the static    *)
(* block base of size 0, searched from where the last call left freep.     *)
(* Blocks have a header of one unit, which for a used one is its size.     *)
(***************************************************************************)
EXTENDS Integers, FiniteSets

CONSTANTS MaxUnits,    \* bound: sbrk fails beyond it
          NALLOC,
          Requests     \* the sizes asked for, in units; not 0, which gets a block too

VARIABLES heap,    \* mem: address -> the header there or the program's bytes; freep
          brk,     \* the end of the heap, which only sbrk knows
          live     \* what the program has: where and how much

vars == <<heap, brk, live>>

base == -1             \* below the heap, and not adjacent to it
NULL == -2
Addresses == 0 .. MaxUnits - 1
Data == [ptr |-> -7, size |-> -7]

Init ==
  /\ heap = [mem |-> [u \in {base} \cup Addresses |->
                        IF u = base THEN [ptr |-> NULL, size |-> 0] ELSE Data],
             freep |-> NULL]
  /\ brk = 0
  /\ live = {}

-----------------------------------------------------------------------------
(* The walk round the list from p on: at[0] = p, and the number of steps   *)
(* after which it is back at p.                                            *)

WalkFrom(m, p) ==
  LET at[i \in 0 .. MaxUnits + 1] == IF i = 0 THEN p ELSE m[at[i - 1]].ptr IN at

First(S) == CHOOSE i \in S : \A j \in S : i <= j

\* The two blocks end where the next one starts; base is not part of the heap.
touches(m, p, q) == p # base /\ p + m[p].size = q

\* MUTANT of joins_upper: never with the block above.
joins_upperNot(m, bp, p) == FALSE

joins_upper(m, bp, p) == touches(m, bp, m[p].ptr)

\* bp belongs between p and the block after it.
between(m, bp, p) ==
  LET q == m[p].ptr IN
  \/ p < bp /\ bp < q
  \/ p >= q /\ (p < bp \/ bp < q)

\* heapmgr_free: bp joined to its neighbours in the list, and freep before it.
freed(m, from, bp) ==
  LET at == WalkFrom(m, from)
      p  == at[First({i \in 0 .. MaxUnits + 1 : between(m, bp, at[i])})]
      q  == m[p].ptr
      up == IF joins_upper(m, bp, p)
            THEN [m EXCEPT ![bp] = [ptr |-> m[q].ptr, size |-> @.size + m[q].size]]
            ELSE [m EXCEPT ![bp].ptr = q]
      b  == up[bp]
  IN [mem   |-> IF touches(up, p, bp)
                THEN [up EXCEPT ![p] = [ptr |-> b.ptr, size |-> @.size + b.size]]
                ELSE [up EXCEPT ![p].ptr = bp],
      freep |-> p]

-----------------------------------------------------------------------------
(* heapmgr_malloc *)

\* MUTANT of nunits: the header is not counted.
nunitsBare(n) == n

nunits(n) == n + 1

\* The empty list of the first call.
Started ==
  IF heap.freep # NULL THEN heap
  ELSE [mem |-> [heap.mem EXCEPT ![base].ptr = base], freep |-> base]

\* The steps to a block that is big enough, once round the list.
Fitting(h, n) ==
  LET at == WalkFrom(h.mem, h.freep)
      round == First({i \in 1 .. MaxUnits + 1 : at[i] = h.freep})
  IN {i \in 1 .. round : h.mem[at[i]].size >= nunits(n)}

\* All of the first such block, or its tail; the program writes all that it
\* asked for.
Take(h, n) ==
  LET at    == WalkFrom(h.mem, h.freep)
      i     == First(Fitting(h, n))
      p     == at[i]
      rest  == h.mem[p].size - nunits(n)
      m     == IF rest = 0 THEN [h.mem EXCEPT ![at[i - 1]].ptr = h.mem[p].ptr]
               ELSE [h.mem EXCEPT ![p].size = rest, ![p + rest].size = nunits(n)]
      block == p + rest
  IN /\ heap' = [mem |-> [u \in DOMAIN m |->
                            IF u \in block + 1 .. block + n THEN Data ELSE m[u]],
                 freep |-> at[i - 1]]
     /\ live' = live \cup {[at |-> block + 1, n |-> n]}

MallocFits(n) ==
  /\ Fitting(Started, n) # {}
  /\ Take(Started, n)
  /\ UNCHANGED brk

more(n) == IF nunits(n) < NALLOC THEN NALLOC ELSE nunits(n)

\* morecore frees the new block, and the search goes on from there.
MallocGrows(n) ==
  /\ Fitting(Started, n) = {}
  /\ brk + more(n) <= MaxUnits
  /\ brk' = brk + more(n)
  /\ Take(freed([Started.mem EXCEPT ![brk].size = more(n)], Started.freep, brk), n)

\* sbrk fails: the call returns NULL, but the list has been started.
MallocFails(n) ==
  /\ Fitting(Started, n) = {}
  /\ brk + more(n) > MaxUnits
  /\ heap' = Started
  /\ UNCHANGED <<brk, live>>

Free(a) ==
  /\ heap' = freed(heap.mem, heap.freep, a.at - 1)
  /\ live' = live \ {a}
  /\ UNCHANGED brk

Next ==
  \/ \E n \in Requests : MallocFits(n) \/ MallocGrows(n) \/ MallocFails(n)
  \/ \E a \in live : Free(a)

Spec == Init /\ [][Next]_vars

-----------------------------------------------------------------------------
(* Properties *)

TypeOK ==
  /\ heap.mem \in [{base} \cup Addresses -> [ptr : {-7, NULL, base} \cup Addresses,
                                             size : {-7} \cup 0 .. MaxUnits]]
  /\ heap.freep \in {NULL, base} \cup Addresses
  /\ brk \in 0 .. MaxUnits
  /\ live \subseteq [at : Addresses, n : Requests]

OnList == LET at == WalkFrom(heap.mem, base) IN {at[i] : i \in 0 .. MaxUnits + 1}

Block(c) == c .. c + heap.mem[c].size - 1

\* The circle goes up from base through all that is free and back, wherever
\* freep is on it; the blocks on it and the program's cover the heap without
\* overlap; no two free blocks touch, and each object has room in its block.
HeapValid ==
  LET circle == OnList
      used   == {a.at - 1 : a \in live}
      blocks == (circle \ {base}) \cup used
  IN /\ TypeOK
     /\ heap.freep # NULL =>
          /\ heap.freep \in circle
          /\ Cardinality({p \in circle : heap.mem[p].ptr <= p}) = 1
          /\ \A p \in circle : ~ touches(heap.mem, p, heap.mem[p].ptr)
          /\ UNION {Block(c) : c \in blocks} = 0 .. brk - 1
          /\ \A c, d \in blocks : c # d => Block(c) \cap Block(d) = {}
          /\ circle \cap used = {}
     /\ \A a \in live : heap.mem[a.at - 1].size >= nunits(a.n)

\* What the program wrote and still has.
writtenBar ==
  {u \in Addresses : heap.mem[u] = Data /\ \E a \in live : u \in a.at .. a.at + a.n - 1}

\* No free block had room for what the program is given.
NoBlockFits ==
  heap.freep # NULL =>
    \A a \in live' \ live, c \in OnList : heap.mem[c].size < nunits(a.n)
=============================================================================
