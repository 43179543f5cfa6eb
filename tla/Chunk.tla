------------------------------- MODULE Chunk -------------------------------
(***************************************************************************)
(* The memory of the heap managers of lab 3 and the blocks in it           *)
(* (chunk.c).  Memory is a function from units of CHUNK_UNIT bytes to the  *)
(* three fields that a unit has as a header (status, span, next) or, at    *)
(* the same places, as a footer (span, padding, prev).  A unit does not    *)
(* know which of the two it is, or whether it belongs to the program.      *)
(***************************************************************************)
EXTENDS Integers, FiniteSets

CONSTANT MaxUnits    \* bound: sbrk fails beyond it

NULL == -1
CHUNK_FREE == 0
CHUNK_USED == 1

Addresses == 0 .. MaxUnits - 1
Data == [first |-> -7, second |-> -7, ptr |-> -7]   \* what the program writes

get_status(m, c) == m[c].first
set_status(m, c, status) == [m EXCEPT ![c].first = status]

get_span(m, c) == m[c].second

get_footer(m, c) == c + get_span(m, c) - 1

set_span(m, c, span) == [m EXCEPT ![c].second = span, ![c + span - 1].first = span]

get_next_free(m, c) == m[c].ptr
set_next_free(m, c, n) == [m EXCEPT ![c].ptr = n]

get_prev_free(m, c) == m[get_footer(m, c)].ptr
set_prev_free(m, c, p) == [m EXCEPT ![get_footer(m, c)].ptr = p]

next_phys(m, c, end) ==
  LET n == c + get_span(m, c) IN IF n >= end THEN NULL ELSE n

prev_phys(m, c, start) == IF c <= start THEN NULL ELSE c - m[c - 1].first

\* set_next_free(c, NULL) and set_prev_free(c, NULL)
unlinked(m, c) == set_prev_free(set_next_free(m, c, NULL), c, NULL)

-----------------------------------------------------------------------------
(* What the two validity checks walk over *)

is_valid(m, c, end) ==
  /\ get_span(m, c) >= 2
  /\ get_footer(m, c) < end
  /\ m[get_footer(m, c)].first = get_span(m, c)

\* The blocks met from the start of the heap on, up to one that is not valid.
Blocks(m, end) ==
  LET from[c \in 0 .. MaxUnits] ==
        IF c >= end THEN {}
        ELSE {c} \cup IF is_valid(m, c, end) THEN from[c + get_span(m, c)] ELSE {}
  IN from[0]

\* The first steps of the walk along a free list, NULL after its end.
ListFrom(m, head) ==
  LET at[i \in 0 .. MaxUnits] ==
        IF i = 0 THEN head
        ELSE IF at[i - 1] = NULL THEN NULL ELSE get_next_free(m, at[i - 1])
  IN at

OnList(m, head) == {ListFrom(m, head)[i] : i \in 0 .. MaxUnits} \ {NULL}

\* The list ends, and each block's prev is the block before it.
ListSound(m, head) ==
  LET at == ListFrom(m, head) IN
  /\ at[MaxUnits] = NULL
  /\ \A i \in 0 .. MaxUnits :
       at[i] # NULL => get_prev_free(m, at[i]) = IF i = 0 THEN NULL ELSE at[i - 1]

\* The blocks fill the heap and no two free ones adjoin.
HeapSound(m, end) ==
  \A c \in Blocks(m, end) :
    LET n == next_phys(m, c, end) IN
    /\ is_valid(m, c, end)
    /\ n # NULL /\ get_status(m, c) = CHUNK_FREE => get_status(m, n) # CHUNK_FREE
=============================================================================
