--------------------------- MODULE HeapMgrsProofs ---------------------------
(***************************************************************************)
(* Proofs about the program with a heap manager (HeapMgrs), for each of    *)
(* the four managers and any heap, growth and requests: the heap stays     *)
(* valid, it grows only if it must, and each manager is an Allocator.      *)
(*                                                                         *)
(* The invariant of each says which set of blocks B the memory holds, and  *)
(* which of them, F, are free.  The module goes from what is true of any   *)
(* such heap to its lists, and from there manager by manager.              *)
(***************************************************************************)
EXTENDS HeapMgrs, FiniteSetTheorems, WellFoundedInduction, TLAPS

-----------------------------------------------------------------------------
(* Induction over numbers, for one set at a time. *)

\* The order of the numbers has no endless descent.
LEMMA LessWellFounded ==
  IsWellFoundedOn({p \in Nat \X Nat : p[1] < p[2]}, Nat)
<1>1. OpToRel(<, Nat) = {p \in Nat \X Nat : p[1] < p[2]}
  BY DEF OpToRel
<1> QED BY <1>1, NatLessThanWellFounded

\* A set of numbers that is not empty has a least one.
LEMMA LeastNumber ==
  ASSUME NEW T, T \subseteq Nat, T # {}
  PROVE  \E x \in T : \A y \in T : x <= y
<1> DEFINE R == {p \in Nat \X Nat : p[1] < p[2]}
<1>1. IsWellFoundedOn(R, Nat)
  BY LessWellFounded
<1>2. \E x \in T : \A y \in T : ~ (<<y, x>> \in R)
  <2> HIDE DEF R
  <2> QED BY <1>1, WFMin
<1>3. PICK x \in T : \A y \in T : ~ (y < x)
  BY <1>2
<1> QED BY <1>3

\* A set with 0 and with the successors of its numbers holds every number.
LEMMA SetInduction ==
  ASSUME NEW S, 0 \in S, \A n \in Nat : n \in S => n + 1 \in S
  PROVE  Nat \subseteq S
<1> DEFINE T == Nat \ S
<1>1. SUFFICES ASSUME T # {} PROVE FALSE
  OBVIOUS
<1>2. PICK x \in T : \A y \in T : x <= y
  BY <1>1, LeastNumber
<1>3. x # 0 /\ x - 1 \in Nat /\ x - 1 \in S
  BY <1>2
<1> QED BY <1>3

-----------------------------------------------------------------------------
(* Blocks.  m is a memory, B the addresses at which its blocks begin.      *)

Span(m, c)   == m[c].second
Status(m, c) == m[c].first
Tag(m, c)    == m[c + m[c].second - 1].first
NextOf(m, c) == m[c].ptr
PrevOf(m, c) == m[c + m[c].second - 1].ptr

\* The blocks lie end to end from 0 up to end.
Tiled(m, B, end) ==
  /\ B \subseteq Nat /\ end \in Nat
  /\ \A c \in B : /\ Span(m, c) \in Nat \ {0}
                  /\ c + Span(m, c) <= end
                  /\ c + Span(m, c) = end \/ c + Span(m, c) \in B
  /\ \A c, d \in B : c < d => c + Span(m, c) <= d
  /\ \A c \in B : c = 0 \/ \E d \in B : d + Span(m, d) = c
  /\ end # 0 => 0 \in B /\ \E d \in B : d + Span(m, d) = end

\* Blocks go on lying end to end if no span changes.
LEMMA TiledSame ==
  ASSUME NEW m, NEW n, NEW B, NEW end, Tiled(m, B, end),
         \A c \in B : Span(n, c) = Span(m, c)
  PROVE  Tiled(n, B, end)
  BY DEF Tiled

\* Two neighbours become one block.
LEMMA TiledJoins ==
  ASSUME NEW m, NEW n, NEW B, NEW end, Tiled(m, B, end), NEW c \in B, NEW d \in B,
         d = c + Span(m, c), Span(n, c) = Span(m, c) + Span(m, d),
         \A e \in B : e # c /\ e # d => Span(n, e) = Span(m, e)
  PROVE  Tiled(n, B \ {d}, end)
<1> DEFINE C == B \ {d}
<1>1. c \in C /\ d + Span(m, d) = c + Span(n, c) /\ c < d /\ c \in Nat /\ d \in Nat
      /\ Span(m, c) \in Nat \ {0} /\ Span(m, d) \in Nat \ {0}
  BY DEF Tiled
<1>2. C \subseteq Nat /\ end \in Nat
  BY DEF Tiled
<1>3. ASSUME NEW e \in C
      PROVE  /\ Span(n, e) \in Nat \ {0} /\ e + Span(n, e) <= end
             /\ e + Span(n, e) = end \/ e + Span(n, e) \in C
  <2>1. CASE e = c
    BY <2>1, <1>1 DEF Tiled
  <2>2. CASE e # c
    <3>1. Span(n, e) = Span(m, e) /\ e \in B /\ e # d
      BY <2>2
    <3>2. e + Span(m, e) # d
      BY <1>1, <2>2, <3>1 DEF Tiled
    <3> QED BY <3>1, <3>2 DEF Tiled
  <2> QED BY <2>1, <2>2
<1>4. ASSUME NEW e \in C, NEW f \in C, e < f PROVE e + Span(n, e) <= f
  BY <1>1, <1>4, SMTT(30) DEF Tiled
<1>5. ASSUME NEW e \in C PROVE e = 0 \/ \E f \in C : f + Span(n, f) = e
  <2>1. CASE e = 0
    BY <2>1
  <2>2. CASE e # 0
    <3>1. PICK f \in B : f + Span(m, f) = e
      BY <2>2 DEF Tiled
    <3>2. CASE f = d
      BY <3>1, <3>2, <1>1
    <3>3. CASE f # d
      <4>1. f # c
        BY <3>1
      <4> QED BY <3>1, <3>3, <4>1
    <3> QED BY <3>2, <3>3
  <2> QED BY <2>1, <2>2
<1>6. ASSUME end # 0 PROVE 0 \in C /\ \E f \in C : f + Span(n, f) = end
  <2>1. 0 \in B /\ \E f \in B : f + Span(m, f) = end
    BY <1>6 DEF Tiled
  <2>2. 0 # d
    BY <1>1
  <2>3. PICK f \in B : f + Span(m, f) = end
    BY <2>1
  <2>4. CASE f = d
    BY <2>1, <2>2, <2>3, <2>4, <1>1
  <2>5. CASE f = c
    BY <2>3, <2>5, <1>1 DEF Tiled
  <2>6. CASE f # c /\ f # d
    BY <2>1, <2>2, <2>3, <2>6
  <2> QED BY <2>4, <2>5, <2>6
<1> QED BY <1>2, <1>3, <1>4, <1>5, <1>6 DEF Tiled

\* A block becomes two.
LEMMA TiledSplits ==
  ASSUME NEW m, NEW n, NEW B, NEW end, Tiled(m, B, end), NEW c \in B,
         NEW rest \in Nat \ {0}, rest < Span(m, c), Span(n, c) = rest,
         Span(n, c + rest) = Span(m, c) - rest,
         \A e \in B \ {c} : Span(n, e) = Span(m, e)
  PROVE  Tiled(n, B \cup {c + rest}, end) /\ c + rest \notin B
<1> DEFINE d == c + rest
           C == B \cup {d}
<1>1. c \in Nat /\ d \in Nat /\ Span(m, c) \in Nat \ {0} /\ c < d /\ d < c + Span(m, c)
      /\ c + Span(n, c) = d /\ d + Span(n, d) = c + Span(m, c) /\ Span(n, d) \in Nat \ {0}
  BY SMTT(30) DEF Tiled
<1>2. d \notin B
  BY <1>1 DEF Tiled
<1>3. C \subseteq Nat /\ end \in Nat
  BY <1>1 DEF Tiled
<1>4. ASSUME NEW e \in C
      PROVE  /\ Span(n, e) \in Nat \ {0} /\ e + Span(n, e) <= end
             /\ e + Span(n, e) = end \/ e + Span(n, e) \in C
  <2>1. CASE e \in {c, d}
    BY <2>1, <1>1 DEF Tiled
  <2>2. CASE e \notin {c, d}
    BY <2>2, <1>1 DEF Tiled
  <2> QED BY <2>1, <2>2
<1>5. ASSUME NEW e \in C, NEW f \in C, e < f PROVE e + Span(n, e) <= f
  <2>1. CASE e = c
    <3>1. CASE f = d
      BY <2>1, <3>1, <1>1
    <3>2. CASE f \in B
      BY <2>1, <3>2, <1>1, <1>5 DEF Tiled
    <3> QED BY <3>1, <3>2
  <2>2. CASE e = d
    <3>1. f \in B /\ c < f
      BY <2>2, <1>1, <1>5 DEF Tiled
    <3> QED BY <2>2, <3>1, <1>1 DEF Tiled
  <2>3. CASE e \in B \ {c}
    <3>1. CASE f = d
      BY <2>3, <3>1, <1>1, <1>5 DEF Tiled
    <3>2. CASE f \in B
      BY <2>3, <3>2, <1>5 DEF Tiled
    <3> QED BY <3>1, <3>2
  <2> QED BY <2>1, <2>2, <2>3
<1>6. ASSUME NEW e \in C PROVE e = 0 \/ \E f \in C : f + Span(n, f) = e
  <2>1. CASE e = 0 \/ e = d
    BY <2>1, <1>1
  <2>2. CASE e # 0 /\ e # d
    <3>1. PICK f \in B : f + Span(m, f) = e
      BY <2>2 DEF Tiled
    <3> QED BY <3>1, <1>1
  <2> QED BY <2>1, <2>2
<1>7. ASSUME end # 0 PROVE 0 \in C /\ \E f \in C : f + Span(n, f) = end
  <2>1. PICK f \in B : f + Span(m, f) = end
    BY <1>7 DEF Tiled
  <2> QED BY <2>1, <1>1, <1>7 DEF Tiled
<1> QED BY <1>2, <1>3, <1>4, <1>5, <1>6, <1>7 DEF Tiled

\* A block is added at the end.
LEMMA TiledGrows ==
  ASSUME NEW m, NEW n, NEW B, NEW end, Tiled(m, B, end), NEW g \in Nat \ {0},
         Span(n, end) = g, \A e \in B : Span(n, e) = Span(m, e)
  PROVE  Tiled(n, B \cup {end}, end + g) /\ end \notin B
<1>1. end \in Nat /\ end \notin B
  BY DEF Tiled
<1>2. \A e \in B : e + Span(n, e) <= end
  BY DEF Tiled
<1>3. ASSUME NEW e \in B \cup {end} PROVE e = 0 \/ \E f \in B \cup {end} : f + Span(n, f) = e
  <2>1. CASE e \in B
    <3>1. e = 0 \/ \E f \in B : f + Span(m, f) = e
      BY <2>1 DEF Tiled
    <3> QED BY <3>1
  <2>2. CASE e = end
    <3>1. e = 0 \/ \E f \in B : f + Span(m, f) = e
      BY <2>2 DEF Tiled
    <3> QED BY <3>1
  <2> QED BY <2>1, <2>2
<1>4. 0 \in B \cup {end}
  BY DEF Tiled
<1> QED BY <1>1, <1>2, <1>3, <1>4 DEF Tiled

-----------------------------------------------------------------------------
(* The recursive functions of the validity checks: what they compute on    *)
(* blocks that lie end to end.                                             *)

\* One unfolding of the walk over the blocks; V has those that are valid.
BlocksBody(f, m, end, V, c) ==
  IF c >= end THEN {} ELSE {c} \cup IF c \in V THEN f[c + Span(m, c)] ELSE {}

\* f is the walk over the blocks up to end.
Lays(M, m, end, V, f) == f = [c \in 0 .. M |-> BlocksBody(f, m, end, V, c)]

\* The recursive definition that gathers the blocks from an address on has a value.
LEMMA BlocksExist ==
  ASSUME NEW M \in Nat, NEW end \in 0 .. M, NEW m, NEW V,
         \A c \in 0 .. M : c \in V /\ c < end =>
           Span(m, c) \in Nat /\ c + Span(m, c) <= end
  PROVE  \E f : Lays(M, m, end, V, f)
<1> DEFINE Closed(T) == \A x \in T : x \in V /\ x < end /\ x + Span(m, x) < end
                                        => x + Span(m, x) \in T
           Reach(c) == {d \in 0 .. M :
                          \A T \in SUBSET (0 .. M) : c \in T /\ Closed(T) => d \in T}
           f == [c \in 0 .. M |-> IF c >= end THEN {} ELSE Reach(c)]
<1>1. ASSUME NEW c \in 0 .. M PROVE f[c] = BlocksBody(f, m, end, V, c)
  <2>1. CASE c >= end
    BY <2>1 DEF BlocksBody
  <2>2. CASE c < end /\ ~ (c \in V /\ c + Span(m, c) < end)
    <3>1. Closed({c})
      BY <2>2
    <3>2. Reach(c) = {c}
      BY <3>1
    <3>3. c \in V => c + Span(m, c) \in 0 .. M /\ c + Span(m, c) >= end
      BY <2>2
    <3>4. c \in V => f[c + Span(m, c)] = {}
      BY <3>3
    <3>5. f[c] = {c}
      BY <2>2, <3>2
    <3> HIDE DEF f
    <3> QED BY <2>2, <3>4, <3>5 DEF BlocksBody
  <2>3. CASE c < end /\ c \in V /\ c + Span(m, c) < end
    <3> DEFINE d == c + Span(m, c)
    <3>1. d \in 0 .. M /\ d < end
      BY <2>3
    <3>2. Reach(c) \subseteq {c} \cup Reach(d)
      <4> SUFFICES ASSUME NEW e \in Reach(c), e # c, NEW T \in SUBSET (0 .. M),
                          d \in T, Closed(T)
                   PROVE  e \in T
        OBVIOUS
      <4>1. Closed(T \cup {c})
        OBVIOUS
      <4>2. T \cup {c} \in SUBSET (0 .. M) /\ c \in T \cup {c}
        OBVIOUS
      <4>3. e \in T \cup {c}
        <5> HIDE DEF Closed
        <5> QED BY <4>1, <4>2
      <4> QED BY <4>3
    <3>3. Reach(d) \subseteq Reach(c)
      <4> SUFFICES ASSUME NEW e \in Reach(d), NEW T \in SUBSET (0 .. M), c \in T, Closed(T)
                   PROVE  e \in T
        OBVIOUS
      <4>1. d \in T
        BY <2>3
      <4> HIDE DEF Closed
      <4> QED BY <4>1
    <3>4. c \in Reach(c)
      OBVIOUS
    <3>5. Reach(c) = {c} \cup Reach(d)
      BY <3>2, <3>3, <3>4
    <3>6. f[c] = Reach(c) /\ f[d] = Reach(d)
      BY <2>3, <3>1
    <3> HIDE DEF f, Reach
    <3> QED BY <2>3, <3>5, <3>6 DEF BlocksBody
  <2>4. c \in Int /\ end \in Int
    OBVIOUS
  <2>5. c \in V /\ c < end => c + Span(m, c) \in Int
    OBVIOUS
  <2> HIDE DEF f, Reach
  <2> QED BY <2>1, <2>2, <2>3, <2>4, <2>5
<1> HIDE DEF f
<1>2. f = [c \in 0 .. M |-> BlocksBody(f, m, end, V, c)]
  <2>1. f = [c \in 0 .. M |-> f[c]]
    BY DEF f
  <2> QED BY <1>1, <2>1
<1> QED BY <1>2 DEF Lays

\* From address 0 on it gathers the blocks that lie end to end.
LEMMA BlocksAre ==
  ASSUME NEW M \in Nat, NEW end \in 0 .. M, NEW m, NEW V, NEW f, NEW B,
         Lays(M, m, end, V, f), Tiled(m, B, end), B \subseteq V
  PROVE  f[0] = B
<1> USE DEF Lays
<1> DEFINE From(c) == {b \in B : b >= c}
           Bad == {k \in Nat : \E c \in B \cup {end} : k = end - c /\ f[c] # From(c)}
<1>1. \A c \in B \cup {end} : c \in 0 .. M /\ end - c \in Nat
  BY DEF Tiled
<1>2. f[end] = From(end)
  <2>1. \A b \in B : b < end
    BY <1>1 DEF Tiled
  <2>0. From(end) = {}
    BY <1>1, <2>1
  <2>2. f[end] = {}
    BY <1>1 DEF BlocksBody
  <2> QED BY <2>0, <2>2
<1>3. Bad = {}
  <2>1. SUFFICES ASSUME Bad # {} PROVE FALSE
    OBVIOUS
  <2>2. PICK k \in Bad : \A l \in Bad : k <= l
    BY <2>1, LeastNumber
  <2>3. PICK c \in B : k = end - c /\ f[c] # From(c)
    BY <1>2, <2>2
  <2> DEFINE d == c + Span(m, c)
  <2>4. c \in 0 .. M /\ c < end /\ d \in B \cup {end} /\ d > c /\ d \in Nat
    BY <1>1 DEF Tiled
  <2>5. f[d] = From(d)
    <3>1. end - d \in Nat /\ end - d < k
      BY <1>1, <2>3, <2>4
    <3> QED BY <2>2, <2>4, <3>1
  <2>6. f[c] = {c} \cup f[d]
    <3>1. f[c] = BlocksBody(f, m, end, V, c)
      BY <2>4
    <3>2. c \in V /\ ~ (c >= end)
      BY <1>1, <2>4
    <3> QED BY <3>1, <3>2 DEF BlocksBody
  <2>7. From(c) = {c} \cup From(d)
    <3>1. ASSUME NEW b \in B PROVE b >= c <=> b = c \/ b >= d
      <4>1. b \in Nat /\ c \in Nat /\ (c < b => d <= b)
        BY <2>3, <3>1 DEF Tiled
      <4> QED BY <4>1, <2>4
    <3> QED BY <2>3, <3>1
  <2> QED BY <2>3, <2>5, <2>6, <2>7
<1>4. \A c \in B \cup {end} : f[c] = From(c)
  BY <1>1, <1>3
<1>5. 0 \in B \cup {end}
  BY DEF Tiled
<1>6. From(0) = B
  <2>1. \A b \in B : b >= 0
    BY DEF Tiled
  <2> QED BY <2>1
<1> HIDE DEF From
<1> QED BY <1>4, <1>5, <1>6

\* One unfolding of the walk along a list.
WalkBody(f, m, head, i) ==
  IF i = 0 THEN head ELSE IF f[i - 1] = -1 THEN -1 ELSE NextOf(m, f[i - 1])

\* f is the walk along the list from head on.
Walks(M, m, head, f) == f = [i \in 0 .. M |-> WalkBody(f, m, head, i)]

\* The recursive definition that follows a list has a value.
LEMMA WalkExists ==
  ASSUME NEW M \in Nat, NEW m, NEW head
  PROVE  \E f : Walks(M, m, head, f)
<1> USE DEF Walks
<1> DEFINE Good(f, k) == f = [i \in 0 .. k |-> WalkBody(f, m, head, i)]
           S == {k \in Nat : \E f : Good(f, k)}
<1>1. 0 \in S
  <2>1. Good([i \in 0 .. 0 |-> head], 0)
    BY DEF WalkBody
  <2> QED BY <2>1
<1>2. ASSUME NEW k \in Nat, k \in S PROVE k + 1 \in S
  <2>1. PICK f : Good(f, k)
    BY <1>2
  <2> DEFINE g == [i \in 0 .. k + 1 |->
                     IF i <= k THEN f[i] ELSE IF f[k] = -1 THEN -1 ELSE NextOf(m, f[k])]
  <2>2. ASSUME NEW i \in 0 .. k + 1
        PROVE  g[i] = WalkBody(g, m, head, i)
    <3>1. CASE i = 0
      BY <3>1, <2>1 DEF WalkBody
    <3>2. CASE i \in 1 .. k
      <4>1. g[i] = f[i] /\ g[i - 1] = f[i - 1] /\ i \in 0 .. k /\ i # 0
        BY <3>2
      <4> QED BY <2>1, <4>1 DEF WalkBody
    <3>3. CASE i = k + 1
      BY <3>3 DEF WalkBody
    <3> QED BY <3>1, <3>2, <3>3
  <2>3. Good(g, k + 1)
    BY <2>2
  <2> HIDE DEF g
  <2> QED BY <2>3
<1> HIDE DEF S
<1>3. M \in S
  BY <1>1, <1>2, SetInduction
<1> QED BY <1>3 DEF S

-----------------------------------------------------------------------------
(* Doubly-linked lists.  F is what is on the list; the ranks go down along *)
(* it, so that it ends.                                                    *)

Ranked(m, F, r, K) ==
  /\ r \in [Nat -> Int] /\ K \in Int
  /\ \A c \in F : r[c] < K
  /\ \A c \in F : NextOf(m, c) # -1 => r[NextOf(m, c)] < r[c]

Linked(m, head, F) ==
  /\ F \subseteq Nat
  /\ head = -1 <=> F = {}
  /\ head # -1 => head \in F /\ PrevOf(m, head) = -1
  /\ \A c \in F : NextOf(m, c) # -1 => NextOf(m, c) \in F /\ PrevOf(m, NextOf(m, c)) = c
  /\ \A c \in F : PrevOf(m, c) # -1 => PrevOf(m, c) \in F /\ NextOf(m, PrevOf(m, c)) = c
  /\ \A c \in F : PrevOf(m, c) = -1 => c = head
  /\ \E r, K : Ranked(m, F, r, K)

\* A doubly linked list goes on if no link of its blocks changes.
LEMMA LinkedSame ==
  ASSUME NEW m, NEW n, NEW head, NEW F, Linked(m, head, F),
         \A c \in F : NextOf(n, c) = NextOf(m, c) /\ PrevOf(n, c) = PrevOf(m, c)
  PROVE  Linked(n, head, F)
<1>1. PICK r, K : Ranked(m, F, r, K)
  BY DEF Linked
<1>2. Ranked(n, F, r, K)
  BY <1>1 DEF Ranked
<1> QED BY <1>2 DEF Linked

\* What n has of a list F of m with c put before its head.
Pushed(m, n, head, F, c) ==
  /\ c \in Nat \ F /\ NextOf(n, c) = head /\ PrevOf(n, c) = -1
  /\ \A d \in F : /\ NextOf(n, d) = NextOf(m, d)
                  /\ PrevOf(n, d) = IF d = head THEN c ELSE PrevOf(m, d)

\* c becomes the head.
LEMMA LinkedInsert ==
  ASSUME NEW m, NEW n, NEW head, NEW F, NEW c,
         Linked(m, head, F), Pushed(m, n, head, F, c)
  PROVE  Linked(n, c, F \cup {c})
<1> USE DEF Pushed
<1> DEFINE G == F \cup {c}
<1>1. PICK r, K : Ranked(m, F, r, K)
  BY DEF Linked
<1> DEFINE q == [r EXCEPT ![c] = K]
<1>2. Ranked(n, G, q, K + 1)
  <2>1. q \in [Nat -> Int] /\ K + 1 \in Int /\ q[c] = K /\ \A d \in F : q[d] = r[d]
    BY <1>1 DEF Ranked, Linked
  <2>2. ASSUME NEW d \in F PROVE q[d] < K + 1
    BY <1>1, <2>1 DEF Ranked, Linked
  <2>3. ASSUME NEW d \in G, NextOf(n, d) # -1 PROVE q[NextOf(n, d)] < q[d]
    <3>1. CASE d = c
      BY <1>1, <2>1, <2>3, <3>1 DEF Ranked, Linked
    <3>2. CASE d \in F
      BY <1>1, <2>1, <2>3, <3>2 DEF Ranked, Linked
    <3> QED BY <3>1, <3>2
  <2> HIDE DEF q
  <2> QED BY <2>1, <2>2, <2>3 DEF Ranked
<1>3. c # -1 /\ G \subseteq Nat
  BY DEF Linked
<1>4. ASSUME NEW d \in G, NextOf(n, d) # -1
      PROVE  NextOf(n, d) \in G /\ PrevOf(n, NextOf(n, d)) = d
  <2>1. CASE d = c
    BY <2>1, <1>4 DEF Linked
  <2>2. CASE d \in F
    <3>1. NextOf(m, d) \in F /\ PrevOf(m, NextOf(m, d)) = d
      BY <2>2, <1>4 DEF Linked
    <3>2. NextOf(m, d) # head
      BY <2>2, <3>1 DEF Linked
    <3> QED BY <2>2, <3>1, <3>2
  <2> QED BY <2>1, <2>2
<1>5. ASSUME NEW d \in G, PrevOf(n, d) # -1
      PROVE  PrevOf(n, d) \in G /\ NextOf(n, PrevOf(n, d)) = d
  BY <1>5 DEF Linked
<1>6. ASSUME NEW d \in G, PrevOf(n, d) = -1 PROVE d = c
  BY <1>3, <1>6 DEF Linked
<1> QED BY <1>2, <1>3, <1>4, <1>5, <1>6 DEF Linked

\* Of some that are on the list, one has no other of them before it.
LEMMA FirstOfSome ==
  ASSUME NEW m, NEW head, NEW F, Linked(m, head, F), NEW G, G \subseteq F, G # {}
  PROVE  \E c \in G : PrevOf(m, c) \notin G
<1>1. PICK r, K : Ranked(m, F, r, K)
  BY DEF Linked
<1> DEFINE T == {K - r[c] : c \in G}
<1>2. T \subseteq Nat /\ T # {}
  <2>1. ASSUME NEW c \in G PROVE K - r[c] \in Nat
    BY <1>1 DEF Ranked, Linked
  <2> QED BY <2>1
<1>3. PICK x \in T : \A y \in T : x <= y
  <2> HIDE DEF T
  <2> QED BY <1>2, LeastNumber
<1>4. PICK c \in G : x = K - r[c]
  BY <1>3
<1>5. ASSUME PrevOf(m, c) \in G PROVE FALSE
  <2> DEFINE d == PrevOf(m, c)
  <2>0. d # -1 /\ c # -1
    BY <1>5 DEF Linked
  <2>1. d \in F /\ NextOf(m, d) = c /\ c # -1
    BY <2>0 DEF Linked
  <2>2. r[c] < r[d] /\ r[c] \in Int /\ r[d] \in Int /\ K \in Int
    BY <1>1, <2>1 DEF Ranked, Linked
  <2>3. K - r[d] \in T
    BY <1>5
  <2> HIDE DEF T
  <2> QED BY <1>3, <1>4, <2>2, <2>3
<1> QED BY <1>5

\* What n has of a list F of m whose neighbours of c are linked past it.
Unhooked(m, n, F, c) ==
  /\ c \in F
  /\ \A d \in F \ {c} :
       /\ NextOf(n, d) = IF d = PrevOf(m, c) THEN NextOf(m, c) ELSE NextOf(m, d)
       /\ PrevOf(n, d) = IF d = NextOf(m, c) THEN PrevOf(m, c) ELSE PrevOf(m, d)

HeadWithout(m, head, c) == IF PrevOf(m, c) # -1 THEN head ELSE NextOf(m, c)

\* c is taken off the list.
LEMMA LinkedRemove ==
  ASSUME NEW m, NEW n, NEW head, NEW F, NEW c,
         Linked(m, head, F), Unhooked(m, n, F, c)
  PROVE  Linked(n, HeadWithout(m, head, c), F \ {c})
<1> DEFINE p == PrevOf(m, c)
           q == NextOf(m, c)
           G == F \ {c}
           h == IF p # -1 THEN head ELSE q
<1>0. /\ c \in F /\ p = PrevOf(m, c) /\ q = NextOf(m, c)
      /\ \A d \in G : /\ NextOf(n, d) = IF d = p THEN q ELSE NextOf(m, d)
                      /\ PrevOf(n, d) = IF d = q THEN p ELSE PrevOf(m, d)
  BY DEF Unhooked
<1> USE <1>0
<1> HIDE DEF p, q
<1>1. PICK r, K : Ranked(m, F, r, K)
  BY DEF Linked
<1>2. /\ c # -1 /\ -1 \notin F
      /\ p # -1 => p \in G /\ NextOf(m, p) = c
      /\ q # -1 => q \in G /\ PrevOf(m, q) = c
      /\ p # -1 => c # head
      /\ p = -1 => c = head
  <2>1. c # -1 /\ -1 \notin F
    BY DEF Linked
  <2>2. p # -1 => p \in F /\ NextOf(m, p) = c
    BY DEF Linked
  <2>3. q # -1 => q \in F /\ PrevOf(m, q) = c
    BY DEF Linked
  <2>4. p # c
    BY <1>1, <2>1, <2>2 DEF Ranked, Linked
  <2>5. q # c
    BY <1>1, <2>1, <2>3 DEF Ranked, Linked
  <2> QED BY <2>1, <2>2, <2>3, <2>4, <2>5 DEF Linked
<1>3. Ranked(n, G, r, K)
  <2>1. ASSUME NEW d \in G, NextOf(n, d) # -1 PROVE r[NextOf(n, d)] < r[d]
    <3>1. CASE d = p
      <4>1. NextOf(n, d) = q /\ p # -1 /\ q # -1
        BY <1>2, <2>1, <3>1
      <4>2. r[c] < r[p] /\ r[q] < r[c]
        BY <1>1, <1>2, <3>1, <4>1 DEF Ranked
      <4>3. r[c] \in Int /\ r[p] \in Int /\ r[q] \in Int
        BY <1>1, <1>2, <4>1 DEF Ranked, Linked
      <4> QED BY <3>1, <4>1, <4>2, <4>3
    <3>2. CASE d # p
      BY <1>1, <2>1, <3>2 DEF Ranked
    <3> QED BY <3>1, <3>2
  <2> QED BY <1>1, <2>1 DEF Ranked
<1>4. G \subseteq Nat
  BY DEF Linked
<1>5. h = -1 => G = {}
  <2>1. SUFFICES ASSUME h = -1, G # {} PROVE FALSE
    OBVIOUS
  <2>2. p = -1 /\ q = -1
    BY <2>1, <1>2 DEF Linked
  <2>3. PICK d \in G : PrevOf(m, d) \notin G
    <3> HIDE DEF G
    <3>1. G \subseteq F
      BY DEF G
    <3> QED BY <2>1, <3>1, FirstOfSome
  <2>4. PrevOf(m, d) # -1
    BY <1>2, <2>2 DEF Linked
  <2>5. PrevOf(m, d) = c /\ NextOf(m, c) = d
    BY <2>3, <2>4 DEF Linked
  <2> QED BY <1>2, <2>2, <2>5
<1>6. h # -1 => h \in G /\ PrevOf(n, h) = -1
  <2>1. CASE p # -1
    <3>1. head \in G /\ PrevOf(m, head) = -1
      BY <1>2, <2>1 DEF Linked
    <3>2. head # q
      BY <1>2, <3>1
    <3> QED BY <2>1, <3>1, <3>2
  <2>2. CASE p = -1
    BY <1>2, <2>2
  <2> QED BY <2>1, <2>2
<1>7. ASSUME NEW d \in G, NextOf(n, d) # -1
      PROVE  NextOf(n, d) \in G /\ PrevOf(n, NextOf(n, d)) = d
  <2>1. CASE d = p
    <3>1. NextOf(n, d) = q /\ q # -1 /\ q \in G
      BY <1>2, <1>7, <2>1
    <3> QED BY <2>1, <3>1
  <2>2. CASE d # p
    <3>1. NextOf(n, d) = NextOf(m, d)
      BY <2>2
    <3>2. NextOf(m, d) \in F /\ PrevOf(m, NextOf(m, d)) = d
      BY <1>7, <3>1 DEF Linked
    <3>3. NextOf(m, d) # c /\ NextOf(m, d) # q
      BY <1>2, <2>2, <3>2
    <3> QED BY <3>1, <3>2, <3>3
  <2> QED BY <2>1, <2>2
<1>8. ASSUME NEW d \in G, PrevOf(n, d) # -1
      PROVE  PrevOf(n, d) \in G /\ NextOf(n, PrevOf(n, d)) = d
  <2>1. CASE d = q
    <3>1. PrevOf(n, d) = p /\ p # -1 /\ p \in G
      BY <1>2, <1>8, <2>1
    <3> QED BY <2>1, <3>1
  <2>2. CASE d # q
    <3>1. PrevOf(n, d) = PrevOf(m, d)
      BY <2>2
    <3>2. PrevOf(m, d) \in F /\ NextOf(m, PrevOf(m, d)) = d
      BY <1>8, <3>1 DEF Linked
    <3>3. PrevOf(m, d) # c /\ PrevOf(m, d) # p
      BY <1>2, <2>2, <3>2
    <3> QED BY <3>1, <3>2, <3>3
  <2> QED BY <2>1, <2>2
<1>9. ASSUME NEW d \in G, PrevOf(n, d) = -1 PROVE d = h
  <2>1. CASE d = q
    BY <1>2, <1>9, <2>1
  <2>2. CASE d # q
    <3>1. d = head
      BY <1>9, <2>2 DEF Linked
    <3> QED BY <1>2, <3>1
  <2> QED BY <2>1, <2>2
<1>10. -1 \notin G
  BY <1>2
<1> HIDE DEF h, G
<1>11. Linked(n, h, G)
  BY <1>3, <1>4, <1>5, <1>6, <1>7, <1>8, <1>9, <1>10 DEF Linked
<1> QED BY <1>11 DEF h, G, p, q, HeadWithout

\* The walk has ended, has met what is in F, and each prev is where it came from.
WalkedOver(M, m, F, f) ==
  /\ f[M] = -1
  /\ {f[i] : i \in 0 .. M} \ {-1} = F
  /\ \A i \in 0 .. M :
       f[i] # -1 => f[i] \in F /\ PrevOf(m, f[i]) = IF i = 0 THEN -1 ELSE f[i - 1]

\* The walk along a list comes to what is on it, and ends.
LEMMA LinkedWalk ==
  ASSUME NEW M \in Nat, NEW m, NEW head, NEW F, F \subseteq 0 .. M - 1, Linked(m, head, F),
         NEW f, Walks(M, m, head, f)
  PROVE  WalkedOver(M, m, F, f)
<1>0. f = [i \in 0 .. M |-> WalkBody(f, m, head, i)]
  BY DEF Walks
<1> USE <1>0
<1>1. PICK r, K : Ranked(m, F, r, K)
  BY DEF Linked
<1>2. f[0] = head
  BY DEF WalkBody
<1>3. ASSUME NEW i \in Nat, i + 1 <= M
      PROVE  f[i + 1] = IF f[i] = -1 THEN -1 ELSE NextOf(m, f[i])
  <2>1. i + 1 \in 0 .. M /\ i + 1 # 0 /\ (i + 1) - 1 = i
    BY <1>3
  <2>2. f[i + 1] = WalkBody(f, m, head, i + 1)
    BY <2>1
  <2> QED BY <2>1, <2>2 DEF WalkBody
<1> DEFINE S == {i \in Nat : i <= M => f[i] \in F \cup {-1}}
<1>4. 0 \in S
  BY <1>2 DEF Linked
<1>5. ASSUME NEW i \in Nat, i \in S PROVE i + 1 \in S
  <2>1. SUFFICES ASSUME i + 1 <= M PROVE f[i + 1] \in F \cup {-1}
    OBVIOUS
  <2>2. f[i] \in F \cup {-1}
    BY <1>5, <2>1
  <2>3. f[i + 1] = IF f[i] = -1 THEN -1 ELSE NextOf(m, f[i])
    BY <1>3, <2>1
  <2> QED BY <2>2, <2>3 DEF Linked
<1>6. \A i \in 0 .. M : f[i] \in F \cup {-1}
  <2>1. Nat \subseteq S
    <3> HIDE DEF S
    <3> QED BY <1>4, <1>5, SetInduction
  <2> QED BY <2>1
<1>7. -1 \notin F
  BY DEF Linked
<1> DEFINE Ranks(j) == \A i \in 0 .. j - 1 : f[j] # -1 => f[i] # -1 /\ r[f[j]] < r[f[i]]
           D == {j \in Nat : j <= M => Ranks(j)}
<1>8. 0 \in D
  OBVIOUS
<1>9. ASSUME NEW j \in Nat, j \in D PROVE j + 1 \in D
  <2>1. SUFFICES ASSUME j + 1 <= M, NEW i \in 0 .. j, f[j + 1] # -1
                 PROVE  f[i] # -1 /\ r[f[j + 1]] < r[f[i]]
    OBVIOUS
  <2>2. f[j] # -1 /\ f[j + 1] = NextOf(m, f[j])
    BY <1>3, <2>1
  <2>3. f[j] \in F /\ f[j + 1] \in F
    BY <1>6, <2>1, <2>2
  <2>4. r[f[j + 1]] < r[f[j]]
    BY <1>1, <2>1, <2>2, <2>3 DEF Ranked
  <2>5. CASE i = j
    BY <2>2, <2>4, <2>5
  <2>6. CASE i # j
    <3>1. i \in 0 .. j - 1 /\ j <= M
      BY <2>1, <2>6
    <3>2. f[i] # -1 /\ r[f[j]] < r[f[i]]
      BY <1>9, <2>2, <3>1
    <3>3. f[i] \in F
      BY <1>6, <2>1, <3>1, <3>2
    <3>4. r[f[i]] \in Int /\ r[f[j]] \in Int /\ r[f[j + 1]] \in Int
      BY <1>1, <2>3, <3>3 DEF Ranked, Linked
    <3> QED BY <2>4, <3>2, <3>4
  <2> QED BY <2>5, <2>6
<1>10. \A j \in 0 .. M : Ranks(j)
  <2>1. Nat \subseteq D
    <3> HIDE DEF D
    <3> QED BY <1>8, <1>9, SetInduction
  <2> HIDE DEF Ranks
  <2> QED BY <2>1
<1>11. f[M] = -1
  <2>1. SUFFICES ASSUME f[M] # -1 PROVE FALSE
    OBVIOUS
  <2>2. \A i \in 0 .. M : f[i] \in 0 .. M - 1
    <3>1. ASSUME NEW i \in 0 .. M PROVE f[i] # -1
      BY <1>10, <2>1
    <3> QED BY <1>6, <3>1
  <2>3. f \in [0 .. M -> 0 .. M - 1]
    BY <2>2
  <2>4. /\ IsFiniteSet(0 .. M) /\ Cardinality(0 .. M) = M + 1
        /\ IsFiniteSet(0 .. M - 1) /\ Cardinality(0 .. M - 1) = M
    <3>1. /\ IsFiniteSet(0 .. M)
          /\ Cardinality(0 .. M) = IF 0 > M THEN 0 ELSE M - 0 + 1
      BY FS_Interval
    <3>2. /\ IsFiniteSet(0 .. M - 1)
          /\ Cardinality(0 .. M - 1) = IF 0 > M - 1 THEN 0 ELSE (M - 1) - 0 + 1
      BY FS_Interval
    <3> QED BY <3>1, <3>2
  <2>5. PICK i, j \in 0 .. M : i # j /\ f[i] = f[j]
    <3>1. Cardinality(0 .. M - 1) < Cardinality(0 .. M)
      BY <2>4
    <3> QED BY <2>3, <2>4, <3>1, FS_PigeonHole
  <2>6. ASSUME NEW k \in 0 .. M PROVE f[k] # -1 /\ f[k] \in F /\ r[f[k]] \in Int
    <3>1. f[k] # -1 /\ f[k] \in Nat
      BY <2>2
    <3>2. f[k] \in F
      BY <1>6, <3>1
    <3> QED BY <1>1, <3>1, <3>2 DEF Ranked
  <2>7. i < j \/ j < i
    BY <2>5
  <2>8. CASE i < j
    <3>1. i \in 0 .. j - 1
      BY <2>8
    <3>2. r[f[j]] < r[f[i]]
      BY <1>10, <2>6, <3>1
    <3> QED BY <2>5, <2>6, <3>2
  <2>9. CASE j < i
    <3>1. j \in 0 .. i - 1
      BY <2>9
    <3>2. r[f[i]] < r[f[j]]
      BY <1>10, <2>6, <3>1
    <3> QED BY <2>5, <2>6, <3>2
  <2> QED BY <2>7, <2>8, <2>9
<1>12. F \subseteq {f[i] : i \in 0 .. M}
  <2> DEFINE G == F \ {f[i] : i \in 0 .. M}
  <2>1. SUFFICES ASSUME G # {} PROVE FALSE
    OBVIOUS
  <2>2. PICK c \in G : PrevOf(m, c) \notin G
    <3>1. G \subseteq F
      OBVIOUS
    <3> HIDE DEF G
    <3> QED BY <2>1, <3>1, FirstOfSome
  <2>3. c \in F /\ \A i \in 0 .. M : f[i] # c
    BY <2>2
  <2>4. PrevOf(m, c) # -1
    BY <1>2, <2>3 DEF Linked
  <2>5. PrevOf(m, c) \in F /\ NextOf(m, PrevOf(m, c)) = c
    BY <2>3, <2>4 DEF Linked
  <2>6. PICK i \in 0 .. M : f[i] = PrevOf(m, c)
    BY <2>2, <2>5
  <2>7. i < M
    BY <1>11, <2>4, <2>6
  <2>8. f[i + 1] = c /\ i + 1 \in 0 .. M
    BY <1>3, <2>4, <2>5, <2>6, <2>7
  <2> QED BY <2>3, <2>8
<1>13. ASSUME NEW i \in 0 .. M, f[i] # -1
       PROVE  f[i] \in F /\ PrevOf(m, f[i]) = IF i = 0 THEN -1 ELSE f[i - 1]
  <2>1. f[i] \in F
    BY <1>6, <1>13
  <2>2. CASE i = 0
    BY <1>2, <1>13, <2>2 DEF Linked
  <2>3. CASE i # 0
    <3>1. i - 1 \in Nat /\ (i - 1) + 1 = i /\ i - 1 \in 0 .. M
      BY <2>3
    <3>2. f[i - 1] # -1 /\ f[i] = NextOf(m, f[i - 1])
      BY <1>3, <1>13, <3>1
    <3>3. f[i - 1] \in F
      BY <1>6, <3>1, <3>2
    <3> QED BY <1>13, <2>1, <2>3, <3>2, <3>3 DEF Linked
  <2> QED BY <2>1, <2>2, <2>3
<1>14. {f[i] : i \in 0 .. M} \ {-1} = F
  BY <1>6, <1>7, <1>12
<1> QED BY <1>11, <1>13, <1>14 DEF WalkedOver

-----------------------------------------------------------------------------
(* The memory of blocks with a header and a footer, and what each of the   *)
(* functions of chunk.c does to it.                                        *)

Ptrs(M) == {-7, -1} \cup 0 .. M - 1
Mem(M) == [0 .. M - 1 -> [first : {-7} \cup 0 .. M, second : {-7} \cup 0 .. M, ptr : Ptrs(M)]]

\* The blocks B fill the heap up to end, and their tags agree.
Core(M, m, B, end) ==
  /\ m \in Mem(M) /\ end <= M
  /\ Tiled(m, B, end)
  /\ \A c \in B : Span(m, c) >= 2 /\ Tag(m, c) = Span(m, c)

WithStatus(m, c, s) == [m EXCEPT ![c].first = s]
WithSpan(m, c, s)   == [m EXCEPT ![c].second = s, ![c + s - 1].first = s]
WithNext(m, c, n)   == [m EXCEPT ![c].ptr = n]
WithPrev(m, c, p)   == [m EXCEPT ![c + m[c].second - 1].ptr = p]

Inside(m, n, c) == \A u \in c + 1 .. c + Span(m, c) - 2 : n[u] = m[u]

\* Block c is the same in both memories.
Alike(m, n, c) ==
  /\ Span(n, c) = Span(m, c) /\ Tag(n, c) = Tag(m, c) /\ Status(n, c) = Status(m, c)
  /\ NextOf(n, c) = NextOf(m, c) /\ PrevOf(n, c) = PrevOf(m, c)
  /\ Inside(m, n, c)

\* The units of a block are within the memory, and the tags of two blocks apart.
LEMMA CoreApart ==
  ASSUME NEW M \in Nat, NEW m, NEW B, NEW end, Core(M, m, B, end), NEW c \in B
  PROVE  /\ c \in 0 .. M - 1 /\ Span(m, c) \in 2 .. M
         /\ c + Span(m, c) - 1 \in 0 .. M - 1 /\ c # c + Span(m, c) - 1
         /\ c + Span(m, c) <= end /\ end \in 0 .. M
         /\ \A d \in B \ {c} : c + Span(m, c) - 1 < d \/ d + Span(m, d) - 1 < c
  BY DEF Core, Tiled, Span

\* A unit of one block is neither the first nor the last of another.
LEMMA BlockApart ==
  ASSUME NEW M \in Nat, NEW m, NEW B, NEW end, Core(M, m, B, end), NEW c \in B, NEW d \in B,
         d # c, NEW u \in d .. d + Span(m, d) - 1
  PROVE  u # c /\ u # c + Span(m, c) - 1 /\ u \in 0 .. M - 1
  BY CoreApart

\* A number may be written to the first field of a unit.
LEMMA FirstWrites ==
  ASSUME NEW M \in Nat, NEW m \in Mem(M), NEW c \in 0 .. M - 1, NEW s \in {-7} \cup 0 .. M
  PROVE  [m EXCEPT ![c].first = s] \in Mem(M)
  BY DEF Mem

\* A number may be written to the second field of a unit.
LEMMA SecondWrites ==
  ASSUME NEW M \in Nat, NEW m \in Mem(M), NEW c \in 0 .. M - 1, NEW s \in {-7} \cup 0 .. M
  PROVE  [m EXCEPT ![c].second = s] \in Mem(M)
  BY DEF Mem

\* A link may be written to a unit.
LEMMA PtrWrites ==
  ASSUME NEW M \in Nat, NEW m \in Mem(M), NEW c \in 0 .. M - 1, NEW p \in Ptrs(M)
  PROVE  [m EXCEPT ![c].ptr = p] \in Mem(M)
  BY DEF Mem

\* What is written to at most the header and the footer of c leaves all other
\* blocks alike.
LEMMA OthersAlike ==
  ASSUME NEW M \in Nat, NEW m, NEW n, NEW B, NEW end, Core(M, m, B, end), NEW c \in B,
         \A u \in 0 .. M - 1 : u # c /\ u # c + Span(m, c) - 1 => n[u] = m[u]
  PROVE  (\A d \in B \ {c} : Alike(m, n, d)) /\ Inside(m, n, c)
<1>1. ASSUME NEW d \in B \ {c} PROVE Alike(m, n, d)
  <2>1. \A u \in d .. d + Span(m, d) - 1 : n[u] = m[u]
    <3>1. \A u \in d .. d + Span(m, d) - 1 :
            u \in 0 .. M - 1 /\ u # c /\ u # c + Span(m, c) - 1
      BY BlockApart
    <3> QED BY <3>1
  <2>2. d \in Int /\ Span(m, d) \in Int /\ Span(m, d) >= 2
    BY CoreApart
  <2>3. n[d] = m[d] /\ n[d + Span(m, d) - 1] = m[d + Span(m, d) - 1]
    BY <2>1, <2>2
  <2>4. Inside(m, n, d)
    BY <2>1, <2>2 DEF Inside
  <2> QED BY <2>3, <2>4 DEF Alike, Span, Tag, Status, NextOf, PrevOf
<1>2. Inside(m, n, c)
  BY CoreApart DEF Inside
<1> QED BY <1>1, <1>2

\* The blocks stay as they are if the spans at both their ends do.
LEMMA CoreKept ==
  ASSUME NEW M \in Nat, NEW m, NEW n, NEW B, NEW end, Core(M, m, B, end), n \in Mem(M),
         \A d \in B : Span(n, d) = Span(m, d) /\ Tag(n, d) = Tag(m, d)
  PROVE  Core(M, n, B, end)
<1>1. Tiled(n, B, end)
  BY TiledSame DEF Core
<1> QED BY <1>1 DEF Core

\* set_status writes the status of one block, and nothing else of any.
LEMMA StatusWritten ==
  ASSUME NEW M \in Nat, NEW m, NEW B, NEW end, Core(M, m, B, end), NEW c \in B,
         NEW s \in {0, 1}, NEW n, n = WithStatus(m, c, s)
  PROVE  /\ Core(M, n, B, end)
         /\ \A d \in B \ {c} : Alike(m, n, d)
         /\ Span(n, c) = Span(m, c) /\ Status(n, c) = s /\ NextOf(n, c) = NextOf(m, c)
         /\ PrevOf(n, c) = PrevOf(m, c) /\ Inside(m, n, c)
<1>1. c \in 0 .. M - 1 /\ c + Span(m, c) - 1 \in 0 .. M - 1 /\ c # c + Span(m, c) - 1
      /\ Span(m, c) \in 2 .. M
  BY CoreApart
<1>2. m \in Mem(M)
  BY DEF Core
<1>3. n \in Mem(M)
  <2>1. s \in {-7} \cup 0 .. M
    BY <1>1
  <2> QED BY <1>1, <1>2, <2>1, FirstWrites DEF WithStatus
<1>4. \A u \in 0 .. M - 1 : u # c => n[u] = m[u]
  BY <1>2 DEF WithStatus, Mem
<1>5. n[c] = [m[c] EXCEPT !.first = s]
  BY <1>1, <1>2 DEF WithStatus, Mem
<1>6. n[c].second = m[c].second /\ n[c].first = s /\ n[c].ptr = m[c].ptr
  BY <1>1, <1>2, <1>5 DEF Mem
<1>7. (\A d \in B \ {c} : Alike(m, n, d)) /\ Inside(m, n, c)
  BY <1>4, OthersAlike
<1>8. n[c + Span(m, c) - 1] = m[c + Span(m, c) - 1]
  BY <1>1, <1>4
<1>9. Span(n, c) = Span(m, c) /\ Status(n, c) = s /\ NextOf(n, c) = NextOf(m, c)
      /\ PrevOf(n, c) = PrevOf(m, c) /\ Tag(n, c) = Tag(m, c)
  BY <1>6, <1>8 DEF Span, Status, NextOf, PrevOf, Tag
<1>10. Core(M, n, B, end)
  BY <1>3, <1>7, <1>9, CoreKept DEF Alike
<1> QED BY <1>7, <1>9, <1>10

\* The next link of one block is written, and nothing else of any.
LEMMA NextWritten ==
  ASSUME NEW M \in Nat, NEW m, NEW B, NEW end, Core(M, m, B, end), NEW c \in B,
         NEW p \in Ptrs(M), NEW n, n = WithNext(m, c, p)
  PROVE  /\ Core(M, n, B, end)
         /\ \A d \in B \ {c} : Alike(m, n, d)
         /\ Span(n, c) = Span(m, c) /\ Status(n, c) = Status(m, c) /\ NextOf(n, c) = p
         /\ PrevOf(n, c) = PrevOf(m, c) /\ Inside(m, n, c)
<1>1. c \in 0 .. M - 1 /\ c + Span(m, c) - 1 \in 0 .. M - 1 /\ c # c + Span(m, c) - 1
      /\ Span(m, c) \in 2 .. M
  BY CoreApart
<1>2. m \in Mem(M)
  BY DEF Core
<1>3. n \in Mem(M)
  BY <1>1, <1>2, PtrWrites DEF WithNext
<1>4. \A u \in 0 .. M - 1 : u # c => n[u] = m[u]
  BY <1>2 DEF WithNext, Mem
<1>5. n[c] = [m[c] EXCEPT !.ptr = p]
  BY <1>1, <1>2 DEF WithNext, Mem
<1>6. n[c].second = m[c].second /\ n[c].first = m[c].first /\ n[c].ptr = p
  BY <1>1, <1>2, <1>5 DEF Mem
<1>7. (\A d \in B \ {c} : Alike(m, n, d)) /\ Inside(m, n, c)
  BY <1>4, OthersAlike
<1>8. n[c + Span(m, c) - 1] = m[c + Span(m, c) - 1]
  BY <1>1, <1>4
<1>9. Span(n, c) = Span(m, c) /\ Status(n, c) = Status(m, c) /\ NextOf(n, c) = p
      /\ PrevOf(n, c) = PrevOf(m, c) /\ Tag(n, c) = Tag(m, c)
  BY <1>6, <1>8 DEF Span, Status, NextOf, PrevOf, Tag
<1>10. Core(M, n, B, end)
  BY <1>3, <1>7, <1>9, CoreKept DEF Alike
<1> QED BY <1>7, <1>9, <1>10

\* The previous link, in the last unit of one block, is written, and nothing else.
LEMMA PrevWritten ==
  ASSUME NEW M \in Nat, NEW m, NEW B, NEW end, Core(M, m, B, end), NEW c \in B,
         NEW p \in Ptrs(M), NEW n, n = WithPrev(m, c, p)
  PROVE  /\ Core(M, n, B, end)
         /\ \A d \in B \ {c} : Alike(m, n, d)
         /\ Span(n, c) = Span(m, c) /\ Status(n, c) = Status(m, c)
         /\ NextOf(n, c) = NextOf(m, c) /\ PrevOf(n, c) = p /\ Inside(m, n, c)
<1> DEFINE e == c + Span(m, c) - 1
<1>1. c \in 0 .. M - 1 /\ e \in 0 .. M - 1 /\ c # e /\ Span(m, c) \in 2 .. M
  BY CoreApart
<1>2. m \in Mem(M)
  BY DEF Core
<1>0. n = [m EXCEPT ![e].ptr = p]
  BY DEF WithPrev, Span
<1> HIDE DEF e
<1>3. n \in Mem(M)
  BY <1>0, <1>1, <1>2 DEF Mem
<1>4. \A u \in 0 .. M - 1 : u # e => n[u] = m[u]
  BY <1>0, <1>2 DEF Mem
<1>5. n[e] = [m[e] EXCEPT !.ptr = p]
  BY <1>0, <1>1, <1>2 DEF Mem
<1>6. n[e].first = m[e].first /\ n[e].ptr = p
  BY <1>1, <1>2, <1>5 DEF Mem
<1>7. (\A d \in B \ {c} : Alike(m, n, d)) /\ Inside(m, n, c)
  BY <1>4, OthersAlike DEF e
<1>8. n[c] = m[c]
  BY <1>1, <1>4
<1>9. Span(n, c) = Span(m, c) /\ Status(n, c) = Status(m, c) /\ NextOf(n, c) = NextOf(m, c)
      /\ PrevOf(n, c) = p /\ Tag(n, c) = Tag(m, c)
  BY <1>6, <1>8 DEF Span, Status, NextOf, PrevOf, Tag, e
<1>10. Core(M, n, B, end)
  BY <1>3, <1>7, <1>9, CoreKept DEF Alike
<1> QED BY <1>7, <1>9, <1>10

\* What set_span writes.
SpanWriting(M, m, n, c, s) ==
  /\ n \in Mem(M)
  /\ \A u \in 0 .. M - 1 : u # c /\ u # c + s - 1 => n[u] = m[u]
  /\ n[c].first = m[c].first /\ n[c].second = s /\ n[c].ptr = m[c].ptr
  /\ n[c + s - 1].first = s

\* set_span_units writes both ends of a block, and nothing else.
LEMMA SpanIsWritten ==
  ASSUME NEW M \in Nat, NEW m \in Mem(M), NEW c \in 0 .. M - 1, NEW s \in 2 .. M,
         c + s - 1 \in 0 .. M - 1, NEW n, n = WithSpan(m, c, s)
  PROVE  SpanWriting(M, m, n, c, s)
<1> DEFINE e == c + s - 1
           k == [m EXCEPT ![c].second = s]
<1>1. e # c /\ e \in 0 .. M - 1
  OBVIOUS
<1>0. s \in {-7} \cup 0 .. M
  OBVIOUS
<1>2. k \in Mem(M)
  BY <1>0, SecondWrites
<1>3. n = [k EXCEPT ![e].first = s]
  BY DEF WithSpan
<1>4. n \in Mem(M)
  <2> HIDE DEF k, e
  <2> QED BY <1>0, <1>1, <1>2, <1>3 DEF Mem
<1>5. /\ \A u \in 0 .. M - 1 : u # c => k[u] = m[u]
      /\ k[c].first = m[c].first /\ k[c].second = s /\ k[c].ptr = m[c].ptr
  BY DEF Mem
<1>6. /\ \A u \in 0 .. M - 1 : u # e => n[u] = k[u]
      /\ n[e].first = s /\ n[e].second = k[e].second /\ n[e].ptr = k[e].ptr
  <2> HIDE DEF k, e
  <2> QED BY <1>1, <1>2, <1>3 DEF Mem
<1> HIDE DEF k
<1>7. /\ \A u \in 0 .. M - 1 : u # c /\ u # e => n[u] = m[u]
      /\ n[c].first = m[c].first /\ n[c].second = s /\ n[c].ptr = m[c].ptr
      /\ n[e].first = s
  BY <1>1, <1>5, <1>6
<1> QED BY <1>4, <1>7 DEF SpanWriting

\* The neighbour above becomes part of c.
LEMMA SpanJoins ==
  ASSUME NEW M \in Nat, NEW m, NEW B, NEW end, Core(M, m, B, end), NEW c \in B, NEW d \in B,
         d = c + Span(m, c), NEW n, n = WithSpan(m, c, Span(m, c) + Span(m, d))
  PROVE  /\ Core(M, n, B \ {d}, end)
         /\ \A e \in B \ {c, d} : Alike(m, n, e)
         /\ Span(n, c) = Span(m, c) + Span(m, d) /\ Status(n, c) = Status(m, c)
<1> DEFINE s == Span(m, c) + Span(m, d)
<1>1. /\ c \in 0 .. M - 1 /\ Span(m, c) \in 2 .. M /\ Span(m, d) \in 2 .. M
      /\ c # d /\ d \in 0 .. M - 1 /\ d + Span(m, d) <= end /\ end <= M /\ end \in Nat
      /\ s \in 2 .. M /\ c + s - 1 \in 0 .. M - 1 /\ c + s - 1 = d + Span(m, d) - 1
  BY CoreApart
<1>2. m \in Mem(M) /\ Tiled(m, B, end)
  BY DEF Core
<1>3. /\ n \in Mem(M)
      /\ \A u \in 0 .. M - 1 : u # c /\ u # c + s - 1 => n[u] = m[u]
      /\ n[c].first = m[c].first /\ n[c].second = s /\ n[c + s - 1].first = s
  <2>1. n = WithSpan(m, c, s)
    OBVIOUS
  <2>2. c \in 0 .. M - 1 /\ s \in 2 .. M /\ c + s - 1 \in 0 .. M - 1 /\ m \in Mem(M)
    BY <1>1, <1>2
  <2> HIDE DEF s
  <2>3. SpanWriting(M, m, n, c, s)
    BY <2>1, <2>2, SpanIsWritten
  <2> QED BY <2>3 DEF SpanWriting
<1>4. ASSUME NEW e \in B \ {c, d} PROVE Alike(m, n, e)
  <2>1. ASSUME NEW u \in e .. e + Span(m, e) - 1 PROVE n[u] = m[u]
    <3>1. u # c /\ u \in 0 .. M - 1
      BY BlockApart
    <3>2. u # d + Span(m, d) - 1
      BY BlockApart
    <3> QED BY <1>1, <1>3, <3>1, <3>2
  <2>2. e \in Int /\ Span(m, e) \in Int /\ Span(m, e) >= 2
    BY CoreApart
  <2>3. n[e] = m[e] /\ n[e + Span(m, e) - 1] = m[e + Span(m, e) - 1]
    BY <2>1, <2>2
  <2>4. Inside(m, n, e)
    BY <2>1, <2>2 DEF Inside
  <2> QED BY <2>3, <2>4 DEF Alike, Span, Tag, Status, NextOf, PrevOf
<1>5. Span(n, c) = s /\ Status(n, c) = Status(m, c) /\ Tag(n, c) = s
  BY <1>3 DEF Span, Status, Tag
<1>6. Tiled(n, B \ {d}, end)
  <2>1. \A e \in B : e # c /\ e # d => Span(n, e) = Span(m, e)
    BY <1>4 DEF Alike
  <2>2. Tiled(m, B, end) /\ d = c + Span(m, c) /\ Span(n, c) = Span(m, c) + Span(m, d)
    BY <1>2, <1>5
  <2> HIDE DEF s
  <2> QED BY <2>1, <2>2, TiledJoins, Zenon
<1>7. ASSUME NEW e \in B \ {d} PROVE Span(n, e) >= 2 /\ Tag(n, e) = Span(n, e)
  <2>1. CASE e = c
    BY <1>1, <1>5, <2>1
  <2>2. CASE e # c
    BY <1>4, <2>2 DEF Alike, Core
  <2> QED BY <2>1, <2>2
<1>8. Core(M, n, B \ {d}, end)
  BY <1>1, <1>3, <1>6, <1>7 DEF Core
<1> QED BY <1>4, <1>5, <1>8

\* A block is made at the end of the heap.
LEMMA SpanGrows ==
  ASSUME NEW M \in Nat, NEW m, NEW B, NEW end, Core(M, m, B, end), NEW g \in Nat, g >= 2,
         end + g <= M, NEW n, n = WithSpan(m, end, g)
  PROVE  /\ Core(M, n, B \cup {end}, end + g) /\ end \notin B
         /\ \A d \in B : Alike(m, n, d)
         /\ Span(n, end) = g
<1>1. m \in Mem(M) /\ Tiled(m, B, end) /\ end \in Nat /\ end <= M
  BY DEF Core, Tiled
<1>2. end \in 0 .. M - 1 /\ g \in 2 .. M /\ end + g - 1 \in 0 .. M - 1
  BY <1>1
<1>3. /\ n \in Mem(M)
      /\ \A u \in 0 .. M - 1 : u # end /\ u # end + g - 1 => n[u] = m[u]
      /\ n[end].second = g /\ n[end + g - 1].first = g
  <2>1. SpanWriting(M, m, n, end, g)
    BY <1>1, <1>2, SpanIsWritten
  <2> QED BY <2>1 DEF SpanWriting
<1>4. ASSUME NEW e \in B PROVE Alike(m, n, e)
  <2>2. e \in Nat /\ Span(m, e) \in Nat /\ Span(m, e) >= 2 /\ e + Span(m, e) <= end
    BY CoreApart
  <2>1. \A u \in e .. e + Span(m, e) - 1 : n[u] = m[u]
    BY <1>1, <1>2, <1>3, <2>2
  <2>3. n[e] = m[e] /\ n[e + Span(m, e) - 1] = m[e + Span(m, e) - 1]
    BY <2>1, <2>2
  <2>4. Inside(m, n, e)
    BY <2>1, <2>2 DEF Inside
  <2> QED BY <2>3, <2>4 DEF Alike, Span, Tag, Status, NextOf, PrevOf
<1>5. Span(n, end) = g /\ Tag(n, end) = g
  BY <1>3 DEF Span, Tag
<1>6. Tiled(n, B \cup {end}, end + g) /\ end \notin B
  BY <1>1, <1>2, <1>4, <1>5, TiledGrows DEF Alike
<1>7. ASSUME NEW e \in B \cup {end} PROVE Span(n, e) >= 2 /\ Tag(n, e) = Span(n, e)
  <2>1. CASE e = end
    BY <1>5, <2>1
  <2>2. CASE e # end
    BY <1>4, <2>2 DEF Alike, Core
  <2> QED BY <2>1, <2>2
<1>8. Core(M, n, B \cup {end}, end + g)
  BY <1>3, <1>6, <1>7 DEF Core
<1> QED BY <1>4, <1>5, <1>6, <1>8

\* Block c has got shorter (x); what is left behind it becomes a block.
LEMMA SpanSplits ==
  ASSUME NEW M \in Nat, NEW m, NEW B, NEW end, Core(M, m, B, end), NEW c \in B,
         NEW rest \in Nat, rest >= 2, Span(m, c) - rest >= 2,
         NEW x \in Mem(M), \A d \in B \ {c} : Alike(m, x, d),
         Span(x, c) = rest, Tag(x, c) = rest,
         NEW n, n = WithSpan(x, c + rest, Span(m, c) - rest)
  PROVE  /\ Core(M, n, B \cup {c + rest}, end) /\ c + rest \notin B
         /\ \A d \in B \ {c} : Alike(m, n, d)
         /\ Span(n, c) = rest /\ Span(n, c + rest) = Span(m, c) - rest
         /\ Status(n, c) = Status(x, c)
         /\ NextOf(n, c) = NextOf(x, c) /\ PrevOf(n, c) = PrevOf(x, c)
<1> DEFINE d == c + rest
           s == Span(m, c) - rest
<1>1. /\ c \in 0 .. M - 1 /\ Span(m, c) \in 2 .. M /\ d \in 0 .. M - 1 /\ s \in 2 .. M
      /\ d + s - 1 \in 0 .. M - 1 /\ d + s - 1 = c + Span(m, c) - 1 /\ c < d
      /\ Tiled(m, B, end) /\ end <= M
  BY CoreApart DEF Core
<1>3. /\ n \in Mem(M)
      /\ \A u \in 0 .. M - 1 : u # d /\ u # d + s - 1 => n[u] = x[u]
      /\ n[d].second = s /\ n[d + s - 1].first = s
  <2>1. n = WithSpan(x, d, s)
    OBVIOUS
  <2>2. d \in 0 .. M - 1 /\ s \in 2 .. M /\ d + s - 1 \in 0 .. M - 1
    BY <1>1
  <2> HIDE DEF d, s
  <2>3. SpanWriting(M, x, n, d, s)
    BY <2>1, <2>2, SpanIsWritten
  <2> QED BY <2>3 DEF SpanWriting
<1>4. ASSUME NEW e \in B \ {c} PROVE Alike(m, n, e)
  <2>1. Alike(m, x, e)
    OBVIOUS
  <2>2. e \in Int /\ Span(m, e) \in Int /\ Span(m, e) >= 2
        /\ (c + Span(m, c) - 1 < e \/ e + Span(m, e) - 1 < c)
        /\ e + Span(m, e) - 1 \in 0 .. M - 1 /\ e \in 0 .. M - 1
    BY CoreApart
  <2>3. \A u \in e .. e + Span(m, e) - 1 : n[u] = x[u]
    <3> SUFFICES ASSUME NEW u \in e .. e + Span(m, e) - 1 PROVE n[u] = x[u]
      OBVIOUS
    <3>1. u \in 0 .. M - 1 /\ u # d /\ u # d + s - 1
      BY <1>1, <2>2
    <3> QED BY <1>3, <3>1
  <2>4. n[e] = x[e] /\ n[e + Span(m, e) - 1] = x[e + Span(m, e) - 1]
    BY <2>2, <2>3
  <2>5. Inside(m, n, e)
    BY <2>1, <2>2, <2>3 DEF Inside, Alike
  <2> QED BY <2>1, <2>4, <2>5 DEF Alike, Span, Tag, Status, NextOf, PrevOf
<1>5. n[c] = x[c] /\ n[c + rest - 1] = x[c + rest - 1]
  <2>1. c # d /\ c # d + s - 1 /\ c + rest - 1 \in 0 .. M - 1 /\ c + rest - 1 # d
        /\ c + rest - 1 # d + s - 1
    BY <1>1
  <2> QED BY <1>1, <1>3, <2>1
<1>6. /\ Span(n, c) = rest /\ Tag(n, c) = rest /\ Status(n, c) = Status(x, c)
      /\ NextOf(n, c) = NextOf(x, c) /\ PrevOf(n, c) = PrevOf(x, c)
      /\ Span(n, d) = s /\ Tag(n, d) = s
  BY <1>3, <1>5 DEF Span, Tag, Status, NextOf, PrevOf
<1>7. Tiled(n, B \cup {d}, end) /\ d \notin B
  <2>1. rest \in Nat \ {0} /\ rest < Span(m, c)
    BY <1>1
  <2>2. \A e \in B \ {c} : Span(n, e) = Span(m, e)
    BY <1>4 DEF Alike
  <2> QED BY <1>1, <1>6, <2>1, <2>2, TiledSplits, ZenonT(40)
<1>8. ASSUME NEW e \in B \cup {d} PROVE Span(n, e) >= 2 /\ Tag(n, e) = Span(n, e)
  <2>1. CASE e \in {c, d}
    BY <1>1, <1>6, <2>1
  <2>2. CASE e \notin {c, d}
    BY <1>4, <2>2 DEF Alike, Core
  <2> QED BY <2>1, <2>2
<1>9. Core(M, n, B \cup {d}, end)
  BY <1>1, <1>3, <1>7, <1>8 DEF Core
<1> QED BY <1>4, <1>6, <1>7, <1>9

-----------------------------------------------------------------------------
(* Putting a block on a list and taking it off, in memory.                 *)

InsertMem(m, c, head) ==
  LET k == WithPrev(WithNext(WithStatus(m, c, 0), c, head), c, -1)
  IN IF head # -1 THEN WithPrev(k, head, c) ELSE k

LinkedMem(m, p, q) ==
  LET k == IF p # -1 THEN WithNext(m, p, q) ELSE m
  IN IF q # -1 THEN WithPrev(k, q, p) ELSE k

DetachMem(m, c) ==
  WithStatus(WithPrev(WithNext(LinkedMem(m, PrevOf(m, c), NextOf(m, c)), c, -1), c, -1), c, 1)

\* An address of a block, and what its links hold, can be told from NULL.
LEMMA PtrsKnown ==
  ASSUME NEW M \in Nat, NEW m, NEW B, NEW end, Core(M, m, B, end), NEW c \in B
  PROVE  /\ c \in Ptrs(M) /\ -1 \in Ptrs(M) /\ c # -1
         /\ NextOf(m, c) \in Ptrs(M) /\ PrevOf(m, c) \in Ptrs(M)
         /\ NextOf(m, c) # -1 \/ NextOf(m, c) = -1
<1>1. c \in 0 .. M - 1 /\ c + Span(m, c) - 1 \in 0 .. M - 1
  BY CoreApart
<1>2. m \in Mem(M)
  BY DEF Core
<1> QED BY <1>1, <1>2 DEF Mem, Ptrs, NextOf, PrevOf, Span

\* What putting c before the head of F has changed.
Pushing(M, m, n, B, end, head, F, c) ==
  /\ Core(M, n, B, end)
  /\ Linked(n, c, F \cup {c})
  /\ Status(n, c) = 0
  /\ \A d \in B : Span(n, d) = Span(m, d)
  /\ \A d \in B : d # c => Status(n, d) = Status(m, d) /\ Inside(m, n, d)
  /\ \A d \in B : d # c /\ d # head => Alike(m, n, d)
  /\ c # -1

\* What insert_head does to the memory: c leads the list and is marked free.
LEMMA MemInserts ==
  ASSUME NEW M \in Nat, NEW m, NEW B, NEW end, Core(M, m, B, end),
         NEW head, NEW F, F \subseteq B, Linked(m, head, F), NEW c \in B, c \notin F,
         NEW n, n = InsertMem(m, c, head)
  PROVE  Pushing(M, m, n, B, end, head, F, c)
<1> DEFINE k1 == WithStatus(m, c, 0)
           k2 == WithNext(k1, c, head)
           k3 == WithPrev(k2, c, -1)
<1>1. /\ Core(M, k1, B, end) /\ \A d \in B \ {c} : Alike(m, k1, d)
      /\ Span(k1, c) = Span(m, c) /\ Status(k1, c) = 0
  <2> HIDE DEF k1
  <2>1. k1 = WithStatus(m, c, 0) /\ 0 \in {0, 1}
    BY DEF k1
  <2> QED BY <2>1, StatusWritten
<1>2. head \in Ptrs(M) /\ -1 \in Ptrs(M) /\ c \in Ptrs(M) /\ c # -1
  <2>1. head = -1 \/ head \in B
    BY DEF Linked
  <2> QED BY <2>1, PtrsKnown
<1>3. /\ Core(M, k2, B, end) /\ \A d \in B \ {c} : Alike(k1, k2, d)
      /\ Span(k2, c) = Span(k1, c) /\ Status(k2, c) = 0 /\ NextOf(k2, c) = head
  <2> HIDE DEF k1, k2
  <2>1. k2 = WithNext(k1, c, head)
    BY DEF k2
  <2> QED BY <1>1, <1>2, <2>1, NextWritten
<1>4. /\ Core(M, k3, B, end) /\ \A d \in B \ {c} : Alike(k2, k3, d)
      /\ Span(k3, c) = Span(k2, c) /\ Status(k3, c) = 0 /\ NextOf(k3, c) = head
      /\ PrevOf(k3, c) = -1
  <2> HIDE DEF k1, k2, k3
  <2>1. k3 = WithPrev(k2, c, -1)
    BY DEF k3
  <2> QED BY <1>2, <1>3, <2>1, PrevWritten
<1>5. n = IF head # -1 THEN WithPrev(k3, head, c) ELSE k3
  BY DEF InsertMem
<1>6. ASSUME NEW d \in B \ {c} PROVE Alike(m, k3, d)
  <2>1. Alike(m, k1, d) /\ Alike(k1, k2, d) /\ Alike(k2, k3, d)
    BY <1>1, <1>3, <1>4
  <2> HIDE DEF k1, k2, k3
  <2> QED BY <2>1 DEF Alike, Inside
<1> HIDE DEF k1, k2, k3
<1>7. /\ Core(M, n, B, end)
      /\ Span(n, c) = Span(m, c) /\ Status(n, c) = 0 /\ NextOf(n, c) = head
      /\ PrevOf(n, c) = -1
      /\ \A d \in B : d # c /\ d # head => Alike(m, n, d)
      /\ head # -1 => /\ Span(n, head) = Span(m, head) /\ Status(n, head) = Status(m, head)
                      /\ NextOf(n, head) = NextOf(m, head) /\ PrevOf(n, head) = c
                      /\ Inside(m, n, head)
  <2>1. CASE head = -1
    <3>1. n = k3
      BY <1>5, <2>1
    <3> QED BY <2>1, <3>1, <1>1, <1>3, <1>4, <1>6
  <2>2. CASE head # -1
    <3>1. n = WithPrev(k3, head, c) /\ head \in F /\ head \in B /\ head # c
      BY <1>5, <2>2 DEF Linked
    <3>2. /\ Core(M, n, B, end) /\ \A d \in B \ {head} : Alike(k3, n, d)
          /\ Span(n, head) = Span(k3, head) /\ Status(n, head) = Status(k3, head)
          /\ NextOf(n, head) = NextOf(k3, head) /\ PrevOf(n, head) = c
          /\ Inside(k3, n, head)
      BY <1>2, <1>4, <3>1, PrevWritten
    <3>3. Alike(k3, n, c) /\ Alike(m, k3, head)
      BY <1>6, <3>1, <3>2
    <3>4. ASSUME NEW d \in B, d # c, d # head PROVE Alike(m, n, d)
      <4>1. Alike(m, k3, d) /\ Alike(k3, n, d)
        BY <1>6, <3>2, <3>4
      <4> QED BY <4>1 DEF Alike, Inside
    <3>5. Inside(m, n, head)
      BY <3>2, <3>3 DEF Alike, Inside
    <3> QED BY <1>1, <1>3, <1>4, <3>2, <3>3, <3>4, <3>5 DEF Alike
  <2> QED BY <2>1, <2>2
<1>8. ASSUME NEW d \in F
      PROVE  /\ NextOf(n, d) = NextOf(m, d)
             /\ PrevOf(n, d) = IF d = head THEN c ELSE PrevOf(m, d)
  <2>1. d \in B /\ d # c /\ d # -1
    BY PtrsKnown
  <2> QED BY <1>7, <2>1 DEF Alike
<1>9. Linked(n, c, F \cup {c})
  <2>1. c \in Nat \ F
    BY CoreApart
  <2>2. Pushed(m, n, head, F, c)
    BY <1>7, <1>8, <2>1 DEF Pushed
  <2> QED BY <2>2, LinkedInsert
<1>10. ASSUME NEW d \in B, d # c
       PROVE  Span(n, d) = Span(m, d) /\ Status(n, d) = Status(m, d) /\ Inside(m, n, d)
  <2>1. d # -1
    BY PtrsKnown
  <2> QED BY <1>7, <1>10, <2>1 DEF Alike
<1> QED BY <1>2, <1>7, <1>9, <1>10 DEF Pushing

\* What detach does to the memory: the list goes on without c, which is marked used.
LEMMA MemDetaches ==
  ASSUME NEW M \in Nat, NEW m, NEW B, NEW end, Core(M, m, B, end),
         NEW head, NEW F, F \subseteq B, Linked(m, head, F), NEW c \in F,
         NEW n, n = DetachMem(m, c)
  PROVE  /\ Core(M, n, B, end)
         /\ Linked(n, HeadWithout(m, head, c), F \ {c})
         /\ Status(n, c) = 1
         /\ \A d \in B : Span(n, d) = Span(m, d)
         /\ \A d \in B : d # c => Status(n, d) = Status(m, d) /\ Inside(m, n, d)
         /\ \A d \in B \ F : Alike(m, n, d)
<1> DEFINE p == PrevOf(m, c)
           q == NextOf(m, c)
           k1 == IF p # -1 THEN WithNext(m, p, q) ELSE m
           k2 == IF q # -1 THEN WithPrev(k1, q, p) ELSE k1
           k3 == WithNext(k2, c, -1)
           k4 == WithPrev(k3, c, -1)
<1>1. /\ c \in B /\ p \in Ptrs(M) /\ q \in Ptrs(M) /\ -1 \in Ptrs(M)
      /\ p # -1 => p \in B /\ p \in F
      /\ q # -1 => q \in B /\ q \in F
  BY PtrsKnown DEF Linked
<1>2. n = WithStatus(k4, c, 1)
  BY DEF DetachMem, LinkedMem
<1> HIDE DEF p, q
<1>3. /\ Core(M, k1, B, end)
      /\ \A d \in B : /\ Span(k1, d) = Span(m, d) /\ Status(k1, d) = Status(m, d)
                      /\ Inside(m, k1, d) /\ PrevOf(k1, d) = PrevOf(m, d)
                      /\ NextOf(k1, d) = IF d = p THEN q ELSE NextOf(m, d)
      /\ \A d \in B \ F : Alike(m, k1, d)
  <2>1. CASE p = -1
    <3>1. k1 = m
      BY <2>1
    <3>2. \A d \in B : d # p
      BY <2>1, PtrsKnown
    <3> QED BY <3>1, <3>2 DEF Alike, Inside
  <2>2. CASE p # -1
    <3> HIDE DEF k1
    <3>1. k1 = WithNext(m, p, q) /\ p \in B /\ p \in F
      BY <1>1, <2>2 DEF k1
    <3>2. /\ Core(M, k1, B, end) /\ \A d \in B \ {p} : Alike(m, k1, d)
          /\ Span(k1, p) = Span(m, p) /\ Status(k1, p) = Status(m, p)
          /\ NextOf(k1, p) = q /\ PrevOf(k1, p) = PrevOf(m, p) /\ Inside(m, k1, p)
      BY <1>1, <3>1, NextWritten
    <3>3. \A d \in B \ F : d # p
      BY <3>1
    <3> QED BY <3>2, <3>3 DEF Alike
  <2> QED BY <2>1, <2>2
<1>4. /\ Core(M, k2, B, end)
      /\ \A d \in B : /\ Span(k2, d) = Span(m, d) /\ Status(k2, d) = Status(m, d)
                      /\ Inside(m, k2, d)
                      /\ NextOf(k2, d) = IF d = p THEN q ELSE NextOf(m, d)
                      /\ PrevOf(k2, d) = IF d = q THEN p ELSE PrevOf(m, d)
      /\ \A d \in B \ F : Alike(m, k2, d)
  <2> HIDE DEF k1
  <2>1. CASE q = -1
    <3>1. k2 = k1
      BY <2>1
    <3>2. \A d \in B : d # q
      BY <2>1, PtrsKnown
    <3> QED BY <1>3, <3>1, <3>2
  <2>2. CASE q # -1
    <3> HIDE DEF k2
    <3>1. k2 = WithPrev(k1, q, p) /\ q \in B /\ q \in F
      BY <1>1, <2>2 DEF k2
    <3>2. /\ Core(M, k2, B, end) /\ \A d \in B \ {q} : Alike(k1, k2, d)
          /\ Span(k2, q) = Span(k1, q) /\ Status(k2, q) = Status(k1, q)
          /\ NextOf(k2, q) = NextOf(k1, q) /\ PrevOf(k2, q) = p /\ Inside(k1, k2, q)
      BY <1>1, <1>3, <3>1, PrevWritten
    <3>3. ASSUME NEW d \in B
          PROVE  /\ Span(k2, d) = Span(m, d) /\ Status(k2, d) = Status(m, d)
                 /\ Inside(m, k2, d)
                 /\ NextOf(k2, d) = IF d = p THEN q ELSE NextOf(m, d)
                 /\ PrevOf(k2, d) = IF d = q THEN p ELSE PrevOf(m, d)
      <4>1. /\ Span(k1, d) = Span(m, d) /\ Status(k1, d) = Status(m, d)
            /\ Inside(m, k1, d) /\ PrevOf(k1, d) = PrevOf(m, d)
            /\ NextOf(k1, d) = IF d = p THEN q ELSE NextOf(m, d)
        BY <1>3
      <4>2. Inside(k1, k2, d) /\ Span(k2, d) = Span(k1, d) /\ Status(k2, d) = Status(k1, d)
            /\ NextOf(k2, d) = NextOf(k1, d)
            /\ PrevOf(k2, d) = IF d = q THEN p ELSE PrevOf(k1, d)
        BY <3>2 DEF Alike
      <4> QED BY <4>1, <4>2 DEF Inside
    <3>4. ASSUME NEW d \in B \ F PROVE Alike(m, k2, d)
      <4>1. Alike(m, k1, d) /\ Alike(k1, k2, d)
        BY <1>3, <3>1, <3>2
      <4> QED BY <4>1 DEF Alike, Inside
    <3> QED BY <3>2, <3>3, <3>4
  <2> QED BY <2>1, <2>2
<1> HIDE DEF k1, k2
<1>5. /\ Core(M, k3, B, end) /\ \A d \in B \ {c} : Alike(k2, k3, d)
      /\ Span(k3, c) = Span(k2, c)
  <2> HIDE DEF k3
  <2>1. k3 = WithNext(k2, c, -1)
    BY DEF k3
  <2> QED BY <1>1, <1>4, <2>1, NextWritten
<1> HIDE DEF k3
<1>6. /\ Core(M, k4, B, end) /\ \A d \in B \ {c} : Alike(k3, k4, d)
      /\ Span(k4, c) = Span(k3, c)
  <2> HIDE DEF k4
  <2>1. k4 = WithPrev(k3, c, -1)
    BY DEF k4
  <2> QED BY <1>1, <1>5, <2>1, PrevWritten
<1> HIDE DEF k4
<1>7. /\ Core(M, n, B, end) /\ \A d \in B \ {c} : Alike(k4, n, d)
      /\ Span(n, c) = Span(k4, c) /\ Status(n, c) = 1
  BY <1>1, <1>2, <1>6, StatusWritten
<1>8. ASSUME NEW d \in B \ {c}
      PROVE  /\ Span(n, d) = Span(m, d) /\ Status(n, d) = Status(m, d) /\ Inside(m, n, d)
             /\ NextOf(n, d) = IF d = p THEN q ELSE NextOf(m, d)
             /\ PrevOf(n, d) = IF d = q THEN p ELSE PrevOf(m, d)
             /\ d \notin F => Alike(m, n, d)
  <2>1. Alike(k2, k3, d) /\ Alike(k3, k4, d) /\ Alike(k4, n, d)
    BY <1>5, <1>6, <1>7
  <2>2. Alike(k2, n, d)
    BY <2>1 DEF Alike, Inside
  <2>3. /\ Span(k2, d) = Span(m, d) /\ Status(k2, d) = Status(m, d)
        /\ Inside(m, k2, d)
        /\ NextOf(k2, d) = IF d = p THEN q ELSE NextOf(m, d)
        /\ PrevOf(k2, d) = IF d = q THEN p ELSE PrevOf(m, d)
        /\ d \notin F => Alike(m, k2, d)
    BY <1>4
  <2>4. Inside(m, n, d)
    BY <2>2, <2>3 DEF Alike, Inside
  <2>5. d \notin F => Alike(m, n, d)
    BY <2>2, <2>3, <2>4 DEF Alike
  <2> QED BY <2>2, <2>3, <2>4, <2>5 DEF Alike
<1>9. Linked(n, HeadWithout(m, head, c), F \ {c})
  <2>1. Unhooked(m, n, F, c)
    BY <1>1, <1>8 DEF Unhooked, p, q
  <2> QED BY <2>1, LinkedRemove
<1>10. Span(n, c) = Span(m, c)
  BY <1>1, <1>4, <1>5, <1>6, <1>7
<1> QED BY <1>7, <1>8, <1>9, <1>10

-----------------------------------------------------------------------------
(* Blocks and their free lists, one for each bin of I; a block is on the   *)
(* list of its span, ix.                                                   *)

InBin(m, ix, F, b) == {c \in F : ix[Span(m, c)] = b}

\* The heads hd have exactly the blocks F, each in its bin, and these are free.
Listed(M, m, hd, I, ix, B, F, end) ==
  /\ Core(M, m, B, end) /\ F \subseteq B
  /\ \A c \in F : Status(m, c) = 0
  /\ hd = [b \in I |-> hd[b]]
  /\ \A s \in 2 .. M : ix[s] \in I
  /\ \A b \in I : Linked(m, hd[b], InBin(m, ix, F, b))

\* What the program has in the blocks D stays.
Kept(m, n, D) ==
  \A d \in D : Span(n, d) = Span(m, d) /\ Status(n, d) = Status(m, d) /\ Inside(m, n, d)

\* What two changes keep, both together keep.
LEMMA KeptTwice ==
  ASSUME NEW k, NEW m, NEW n, NEW D, Kept(k, m, D), Kept(m, n, D)
  PROVE  Kept(k, n, D)
  BY DEF Kept, Inside

\* What is kept of some blocks is kept of fewer.
LEMMA KeptFewer ==
  ASSUME NEW m, NEW n, NEW D, Kept(m, n, D), NEW E, E \subseteq D
  PROVE  Kept(m, n, E)
  BY DEF Kept

\* Blocks of which no unit changes are kept.
LEMMA AlikeKept ==
  ASSUME NEW m, NEW n, NEW D, \A d \in D : Alike(m, n, d)
  PROVE  Kept(m, n, D)
  BY DEF Kept, Alike

\* The lists stay if what they are made of does.
LEMMA ListedStays ==
  ASSUME NEW M, NEW m, NEW hd, NEW I, NEW ix, NEW B, NEW F, NEW end,
         Listed(M, m, hd, I, ix, B, F, end),
         NEW n, NEW B2, NEW end2, Core(M, n, B2, end2), F \subseteq B2,
         \A d \in F : /\ NextOf(n, d) = NextOf(m, d) /\ PrevOf(n, d) = PrevOf(m, d)
                      /\ Status(n, d) = Status(m, d) /\ ix[Span(n, d)] = ix[Span(m, d)]
  PROVE  Listed(M, n, hd, I, ix, B2, F, end2)
<1>1. ASSUME NEW b \in I PROVE Linked(n, hd[b], InBin(n, ix, F, b))
  <2>1. InBin(n, ix, F, b) = InBin(m, ix, F, b)
    BY DEF InBin
  <2>2. Linked(m, hd[b], InBin(m, ix, F, b))
    BY DEF Listed
  <2>3. \A d \in InBin(m, ix, F, b) :
          NextOf(n, d) = NextOf(m, d) /\ PrevOf(n, d) = PrevOf(m, d)
    BY DEF InBin
  <2> QED BY <2>1, <2>2, <2>3, LinkedSame
<1> QED BY <1>1 DEF Listed

\* The lists stay if none of the blocks on them changes, whatever others become.
LEMMA ListedAlike ==
  ASSUME NEW M, NEW m, NEW hd, NEW I, NEW ix, NEW B, NEW F, NEW end,
         Listed(M, m, hd, I, ix, B, F, end),
         NEW n, NEW B2, NEW end2, Core(M, n, B2, end2), F \subseteq B2,
         \A d \in F : Alike(m, n, d)
  PROVE  Listed(M, n, hd, I, ix, B2, F, end2)
<1>1. \A d \in F : /\ NextOf(n, d) = NextOf(m, d) /\ PrevOf(n, d) = PrevOf(m, d)
                   /\ Status(n, d) = Status(m, d) /\ ix[Span(n, d)] = ix[Span(m, d)]
  BY DEF Alike
<1> QED BY <1>1, ListedStays

\* c goes to its bin.
Inserts(m, hd, ix, c, n, g) ==
  LET b == ix[Span(m, c)]
  IN n = InsertMem(m, c, hd[b]) /\ g = [hd EXCEPT ![b] = c]

\* c leaves its bin.
Detaches(m, hd, ix, c, n, g) ==
  LET b == ix[Span(m, c)]
  IN n = DetachMem(m, c) /\ g = [hd EXCEPT ![b] = HeadWithout(m, hd[b], c)]

\* What the two change.
Inserting(M, m, n, g, I, ix, B, F, c, end) ==
  /\ Listed(M, n, g, I, ix, B, F \cup {c}, end)
  /\ Kept(m, n, B \ {c}) /\ Span(n, c) = Span(m, c)

Detaching(M, m, n, g, I, ix, B, F, c, end) ==
  /\ Listed(M, n, g, I, ix, B, F \ {c}, end)
  /\ Kept(m, n, B \ {c}) /\ Span(n, c) = Span(m, c) /\ Status(n, c) = 1

\* A block that is put first on the list it belongs to is on it, the others as before.
LEMMA ListedInsert ==
  ASSUME NEW M \in Nat, NEW m, NEW hd, NEW I, NEW ix, NEW B, NEW F, NEW end,
         Listed(M, m, hd, I, ix, B, F, end), NEW c \in B, c \notin F,
         NEW n, NEW g, Inserts(m, hd, ix, c, n, g)
  PROVE  Inserting(M, m, n, g, I, ix, B, F, c, end)
<1> DEFINE b == ix[Span(m, c)]
<1>0. b = ix[Span(m, c)] /\ n = InsertMem(m, c, hd[b]) /\ g = [hd EXCEPT ![b] = c]
  BY DEF Inserts
<1> HIDE DEF b
<1>1. Core(M, m, B, end) /\ F \subseteq B /\ c \in B /\ \A s \in 2 .. M : ix[s] \in I
  BY DEF Listed
<1>2. b \in I
  BY <1>0, <1>1, CoreApart
<1>3. InBin(m, ix, F, b) \subseteq B /\ c \in B \ InBin(m, ix, F, b)
      /\ Linked(m, hd[b], InBin(m, ix, F, b))
  BY <1>0, <1>1, <1>2 DEF InBin, Listed
<1>4. /\ Core(M, n, B, end)
      /\ Linked(n, c, InBin(m, ix, F, b) \cup {c})
      /\ Status(n, c) = 0
      /\ \A d \in B : Span(n, d) = Span(m, d)
      /\ \A d \in B : d # c => Status(n, d) = Status(m, d) /\ Inside(m, n, d)
      /\ \A d \in B : d # c /\ d # hd[b] => Alike(m, n, d)
  <2> DEFINE G == InBin(m, ix, F, b)
             head == hd[b]
  <2>1. /\ G \subseteq B /\ c \in B /\ c \notin G /\ Linked(m, head, G)
        /\ n = InsertMem(m, c, head)
    BY <1>0, <1>3
  <2> HIDE DEF G, head
  <2>2. Pushing(M, m, n, B, end, head, G, c)
    BY <1>1, <2>1, MemInserts
  <2> QED BY <2>2 DEF Pushing, G, head
<1>5. ASSUME NEW a \in I PROVE Linked(n, g[a], InBin(n, ix, F \cup {c}, a))
  <2>1. CASE a = b
    <3>1. InBin(n, ix, F \cup {c}, b) = InBin(m, ix, F, b) \cup {c}
      BY <1>0, <1>1, <1>4 DEF InBin
    <3>2. g[b] = c
      BY <1>0, <1>2 DEF Listed
    <3> QED BY <1>4, <2>1, <3>1, <3>2
  <2>2. CASE a # b
    <3>1. InBin(n, ix, F \cup {c}, a) = InBin(m, ix, F, a)
      BY <1>0, <1>1, <1>4, <2>2 DEF InBin
    <3>2. g[a] = hd[a]
      BY <1>0, <2>2 DEF Listed
    <3>3. Linked(m, hd[a], InBin(m, ix, F, a))
      BY DEF Listed
    <3>4. ASSUME NEW d \in InBin(m, ix, F, a) PROVE Alike(m, n, d)
      <4>1. d \in B /\ d # c /\ d \notin InBin(m, ix, F, b) /\ d \in Nat
        BY <1>0, <1>1, <2>2, CoreApart DEF InBin
      <4>2. d # hd[b]
        BY <1>3, <4>1 DEF Linked
      <4> QED BY <1>4, <4>1, <4>2
    <3>5. \A d \in InBin(m, ix, F, a) :
            NextOf(n, d) = NextOf(m, d) /\ PrevOf(n, d) = PrevOf(m, d)
      BY <3>4 DEF Alike
    <3> QED BY <3>1, <3>2, <3>3, <3>5, LinkedSame
  <2> QED BY <2>1, <2>2
<1>6. g = [a \in I |-> g[a]]
  BY <1>0, <1>2 DEF Listed
<1>7. F \cup {c} \subseteq B /\ \A d \in F \cup {c} : Status(n, d) = 0
  BY <1>1, <1>4 DEF Listed
<1>8. Listed(M, n, g, I, ix, B, F \cup {c}, end)
  BY <1>1, <1>4, <1>5, <1>6, <1>7 DEF Listed
<1>9. Kept(m, n, B \ {c})
  BY <1>4 DEF Kept
<1> QED BY <1>1, <1>4, <1>8, <1>9 DEF Inserting

\* A block that is taken off its list is on none, the others as before.
LEMMA ListedDetach ==
  ASSUME NEW M \in Nat, NEW m, NEW hd, NEW I, NEW ix, NEW B, NEW F, NEW end,
         Listed(M, m, hd, I, ix, B, F, end), NEW c \in F,
         NEW n, NEW g, Detaches(m, hd, ix, c, n, g)
  PROVE  Detaching(M, m, n, g, I, ix, B, F, c, end)
<1> DEFINE b == ix[Span(m, c)]
<1>0. /\ b = ix[Span(m, c)] /\ n = DetachMem(m, c)
      /\ g = [hd EXCEPT ![b] = HeadWithout(m, hd[b], c)]
  BY DEF Detaches
<1> HIDE DEF b
<1>1. Core(M, m, B, end) /\ F \subseteq B /\ c \in B /\ \A s \in 2 .. M : ix[s] \in I
  BY DEF Listed
<1>2. b \in I
  BY <1>0, <1>1, CoreApart
<1>3. InBin(m, ix, F, b) \subseteq B /\ c \in InBin(m, ix, F, b)
      /\ Linked(m, hd[b], InBin(m, ix, F, b))
  BY <1>0, <1>1, <1>2 DEF InBin, Listed
<1>4. /\ Core(M, n, B, end)
      /\ Linked(n, HeadWithout(m, hd[b], c), InBin(m, ix, F, b) \ {c})
      /\ Status(n, c) = 1
      /\ \A d \in B : Span(n, d) = Span(m, d)
      /\ \A d \in B : d # c => Status(n, d) = Status(m, d) /\ Inside(m, n, d)
      /\ \A d \in B \ InBin(m, ix, F, b) : Alike(m, n, d)
  <2> DEFINE G == InBin(m, ix, F, b)
             head == hd[b]
  <2>1. G \subseteq B /\ c \in G /\ Linked(m, head, G) /\ n = DetachMem(m, c)
    BY <1>0, <1>3
  <2> HIDE DEF G, head
  <2>2. /\ Core(M, n, B, end) /\ Linked(n, HeadWithout(m, head, c), G \ {c})
        /\ Status(n, c) = 1
        /\ \A d \in B : Span(n, d) = Span(m, d)
        /\ \A d \in B : d # c => Status(n, d) = Status(m, d) /\ Inside(m, n, d)
        /\ \A d \in B \ G : Alike(m, n, d)
    BY <1>1, <2>1, MemDetaches
  <2> QED BY <2>2 DEF G, head
<1>5. ASSUME NEW a \in I PROVE Linked(n, g[a], InBin(n, ix, F \ {c}, a))
  <2>1. CASE a = b
    <3>1. InBin(n, ix, F \ {c}, b) = InBin(m, ix, F, b) \ {c}
      BY <1>0, <1>1, <1>4 DEF InBin
    <3>2. g[b] = HeadWithout(m, hd[b], c)
      BY <1>0, <1>2 DEF Listed
    <3> QED BY <1>4, <2>1, <3>1, <3>2
  <2>2. CASE a # b
    <3>1. InBin(n, ix, F \ {c}, a) = InBin(m, ix, F, a)
      BY <1>0, <1>1, <1>4, <2>2 DEF InBin
    <3>2. g[a] = hd[a]
      BY <1>0, <2>2 DEF Listed
    <3>3. Linked(m, hd[a], InBin(m, ix, F, a))
      BY DEF Listed
    <3>4. ASSUME NEW d \in InBin(m, ix, F, a) PROVE Alike(m, n, d)
      BY <1>1, <1>4, <2>2 DEF InBin
    <3>5. \A d \in InBin(m, ix, F, a) :
            NextOf(n, d) = NextOf(m, d) /\ PrevOf(n, d) = PrevOf(m, d)
      BY <3>4 DEF Alike
    <3> QED BY <3>1, <3>2, <3>3, <3>5, LinkedSame
  <2> QED BY <2>1, <2>2
<1>6. g = [a \in I |-> g[a]]
  BY <1>0, <1>2 DEF Listed
<1>7. F \ {c} \subseteq B /\ \A d \in F \ {c} : Status(n, d) = 0
  BY <1>1, <1>4 DEF Listed
<1>8. Listed(M, n, g, I, ix, B, F \ {c}, end)
  BY <1>1, <1>4, <1>5, <1>6, <1>7 DEF Listed
<1>9. Kept(m, n, B \ {c})
  BY <1>4 DEF Kept
<1> QED BY <1>1, <1>4, <1>8, <1>9 DEF Detaching

Joining(M, m, n, hd, I, ix, B, F, c, d, end) ==
  /\ Listed(M, n, hd, I, ix, B \ {d}, F, end)
  /\ Kept(m, n, B \ {c, d})
  /\ Span(n, c) = Span(m, c) + Span(m, d)

\* Used neighbours are joined.
LEMMA ListedJoins ==
  ASSUME NEW M \in Nat, NEW m, NEW hd, NEW I, NEW ix, NEW B, NEW F, NEW end,
         Listed(M, m, hd, I, ix, B, F, end), NEW c \in B, c \notin F,
         NEW d \in B, d \notin F,
         d = c + Span(m, c), NEW n, n = WithSpan(m, c, Span(m, c) + Span(m, d))
  PROVE  Joining(M, m, n, hd, I, ix, B, F, c, d, end)
<1>1. Core(M, m, B, end) /\ F \subseteq B
  BY DEF Listed
<1>2. /\ Core(M, n, B \ {d}, end)
      /\ \A e \in B \ {c, d} : Alike(m, n, e)
      /\ Span(n, c) = Span(m, c) + Span(m, d) /\ Status(n, c) = Status(m, c)
  BY <1>1, SpanJoins
<1>3. F \subseteq B \ {d} /\ \A e \in F : Alike(m, n, e)
  BY <1>1, <1>2
<1>4. Kept(m, n, B \ {c, d})
  BY <1>2, AlikeKept
<1>5. Listed(M, n, hd, I, ix, B \ {d}, F, end)
  BY <1>2, <1>3, ListedAlike
<1> QED BY <1>2, <1>4, <1>5 DEF Joining

\* The block that sbrk gives at the end.
NewMem(m, end, g) ==
  WithPrev(WithNext(WithStatus(WithSpan(m, end, g), end, 0), end, -1), end, -1)

Growing(M, m, n, hd, I, ix, B, F, end, g) ==
  /\ Listed(M, n, hd, I, ix, B \cup {end}, F, end + g) /\ end \notin B
  /\ \A d \in B : Alike(m, n, d)
  /\ Span(n, end) = g /\ Status(n, end) = 0

\* sbrk gives another block, which is on no list.
LEMMA ListedGrows ==
  ASSUME NEW M \in Nat, NEW m, NEW hd, NEW I, NEW ix, NEW B, NEW F, NEW end,
         Listed(M, m, hd, I, ix, B, F, end), NEW g \in Nat, g >= 2, end + g <= M,
         NEW n, n = NewMem(m, end, g)
  PROVE  Growing(M, m, n, hd, I, ix, B, F, end, g)
<1> DEFINE k1 == WithSpan(m, end, g)
           k2 == WithStatus(k1, end, 0)
           k3 == WithNext(k2, end, -1)
           C == B \cup {end}
<1>1. Core(M, m, B, end) /\ F \subseteq B
  BY DEF Listed
<1> HIDE DEF k1, k2, k3, C
<1>2. Core(M, k1, C, end + g) /\ end \notin B /\ (\A d \in B : Alike(m, k1, d))
      /\ Span(k1, end) = g
  <2>1. k1 = WithSpan(m, end, g)
    BY DEF k1
  <2>2. /\ Core(M, k1, B \cup {end}, end + g) /\ end \notin B
        /\ \A d \in B : Alike(m, k1, d)
        /\ Span(k1, end) = g
    BY <1>1, <2>1, SpanGrows
  <2> QED BY <2>2 DEF C
<1>3. end \in C /\ B = C \ {end} /\ 0 \in {0, 1} /\ -1 \in Ptrs(M)
  BY <1>2 DEF C, Ptrs
<1>4. Core(M, k2, C, end + g) /\ (\A d \in B : Alike(k1, k2, d))
      /\ Span(k2, end) = g /\ Status(k2, end) = 0
  BY <1>2, <1>3, StatusWritten DEF k2
<1>5. Core(M, k3, C, end + g) /\ (\A d \in B : Alike(k2, k3, d))
      /\ Span(k3, end) = g /\ Status(k3, end) = 0
  BY <1>3, <1>4, NextWritten DEF k3
<1>6. n = WithPrev(k3, end, -1)
  BY DEF NewMem, k3, k2, k1
<1>7. Core(M, n, C, end + g) /\ (\A d \in B : Alike(k3, n, d))
      /\ Span(n, end) = g /\ Status(n, end) = 0
  BY <1>3, <1>5, <1>6, PrevWritten
<1>8. ASSUME NEW d \in B PROVE Alike(m, n, d)
  <2>1. Alike(m, k1, d) /\ Alike(k1, k2, d) /\ Alike(k2, k3, d) /\ Alike(k3, n, d)
    BY <1>2, <1>4, <1>5, <1>7
  <2> QED BY <2>1 DEF Alike, Inside
<1>9. F \subseteq C /\ \A d \in F : Alike(m, n, d)
  BY <1>1, <1>8 DEF C
<1>10. Listed(M, n, hd, I, ix, C, F, end + g)
  BY <1>7, <1>9, ListedAlike
<1> QED BY <1>2, <1>7, <1>8, <1>10 DEF C, Growing

-----------------------------------------------------------------------------
(* Neighbours in memory.                                                   *)

Coalesced(m, F) == \A c \in F : c + Span(m, c) \notin F

NextAt(m, c, end) == IF c + Span(m, c) >= end THEN -1 ELSE c + Span(m, c)
PrevAt(m, c) == IF c <= 0 THEN -1 ELSE c - m[c - 1].first

\* get_next_adjacent leads to a block, or is NULL at the end of the heap.
LEMMA NextIsBlock ==
  ASSUME NEW M \in Nat, NEW m, NEW B, NEW end, Core(M, m, B, end), NEW c \in B
  PROVE  \/ NextAt(m, c, end) = -1 /\ c + Span(m, c) = end
         \/ NextAt(m, c, end) = c + Span(m, c) /\ c + Span(m, c) \in B
            /\ c + Span(m, c) # -1 /\ c + Span(m, c) # c
<1>1. c \in Nat /\ Span(m, c) \in Nat \ {0} /\ end \in Nat /\ c + Span(m, c) <= end
      /\ (c + Span(m, c) = end \/ c + Span(m, c) \in B)
      /\ (c + Span(m, c) \in B => c + Span(m, c) < end)
  BY CoreApart DEF Core, Tiled
<1> QED BY <1>1 DEF NextAt

\* c is a block, or the end of the heap.
LEMMA PrevIsBlock ==
  ASSUME NEW M \in Nat, NEW m, NEW B, NEW end, Core(M, m, B, end), NEW c \in B \cup {end}
  PROVE  /\ \/ PrevAt(m, c) = -1 /\ c = 0
            \/ PrevAt(m, c) \in B /\ PrevAt(m, c) + Span(m, PrevAt(m, c)) = c
               /\ PrevAt(m, c) # -1 /\ PrevAt(m, c) # c
         /\ \A e \in B : e + Span(m, e) = c => PrevAt(m, c) = e
<1>1. c \in Nat /\ \A e \in B : e \in Nat /\ Span(m, e) \in Nat /\ Span(m, e) >= 2
  BY CoreApart DEF Core, Tiled
<1>2. ASSUME NEW e \in B, e + Span(m, e) = c
      PROVE  PrevAt(m, c) = e /\ e # -1 /\ e # c
  <2>1. e + Span(m, e) - 1 = c - 1 /\ c > 0
    BY <1>1, <1>2
  <2>2. m[c - 1].first = Span(m, e)
    BY <2>1 DEF Core, Tag, Span
  <2> QED BY <1>1, <1>2, <2>1, <2>2 DEF PrevAt
<1>3. c = 0 \/ \E e \in B : e + Span(m, e) = c
  BY DEF Core, Tiled
<1>4. c = 0 => PrevAt(m, c) = -1
  BY DEF PrevAt
<1> QED BY <1>2, <1>3, <1>4

\* Free blocks of which no two touch are no two when there are fewer.
LEMMA CoalescedFewer ==
  ASSUME NEW m, NEW n, NEW F, Coalesced(m, F), NEW G, G \subseteq F,
         \A c \in G : Span(n, c) = Span(m, c)
  PROVE  Coalesced(n, G)
  BY DEF Coalesced

-----------------------------------------------------------------------------
(* What the program has: room in a used block for each object, and all of  *)
(* what it wrote there.                                                    *)

Bytes == [first |-> -7, second |-> -7, ptr |-> -7]

Owned(m, B, F, has) ==
  /\ has \subseteq [at : Nat, n : Requests]
  /\ {a.at - 1 : a \in has} = B \ F
  /\ \A a, b \in has : a.at = b.at => a = b
  /\ \A a \in has : /\ Span(m, a.at - 1) >= a.n + 2 /\ Status(m, a.at - 1) = 1
                    /\ \A u \in a.at .. a.at + a.n - 1 : m[u] = Bytes

\* A block that the program has is marked used.
LEMMA OwnedMarked ==
  ASSUME NEW m, NEW B, NEW F, NEW has, Owned(m, B, F, has), NEW c \in B \ F
  PROVE  Status(m, c) = 1
<1>1. PICK a \in has : a.at - 1 = c
  BY DEF Owned
<1> QED BY <1>1 DEF Owned

\* The program fills the payload of block c.
GivenMem(M, m, c, r) ==
  [u \in 0 .. M - 1 |-> IF u \in c + 1 .. c + r THEN Bytes ELSE m[u]]

\* The program fills what it was given without a header or a footer of any block.
LEMMA GivenWrites ==
  ASSUME NEW M \in Nat, NEW m, NEW B, NEW end, Core(M, m, B, end), NEW c \in B,
         NEW r \in Nat, Span(m, c) >= r + 2, NEW n, n = GivenMem(M, m, c, r)
  PROVE  /\ Core(M, n, B, end)
         /\ \A d \in B : /\ Span(n, d) = Span(m, d) /\ Status(n, d) = Status(m, d)
                         /\ NextOf(n, d) = NextOf(m, d) /\ PrevOf(n, d) = PrevOf(m, d)
         /\ \A d \in B \ {c} : Inside(m, n, d)
         /\ \A u \in c + 1 .. c + r : n[u] = Bytes
<1>1. m \in Mem(M)
  BY DEF Core
<1>2. n \in Mem(M)
  BY <1>1 DEF GivenMem, Mem, Bytes, Ptrs
<1>3. ASSUME NEW d \in B
      PROVE  n[d] = m[d] /\ n[d + Span(m, d) - 1] = m[d + Span(m, d) - 1]
  <2>1. d \in 0 .. M - 1 /\ d + Span(m, d) - 1 \in 0 .. M - 1 /\ Span(m, d) \in 2 .. M
        /\ c \in 0 .. M - 1 /\ Span(m, c) \in 2 .. M
        /\ (d # c => c + Span(m, c) - 1 < d \/ d + Span(m, d) - 1 < c)
    BY CoreApart
  <2> QED BY <2>1 DEF GivenMem
<1>4. ASSUME NEW d \in B \ {c} PROVE Inside(m, n, d)
  <2>1. d \in 0 .. M - 1 /\ d + Span(m, d) - 1 \in 0 .. M - 1 /\ Span(m, d) \in 2 .. M
        /\ c \in 0 .. M - 1 /\ Span(m, c) \in 2 .. M
        /\ (c + Span(m, c) - 1 < d \/ d + Span(m, d) - 1 < c)
    BY CoreApart
  <2> QED BY <2>1 DEF GivenMem, Inside
<1>5. \A u \in c + 1 .. c + r : n[u] = Bytes
  BY CoreApart DEF GivenMem
<1>6. \A d \in B : /\ Span(n, d) = Span(m, d) /\ Status(n, d) = Status(m, d)
                   /\ NextOf(n, d) = NextOf(m, d) /\ PrevOf(n, d) = PrevOf(m, d)
                   /\ Tag(n, d) = Tag(m, d)
  BY <1>3 DEF Span, Status, NextOf, PrevOf, Tag
<1>7. Core(M, n, B, end)
  BY <1>2, <1>6, CoreKept
<1> QED BY <1>4, <1>5, <1>6, <1>7

\* What the invariants of the managers with boundary tags have in common.
Managed(M, m, hd, I, ix, B, F, end, has) ==
  Listed(M, m, hd, I, ix, B, F, end) /\ Coalesced(m, F) /\ Owned(m, B, F, has)

\* c has become a used block, and the program gets it.
LEMMA ManagedMalloc ==
  ASSUME NEW M \in Nat, NEW m, NEW B, NEW F, NEW has, Owned(m, B, F, has),
         NEW k, NEW hd, NEW I, NEW ix, NEW B2, NEW F2, NEW end,
         Listed(M, k, hd, I, ix, B2, F2, end), Coalesced(k, F2), Kept(m, k, B \ F),
         NEW c, c \notin B \ F, B2 \ F2 = (B \ F) \cup {c}, Status(k, c) = 1,
         NEW r \in Requests, Span(k, c) >= r + 2,
         NEW n, n = GivenMem(M, k, c, r)
  PROVE  Managed(M, n, hd, I, ix, B2, F2, end, has \cup {[at |-> c + 1, n |-> r]})
<1> DEFINE new == [at |-> c + 1, n |-> r]
<1>0. r \in Nat /\ Requests \subseteq Nat \ {0}
  BY UnitsOK
<1>1. c \in B2 /\ Core(M, k, B2, end) /\ F2 \subseteq B2 /\ c \notin F2
  BY DEF Listed
<1>2. /\ Core(M, n, B2, end)
      /\ \A d \in B2 : /\ Span(n, d) = Span(k, d) /\ Status(n, d) = Status(k, d)
                       /\ NextOf(n, d) = NextOf(k, d) /\ PrevOf(n, d) = PrevOf(k, d)
      /\ \A d \in B2 \ {c} : Inside(k, n, d)
      /\ \A u \in c + 1 .. c + r : n[u] = Bytes
  BY <1>0, <1>1, GivenWrites
<1>3. Listed(M, n, hd, I, ix, B2, F2, end)
  <2>1. \A d \in F2 : /\ NextOf(n, d) = NextOf(k, d) /\ PrevOf(n, d) = PrevOf(k, d)
                      /\ Status(n, d) = Status(k, d) /\ ix[Span(n, d)] = ix[Span(k, d)]
    BY <1>1, <1>2
  <2> QED BY <1>1, <1>2, <2>1, ListedStays
<1>4. Coalesced(n, F2)
  BY <1>1, <1>2 DEF Coalesced
<1>5. c \in Nat /\ B2 \subseteq Nat
  BY <1>1, CoreApart
<1>6. new \in [at : Nat, n : Requests] /\ new.at - 1 = c /\ new.n = r /\ new.at = c + 1
  BY <1>5
<1>7. ASSUME NEW a \in has
      PROVE  /\ a.at - 1 \in B \ F /\ a.at \in Nat /\ a.n \in Nat /\ a.at # c + 1
             /\ Span(n, a.at - 1) >= a.n + 2 /\ Status(n, a.at - 1) = 1
             /\ \A u \in a.at .. a.at + a.n - 1 : n[u] = Bytes
  <2>1. a.at - 1 \in B \ F /\ a.at \in Nat /\ a.n \in Nat
        /\ Span(m, a.at - 1) >= a.n + 2 /\ Status(m, a.at - 1) = 1
        /\ \A u \in a.at .. a.at + a.n - 1 : m[u] = Bytes
    BY <1>0 DEF Owned
  <2>2. a.at - 1 \in B2 /\ a.at - 1 # c
    BY <2>1
  <2>3. /\ Span(k, a.at - 1) = Span(m, a.at - 1) /\ Status(k, a.at - 1) = Status(m, a.at - 1)
        /\ Inside(m, k, a.at - 1) /\ Inside(k, n, a.at - 1)
    BY <1>2, <2>1, <2>2 DEF Kept
  <2>4. Span(m, a.at - 1) \in Nat
    BY <1>1, <2>2, <2>3, CoreApart
  <2>5. \A u \in a.at .. a.at + a.n - 1 : n[u] = k[u] /\ k[u] = m[u]
    BY <2>1, <2>3, <2>4 DEF Inside
  <2> QED BY <1>2, <1>5, <2>1, <2>2, <2>3, <2>5
<1>8. {a.at - 1 : a \in has \cup {new}} = B2 \ F2
  <2>1. {a.at - 1 : a \in has} = B \ F
    BY DEF Owned
  <2>2. {a.at - 1 : a \in has \cup {new}} = {a.at - 1 : a \in has} \cup {c}
    BY <1>6
  <2> QED BY <2>1, <2>2
<1>9. Span(n, c) >= r + 2 /\ Status(n, c) = 1
  BY <1>1, <1>2
<1> HIDE DEF new
<1>10. \A u \in new.at .. new.at + new.n - 1 : n[u] = Bytes
  BY <1>0, <1>2, <1>5, <1>6
<1>11. \A a, b \in has \cup {new} : a.at = b.at => a = b
  BY <1>6, <1>7 DEF Owned
<1>12. has \cup {new} \subseteq [at : Nat, n : Requests]
  BY <1>6 DEF Owned
<1>13. ASSUME NEW a \in has \cup {new}
       PROVE  /\ Span(n, a.at - 1) >= a.n + 2 /\ Status(n, a.at - 1) = 1
              /\ \A u \in a.at .. a.at + a.n - 1 : n[u] = Bytes
  BY <1>6, <1>7, <1>9, <1>10
<1>14. Owned(n, B2, F2, has \cup {new})
  BY <1>8, <1>11, <1>12, <1>13 DEF Owned
<1> QED BY <1>3, <1>4, <1>14 DEF Managed, new

\* The block of a is no longer a used one.
LEMMA OwnedFree ==
  ASSUME NEW M \in Nat, NEW m, NEW B, NEW F, NEW end, Core(M, m, B, end),
         NEW has, Owned(m, B, F, has), NEW a \in has,
         NEW n, NEW B2, NEW F2, B2 \ F2 = (B \ F) \ {a.at - 1},
         Kept(m, n, (B \ F) \ {a.at - 1})
  PROVE  Owned(n, B2, F2, has \ {a})
<1>0. Requests \subseteq Nat \ {0}
  BY UnitsOK
<1>1. ASSUME NEW b \in has \ {a}
      PROVE  /\ b.at - 1 \in (B \ F) \ {a.at - 1}
             /\ Span(n, b.at - 1) >= b.n + 2 /\ Status(n, b.at - 1) = 1
             /\ \A u \in b.at .. b.at + b.n - 1 : n[u] = Bytes
  <2>1. b.at \in Nat /\ a.at \in Nat /\ b.n \in Nat /\ b.at - 1 \in B \ F
        /\ Span(m, b.at - 1) >= b.n + 2 /\ Status(m, b.at - 1) = 1
        /\ \A u \in b.at .. b.at + b.n - 1 : m[u] = Bytes
    BY <1>0 DEF Owned
  <2>2. b.at # a.at
    BY DEF Owned
  <2>3. b.at - 1 # a.at - 1
    BY <2>1, <2>2
  <2>4. /\ Span(n, b.at - 1) = Span(m, b.at - 1) /\ Status(n, b.at - 1) = Status(m, b.at - 1)
        /\ Inside(m, n, b.at - 1)
    BY <2>1, <2>3 DEF Kept
  <2>5. Span(m, b.at - 1) \in Nat
    BY <2>1, CoreApart
  <2>6. \A u \in b.at .. b.at + b.n - 1 : n[u] = m[u]
    BY <2>1, <2>4, <2>5 DEF Inside
  <2> QED BY <2>1, <2>3, <2>4, <2>6
<1>2. {b.at - 1 : b \in has \ {a}} = B2 \ F2
  <2>1. {b.at - 1 : b \in has} = B \ F
    BY DEF Owned
  <2> QED BY <1>1, <2>1
<1> QED BY <1>1, <1>2 DEF Owned

-----------------------------------------------------------------------------
(* From an invariant to what the contract asks: the objects lie apart.     *)

UnitsOf(a) == a.at .. a.at + a.n - 1

\* The objects of the program lie inside the heap, apart, and hold what it wrote.
LEMMA OwnedApart ==
  ASSUME NEW M \in Nat, NEW m, NEW B, NEW F, NEW end, Core(M, m, B, end),
         NEW has, Owned(m, B, F, has)
  PROVE  /\ \A a \in has : a.at \in 0 .. M - 1 /\ UnitsOf(a) \subseteq 0 .. M - 1
         /\ \A a, b \in has : a # b => UnitsOf(a) \cap UnitsOf(b) = {}
         /\ \A a \in has : \A u \in UnitsOf(a) : m[u] = Bytes
<1>0. Requests \subseteq Nat \ {0}
  BY UnitsOK
<1>1. ASSUME NEW a \in has
      PROVE  a.at - 1 \in B /\ a.at \in Nat /\ a.n \in Nat \ {0}
             /\ Span(m, a.at - 1) >= a.n + 2
  BY <1>0 DEF Owned
<1>2. ASSUME NEW a \in has PROVE a.at \in 0 .. M - 1 /\ UnitsOf(a) \subseteq 0 .. M - 1
  <2>1. /\ a.at - 1 \in 0 .. M - 1 /\ Span(m, a.at - 1) \in 2 .. M
        /\ (a.at - 1) + Span(m, a.at - 1) - 1 \in 0 .. M - 1
    BY <1>1, CoreApart
  <2> QED BY <1>1, <2>1 DEF UnitsOf
<1>3. ASSUME NEW a \in has, NEW b \in has, a # b PROVE UnitsOf(a) \cap UnitsOf(b) = {}
  <2>1. a.at # b.at
    BY <1>3 DEF Owned
  <2>2. a.at - 1 # b.at - 1 /\ a.at - 1 \in B /\ b.at - 1 \in B
    BY <1>1, <2>1
  <2>3. /\ Span(m, a.at - 1) \in 2 .. M /\ Span(m, b.at - 1) \in 2 .. M
        /\ \/ (a.at - 1) + Span(m, a.at - 1) - 1 < b.at - 1
           \/ (b.at - 1) + Span(m, b.at - 1) - 1 < a.at - 1
    BY <2>2, CoreApart
  <2> QED BY <1>1, <2>3 DEF UnitsOf
<1> QED BY <1>2, <1>3 DEF Owned, UnitsOf

-----------------------------------------------------------------------------
(* heapmgr1: one list.                                                     *)

M1 == MaxUnits["heapmgr1"]
OneHead(h) == [b \in {0} |-> h.head]
OneBin == [s \in Nat |-> 0]

Listed1(h, B, F, end) ==
  h = [mem |-> h.mem, head |-> h.head] /\ Listed(M1, h.mem, OneHead(h), {0}, OneBin, B, F, end)

\* The bounds of heapmgr1 are numbers.
LEMMA M1Number == M1 \in Nat /\ Growth["heapmgr1"] \in Nat \ {0}
  BY UnitsOK DEF M1, Managers

\* insert_head of heapmgr1 puts c on the list and keeps all other blocks.
LEMMA Inserted1 ==
  ASSUME NEW h, NEW B, NEW F, NEW end, Listed1(h, B, F, end), NEW c \in B \ F,
         NEW x, x = Mgr1!insert_head(h, c)
  PROVE  /\ Listed1(x, B, F \cup {c}, end)
         /\ Kept(h.mem, x.mem, B \ {c}) /\ Span(x.mem, c) = Span(h.mem, c) /\ x.head = c
<1>1. x = [mem |-> InsertMem(h.mem, c, h.head), head |-> c]
  BY DEF Mgr1!insert_head, InsertMem, Mgr1!set_prev_free, Mgr1!set_next_free,
     Mgr1!set_status, Mgr1!get_footer, Mgr1!get_span, Mgr1!NULL, Mgr1!CHUNK_FREE,
     WithStatus, WithNext, WithPrev
<1>2. Listed(M1, h.mem, OneHead(h), {0}, OneBin, B, F, end) /\ M1 \in Nat
  BY M1Number DEF Listed1
<1>3. OneBin[Span(h.mem, c)] = 0
  <2>1. Span(h.mem, c) \in Nat
    BY <1>2, CoreApart DEF Listed
  <2> QED BY <2>1 DEF OneBin
<1>4. OneHead(h)[0] = h.head /\ OneHead(x) = [OneHead(h) EXCEPT ![0] = c]
  BY <1>1 DEF OneHead
<1>5. /\ Listed(M1, x.mem, OneHead(x), {0}, OneBin, B, F \cup {c}, end)
      /\ Kept(h.mem, x.mem, B \ {c}) /\ Span(x.mem, c) = Span(h.mem, c)
  <2>1. Inserts(h.mem, OneHead(h), OneBin, c, x.mem, OneHead(x))
    BY <1>1, <1>3, <1>4 DEF Inserts
  <2>2. Inserting(M1, h.mem, x.mem, OneHead(x), {0}, OneBin, B, F, c, end)
    BY <1>2, <2>1, ListedInsert
  <2> QED BY <2>2 DEF Inserting
<1> QED BY <1>1, <1>5 DEF Listed1

\* detach of heapmgr1 takes c off the list and keeps all other blocks.
LEMMA Detached1 ==
  ASSUME NEW h, NEW B, NEW F, NEW end, Listed1(h, B, F, end), NEW c \in F,
         NEW x, x = Mgr1!detach(h, c)
  PROVE  /\ Listed1(x, B, F \ {c}, end)
         /\ Kept(h.mem, x.mem, B \ {c}) /\ Span(x.mem, c) = Span(h.mem, c)
         /\ Status(x.mem, c) = 1
<1>1. x = [mem |-> DetachMem(h.mem, c), head |-> HeadWithout(h.mem, h.head, c)]
  <2> DEFINE p == PrevOf(h.mem, c)
             q == NextOf(h.mem, c)
             l == Mgr1!linked(h, p, q)
             k == LinkedMem(h.mem, p, q)
  <2>1. l = [mem |-> k, head |-> HeadWithout(h.mem, h.head, c)]
    BY DEF Mgr1!linked, LinkedMem, HeadWithout, Mgr1!set_prev_free, Mgr1!set_next_free,
       Mgr1!get_footer, Mgr1!get_span, Mgr1!NULL, WithNext, WithPrev
  <2>2. x = [l EXCEPT !.mem = WithStatus(WithPrev(WithNext(l.mem, c, -1), c, -1), c, 1)]
    BY DEF Mgr1!detach, Mgr1!unlinked, Mgr1!set_prev_free, Mgr1!set_next_free,
       Mgr1!set_status, Mgr1!get_footer, Mgr1!get_span, Mgr1!get_prev_free,
       Mgr1!get_next_free, Mgr1!NULL, Mgr1!CHUNK_USED, WithStatus, WithNext, WithPrev,
       NextOf, PrevOf
  <2>3. DetachMem(h.mem, c) = WithStatus(WithPrev(WithNext(k, c, -1), c, -1), c, 1)
    BY DEF DetachMem
  <2> HIDE DEF l, k
  <2> QED BY <2>1, <2>2, <2>3
<1>2. Listed(M1, h.mem, OneHead(h), {0}, OneBin, B, F, end) /\ M1 \in Nat
  BY M1Number DEF Listed1
<1>3. OneBin[Span(h.mem, c)] = 0
  <2>1. Span(h.mem, c) \in Nat
    BY <1>2, CoreApart DEF Listed
  <2> QED BY <2>1 DEF OneBin
<1>4. /\ OneHead(h)[0] = h.head
      /\ OneHead(x) = [OneHead(h) EXCEPT ![0] = HeadWithout(h.mem, OneHead(h)[0], c)]
  BY <1>1 DEF OneHead
<1>5. /\ Listed(M1, x.mem, OneHead(x), {0}, OneBin, B, F \ {c}, end)
      /\ Kept(h.mem, x.mem, B \ {c}) /\ Span(x.mem, c) = Span(h.mem, c)
      /\ Status(x.mem, c) = 1
  <2>1. Detaches(h.mem, OneHead(h), OneBin, c, x.mem, OneHead(x))
    BY <1>1, <1>3, <1>4 DEF Detaches
  <2>2. Detaching(M1, h.mem, x.mem, OneHead(x), {0}, OneBin, B, F, c, end)
    BY <1>2, <2>1, ListedDetach
  <2> QED BY <2>2 DEF Detaching
<1> QED BY <1>1, <1>5 DEF Listed1

RightJoins1(h, x, B, F, c) ==
  \E B2, F2 : /\ Listed1(x, B2, F2, s_heap_hi) /\ B2 \ F2 = B \ F
              /\ Kept(h.mem, x.mem, (B \ F) \ {c})
              /\ Coalesced(x.mem, F2) /\ c + Span(x.mem, c) \notin F2

\* The block above c, if it is free, becomes part of c.
LEMMA RightJoined1 ==
  ASSUME NEW h, NEW B, NEW F, Listed1(h, B, F, s_heap_hi), NEW c \in B, c \notin F,
         Coalesced(h.mem, F), \A d \in B \ F : Status(h.mem, d) = 1,
         NEW x, x = Mgr1!right_joined(h, c)
  PROVE  RightJoins1(h, x, B, F, c)
<1> USE DEF RightJoins1
<1> DEFINE d == c + Span(h.mem, c)
           y == Mgr1!detach(h, d)
<1>1. /\ Core(M1, h.mem, B, s_heap_hi) /\ F \subseteq B /\ M1 \in Nat
      /\ \A e \in F : Status(h.mem, e) = 0
  BY M1Number DEF Listed1, Listed
<1>2. /\ \/ NextAt(h.mem, c, s_heap_hi) = -1 /\ d = s_heap_hi
         \/ NextAt(h.mem, c, s_heap_hi) = d /\ d \in B /\ d # -1 /\ d # c
      /\ s_heap_hi \notin B
  <2>1. s_heap_hi \notin B
    BY <1>1, CoreApart
  <2> QED BY <1>1, <2>1, NextIsBlock
<1>3. x = IF NextAt(h.mem, c, s_heap_hi) # -1 /\ Status(h.mem, NextAt(h.mem, c, s_heap_hi)) = 0
          THEN [Mgr1!detach(h, NextAt(h.mem, c, s_heap_hi)) EXCEPT !.mem =
                  WithSpan(@, c, Span(@, c) + Span(@, NextAt(h.mem, c, s_heap_hi)))]
          ELSE h
  BY DEF Mgr1!right_joined, Mgr1!next_phys, Mgr1!get_status, Mgr1!get_span, Mgr1!set_span,
     Mgr1!NULL, Mgr1!CHUNK_FREE, NextAt, Span, Status, WithSpan
<1>4. CASE d \in F
  <2>1. x = [y EXCEPT !.mem = WithSpan(@, c, Span(@, c) + Span(@, d))]
    BY <1>1, <1>2, <1>3, <1>4
  <2> HIDE DEF y
  <2>2. /\ Listed1(y, B, F \ {d}, s_heap_hi) /\ Kept(h.mem, y.mem, B \ {d})
        /\ Span(y.mem, d) = Span(h.mem, d)
    BY <1>4, Detached1 DEF y
  <2>3. y = [mem |-> y.mem, head |-> y.head]
        /\ Listed(M1, y.mem, OneHead(y), {0}, OneBin, B, F \ {d}, s_heap_hi)
    BY <2>2 DEF Listed1
  <2>4. /\ x = [mem |-> x.mem, head |-> x.head] /\ x.head = y.head
        /\ x.mem = WithSpan(y.mem, c, Span(y.mem, c) + Span(y.mem, d))
    BY <2>1, <2>3
  <2>5. c \in B \ (F \ {d}) /\ d \in B \ (F \ {d}) /\ c # d
        /\ Span(y.mem, c) = Span(h.mem, c)
    BY <1>1, <1>2, <1>4, <2>2 DEF Kept
  <2>6. d = c + Span(y.mem, c)
    BY <2>5
  <2> HIDE DEF d
  <2>7. /\ Listed(M1, x.mem, OneHead(y), {0}, OneBin, B \ {d}, F \ {d}, s_heap_hi)
        /\ Kept(y.mem, x.mem, B \ {c, d})
        /\ Span(x.mem, c) = Span(y.mem, c) + Span(y.mem, d)
    <3>1. Joining(M1, y.mem, x.mem, OneHead(y), {0}, OneBin, B, F \ {d}, c, d, s_heap_hi)
      BY <1>1, <2>3, <2>4, <2>5, <2>6, ListedJoins
    <3> QED BY <3>1 DEF Joining
  <2>8. Listed1(x, B \ {d}, F \ {d}, s_heap_hi)
    BY <2>4, <2>7 DEF Listed1, OneHead
  <2>9. Kept(h.mem, x.mem, B \ {c, d})
    <3>1. Kept(h.mem, y.mem, B \ {c, d})
      BY <2>2, KeptFewer
    <3> QED BY <2>7, <3>1, KeptTwice
  <2>10. Coalesced(x.mem, F \ {d})
    <3>1. \A e \in F \ {d} : Span(x.mem, e) = Span(h.mem, e)
      BY <1>1, <2>9 DEF Kept
    <3> QED BY <3>1, CoalescedFewer
  <2>11. c + Span(x.mem, c) \notin F \ {d}
    <3>1. c + Span(x.mem, c) = d + Span(h.mem, d)
      <4>1. c \in Nat /\ Span(h.mem, c) \in Nat /\ Span(h.mem, d) \in Nat
        BY <1>1, <1>4, CoreApart
      <4> QED BY <4>1, <2>2, <2>5, <2>7 DEF d
    <3> QED BY <1>4, <3>1 DEF Coalesced
  <2>12. (B \ {d}) \ (F \ {d}) = B \ F /\ Kept(h.mem, x.mem, (B \ F) \ {c})
    <3>1. (B \ F) \ {c} \subseteq B \ {c, d}
      BY <1>4
    <3> QED BY <1>4, <2>9, <3>1, KeptFewer
  <2> QED BY <2>8, <2>10, <2>11, <2>12
<1>5. CASE d \notin F
  <2>1. x = h
    BY <1>1, <1>2, <1>3, <1>5
  <2>2. Kept(h.mem, x.mem, (B \ F) \ {c})
    BY <2>1 DEF Kept, Inside
  <2> QED BY <1>5, <2>1, <2>2
<1> QED BY <1>4, <1>5

\* The block below c, if it is free, takes c in; or c goes on the list itself.
LEMMA FreeJoined1 ==
  ASSUME NEW h, NEW B, NEW F, NEW end, Listed1(h, B, F, end), NEW c \in B, c \notin F,
         Coalesced(h.mem, F), c + Span(h.mem, c) \notin F,
         \A d \in (B \ F) \ {c} : Status(h.mem, d) = 1,
         NEW x, x = Mgr1!free_joined(h, c)
  PROVE  \E B2, F2 : /\ Listed1(x, B2, F2, end) /\ B2 \ F2 = (B \ F) \ {c}
                     /\ Kept(h.mem, x.mem, (B \ F) \ {c})
                     /\ Coalesced(x.mem, F2)
<1> DEFINE p == PrevAt(h.mem, c)
           y == Mgr1!detach(h, p)
           z == [y EXCEPT !.mem = WithSpan(@, p, Span(@, p) + Span(@, c))]
<1>1. /\ Core(M1, h.mem, B, end) /\ F \subseteq B /\ M1 \in Nat
      /\ \A e \in F : Status(h.mem, e) = 0
  BY M1Number DEF Listed1, Listed
<1>2. /\ \/ p = -1 /\ c = 0
         \/ p \in B /\ p + Span(h.mem, p) = c /\ p # -1 /\ p # c
      /\ \A e \in B : e + Span(h.mem, e) = c => p = e
  BY <1>1, PrevIsBlock
<1>3. x = IF p # -1 /\ Status(h.mem, p) = 0 THEN Mgr1!insert_head(z, p)
          ELSE Mgr1!insert_head(h, c)
  BY DEF Mgr1!free_joined, Mgr1!prev_phys, Mgr1!s_heap_lo, Mgr1!get_status, Mgr1!get_span,
     Mgr1!set_span, Mgr1!NULL, Mgr1!CHUNK_FREE, PrevAt, Span, Status, WithSpan
<1>4. -1 \notin B /\ (c \in Nat /\ Span(h.mem, c) \in Nat \ {0})
  BY <1>1, CoreApart
<1>5. CASE p \in F
  <2>1. x = Mgr1!insert_head(z, p) /\ p + Span(h.mem, p) = c /\ p # c /\ p \in B
    BY <1>1, <1>2, <1>3, <1>4, <1>5
  <2> HIDE DEF y, p
  <2>2. /\ Listed1(y, B, F \ {p}, end) /\ Kept(h.mem, y.mem, B \ {p})
        /\ Span(y.mem, p) = Span(h.mem, p)
    BY <1>5, Detached1 DEF y
  <2>3. y = [mem |-> y.mem, head |-> y.head]
        /\ Listed(M1, y.mem, OneHead(y), {0}, OneBin, B, F \ {p}, end)
    BY <2>2 DEF Listed1
  <2>4. /\ z = [mem |-> z.mem, head |-> z.head] /\ z.head = y.head
        /\ z.mem = WithSpan(y.mem, p, Span(y.mem, p) + Span(y.mem, c))
    BY <2>3
  <2> HIDE DEF z
  <2>5. p \in B \ (F \ {p}) /\ c \in B \ (F \ {p}) /\ c = p + Span(y.mem, p)
        /\ Span(y.mem, c) = Span(h.mem, c)
    BY <2>1, <2>2 DEF Kept
  <2>6. /\ Listed(M1, z.mem, OneHead(y), {0}, OneBin, B \ {c}, F \ {p}, end)
        /\ Kept(y.mem, z.mem, B \ {p, c})
        /\ Span(z.mem, p) = Span(y.mem, p) + Span(y.mem, c)
    <3>1. Joining(M1, y.mem, z.mem, OneHead(y), {0}, OneBin, B, F \ {p}, p, c, end)
      BY <1>1, <2>3, <2>4, <2>5, ListedJoins
    <3> QED BY <3>1 DEF Joining
  <2>7. Listed1(z, B \ {c}, F \ {p}, end)
    BY <2>4, <2>6 DEF Listed1, OneHead
  <2>8. p \in (B \ {c}) \ (F \ {p})
    BY <2>1
  <2>9. /\ Listed1(x, B \ {c}, (F \ {p}) \cup {p}, end)
        /\ Kept(z.mem, x.mem, (B \ {c}) \ {p}) /\ Span(x.mem, p) = Span(z.mem, p)
    BY <2>1, <2>7, <2>8, Inserted1
  <2>10. Kept(h.mem, x.mem, B \ {p, c})
    <3>1. Kept(h.mem, y.mem, B \ {p, c})
      BY <2>2, KeptFewer
    <3>2. Kept(h.mem, z.mem, B \ {p, c})
      BY <2>6, <3>1, KeptTwice
    <3>3. (B \ {c}) \ {p} = B \ {p, c}
      OBVIOUS
    <3> QED BY <2>9, <3>2, <3>3, KeptTwice
  <2>11. (F \ {p}) \cup {p} = F
    BY <1>5
  <2>12. Coalesced(x.mem, F)
    <3>1. ASSUME NEW e \in F PROVE e + Span(x.mem, e) \notin F
      <4>1. CASE e = p
        <5>1. p \in Nat /\ Span(h.mem, p) \in Nat
          BY <1>1, <2>1, CoreApart
        <5>2. p + Span(x.mem, p) = c + Span(h.mem, c)
          BY <1>4, <2>1, <2>2, <2>5, <2>6, <2>9, <5>1
        <5> QED BY <4>1, <5>2
      <4>2. CASE e # p
        BY <1>1, <2>10, <4>2 DEF Kept, Coalesced
      <4> QED BY <4>1, <4>2
    <3> QED BY <3>1 DEF Coalesced
  <2>13. (B \ {c}) \ F = (B \ F) \ {c} /\ Kept(h.mem, x.mem, (B \ F) \ {c})
    <3>1. (B \ F) \ {c} \subseteq B \ {p, c}
      BY <1>5
    <3> QED BY <2>10, <3>1, KeptFewer
  <2> QED BY <2>9, <2>11, <2>12, <2>13
<1>6. CASE p \notin F
  <2>1. x = Mgr1!insert_head(h, c)
    BY <1>2, <1>3, <1>6
  <2> HIDE DEF p
  <2>2. /\ Listed1(x, B, F \cup {c}, end) /\ Kept(h.mem, x.mem, B \ {c})
        /\ Span(x.mem, c) = Span(h.mem, c)
    BY <2>1, Inserted1
  <2>3. Coalesced(x.mem, F \cup {c})
    <3>1. ASSUME NEW e \in F \cup {c} PROVE e + Span(x.mem, e) \notin F \cup {c}
      <4>1. CASE e = c
        BY <1>4, <2>2, <4>1
      <4>2. CASE e \in F
        <5>1. Span(x.mem, e) = Span(h.mem, e)
          BY <1>1, <2>2, <4>2 DEF Kept
        <5> QED BY <1>1, <1>2, <1>6, <4>2, <5>1 DEF Coalesced
      <4> QED BY <4>1, <4>2
    <3> QED BY <3>1 DEF Coalesced
  <2>4. B \ (F \cup {c}) = (B \ F) \ {c} /\ Kept(h.mem, x.mem, (B \ F) \ {c})
    BY <2>2, KeptFewer
  <2> QED BY <2>2, <2>3, <2>4
<1> QED BY <1>5, <1>6

Grows1(h, x, B, F, end, r) ==
  \E B2, F2 : /\ Listed1(x, B2, F2, end) /\ B2 \ F2 = B \ F
              /\ Kept(h.mem, x.mem, B \ F)
              /\ Coalesced(x.mem, F2)
              /\ x.head \in F2 /\ Span(x.mem, x.head) >= r + 2

\* sbrk's block goes on the list, or the free block below it takes it in.
LEMMA Grown1 ==
  ASSUME NEW B, NEW F, NEW h, Listed1(h, B, F, s_heap_hi), Coalesced(h.mem, F),
         \A d \in B \ F : Status(h.mem, d) = 1,
         NEW r \in Nat, NEW g, g = Mgr1!grow_span(r), s_heap_hi + g <= M1,
         NEW x, x = Mgr1!sys_grow(h, r)
  PROVE  Grows1(h, x, B, F, s_heap_hi + g, r)
<1> USE DEF Grows1
<1> DEFINE c == s_heap_hi
           end == s_heap_hi + g
           C == B \cup {c}
           m == NewMem(h.mem, c, g)
           k == [h EXCEPT !.mem = m]
           p == PrevAt(m, c)
           y == Mgr1!detach(k, p)
           z == [y EXCEPT !.mem = WithSpan(@, p, Span(@, p) + g)]
<1>0. g \in Nat /\ g >= r + 2 /\ M1 \in Nat
  BY M1Number DEF Mgr1!grow_span
<1>1. h = [mem |-> h.mem, head |-> h.head]
      /\ Listed(M1, h.mem, OneHead(h), {0}, OneBin, B, F, c)
      /\ F \subseteq B /\ Core(M1, h.mem, B, c)
      /\ \A e \in F : Status(h.mem, e) = 0
  BY DEF Listed1, Listed
<1>2. /\ Listed(M1, m, OneHead(h), {0}, OneBin, C, F, end) /\ c \notin B
      /\ \A d \in B : Alike(h.mem, m, d)
      /\ Span(m, c) = g /\ Status(m, c) = 0
  <2>1. g >= 2
    BY <1>0
  <2>2. Growing(M1, h.mem, m, OneHead(h), {0}, OneBin, B, F, c, g)
    BY <1>0, <1>1, <2>1, ListedGrows
  <2> QED BY <2>2 DEF Growing
<1>3. k = [mem |-> m, head |-> h.head] /\ k.mem = m
  BY <1>1
<1>4. Listed1(k, C, F, end)
  BY <1>2, <1>3 DEF Listed1, OneHead
<1>5. x = IF p # -1 /\ Status(m, p) = 0 THEN Mgr1!insert_head(z, p)
          ELSE Mgr1!insert_head(k, c)
  <2>1. m = Mgr1!unlinked(Mgr1!set_status(
                Mgr1!set_span(h.mem, s_heap_hi, Mgr1!grow_span(r)), s_heap_hi,
                Mgr1!CHUNK_FREE), s_heap_hi)
    BY DEF Mgr1!set_span, Mgr1!set_status, Mgr1!unlinked, Mgr1!set_next_free,
       Mgr1!set_prev_free, Mgr1!get_footer, Mgr1!get_span, Mgr1!NULL, Mgr1!CHUNK_FREE,
       WithSpan, WithStatus, WithNext, WithPrev, NewMem
  <2> HIDE DEF m
  <2>2. p = Mgr1!prev_phys(m, c, Mgr1!s_heap_lo)
    BY DEF PrevAt, Mgr1!prev_phys, Mgr1!s_heap_lo, Mgr1!NULL
  <2> HIDE DEF p
  <2>3. y = Mgr1!detach([h EXCEPT !.mem = m], p)
    OBVIOUS
  <2> HIDE DEF y
  <2>4. z = [y EXCEPT !.mem = Mgr1!set_span(y.mem, p, Mgr1!get_span(y.mem, p)
                                                        + Mgr1!grow_span(r))]
    BY DEF WithSpan, Span, Mgr1!get_span, Mgr1!set_span
  <2> HIDE DEF z
  <2>5. Status(m, p) = Mgr1!get_status(m, p) /\ Mgr1!NULL = -1 /\ Mgr1!CHUNK_FREE = 0
    BY DEF Status, Mgr1!get_status, Mgr1!NULL, Mgr1!CHUNK_FREE
  <2> QED BY <2>1, <2>2, <2>3, <2>4, <2>5 DEF Mgr1!sys_grow
<1> HIDE DEF m, k
<1>6. Core(M1, m, C, end) /\ c \in C /\ B \subseteq C /\ c \in Nat /\ -1 \notin C
  <2>1. Core(M1, m, C, end) /\ c \in C /\ B \subseteq C
    BY <1>2 DEF Listed
  <2> HIDE DEF C, end
  <2>2. \A d \in C : d \in 0 .. M1 - 1
    BY <1>0, <2>1, CoreApart
  <2>3. c \in 0 .. M1 - 1 /\ -1 \notin 0 .. M1 - 1
    BY <2>1, <2>2
  <2> QED BY <1>0, <2>1, <2>2, <2>3
<1>7. /\ \/ p = -1 /\ c = 0
         \/ p \in C /\ p + Span(m, p) = c /\ p # -1 /\ p # c
      /\ \A e \in C : e + Span(m, e) = c => p = e
  BY <1>0, <1>6, PrevIsBlock
<1>8. \A e \in B : Span(m, e) = Span(h.mem, e) /\ Status(m, e) = Status(h.mem, e)
                   /\ e < c /\ Inside(h.mem, m, e)
  <2>1. \A e \in B : e < c
    BY <1>0, <1>1, CoreApart
  <2> QED BY <1>2, <2>1 DEF Alike
<1>9. CASE p \in F
  <2>1. x = Mgr1!insert_head(z, p) /\ p + Span(m, p) = c /\ p # c /\ p \in B /\ p \in C
    BY <1>1, <1>5, <1>6, <1>7, <1>8, <1>9
  <2> HIDE DEF y, p, C, end, c
  <2>2. /\ Listed1(y, C, F \ {p}, end) /\ Kept(m, y.mem, C \ {p})
        /\ Span(y.mem, p) = Span(m, p)
    <3>1. y = Mgr1!detach(k, p)
      BY DEF y
    <3>2. /\ Listed1(y, C, F \ {p}, end) /\ Kept(k.mem, y.mem, C \ {p})
          /\ Span(y.mem, p) = Span(k.mem, p)
      BY <1>4, <1>9, <3>1, Detached1
    <3> QED BY <1>3, <3>2
  <2>3. y = [mem |-> y.mem, head |-> y.head]
        /\ Listed(M1, y.mem, OneHead(y), {0}, OneBin, C, F \ {p}, end)
    BY <2>2 DEF Listed1
  <2>5. p \in C \ (F \ {p}) /\ c \in C \ (F \ {p}) /\ c = p + Span(y.mem, p)
        /\ Span(y.mem, c) = g
    BY <1>1, <1>2, <1>6, <2>1, <2>2 DEF Kept
  <2>4. /\ z = [mem |-> z.mem, head |-> z.head] /\ z.head = y.head
        /\ z.mem = WithSpan(y.mem, p, Span(y.mem, p) + Span(y.mem, c))
    BY <2>3, <2>5
  <2> HIDE DEF z
  <2>6. /\ Listed(M1, z.mem, OneHead(y), {0}, OneBin, C \ {c}, F \ {p}, end)
        /\ Kept(y.mem, z.mem, C \ {p, c})
        /\ Span(z.mem, p) = Span(y.mem, p) + Span(y.mem, c)
    <3>1. Joining(M1, y.mem, z.mem, OneHead(y), {0}, OneBin, C, F \ {p}, p, c, end)
      BY <1>0, <2>3, <2>4, <2>5, ListedJoins
    <3> QED BY <3>1 DEF Joining
  <2>7. Listed1(z, C \ {c}, F \ {p}, end)
    BY <2>4, <2>6 DEF Listed1, OneHead
  <2>8. p \in (C \ {c}) \ (F \ {p})
    BY <2>1
  <2>9. /\ Listed1(x, C \ {c}, (F \ {p}) \cup {p}, end)
        /\ Kept(z.mem, x.mem, (C \ {c}) \ {p}) /\ Span(x.mem, p) = Span(z.mem, p)
        /\ x.head = p
    BY <2>1, <2>7, <2>8, Inserted1
  <2>10. Kept(m, x.mem, C \ {p, c})
    <3>1. Kept(m, y.mem, C \ {p, c})
      BY <2>2, KeptFewer
    <3>2. Kept(m, z.mem, C \ {p, c})
      BY <2>6, <3>1, KeptTwice
    <3>3. (C \ {c}) \ {p} = C \ {p, c}
      OBVIOUS
    <3> QED BY <2>9, <3>2, <3>3, KeptTwice
  <2>11. (F \ {p}) \cup {p} = F
    BY <1>9
  <2>14. p \in Nat /\ Span(m, p) \in Nat /\ p + Span(x.mem, p) = c + g
         /\ Span(x.mem, p) = Span(m, p) + g
    <3>1. p \in Nat /\ Span(m, p) \in Nat
      BY <1>0, <1>6, <2>1, CoreApart
    <3> QED BY <1>0, <1>6, <2>1, <2>2, <2>5, <2>6, <2>9, <3>1
  <2>12. Coalesced(x.mem, F)
    <3>1. ASSUME NEW e \in F PROVE e + Span(x.mem, e) \notin F
      <4>1. CASE e = p
        <5>1. \A f \in F : f < c + g
          BY <1>0, <1>1, <1>6, <1>8, CoreApart
        <5>2. c + g \in Nat
          BY <1>0, <1>6
        <5> QED BY <2>14, <4>1, <5>1, <5>2
      <4>2. CASE e # p
        <5>1. e \in C \ {p, c} /\ e \in B
          BY <1>1, <1>2, <1>6, <4>2
        <5>2. Span(x.mem, e) = Span(h.mem, e)
          BY <1>8, <2>10, <5>1 DEF Kept
        <5> QED BY <5>2 DEF Coalesced
      <4> QED BY <4>1, <4>2
    <3> QED BY <3>1 DEF Coalesced
  <2>13. (C \ {c}) \ F = B \ F
    BY <1>1, <1>2 DEF C
  <2>15. Kept(h.mem, x.mem, B \ F)
    <3>1. B \ F \subseteq C \ {p, c}
      BY <1>2, <1>6, <1>9
    <3>2. Kept(h.mem, m, B \ F)
      BY <1>2, AlikeKept
    <3>3. Kept(m, x.mem, B \ F)
      BY <2>10, <3>1, KeptFewer
    <3> QED BY <3>2, <3>3, KeptTwice
  <2>16. Span(x.mem, x.head) >= r + 2
    BY <1>0, <2>9, <2>14
  <2> QED BY <1>9, <2>9, <2>11, <2>12, <2>13, <2>15, <2>16 DEF end, c
<1>10. CASE p \notin F
  <2>1. x = Mgr1!insert_head(k, c)
    BY <1>5, <1>7, <1>8, <1>10
  <2>0. c \in C /\ c \notin F
    BY <1>1, <1>2
  <2> HIDE DEF p, C, end, c
  <2>2. /\ Listed1(x, C, F \cup {c}, end) /\ Kept(m, x.mem, C \ {c})
        /\ Span(x.mem, c) = g /\ x.head = c
    BY <1>2, <1>3, <1>4, <2>0, <2>1, Inserted1
  <2>3. Coalesced(x.mem, F \cup {c})
    <3>1. ASSUME NEW e \in F \cup {c} PROVE e + Span(x.mem, e) \notin F \cup {c}
      <4>1. CASE e = c
        <5>1. \A f \in F : f < c
          BY <1>1, <1>8
        <5>2. c + g > c /\ c + g \in Nat
          BY <1>0, <1>6
        <5> QED BY <1>1, <1>6, <2>2, <4>1, <5>1, <5>2, <1>0
      <4>2. CASE e \in F
        <5>0. e \in C \ {c} /\ e \in B
          BY <1>1, <1>2, <1>6, <4>2
        <5>1. Span(x.mem, e) = Span(m, e) /\ Span(m, e) = Span(h.mem, e)
          BY <1>8, <2>2, <5>0 DEF Kept
        <5> QED BY <1>7, <1>10, <4>2, <5>0, <5>1 DEF Coalesced
      <4> QED BY <4>1, <4>2
    <3> QED BY <3>1 DEF Coalesced
  <2>4. C \ (F \cup {c}) = B \ F
    BY <1>1, <1>2 DEF C
  <2>5. Kept(h.mem, x.mem, B \ F)
    <3>1. B \ F \subseteq C \ {c}
      BY <1>2, <1>6
    <3>2. Kept(h.mem, m, B \ F)
      BY <1>2, AlikeKept
    <3>3. Kept(m, x.mem, B \ F)
      BY <2>2, <3>1, KeptFewer
    <3> QED BY <3>2, <3>3, KeptTwice
  <2> QED BY <1>0, <2>2, <2>3, <2>4, <2>5 DEF end, c
<1> QED BY <1>9, <1>10

Allocates1(h, x, B, F, end, r) ==
  \E B2, F2 : /\ Listed1(x.heap, B2, F2, end)
              /\ x.block \notin B \ F /\ B2 \ F2 = (B \ F) \cup {x.block}
              /\ Kept(h.mem, x.heap.mem, B \ F) /\ Coalesced(x.heap.mem, F2)
              /\ Status(x.heap.mem, x.block) = 1
              /\ Span(x.heap.mem, x.block) >= r + 2

\* The back of a free block, or all of it, becomes used.
LEMMA Allocated1 ==
  ASSUME NEW h, NEW B, NEW F, NEW end, Listed1(h, B, F, end), Coalesced(h.mem, F),
         NEW cur \in F, NEW r \in Nat, Span(h.mem, cur) >= r + 2,
         NEW x, x = Mgr1!do_alloc(h, cur, r + 2)
  PROVE  Allocates1(h, x, B, F, end, r)
<1> USE DEF Allocates1
<1> DEFINE need == r + 2
           s == Span(h.mem, cur)
           rest == s - need
           alloc == cur + rest
           k1 == WithSpan(h.mem, cur, rest)
           k2 == WithPrev(k1, cur, PrevOf(h.mem, cur))
           k3 == WithSpan(k2, alloc, need)
           k4 == WithStatus(k3, alloc, 1)
           k5 == WithNext(k4, alloc, -1)
           k6 == WithPrev(k5, alloc, -1)
<1>1. /\ h = [mem |-> h.mem, head |-> h.head]
      /\ Listed(M1, h.mem, OneHead(h), {0}, OneBin, B, F, end)
      /\ Core(M1, h.mem, B, end) /\ F \subseteq B /\ M1 \in Nat /\ cur \in B
      /\ \A e \in F : Status(h.mem, e) = 0
  BY M1Number DEF Listed1, Listed
<1>2. /\ cur \in 0 .. M1 - 1 /\ s \in 2 .. M1 /\ need \in Nat /\ need >= 2
      /\ rest \in Nat /\ alloc \in Nat
  BY <1>1, CoreApart
<1>3. CASE rest < 2
  <2>1. x = [heap |-> Mgr1!detach(h, cur), block |-> cur]
    BY <1>2, <1>3 DEF Mgr1!do_alloc, Mgr1!splits, Mgr1!get_span, Span
  <2> DEFINE y == Mgr1!detach(h, cur)
  <2>2. x.heap = y /\ x.block = cur
    BY <2>1
  <2>3. /\ Listed1(y, B, F \ {cur}, end)
        /\ Kept(h.mem, y.mem, B \ {cur}) /\ Span(y.mem, cur) = s
        /\ Status(y.mem, cur) = 1
    <3> HIDE DEF s
    <3>1. y = Mgr1!detach(h, cur)
      OBVIOUS
    <3> HIDE DEF y
    <3> QED BY <3>1, Detached1 DEF s
  <2> HIDE DEF y
  <2>4. Kept(h.mem, y.mem, B \ F)
    BY <2>3, KeptFewer
  <2>5. Coalesced(y.mem, F \ {cur})
    <3>1. \A e \in F \ {cur} : Span(y.mem, e) = Span(h.mem, e)
      BY <1>1, <2>3 DEF Kept
    <3> QED BY <3>1, CoalescedFewer
  <2>6. cur \notin B \ F /\ B \ (F \ {cur}) = (B \ F) \cup {cur}
    BY <1>1
  <2> QED BY <2>2, <2>3, <2>4, <2>5, <2>6
<1>4. CASE rest >= 2
  <2>1. x = [heap |-> [h EXCEPT !.mem = k6], block |-> alloc]
    BY <1>2, <1>4 DEF Mgr1!do_alloc, Mgr1!splits, Mgr1!get_span, Mgr1!set_span,
       Mgr1!set_status, Mgr1!unlinked, Mgr1!set_next_free, Mgr1!set_prev_free,
       Mgr1!get_prev_free, Mgr1!get_footer, Mgr1!NULL, Mgr1!CHUNK_USED,
       Span, PrevOf, WithSpan, WithStatus, WithNext, WithPrev
  <2>2. x.heap.mem = k6 /\ x.heap.head = h.head /\ x.block = alloc
        /\ x.heap = [mem |-> k6, head |-> h.head]
    BY <1>1, <2>1
  <2> DEFINE e == cur + rest - 1
  <2>3. /\ cur + rest - 1 \in 0 .. M1 - 1 /\ rest \in 2 .. M1 /\ e > cur /\ e \in 0 .. M1 - 1
        /\ cur + s - 1 \in 0 .. M1 - 1 /\ e < cur + s - 1
        /\ \A d \in B \ {cur} : /\ d \in Nat /\ Span(h.mem, d) \in 2 .. M1
                                /\ d + Span(h.mem, d) - 1 \in 0 .. M1 - 1
                                /\ cur + s - 1 < d \/ d + Span(h.mem, d) - 1 < cur
    BY <1>1, <1>2, <1>4, CoreApart
  <2>4. /\ k1 \in Mem(M1)
        /\ \A u \in 0 .. M1 - 1 : u # cur /\ u # e => k1[u] = h.mem[u]
        /\ k1[cur].first = h.mem[cur].first /\ k1[cur].second = rest
        /\ k1[cur].ptr = h.mem[cur].ptr /\ k1[e].first = rest
    <3>1. k1 = WithSpan(h.mem, cur, rest) /\ h.mem \in Mem(M1)
      BY <1>1 DEF Core
    <3> HIDE DEF k1, rest
    <3>2. M1 \in Nat /\ cur \in 0 .. M1 - 1 /\ rest \in 2 .. M1 /\ cur + rest - 1 \in 0 .. M1 - 1
      BY <1>1, <1>2, <2>3
    <3>3. SpanWriting(M1, h.mem, k1, cur, rest)
      BY <3>1, <3>2, SpanIsWritten
    <3> QED BY <3>3 DEF SpanWriting
  <2>5. k2 = [k1 EXCEPT ![e].ptr = PrevOf(h.mem, cur)]
    BY <2>4 DEF WithPrev
  <2>6. PrevOf(h.mem, cur) \in Ptrs(M1)
    BY <1>1, PtrsKnown
  <2> HIDE DEF k1, k2, k3, k4, k5, k6, e
  <2>7. /\ k2 \in Mem(M1)
        /\ \A u \in 0 .. M1 - 1 : u # e => k2[u] = k1[u]
        /\ k2[e].first = rest /\ k2[e].ptr = PrevOf(h.mem, cur) /\ k2[cur] = k1[cur]
    BY <2>3, <2>4, <2>5, <2>6 DEF Mem
  <2>8. /\ Span(k2, cur) = rest /\ Tag(k2, cur) = rest
        /\ Status(k2, cur) = Status(h.mem, cur) /\ NextOf(k2, cur) = NextOf(h.mem, cur)
        /\ PrevOf(k2, cur) = PrevOf(h.mem, cur)
    BY <2>4, <2>7 DEF Span, Tag, Status, NextOf, PrevOf, e
  <2>9. ASSUME NEW d \in B \ {cur} PROVE Alike(h.mem, k2, d)
    <3>1. \A u \in d .. d + Span(h.mem, d) - 1 : k2[u] = h.mem[u]
      <4> SUFFICES ASSUME NEW u \in d .. d + Span(h.mem, d) - 1 PROVE k2[u] = h.mem[u]
        OBVIOUS
      <4>1. /\ d \in Nat /\ Span(h.mem, d) \in 2 .. M1
            /\ d + Span(h.mem, d) - 1 \in 0 .. M1 - 1
            /\ cur + s - 1 < d \/ d + Span(h.mem, d) - 1 < cur
        BY <2>3
      <4>2. /\ e > cur /\ e < cur + s - 1 /\ e \in Int /\ cur \in Int /\ s \in Int
            /\ M1 \in Int
        BY <1>1, <1>2, <2>3
      <4>3. u \in 0 .. M1 - 1 /\ u # cur /\ u # e
        <5> HIDE DEF s
        <5> QED BY <4>1, <4>2
      <4> QED BY <2>4, <2>7, <4>3
    <3>2. d \in Int /\ Span(h.mem, d) \in Int /\ Span(h.mem, d) >= 2
      BY <2>3
    <3>3. k2[d] = h.mem[d] /\ k2[d + Span(h.mem, d) - 1] = h.mem[d + Span(h.mem, d) - 1]
      BY <3>1, <3>2
    <3>4. Inside(h.mem, k2, d)
      BY <3>1, <3>2 DEF Inside
    <3> QED BY <3>3, <3>4 DEF Alike, Span, Tag, Status, NextOf, PrevOf
  <2> DEFINE C == B \cup {alloc}
  <2>10. /\ Core(M1, k3, C, end) /\ alloc \notin B
         /\ \A d \in B \ {cur} : Alike(h.mem, k3, d)
         /\ Span(k3, cur) = rest /\ Span(k3, alloc) = need
         /\ Status(k3, cur) = Status(h.mem, cur)
         /\ NextOf(k3, cur) = NextOf(h.mem, cur) /\ PrevOf(k3, cur) = PrevOf(h.mem, cur)
    <3>1. k3 = WithSpan(k2, cur + rest, Span(h.mem, cur) - rest)
          /\ Span(h.mem, cur) - rest >= 2 /\ Span(h.mem, cur) - rest = need
      BY <1>2 DEF k3
    <3> HIDE DEF rest, need, s, alloc, C
    <3>2. /\ Core(M1, k3, B \cup {cur + rest}, end) /\ cur + rest \notin B
          /\ \A d \in B \ {cur} : Alike(h.mem, k3, d)
          /\ Span(k3, cur) = rest /\ Span(k3, cur + rest) = Span(h.mem, cur) - rest
          /\ Status(k3, cur) = Status(k2, cur)
          /\ NextOf(k3, cur) = NextOf(k2, cur) /\ PrevOf(k3, cur) = PrevOf(k2, cur)
      BY <1>1, <1>2, <1>4, <2>7, <2>8, <2>9, <3>1, SpanSplits
    <3> QED BY <2>8, <3>1, <3>2 DEF alloc, C
  <2>11. alloc \in C /\ C \ {alloc} = B /\ 1 \in {0, 1} /\ -1 \in Ptrs(M1)
    BY <2>10 DEF Ptrs
  <2> HIDE DEF C, alloc, rest, need, s
  <2>12. Core(M1, k4, C, end) /\ (\A d \in B : Alike(k3, k4, d))
         /\ Span(k4, alloc) = need /\ Status(k4, alloc) = 1
    BY <1>1, <2>10, <2>11, StatusWritten DEF k4
  <2>13. Core(M1, k5, C, end) /\ (\A d \in B : Alike(k4, k5, d))
         /\ Span(k5, alloc) = need /\ Status(k5, alloc) = 1
    BY <1>1, <2>11, <2>12, NextWritten DEF k5
  <2>14. Core(M1, k6, C, end) /\ (\A d \in B : Alike(k5, k6, d))
         /\ Span(k6, alloc) = need /\ Status(k6, alloc) = 1
    BY <1>1, <2>11, <2>13, PrevWritten DEF k6
  <2>15. \A d \in B : Alike(k3, k6, d)
    BY <2>12, <2>13, <2>14 DEF Alike, Inside
  <2>16. ASSUME NEW d \in B \ {cur} PROVE Alike(h.mem, k6, d)
    <3>1. Alike(h.mem, k3, d) /\ Alike(k3, k6, d)
      BY <2>10, <2>15
    <3> QED BY <3>1 DEF Alike, Inside
  <2>17. /\ NextOf(k6, cur) = NextOf(h.mem, cur) /\ PrevOf(k6, cur) = PrevOf(h.mem, cur)
         /\ Status(k6, cur) = Status(h.mem, cur) /\ Span(k6, cur) = rest
    BY <1>1, <2>10, <2>15 DEF Alike
  <2>18. Listed(M1, k6, OneHead(h), {0}, OneBin, C, F, end)
    <3>1. ASSUME NEW d \in F
          PROVE  /\ NextOf(k6, d) = NextOf(h.mem, d) /\ PrevOf(k6, d) = PrevOf(h.mem, d)
                 /\ Status(k6, d) = Status(h.mem, d)
                 /\ Span(k6, d) \in Nat /\ Span(h.mem, d) \in Nat
      <4>1. CASE d = cur
        BY <1>1, <1>2, <2>17, <4>1 DEF s
      <4>2. CASE d # cur
        <5>1. d \in B \ {cur}
          BY <1>1, <4>2
        <5> QED BY <2>3, <2>16, <5>1 DEF Alike
      <4> QED BY <4>1, <4>2
    <3>2. \A d \in F : /\ NextOf(k6, d) = NextOf(h.mem, d) /\ PrevOf(k6, d) = PrevOf(h.mem, d)
                       /\ Status(k6, d) = Status(h.mem, d)
                       /\ OneBin[Span(k6, d)] = OneBin[Span(h.mem, d)]
      BY <3>1 DEF OneBin
    <3>3. F \subseteq C
      BY <1>1 DEF C
    <3> QED BY <1>1, <2>14, <3>2, <3>3, ListedStays
  <2>19. Listed1(x.heap, C, F, end)
    BY <2>2, <2>18 DEF Listed1, OneHead
  <2>20. Coalesced(k6, F)
    <3>1. ASSUME NEW d \in F PROVE d + Span(k6, d) \notin F
      <4>1. CASE d = cur
        BY <1>1, <2>10, <2>17, <4>1 DEF alloc
      <4>2. CASE d # cur
        <5>1. d \in B \ {cur}
          BY <1>1, <4>2
        <5> QED BY <2>16, <5>1 DEF Alike, Coalesced
      <4> QED BY <4>1, <4>2
    <3> QED BY <3>1 DEF Coalesced
  <2>21. Kept(h.mem, k6, B \ F)
    <3>1. \A d \in B \ F : Alike(h.mem, k6, d)
      BY <2>16
    <3> QED BY <3>1, AlikeKept
  <2>22. alloc \notin B \ F /\ C \ F = (B \ F) \cup {alloc}
    BY <1>1, <2>10 DEF C
  <2>23. Span(k6, alloc) >= r + 2
    BY <1>2, <2>14 DEF need
  <2>24. /\ Kept(h.mem, x.heap.mem, B \ F) /\ Coalesced(x.heap.mem, F)
         /\ Status(x.heap.mem, x.block) = 1 /\ Span(x.heap.mem, x.block) >= r + 2
    BY <2>2, <2>14, <2>20, <2>21, <2>23
  <2>25. x.block \notin B \ F /\ C \ F = (B \ F) \cup {x.block}
    BY <2>2, <2>22
  <2> QED BY <2>19, <2>24, <2>25
<1>5. rest < 2 \/ rest >= 2
  BY <1>2
<1> QED BY <1>3, <1>4, <1>5

\* A walk along a list, as the manager's search makes it.
LEMMA Walk1 ==
  ASSUME NEW m, NEW head
  PROVE  LET f == Mgr1!ListFrom(m, head)
         IN Walks(M1, m, head, f)
<1>1. \E f : Walks(M1, m, head, f)
  BY M1Number, WalkExists
<1>2. Walks(M1, m, head, CHOOSE f : Walks(M1, m, head, f))
  BY <1>1
<1>3. Mgr1!ListFrom(m, head) = CHOOSE f : Walks(M1, m, head, f)
  BY DEF Walks, Mgr1!ListFrom, WalkBody, Mgr1!NULL, Mgr1!get_next_free, NextOf, M1
<1> QED BY <1>2, <1>3

\* The search of heapmgr1 finds a block that is large enough if one is free.
LEMMA FirstFit1 ==
  ASSUME NEW h, NEW B, NEW F, NEW end, Listed1(h, B, F, end), NEW need \in Nat,
         NEW cur, cur = Mgr1!first_fit(h, need)
  PROVE  IF cur = -1 THEN \A c \in F : Span(h.mem, c) < need
         ELSE cur \in F /\ Span(h.mem, cur) >= need
<1> DEFINE f == Mgr1!ListFrom(h.mem, h.head)
           found == {i \in 0 .. M1 : f[i] # -1 /\ Span(h.mem, f[i]) >= need}
<1>1. Core(M1, h.mem, B, end) /\ F \subseteq B /\ M1 \in Nat
      /\ \A b \in {0} : Linked(h.mem, OneHead(h)[b], InBin(h.mem, OneBin, F, b))
  BY M1Number DEF Listed1, Listed
<1>2. InBin(h.mem, OneBin, F, 0) = F /\ OneHead(h)[0] = h.head
  <2>1. \A c \in F : Span(h.mem, c) \in Nat
    BY <1>1, CoreApart
  <2> QED BY <2>1 DEF InBin, OneBin, OneHead
<1>3. Linked(h.mem, h.head, F)
  BY <1>1, <1>2
<1>4. F \subseteq 0 .. M1 - 1 /\ \A c \in F : Span(h.mem, c) \in Nat
  BY <1>1, CoreApart
<1>5. Walks(M1, h.mem, h.head, f)
  BY Walk1
<1>6. {f[i] : i \in 0 .. M1} \ {-1} = F
  <2> HIDE DEF f
  <2>1. WalkedOver(M1, h.mem, F, f)
    BY <1>1, <1>3, <1>4, <1>5, LinkedWalk
  <2> QED BY <2>1 DEF WalkedOver
<1>7. cur = IF found = {} THEN -1 ELSE f[CHOOSE i \in found : \A j \in found : i <= j]
  BY DEF Mgr1!first_fit, Mgr1!fits, Mgr1!get_span, Mgr1!NULL, Span, M1
<1> HIDE DEF f
<1>8. CASE found = {}
  <2>1. \A c \in F : Span(h.mem, c) < need
    BY <1>4, <1>6, <1>8
  <2> QED BY <1>7, <1>8, <2>1
<1>9. CASE found # {}
  <2>1. PICK i \in found : \A j \in found : i <= j
    <3>1. found \subseteq Nat
      OBVIOUS
    <3> HIDE DEF found
    <3> QED BY <1>9, <3>1, LeastNumber
  <2>2. (CHOOSE l \in found : \A j \in found : l <= j) \in found
    BY <2>1
  <2> DEFINE l == CHOOSE l \in found : \A j \in found : l <= j
  <2>3. cur = f[l] /\ l \in 0 .. M1 /\ f[l] # -1 /\ Span(h.mem, f[l]) >= need
    BY <1>7, <1>9, <2>2
  <2> HIDE DEF l
  <2>4. f[l] \in F
    BY <1>6, <2>3
  <2> QED BY <2>3, <2>4
<1> QED BY <1>8, <1>9

-----------------------------------------------------------------------------
(* What the validity checks find.                                          *)

Valid(m, c, end) ==
  /\ Span(m, c) >= 2 /\ c + Span(m, c) - 1 < end /\ Tag(m, c) = Span(m, c)

BlocksOf(M, m, end) ==
  LET from[c \in 0 .. M] ==
        IF c >= end THEN {}
        ELSE {c} \cup IF Valid(m, c, end) THEN from[c + Span(m, c)] ELSE {}
  IN from[0]

\* Walking the spans from one end finds the blocks, and each is valid.
LEMMA BlocksFound ==
  ASSUME NEW M \in Nat, NEW m, NEW B, NEW end, Core(M, m, B, end)
  PROVE  BlocksOf(M, m, end) = B /\ \A c \in B : Valid(m, c, end)
<1> DEFINE V == {c \in 0 .. M : Valid(m, c, end)}
           Is(f) == f = [c \in 0 .. M |->
                           IF c >= end THEN {}
                           ELSE {c} \cup IF Valid(m, c, end) THEN f[c + Span(m, c)] ELSE {}]
<1>1. m \in Mem(M) /\ end \in 0 .. M /\ Tiled(m, B, end)
  BY DEF Core, Tiled
<1>2. ASSUME NEW c \in 0 .. M, c \in V, c < end
      PROVE  Span(m, c) \in Nat /\ c + Span(m, c) <= end
  <2>1. Span(m, c) \in {-7} \cup 0 .. M
    BY <1>1, <1>2 DEF Mem, Span
  <2> QED BY <1>1, <1>2, <2>1 DEF Valid
<1>3. ASSUME NEW f PROVE Is(f) <=> Lays(M, m, end, V, f)
  <2>1. ASSUME NEW c \in 0 .. M
        PROVE  BlocksBody(f, m, end, V, c) =
                 IF c >= end THEN {}
                 ELSE {c} \cup IF Valid(m, c, end) THEN f[c + Span(m, c)] ELSE {}
    BY DEF BlocksBody
  <2> QED BY <2>1 DEF Lays
<1>4. \E f : Lays(M, m, end, V, f)
  <2> HIDE DEF V
  <2> QED BY <1>1, <1>2, BlocksExist
<1>5. Is(CHOOSE f : Is(f))
  <2>1. \E f : Is(f)
    <3> HIDE DEF Is
    <3> QED BY <1>3, <1>4
  <2> HIDE DEF Is
  <2> QED BY <2>1
<1>6. BlocksOf(M, m, end) = (CHOOSE f : Is(f))[0]
  BY DEF BlocksOf
<1>7. \A c \in B : Valid(m, c, end) /\ c \in V
  <2>1. ASSUME NEW c \in B PROVE Valid(m, c, end) /\ c \in 0 .. M
    BY CoreApart DEF Valid, Core
  <2> QED BY <2>1
<1> DEFINE f == CHOOSE f : Is(f)
<1>8. Lays(M, m, end, V, f)
  <2> HIDE DEF Is, V
  <2> QED BY <1>3, <1>5
<1> HIDE DEF f, V, Is
<1>9. f[0] = B
  <2>1. B \subseteq V
    BY <1>7
  <2> QED BY <1>1, <1>8, <2>1, BlocksAre
<1> QED BY <1>6, <1>7, <1>9 DEF f

\* The blocks marked free are those on the lists.
LEMMA FreeFound ==
  ASSUME NEW M, NEW m, NEW hd, NEW I, NEW ix, NEW B, NEW F, NEW end, NEW has,
         Listed(M, m, hd, I, ix, B, F, end), Owned(m, B, F, has)
  PROVE  {c \in B : Status(m, c) = 0} = F
<1>1. \A c \in B \ F : Status(m, c) = 1
  BY OwnedMarked
<1> QED BY <1>1 DEF Listed

-----------------------------------------------------------------------------
(* The steps of heapmgr1.                                                  *)

\* B are the blocks of a heap and F the free ones.
Holds1(h, has, end, B, F) ==
  Listed1(h, B, F, end) /\ Coalesced(h.mem, F) /\ Owned(h.mem, B, F, has)

Inv1 == \E B, F : Holds1(heap, live, s_heap_hi, B, F)

\* A free block of g, which is the heap or what it has grown to, is given.
LEMMA Taken1 ==
  ASSUME NEW B, NEW F, Owned(heap.mem, B, F, live),
         NEW g, NEW C, NEW G, NEW end, Listed1(g, C, G, end), Coalesced(g.mem, G),
         C \ G = B \ F, Kept(heap.mem, g.mem, B \ F),
         NEW cur \in G, NEW r \in Requests, Span(g.mem, cur) >= r + 2,
         NEW a, a = Mgr1!do_alloc(g, cur, r + 2), Mgr1!Give(a, r)
  PROVE  \E B2, F2 : Holds1(heap', live', end, B2, F2)
<1>0. r \in Nat /\ M1 \in Nat
  BY UnitsOK, M1Number
<1>1. PICK B2, F2 : /\ Listed1(a.heap, B2, F2, end)
                    /\ a.block \notin B \ F /\ B2 \ F2 = (B \ F) \cup {a.block}
                    /\ Kept(g.mem, a.heap.mem, B \ F) /\ Coalesced(a.heap.mem, F2)
                    /\ Status(a.heap.mem, a.block) = 1
                    /\ Span(a.heap.mem, a.block) >= r + 2
  <2>1. Allocates1(g, a, C, G, end, r)
    BY <1>0, Allocated1
  <2> QED BY <2>1 DEF Allocates1
<1>2. Listed(M1, a.heap.mem, OneHead(a.heap), {0}, OneBin, B2, F2, end)
      /\ a.heap = [mem |-> a.heap.mem, head |-> a.heap.head]
  BY <1>1 DEF Listed1
<1>3. a.block \in Nat
  <2>1. a.block \in B2
    BY <1>1
  <2> QED BY <1>0, <1>2, <2>1, CoreApart DEF Listed
<1>4. /\ heap' = [mem |-> GivenMem(M1, a.heap.mem, a.block, r), head |-> a.heap.head]
      /\ live' = live \cup {[at |-> a.block + 1, n |-> r]}
  <2> DEFINE p == a.block + 1
  <2>1. heap' = [a.heap EXCEPT !.mem = [u \in 0 .. M1 - 1 |->
                  IF u \in p .. p + r - 1 THEN Bytes ELSE a.heap.mem[u]]]
    BY DEF Mgr1!Give, Mgr1!Addresses, Mgr1!Data, Bytes, M1
  <2>2. p .. p + r - 1 = a.block + 1 .. a.block + r
    BY <1>0, <1>3
  <2> HIDE DEF p
  <2>3. heap' = [a.heap EXCEPT !.mem = GivenMem(M1, a.heap.mem, a.block, r)]
    BY <2>1, <2>2 DEF GivenMem
  <2> QED BY <1>2, <2>3 DEF Mgr1!Give
<1>5. Kept(heap.mem, a.heap.mem, B \ F)
  BY <1>1, KeptTwice
<1> DEFINE n == heap'.mem
<1>6. n = GivenMem(M1, a.heap.mem, a.block, r)
  BY <1>4
<1> HIDE DEF n
<1>7. Managed(M1, n, OneHead(a.heap), {0}, OneBin, B2, F2, end,
              live \cup {[at |-> a.block + 1, n |-> r]})
  BY <1>0, <1>1, <1>2, <1>5, <1>6, ManagedMalloc
<1>8. OneHead(heap') = OneHead(a.heap) /\ heap' = [mem |-> heap'.mem, head |-> heap'.head]
  BY <1>4 DEF OneHead
<1>9. Holds1(heap', live', end, B2, F2)
  BY <1>4, <1>7, <1>8 DEF Holds1, Listed1, Managed, n
<1> QED BY <1>9

\* heapmgr_malloc of heapmgr1, when a free block is large enough.
LEMMA MallocFits1 ==
  ASSUME Inv1, NEW r \in Requests, Mgr1!MallocFits(r)
  PROVE  Inv1' /\ s_heap_hi' = s_heap_hi
<1>1. PICK B, F : Holds1(heap, live, s_heap_hi, B, F)
  BY DEF Inv1
<1> DEFINE cur == Mgr1!first_fit(heap, r + 2)
<1>2. /\ cur # -1 /\ Mgr1!Give(Mgr1!do_alloc(heap, cur, r + 2), r)
      /\ s_heap_hi' = s_heap_hi
  BY DEF Mgr1!MallocFits, Mgr1!need_span, Mgr1!NULL
<1>3. r \in Nat /\ Listed1(heap, B, F, s_heap_hi) /\ Coalesced(heap.mem, F)
      /\ Owned(heap.mem, B, F, live)
  BY <1>1, UnitsOK DEF Holds1
<1>4. cur \in F /\ Span(heap.mem, cur) >= r + 2
  <2>1. r + 2 \in Nat
    BY <1>3
  <2>2. IF cur = -1 THEN \A c \in F : Span(heap.mem, c) < r + 2
        ELSE cur \in F /\ Span(heap.mem, cur) >= r + 2
    BY <1>3, <2>1, FirstFit1
  <2> HIDE DEF cur
  <2> QED BY <1>2, <2>2
<1> HIDE DEF cur
<1>5. Kept(heap.mem, heap.mem, B \ F)
  BY DEF Kept, Inside
<1>6. \E B2, F2 : Holds1(heap', live', s_heap_hi, B2, F2)
  BY <1>2, <1>3, <1>4, <1>5, Taken1
<1> QED BY <1>2, <1>6 DEF Inv1

\* heapmgr_malloc of heapmgr1, when the heap has to grow: no free block fits.
LEMMA MallocGrows1 ==
  ASSUME Inv1, NEW r \in Requests, Mgr1!MallocGrows(r)
  PROVE  Inv1' /\ Mgr1!NoBlockFits
<1>1. PICK B, F : Holds1(heap, live, s_heap_hi, B, F)
  BY DEF Inv1
<1> DEFINE x == Mgr1!sys_grow(heap, r)
           g == Mgr1!grow_span(r)
<1>2. /\ Mgr1!first_fit(heap, r + 2) = -1
      /\ s_heap_hi + g <= M1 /\ s_heap_hi' = s_heap_hi + g
      /\ Mgr1!Give(Mgr1!do_alloc(x, x.head, r + 2), r)
  BY DEF Mgr1!MallocGrows, Mgr1!need_span, Mgr1!NULL, M1
<1>3. r \in Nat /\ Listed1(heap, B, F, s_heap_hi) /\ Coalesced(heap.mem, F)
      /\ Owned(heap.mem, B, F, live)
  BY <1>1, UnitsOK DEF Holds1
<1>4. \A c \in F : Span(heap.mem, c) < r + 2
  <2>1. r + 2 \in Nat
    BY <1>3
  <2> QED BY <1>2, <1>3, <2>1, FirstFit1
<1>5. \A d \in B \ F : Status(heap.mem, d) = 1
  BY <1>3, OwnedMarked
<1>6. x = Mgr1!sys_grow(heap, r) /\ g = Mgr1!grow_span(r)
  OBVIOUS
<1> HIDE DEF x, g
<1>7. PICK C, G : /\ Listed1(x, C, G, s_heap_hi + g) /\ C \ G = B \ F
                  /\ Kept(heap.mem, x.mem, B \ F)
                  /\ Coalesced(x.mem, G)
                  /\ x.head \in G /\ Span(x.mem, x.head) >= r + 2
  <2>1. Grows1(heap, x, B, F, s_heap_hi + g, r)
    BY <1>2, <1>3, <1>5, <1>6, Grown1
  <2> QED BY <2>1 DEF Grows1
<1>8. \E B2, F2 : Holds1(heap', live', s_heap_hi + g, B2, F2)
  BY <1>2, <1>3, <1>7, Taken1
<1>9. Mgr1!TheBlocks = B /\ Mgr1!FreeBlocks = F
  <2>1. Core(M1, heap.mem, B, s_heap_hi) /\ M1 \in Nat
        /\ Listed(M1, heap.mem, OneHead(heap), {0}, OneBin, B, F, s_heap_hi)
    BY <1>3, M1Number DEF Listed1, Listed
  <2>2. BlocksOf(M1, heap.mem, s_heap_hi) = B
    BY <2>1, BlocksFound
  <2>3. Mgr1!TheBlocks = BlocksOf(M1, heap.mem, s_heap_hi)
    BY DEF Mgr1!TheBlocks, Mgr1!Blocks, BlocksOf, Mgr1!is_valid, Valid, Mgr1!get_span, Span,
       Mgr1!get_footer, Tag, M1
  <2>4. {c \in B : Status(heap.mem, c) = 0} = F
    BY <1>3, <2>1, FreeFound
  <2> QED BY <2>2, <2>3, <2>4 DEF Mgr1!FreeBlocks, Mgr1!get_status, Status, Mgr1!CHUNK_FREE
<1>10. Mgr1!NoBlockFits
  <2>1. \A a \in live' \ live : a.n = r
    BY <1>2 DEF Mgr1!Give
  <2> QED BY <1>4, <1>9, <2>1 DEF Mgr1!NoBlockFits, Mgr1!get_span, Span
<1> QED BY <1>2, <1>8, <1>10 DEF Inv1

\* heapmgr_free of heapmgr1, with what it joins.
LEMMA Free1 ==
  ASSUME Inv1, NEW a \in live, Mgr1!Free(a)
  PROVE  Inv1' /\ s_heap_hi' = s_heap_hi
<1>1. PICK B, F : Holds1(heap, live, s_heap_hi, B, F)
  BY DEF Inv1
<1> DEFINE c == a.at - 1
           y == Mgr1!right_joined(heap, c)
<1>2. /\ heap' = Mgr1!free_joined(y, c) /\ live' = live \ {a} /\ s_heap_hi' = s_heap_hi
  BY DEF Mgr1!Free
<1>3. /\ Listed1(heap, B, F, s_heap_hi) /\ Coalesced(heap.mem, F)
      /\ Owned(heap.mem, B, F, live) /\ M1 \in Nat
      /\ Core(M1, heap.mem, B, s_heap_hi)
  BY <1>1, M1Number DEF Holds1, Listed1, Listed
<1>4. c \in B \ F
  BY <1>3 DEF Owned
<1>5. \A d \in B \ F : Status(heap.mem, d) = 1
  BY <1>3, OwnedMarked
<1>6. y = Mgr1!right_joined(heap, c)
  OBVIOUS
<1> HIDE DEF c, y
<1>7. PICK C, G : /\ Listed1(y, C, G, s_heap_hi) /\ C \ G = B \ F
                  /\ Kept(heap.mem, y.mem, (B \ F) \ {c})
                  /\ Coalesced(y.mem, G) /\ c + Span(y.mem, c) \notin G
  <2>1. c \in B /\ c \notin F
    BY <1>4
  <2>2. RightJoins1(heap, y, B, F, c)
    BY <1>3, <1>5, <1>6, <2>1, RightJoined1
  <2> QED BY <2>2 DEF RightJoins1
<1>8. PICK B2, F2 : /\ Listed1(heap', B2, F2, s_heap_hi) /\ B2 \ F2 = (C \ G) \ {c}
                    /\ Kept(y.mem, heap'.mem, (C \ G) \ {c})
                    /\ Coalesced(heap'.mem, F2)
  <2>1. c \in C /\ c \notin G
    BY <1>4, <1>7
  <2>2. \A d \in (C \ G) \ {c} : Status(y.mem, d) = 1
    BY <1>5, <1>7 DEF Kept
  <2> QED BY <1>2, <1>7, <2>1, <2>2, FreeJoined1
<1>9. Kept(heap.mem, heap'.mem, (B \ F) \ {c}) /\ B2 \ F2 = (B \ F) \ {c}
  <2>1. Kept(y.mem, heap'.mem, (B \ F) \ {c})
    BY <1>7, <1>8
  <2> QED BY <1>7, <1>8, <2>1, KeptTwice
<1>10. Owned(heap'.mem, B2, F2, live \ {a})
  BY <1>3, <1>9, OwnedFree DEF c
<1>11. Holds1(heap', live', s_heap_hi', B2, F2)
  BY <1>2, <1>8, <1>10 DEF Holds1
<1> QED BY <1>2, <1>11 DEF Inv1

\* heapmgr1 starts with an empty heap that holds its invariant.
LEMMA Init1 ==
  ASSUME Mgr1!Init
  PROVE  Inv1
<1> DEFINE m == [u \in 0 .. M1 - 1 |-> Bytes]
<1>1. heap = [mem |-> m, head |-> -1] /\ s_heap_hi = 0 /\ live = {}
  BY DEF Mgr1!Init, Mgr1!Addresses, Mgr1!Data, Mgr1!NULL, Mgr1!s_heap_lo, Bytes, M1
<1>2. m \in Mem(M1)
  BY DEF Mem, Ptrs, Bytes
<1> HIDE DEF m
<1>3. Core(M1, m, {}, 0)
  BY <1>2, M1Number DEF Core, Tiled
<1>4. Linked(m, -1, {})
  <2>1. Ranked(m, {}, [n \in Nat |-> 0], 0)
    BY DEF Ranked
  <2> QED BY <2>1 DEF Linked
<1>5. heap.mem = m /\ heap.head = -1 /\ heap = [mem |-> heap.mem, head |-> heap.head]
  BY <1>1
<1>6. Listed(M1, m, OneHead(heap), {0}, OneBin, {}, {}, 0)
  <2>1. InBin(m, OneBin, {}, 0) = {} /\ OneHead(heap)[0] = -1
    BY <1>5 DEF InBin, OneHead
  <2>2. \A s \in 2 .. M1 : OneBin[s] \in {0}
    BY DEF OneBin
  <2>3. OneHead(heap) = [b \in {0} |-> OneHead(heap)[b]]
    BY DEF OneHead
  <2> QED BY <1>3, <1>4, <2>1, <2>2, <2>3 DEF Listed
<1>7. Coalesced(m, {}) /\ Owned(m, {}, {}, {})
  BY DEF Coalesced, Owned
<1>8. Holds1(heap, live, s_heap_hi, {}, {})
  BY <1>1, <1>5, <1>6, <1>7 DEF Holds1, Listed1
<1> QED BY <1>8 DEF Inv1

\* What an invariant of a manager gives the program.
Apart(has, M, m) ==
  /\ \A a \in has : a.at \in 0 .. M - 1 /\ UnitsOf(a) \subseteq 0 .. M - 1
  /\ \A a, b \in has : a # b => UnitsOf(a) \cap UnitsOf(b) = {}
  /\ \A a \in has : \A u \in UnitsOf(a) : m[u] = Bytes

\* In a heap that holds the invariant of heapmgr1, its heap check passes.
LEMMA Valid1 ==
  ASSUME Inv1
  PROVE  Mgr1!HeapValid /\ Apart(live, M1, heap.mem)
<1>1. PICK B, F : Holds1(heap, live, s_heap_hi, B, F)
  BY DEF Inv1
<1>2. /\ Listed1(heap, B, F, s_heap_hi) /\ Coalesced(heap.mem, F)
      /\ Owned(heap.mem, B, F, live) /\ M1 \in Nat
      /\ Core(M1, heap.mem, B, s_heap_hi) /\ F \subseteq B
      /\ Listed(M1, heap.mem, OneHead(heap), {0}, OneBin, B, F, s_heap_hi)
      /\ \A e \in F : Status(heap.mem, e) = 0
  BY <1>1, M1Number DEF Holds1, Listed1, Listed
<1>3. BlocksOf(M1, heap.mem, s_heap_hi) = B /\ \A c \in B : Valid(heap.mem, c, s_heap_hi)
  BY <1>2, BlocksFound
<1>4. {c \in B : Status(heap.mem, c) = 0} = F
  BY <1>2, FreeFound
<1>5. Mgr1!Blocks(heap.mem, s_heap_hi) = B
  <2>1. Mgr1!Blocks(heap.mem, s_heap_hi) = BlocksOf(M1, heap.mem, s_heap_hi)
    BY DEF Mgr1!Blocks, BlocksOf, Mgr1!is_valid, Valid, Mgr1!get_span, Span,
       Mgr1!get_footer, Tag, M1
  <2> QED BY <1>3, <2>1
<1>6. Mgr1!TheBlocks = B /\ Mgr1!FreeBlocks = F
  BY <1>4, <1>5 DEF Mgr1!TheBlocks, Mgr1!FreeBlocks, Mgr1!get_status, Status, Mgr1!CHUNK_FREE
<1>7. InBin(heap.mem, OneBin, F, 0) = F /\ OneHead(heap)[0] = heap.head
  <2>1. \A c \in F : Span(heap.mem, c) \in Nat
    BY <1>2, CoreApart
  <2> QED BY <2>1 DEF InBin, OneBin, OneHead
<1>8. Linked(heap.mem, heap.head, F) /\ F \subseteq 0 .. M1 - 1
  BY <1>2, <1>7, CoreApart DEF Listed
<1> DEFINE f == Mgr1!ListFrom(heap.mem, heap.head)
<1>9. WalkedOver(M1, heap.mem, F, f)
  <2>1. Walks(M1, heap.mem, heap.head, f)
    BY Walk1
  <2> HIDE DEF f
  <2> QED BY <1>2, <1>8, <2>1, LinkedWalk
<1>10. Mgr1!FreeListExact
  <2>1. Mgr1!ListSound(heap.mem, heap.head)
    BY <1>9 DEF WalkedOver, Mgr1!ListSound, Mgr1!get_prev_free, Mgr1!get_footer,
       Mgr1!get_span, Mgr1!NULL, PrevOf, M1
  <2>2. Mgr1!OnList(heap.mem, heap.head) = F
    BY <1>9 DEF WalkedOver, Mgr1!OnList, Mgr1!NULL, M1
  <2> QED BY <1>6, <2>1, <2>2 DEF Mgr1!FreeListExact
<1>11. Mgr1!HeapSound(heap.mem, s_heap_hi)
  <2>1. ASSUME NEW c \in B PROVE Mgr1!is_valid(heap.mem, c, s_heap_hi)
    BY <1>3 DEF Mgr1!is_valid, Valid, Mgr1!get_span, Span, Mgr1!get_footer, Tag
  <2>2. ASSUME NEW c \in B, Status(heap.mem, c) = 0, NextAt(heap.mem, c, s_heap_hi) # -1
        PROVE  Status(heap.mem, NextAt(heap.mem, c, s_heap_hi)) # 0
    <3>1. NextAt(heap.mem, c, s_heap_hi) = c + Span(heap.mem, c)
          /\ c + Span(heap.mem, c) \in B
      BY <1>2, <2>2, NextIsBlock
    <3>2. c \in F
      BY <1>4, <2>2
    <3> QED BY <1>2, <1>4, <3>1, <3>2 DEF Coalesced
  <2> QED BY <1>5, <2>1, <2>2 DEF Mgr1!HeapSound, Mgr1!next_phys, NextAt, Mgr1!get_status,
             Status, Mgr1!get_span, Span, Mgr1!NULL, Mgr1!CHUNK_FREE
<1>12. Apart(live, M1, heap.mem)
  BY <1>2, OwnedApart DEF Apart
<1>13. Mgr1!UsedExact
  BY <1>2, <1>6 DEF Owned, Mgr1!UsedExact, Mgr1!get_span, Span
<1>14. Mgr1!TypeOK
  <2>1. heap.mem \in [Mgr1!Addresses -> [first : {-7} \cup 0 .. M1,
                                         second : {-7} \cup 0 .. M1,
                                         ptr : {-7, -1} \cup Mgr1!Addresses]]
    BY <1>2 DEF Core, Mem, Ptrs, Mgr1!Addresses, M1
  <2>2. heap.head \in {-1} \cup Mgr1!Addresses
    BY <1>8 DEF Linked, Mgr1!Addresses, M1
  <2>3. s_heap_hi \in 0 .. M1
    BY <1>2 DEF Core, Tiled
  <2>4. live \subseteq [at : Mgr1!Addresses, n : Requests]
    <3>1. \A a \in live : a \in [at : Nat, n : Requests] /\ a.at \in 0 .. M1 - 1
      BY <1>2, <1>12 DEF Owned, Apart
    <3> QED BY <3>1 DEF Mgr1!Addresses, M1
  <2> QED BY <2>1, <2>2, <2>3, <2>4 DEF Mgr1!TypeOK, Mgr1!NULL, M1
<1> QED BY <1>10, <1>11, <1>12, <1>13, <1>14 DEF Mgr1!HeapValid

\* What a call does with what the program has.
Calls(has, has2) ==
  \/ \E r \in Requests : \E at : has2 = has \cup {[at |-> at, n |-> r]}
  \/ \E a \in has : has2 = has \ {a}

\* Each step of heapmgr1 keeps its invariant, is a call, and grows only if it must.
LEMMA Next1 ==
  ASSUME Inv1, Mgr1!Next
  PROVE  /\ Inv1' /\ Calls(live, live')
         /\ s_heap_hi' # s_heap_hi => Mgr1!NoBlockFits
<1>1. ASSUME NEW r \in Requests, Mgr1!MallocFits(r)
      PROVE  Inv1' /\ Calls(live, live') /\ s_heap_hi' = s_heap_hi
  BY <1>1, MallocFits1 DEF Mgr1!MallocFits, Mgr1!Give, Calls
<1>2. ASSUME NEW r \in Requests, Mgr1!MallocGrows(r)
      PROVE  Inv1' /\ Calls(live, live') /\ Mgr1!NoBlockFits
  BY <1>2, MallocGrows1 DEF Mgr1!MallocGrows, Mgr1!Give, Calls
<1>3. ASSUME NEW a \in live, Mgr1!Free(a)
      PROVE  Inv1' /\ Calls(live, live') /\ s_heap_hi' = s_heap_hi
  BY <1>3, Free1 DEF Mgr1!Free, Calls
<1> QED BY <1>1, <1>2, <1>3 DEF Mgr1!Next

\* In heapmgr1, what the program wrote and still has is all that it has.
LEMMA Written1 ==
  ASSUME Apart(live, M1, heap.mem)
  PROVE  Mgr1!writtenBar = UNION {UnitsOf(a) : a \in live}
  BY DEF Mgr1!writtenBar, Apart, UnitsOf, Mgr1!Addresses, Mgr1!Data, Bytes, M1

\* The invariant of heapmgr1 is about nothing but the variables.
LEMMA Stutters1 ==
  ASSUME Inv1, UNCHANGED vars
  PROVE  Inv1'
  BY DEF Inv1, vars

-----------------------------------------------------------------------------
(* From the steps of a manager to those of the contract.                   *)

Everywhere == UNION {0 .. MaxUnits[m] - 1 : m \in Managers}

\* A call that leaves the objects apart, and what is in them, is one of the contract.
LEMMA CallIsStep ==
  ASSUME NEW b \in Managers, NEW c \in Managers, NEW m, NEW n,
         Apart(live, MaxUnits[b], m), Apart(live', MaxUnits[c], n), Calls(live, live'),
         writtenBar = UNION {UnitsOf(a) : a \in live},
         writtenBar' = UNION {UnitsOf(a) : a \in live'}
  PROVE  [Contract!Next]_<<live, writtenBar>>
<1>1. CASE \E r \in Requests : \E at : live' = live \cup {[at |-> at, n |-> r]}
  <2>4. PICK r \in Requests : \E at : live' = live \cup {[at |-> at, n |-> r]}
    BY <1>1
  <2>1. PICK at : live' = live \cup {[at |-> at, n |-> r]}
    BY <2>4
  <2> DEFINE a == [at |-> at, n |-> r]
  <2>2. CASE a \in live
    <3>1. live' = live
      BY <2>1, <2>2
    <3> QED BY <3>1
  <2>3. CASE a \notin live
    <3>1. /\ a \in live' /\ a.at \in Everywhere /\ UnitsOf(a) \subseteq Everywhere
          /\ a.at = at
      BY <2>1 DEF Apart, Everywhere
    <3>2. \A d \in live : UnitsOf(a) \cap UnitsOf(d) = {}
      BY <2>1, <2>3 DEF Apart
    <3>3. writtenBar' = writtenBar \cup UnitsOf(a)
      BY <2>1
    <3>4. Contract!Malloc(r)
      BY <2>1, <3>1, <3>2, <3>3 DEF Contract!Malloc, Contract!Units, UnitsOf, Everywhere
    <3> QED BY <3>4 DEF Contract!Next
  <2> QED BY <2>2, <2>3
<1>2. CASE \E a \in live : live' = live \ {a}
  <2>1. PICK a \in live : live' = live \ {a}
    BY <1>2
  <2>2. \A d \in live : d # a => UnitsOf(a) \cap UnitsOf(d) = {}
    BY <2>1 DEF Apart
  <2>3. writtenBar' = writtenBar \ UnitsOf(a)
    BY <2>1, <2>2
  <2>4. Contract!Free(a)
    BY <2>1, <2>3 DEF Contract!Free, Contract!Units, UnitsOf
  <2> QED BY <2>4 DEF Contract!Next
<1> QED BY <1>1, <1>2 DEF Calls

-----------------------------------------------------------------------------
(* heapmgr2: a list for each bin.  The bins of the larger spans are those  *)
(* of the number of halvings.                                              *)

M2 == MaxUnits["heapmgr2"]
Bins2 == 0 .. EXACT_BINS + LOG_BINS - 1
BinOf == [s \in Nat |-> Mgr2!get_bin_index(s)]

\* The bounds of heapmgr2 are numbers.
LEMMA M2Number == /\ M2 \in Nat /\ Growth["heapmgr2"] \in Nat \ {0}
                  /\ EXACT_BINS \in Nat \ {0} /\ LOG_BINS \in Nat \ {0}
  BY UnitsOK DEF M2, Managers

Halves(M, f) == f = [s \in 0 .. M |-> IF s <= 1 THEN 0 ELSE 1 + f[s \div 2]]

\* The recursive count of halvings has a value.
LEMMA HalvesExists ==
  ASSUME NEW M \in Nat
  PROVE  \E f : Halves(M, f)
<1> DEFINE S == {k \in Nat : \E f : Halves(k, f)}
<1>1. 0 \in S
  <2>1. Halves(0, [s \in 0 .. 0 |-> 0])
    BY DEF Halves
  <2> QED BY <2>1
<1>2. ASSUME NEW k \in Nat, k \in S PROVE k + 1 \in S
  <2>1. PICK f : Halves(k, f)
    BY <1>2
  <2> DEFINE g == [s \in 0 .. k + 1 |->
                     IF s <= k THEN f[s] ELSE IF s <= 1 THEN 0 ELSE 1 + f[s \div 2]]
  <2>2. ASSUME NEW s \in 0 .. k + 1
        PROVE  g[s] = IF s <= 1 THEN 0 ELSE 1 + g[s \div 2]
    <3>1. s >= 2 => s \div 2 \in 0 .. k /\ g[s \div 2] = f[s \div 2]
      OBVIOUS
    <3>2. s <= k => f[s] = IF s <= 1 THEN 0 ELSE 1 + f[s \div 2]
      BY <2>1 DEF Halves
    <3> QED BY <3>1, <3>2
  <2>3. Halves(k + 1, g)
    BY <2>2 DEF Halves
  <2> HIDE DEF g
  <2> QED BY <2>3
<1> HIDE DEF S
<1>3. M \in S
  BY <1>1, <1>2, SetInduction
<1> QED BY <1>3 DEF S

\* Halving a larger number takes at least as often.
LEMMA HalvesGrow ==
  ASSUME NEW M \in Nat, NEW f, Halves(M, f)
  PROVE  \A t \in 0 .. M : f[t] \in Nat /\ \A s \in 0 .. t : f[s] <= f[t]
<1> DEFINE Good(t) == f[t] \in Nat /\ \A s \in 0 .. t : f[s] \in Nat /\ f[s] <= f[t]
           S == {k \in Nat : \A t \in 0 .. k : t <= M => Good(t)}
<1>0. \A s \in 0 .. M : f[s] = IF s <= 1 THEN 0 ELSE 1 + f[s \div 2]
  BY DEF Halves
<1>1. 0 \in S
  BY <1>0
<1>2. ASSUME NEW k \in Nat, k \in S PROVE k + 1 \in S
  <2> SUFFICES ASSUME k + 1 <= M PROVE Good(k + 1)
    BY <1>2
  <2>1. \A t \in 0 .. k : Good(t)
    BY <1>2
  <2> HIDE DEF Good, S
  <2>2. f[k + 1] \in Nat
    BY <1>0, <2>1 DEF Good
  <2>3. ASSUME NEW s \in 0 .. k + 1 PROVE f[s] \in Nat /\ f[s] <= f[k + 1]
    <3>1. CASE s = k + 1
      BY <2>2, <3>1
    <3>2. CASE s <= 1
      BY <1>0, <2>2, <3>2
    <3>3. CASE s >= 2 /\ s <= k
      <4>1. f[s] = 1 + f[s \div 2] /\ f[k + 1] = 1 + f[(k + 1) \div 2] /\ f[s] \in Nat
        BY <1>0, <2>1, <3>3 DEF Good
      <4>2. (k + 1) \div 2 \in 0 .. k /\ s \div 2 \in 0 .. (k + 1) \div 2
        BY <3>3
      <4>3. Good((k + 1) \div 2)
        BY <2>1, <4>2
      <4> QED BY <4>1, <4>2, <4>3 DEF Good
    <3> QED BY <3>1, <3>2, <3>3
  <2> QED BY <2>2, <2>3 DEF Good
<1>3. Nat \subseteq S
  <2> HIDE DEF S
  <2> QED BY <1>1, <1>2, SetInduction
<1> QED BY <1>3

\* halvings of heapmgr2 is that count.
LEMMA Halvings == Halves(M2, Mgr2!halvings)
<1>1. \E f : Halves(M2, f)
  BY M2Number, HalvesExists
<1>2. Halves(M2, CHOOSE f : Halves(M2, f))
  BY <1>1
<1>3. Mgr2!halvings = CHOOSE f : Halves(M2, f)
  BY DEF Mgr2!halvings, Halves, M2
<1> QED BY <1>2, <1>3

\* Division by the number of exact bins keeps the order of the sizes.
LEMMA Divided ==
  ASSUME NEW e \in Nat \ {0}, NEW a \in Nat
  PROVE  /\ a \div e \in 0 .. a
         /\ \A b \in Nat : b <= a => b \div e <= a \div e
  BY Z3

\* Every span has its bin, and a larger span none before it.
LEMMA BinsGrow ==
  /\ \A s \in 2 .. M2 : BinOf[s] \in Bins2
  /\ \A s, t \in 2 .. M2 : s <= t => BinOf[s] <= BinOf[t]
<1> DEFINE E == EXACT_BINS
           k(s) == Mgr2!halvings[s \div E]
<1>1. E \in Nat \ {0} /\ LOG_BINS \in Nat \ {0} /\ M2 \in Nat
  BY M2Number
<1>2. ASSUME NEW s \in 2 .. M2
      PROVE  /\ BinOf[s] = IF s < 2 + E THEN s - 2
                           ELSE E + IF k(s) < LOG_BINS THEN k(s) ELSE LOG_BINS - 1
             /\ k(s) \in Nat
  <2>1. s \div E \in 0 .. M2
    BY <1>1, Divided
  <2>2. k(s) \in Nat
    BY <1>1, <2>1, Halvings, HalvesGrow
  <2> QED BY <2>2 DEF BinOf, Mgr2!get_bin_index
<1>3. ASSUME NEW s \in 2 .. M2, NEW t \in 2 .. M2, s <= t PROVE k(s) <= k(t)
  <2>1. s \div E \in Nat /\ t \div E \in 0 .. M2 /\ s \div E <= t \div E
    BY <1>1, <1>3, Divided
  <2> HIDE DEF E
  <2> QED BY <1>1, <2>1, Halvings, HalvesGrow
<1> HIDE DEF k
<1>4. \A s \in 2 .. M2 : BinOf[s] \in Bins2
  BY <1>1, <1>2 DEF Bins2
<1>5. ASSUME NEW s \in 2 .. M2, NEW t \in 2 .. M2, s <= t PROVE BinOf[s] <= BinOf[t]
  BY <1>1, <1>2, <1>3, <1>5
<1> QED BY <1>4, <1>5

Listed2(h, B, F, end) ==
  h = [mem |-> h.mem, bins |-> h.bins] /\ Listed(M2, h.mem, h.bins, Bins2, BinOf, B, F, end)

\* insert of heapmgr2 puts c in the bin of its size and keeps all other blocks.
LEMMA Inserted2 ==
  ASSUME NEW h, NEW B, NEW F, NEW end, Listed2(h, B, F, end), NEW c \in B \ F,
         NEW x, x = Mgr2!insert(h, c)
  PROVE  /\ Listed2(x, B, F \cup {c}, end)
         /\ Kept(h.mem, x.mem, B \ {c}) /\ Span(x.mem, c) = Span(h.mem, c)
<1> DEFINE b == BinOf[Span(h.mem, c)]
<1>1. Listed(M2, h.mem, h.bins, Bins2, BinOf, B, F, end) /\ M2 \in Nat
  BY M2Number DEF Listed2
<1>2. b = Mgr2!get_bin_index(Mgr2!get_span(h.mem, c))
  <2>1. Span(h.mem, c) \in Nat
    BY <1>1, CoreApart DEF Listed
  <2> QED BY <2>1 DEF BinOf, Mgr2!get_span, Span
<1> HIDE DEF b
<1>3. x = [mem |-> InsertMem(h.mem, c, h.bins[b]), bins |-> [h.bins EXCEPT ![b] = c]]
  <2>1. Mgr2!insert(h, c) =
          LET m == Mgr2!set_prev_free(Mgr2!set_next_free(
                     Mgr2!set_status(h.mem, c, 0), c, h.bins[b]), c, -1)
          IN [mem |-> IF h.bins[b] # -1 THEN Mgr2!set_prev_free(m, h.bins[b], c) ELSE m,
              bins |-> [h.bins EXCEPT ![b] = c]]
    BY <1>2 DEF Mgr2!insert, Mgr2!NULL, Mgr2!CHUNK_FREE
  <2> QED BY <2>1 DEF InsertMem, Mgr2!set_prev_free, Mgr2!set_next_free,
     Mgr2!set_status, Mgr2!get_footer, Mgr2!get_span, WithStatus, WithNext, WithPrev
<1>4. Inserts(h.mem, h.bins, BinOf, c, x.mem, x.bins)
  BY <1>3 DEF Inserts, b
<1>5. Inserting(M2, h.mem, x.mem, x.bins, Bins2, BinOf, B, F, c, end)
  BY <1>1, <1>4, ListedInsert
<1> QED BY <1>3, <1>5 DEF Inserting, Listed2

\* detach of heapmgr2 takes c out of its bin and keeps all other blocks.
LEMMA Detached2 ==
  ASSUME NEW h, NEW B, NEW F, NEW end, Listed2(h, B, F, end), NEW c \in F,
         NEW x, x = Mgr2!detach(h, c)
  PROVE  /\ Listed2(x, B, F \ {c}, end)
         /\ Kept(h.mem, x.mem, B \ {c}) /\ Span(x.mem, c) = Span(h.mem, c)
         /\ Status(x.mem, c) = 1
<1> DEFINE b == BinOf[Span(h.mem, c)]
           p == PrevOf(h.mem, c)
           q == NextOf(h.mem, c)
<1>1. Listed(M2, h.mem, h.bins, Bins2, BinOf, B, F, end) /\ M2 \in Nat
  BY M2Number DEF Listed2
<1>2. b = Mgr2!get_bin_index(Mgr2!get_span(h.mem, c))
  <2>1. Span(h.mem, c) \in Nat
    BY <1>1, CoreApart DEF Listed
  <2> QED BY <2>1 DEF BinOf, Mgr2!get_span, Span
<1> HIDE DEF b
<1>3. x = [mem |-> DetachMem(h.mem, c),
           bins |-> IF p # -1 THEN h.bins ELSE [h.bins EXCEPT ![b] = q]]
  <2>1. p = Mgr2!get_prev_free(h.mem, c) /\ q = Mgr2!get_next_free(h.mem, c)
    BY DEF Mgr2!get_prev_free, Mgr2!get_next_free, Mgr2!get_footer, Mgr2!get_span,
       NextOf, PrevOf
  <2> HIDE DEF p, q
  <2>2. Mgr2!detach(h, c) = [Mgr2!linked(h, p, q, b) EXCEPT !.mem =
                               Mgr2!set_status(Mgr2!unlinked(@, c), c, 1)]
    BY <1>2, <2>1 DEF Mgr2!detach, Mgr2!CHUNK_USED
  <2>3. Mgr2!linked(h, p, q, b) =
          [mem |-> LinkedMem(h.mem, p, q),
           bins |-> IF p # -1 THEN h.bins ELSE [h.bins EXCEPT ![b] = q]]
    BY DEF Mgr2!linked, LinkedMem, Mgr2!set_prev_free, Mgr2!set_next_free,
       Mgr2!get_footer, Mgr2!get_span, Mgr2!NULL, WithNext, WithPrev
  <2>4. Mgr2!set_status(Mgr2!unlinked(LinkedMem(h.mem, p, q), c), c, 1)
          = DetachMem(h.mem, c)
    BY DEF DetachMem, p, q, Mgr2!unlinked, Mgr2!set_prev_free, Mgr2!set_next_free,
       Mgr2!set_status, Mgr2!get_footer, Mgr2!get_span, Mgr2!NULL,
       WithStatus, WithNext, WithPrev
  <2> QED BY <2>2, <2>3, <2>4
<1>4. Detaches(h.mem, h.bins, BinOf, c, x.mem, x.bins)
  <2>1. h.bins = [a \in Bins2 |-> h.bins[a]]
    BY <1>1 DEF Listed
  <2>2. h.bins = [h.bins EXCEPT ![b] = h.bins[b]]
    BY <2>1
  <2>3. x.bins = [h.bins EXCEPT ![b] = HeadWithout(h.mem, h.bins[b], c)]
    BY <1>3, <2>2 DEF HeadWithout
  <2> QED BY <1>3, <2>3 DEF Detaches, b
<1>5. Detaching(M2, h.mem, x.mem, x.bins, Bins2, BinOf, B, F, c, end)
  BY <1>1, <1>4, ListedDetach
<1> QED BY <1>3, <1>5 DEF Detaching, Listed2

RightJoins2(h, x, B, F, c) ==
  \E B2, F2 : /\ Listed2(x, B2, F2, s_heap_hi) /\ B2 \ F2 = B \ F
              /\ Kept(h.mem, x.mem, (B \ F) \ {c})
              /\ Coalesced(x.mem, F2) /\ c + Span(x.mem, c) \notin F2

\* The block above c, if it is free, becomes part of c.
LEMMA RightJoined2 ==
  ASSUME NEW h, NEW B, NEW F, Listed2(h, B, F, s_heap_hi), NEW c \in B, c \notin F,
         Coalesced(h.mem, F), \A d \in B \ F : Status(h.mem, d) = 1,
         NEW x, x = Mgr2!right_joined(h, c)
  PROVE  RightJoins2(h, x, B, F, c)
<1> USE DEF RightJoins2
<1> DEFINE d == c + Span(h.mem, c)
           y == Mgr2!detach(h, d)
<1>1. /\ Core(M2, h.mem, B, s_heap_hi) /\ F \subseteq B /\ M2 \in Nat
      /\ \A e \in F : Status(h.mem, e) = 0
  BY M2Number DEF Listed2, Listed
<1>2. /\ \/ NextAt(h.mem, c, s_heap_hi) = -1 /\ d = s_heap_hi
         \/ NextAt(h.mem, c, s_heap_hi) = d /\ d \in B /\ d # -1 /\ d # c
      /\ s_heap_hi \notin B
  <2>1. s_heap_hi \notin B
    BY <1>1, CoreApart
  <2> QED BY <1>1, <2>1, NextIsBlock
<1>3. x = IF NextAt(h.mem, c, s_heap_hi) # -1 /\ Status(h.mem, NextAt(h.mem, c, s_heap_hi)) = 0
          THEN [Mgr2!detach(h, NextAt(h.mem, c, s_heap_hi)) EXCEPT !.mem =
                  WithSpan(@, c, Span(@, c) + Span(@, NextAt(h.mem, c, s_heap_hi)))]
          ELSE h
  BY DEF Mgr2!right_joined, Mgr2!next_phys, Mgr2!get_status, Mgr2!get_span, Mgr2!set_span,
     Mgr2!NULL, Mgr2!CHUNK_FREE, NextAt, Span, Status, WithSpan
<1>4. CASE d \in F
  <2>1. x = [y EXCEPT !.mem = WithSpan(@, c, Span(@, c) + Span(@, d))]
    BY <1>1, <1>2, <1>3, <1>4
  <2> HIDE DEF y
  <2>2. /\ Listed2(y, B, F \ {d}, s_heap_hi) /\ Kept(h.mem, y.mem, B \ {d})
        /\ Span(y.mem, d) = Span(h.mem, d)
    BY <1>4, Detached2 DEF y
  <2>3. y = [mem |-> y.mem, bins |-> y.bins]
        /\ Listed(M2, y.mem, y.bins, Bins2, BinOf, B, F \ {d}, s_heap_hi)
    BY <2>2 DEF Listed2
  <2>4. /\ x = [mem |-> x.mem, bins |-> x.bins] /\ x.bins = y.bins
        /\ x.mem = WithSpan(y.mem, c, Span(y.mem, c) + Span(y.mem, d))
    BY <2>1, <2>3
  <2>5. c \in B \ (F \ {d}) /\ d \in B \ (F \ {d}) /\ c # d
        /\ Span(y.mem, c) = Span(h.mem, c)
    BY <1>1, <1>2, <1>4, <2>2 DEF Kept
  <2>6. d = c + Span(y.mem, c)
    BY <2>5
  <2> HIDE DEF d
  <2>7. /\ Listed(M2, x.mem, y.bins, Bins2, BinOf, B \ {d}, F \ {d}, s_heap_hi)
        /\ Kept(y.mem, x.mem, B \ {c, d})
        /\ Span(x.mem, c) = Span(y.mem, c) + Span(y.mem, d)
    <3>1. Joining(M2, y.mem, x.mem, y.bins, Bins2, BinOf, B, F \ {d}, c, d, s_heap_hi)
      BY <1>1, <2>3, <2>4, <2>5, <2>6, ListedJoins
    <3> QED BY <3>1 DEF Joining
  <2>8. Listed2(x, B \ {d}, F \ {d}, s_heap_hi)
    BY <2>4, <2>7 DEF Listed2
  <2>9. Kept(h.mem, x.mem, B \ {c, d})
    <3>1. Kept(h.mem, y.mem, B \ {c, d})
      BY <2>2, KeptFewer
    <3> QED BY <2>7, <3>1, KeptTwice
  <2>10. Coalesced(x.mem, F \ {d})
    <3>1. \A e \in F \ {d} : Span(x.mem, e) = Span(h.mem, e)
      BY <1>1, <2>9 DEF Kept
    <3> QED BY <3>1, CoalescedFewer
  <2>11. c + Span(x.mem, c) \notin F \ {d}
    <3>1. c + Span(x.mem, c) = d + Span(h.mem, d)
      <4>1. c \in Nat /\ Span(h.mem, c) \in Nat /\ Span(h.mem, d) \in Nat
        BY <1>1, <1>4, CoreApart
      <4> QED BY <4>1, <2>2, <2>5, <2>7 DEF d
    <3> QED BY <1>4, <3>1 DEF Coalesced
  <2>12. (B \ {d}) \ (F \ {d}) = B \ F /\ Kept(h.mem, x.mem, (B \ F) \ {c})
    <3>1. (B \ F) \ {c} \subseteq B \ {c, d}
      BY <1>4
    <3> QED BY <1>4, <2>9, <3>1, KeptFewer
  <2> QED BY <2>8, <2>10, <2>11, <2>12
<1>5. CASE d \notin F
  <2>1. x = h
    BY <1>1, <1>2, <1>3, <1>5
  <2>2. Kept(h.mem, x.mem, (B \ F) \ {c})
    BY <2>1 DEF Kept, Inside
  <2> QED BY <1>5, <2>1, <2>2
<1> QED BY <1>4, <1>5

\* The block below c, if it is free, takes c in; or c goes on the list itself.
LEMMA FreeJoined2 ==
  ASSUME NEW h, NEW B, NEW F, NEW end, Listed2(h, B, F, end), NEW c \in B, c \notin F,
         Coalesced(h.mem, F), c + Span(h.mem, c) \notin F,
         \A d \in (B \ F) \ {c} : Status(h.mem, d) = 1,
         NEW x, x = Mgr2!free_joined(h, c)
  PROVE  \E B2, F2 : /\ Listed2(x, B2, F2, end) /\ B2 \ F2 = (B \ F) \ {c}
                     /\ Kept(h.mem, x.mem, (B \ F) \ {c})
                     /\ Coalesced(x.mem, F2)
<1> DEFINE p == PrevAt(h.mem, c)
           y == Mgr2!detach(h, p)
           z == [y EXCEPT !.mem = WithSpan(@, p, Span(@, p) + Span(@, c))]
<1>1. /\ Core(M2, h.mem, B, end) /\ F \subseteq B /\ M2 \in Nat
      /\ \A e \in F : Status(h.mem, e) = 0
  BY M2Number DEF Listed2, Listed
<1>2. /\ \/ p = -1 /\ c = 0
         \/ p \in B /\ p + Span(h.mem, p) = c /\ p # -1 /\ p # c
      /\ \A e \in B : e + Span(h.mem, e) = c => p = e
  BY <1>1, PrevIsBlock
<1>3. x = IF p # -1 /\ Status(h.mem, p) = 0 THEN Mgr2!insert(z, p)
          ELSE Mgr2!insert(h, c)
  BY DEF Mgr2!free_joined, Mgr2!prev_phys, Mgr2!s_heap_lo, Mgr2!get_status, Mgr2!get_span,
     Mgr2!set_span, Mgr2!NULL, Mgr2!CHUNK_FREE, PrevAt, Span, Status, WithSpan
<1>4. -1 \notin B /\ (c \in Nat /\ Span(h.mem, c) \in Nat \ {0})
  BY <1>1, CoreApart
<1>5. CASE p \in F
  <2>1. x = Mgr2!insert(z, p) /\ p + Span(h.mem, p) = c /\ p # c /\ p \in B
    BY <1>1, <1>2, <1>3, <1>4, <1>5
  <2> HIDE DEF y, p
  <2>2. /\ Listed2(y, B, F \ {p}, end) /\ Kept(h.mem, y.mem, B \ {p})
        /\ Span(y.mem, p) = Span(h.mem, p)
    BY <1>5, Detached2 DEF y
  <2>3. y = [mem |-> y.mem, bins |-> y.bins]
        /\ Listed(M2, y.mem, y.bins, Bins2, BinOf, B, F \ {p}, end)
    BY <2>2 DEF Listed2
  <2>4. /\ z = [mem |-> z.mem, bins |-> z.bins] /\ z.bins = y.bins
        /\ z.mem = WithSpan(y.mem, p, Span(y.mem, p) + Span(y.mem, c))
    BY <2>3
  <2> HIDE DEF z
  <2>5. p \in B \ (F \ {p}) /\ c \in B \ (F \ {p}) /\ c = p + Span(y.mem, p)
        /\ Span(y.mem, c) = Span(h.mem, c)
    BY <2>1, <2>2 DEF Kept
  <2>6. /\ Listed(M2, z.mem, y.bins, Bins2, BinOf, B \ {c}, F \ {p}, end)
        /\ Kept(y.mem, z.mem, B \ {p, c})
        /\ Span(z.mem, p) = Span(y.mem, p) + Span(y.mem, c)
    <3>1. Joining(M2, y.mem, z.mem, y.bins, Bins2, BinOf, B, F \ {p}, p, c, end)
      BY <1>1, <2>3, <2>4, <2>5, ListedJoins
    <3> QED BY <3>1 DEF Joining
  <2>7. Listed2(z, B \ {c}, F \ {p}, end)
    BY <2>4, <2>6 DEF Listed2
  <2>8. p \in (B \ {c}) \ (F \ {p})
    BY <2>1
  <2>9. /\ Listed2(x, B \ {c}, (F \ {p}) \cup {p}, end)
        /\ Kept(z.mem, x.mem, (B \ {c}) \ {p}) /\ Span(x.mem, p) = Span(z.mem, p)
    BY <2>1, <2>7, <2>8, Inserted2
  <2>10. Kept(h.mem, x.mem, B \ {p, c})
    <3>1. Kept(h.mem, y.mem, B \ {p, c})
      BY <2>2, KeptFewer
    <3>2. Kept(h.mem, z.mem, B \ {p, c})
      BY <2>6, <3>1, KeptTwice
    <3>3. (B \ {c}) \ {p} = B \ {p, c}
      OBVIOUS
    <3> QED BY <2>9, <3>2, <3>3, KeptTwice
  <2>11. (F \ {p}) \cup {p} = F
    BY <1>5
  <2>12. Coalesced(x.mem, F)
    <3>1. ASSUME NEW e \in F PROVE e + Span(x.mem, e) \notin F
      <4>1. CASE e = p
        <5>1. p \in Nat /\ Span(h.mem, p) \in Nat
          BY <1>1, <2>1, CoreApart
        <5>2. p + Span(x.mem, p) = c + Span(h.mem, c)
          BY <1>4, <2>1, <2>2, <2>5, <2>6, <2>9, <5>1
        <5> QED BY <4>1, <5>2
      <4>2. CASE e # p
        BY <1>1, <2>10, <4>2 DEF Kept, Coalesced
      <4> QED BY <4>1, <4>2
    <3> QED BY <3>1 DEF Coalesced
  <2>13. (B \ {c}) \ F = (B \ F) \ {c} /\ Kept(h.mem, x.mem, (B \ F) \ {c})
    <3>1. (B \ F) \ {c} \subseteq B \ {p, c}
      BY <1>5
    <3> QED BY <2>10, <3>1, KeptFewer
  <2> QED BY <2>9, <2>11, <2>12, <2>13
<1>6. CASE p \notin F
  <2>1. x = Mgr2!insert(h, c)
    BY <1>2, <1>3, <1>6
  <2> HIDE DEF p
  <2>2. /\ Listed2(x, B, F \cup {c}, end) /\ Kept(h.mem, x.mem, B \ {c})
        /\ Span(x.mem, c) = Span(h.mem, c)
    BY <2>1, Inserted2
  <2>3. Coalesced(x.mem, F \cup {c})
    <3>1. ASSUME NEW e \in F \cup {c} PROVE e + Span(x.mem, e) \notin F \cup {c}
      <4>1. CASE e = c
        BY <1>4, <2>2, <4>1
      <4>2. CASE e \in F
        <5>1. Span(x.mem, e) = Span(h.mem, e)
          BY <1>1, <2>2, <4>2 DEF Kept
        <5> QED BY <1>1, <1>2, <1>6, <4>2, <5>1 DEF Coalesced
      <4> QED BY <4>1, <4>2
    <3> QED BY <3>1 DEF Coalesced
  <2>4. B \ (F \cup {c}) = (B \ F) \ {c} /\ Kept(h.mem, x.mem, (B \ F) \ {c})
    BY <2>2, KeptFewer
  <2> QED BY <2>2, <2>3, <2>4
<1> QED BY <1>5, <1>6

Grows2(h, x, B, F, end, r) ==
  \E B2, F2 : /\ Listed2(x.heap, B2, F2, end) /\ B2 \ F2 = B \ F
              /\ Kept(h.mem, x.heap.mem, B \ F)
              /\ Coalesced(x.heap.mem, F2)
              /\ x.block \in F2 /\ Span(x.heap.mem, x.block) >= r + 2

\* sbrk's block goes on the list, or the free block below it takes it in.
LEMMA Grown2 ==
  ASSUME NEW B, NEW F, NEW h, Listed2(h, B, F, s_heap_hi), Coalesced(h.mem, F),
         \A d \in B \ F : Status(h.mem, d) = 1,
         NEW r \in Nat, NEW g, g = Mgr2!grow_span(r), s_heap_hi + g <= M2,
         NEW x, x = Mgr2!sys_grow(h, r)
  PROVE  Grows2(h, x, B, F, s_heap_hi + g, r)
<1> USE DEF Grows2
<1> DEFINE c == s_heap_hi
           end == s_heap_hi + g
           C == B \cup {c}
           m == NewMem(h.mem, c, g)
           k == [h EXCEPT !.mem = m]
           p == PrevAt(m, c)
           y == Mgr2!detach(k, p)
           z == [y EXCEPT !.mem = WithSpan(@, p, Span(@, p) + g)]
<1>0. g \in Nat /\ g >= r + 2 /\ M2 \in Nat
  BY M2Number DEF Mgr2!grow_span
<1>1. h = [mem |-> h.mem, bins |-> h.bins]
      /\ Listed(M2, h.mem, h.bins, Bins2, BinOf, B, F, c)
      /\ F \subseteq B /\ Core(M2, h.mem, B, c)
      /\ \A e \in F : Status(h.mem, e) = 0
  BY DEF Listed2, Listed
<1>2. /\ Listed(M2, m, h.bins, Bins2, BinOf, C, F, end) /\ c \notin B
      /\ \A d \in B : Alike(h.mem, m, d)
      /\ Span(m, c) = g /\ Status(m, c) = 0
  <2>1. g >= 2
    BY <1>0
  <2>2. Growing(M2, h.mem, m, h.bins, Bins2, BinOf, B, F, c, g)
    BY <1>0, <1>1, <2>1, ListedGrows
  <2> QED BY <2>2 DEF Growing
<1>3. k = [mem |-> m, bins |-> h.bins] /\ k.mem = m
  BY <1>1
<1>4. Listed2(k, C, F, end)
  BY <1>2, <1>3 DEF Listed2
<1>5. x = IF p # -1 /\ Status(m, p) = 0 THEN [heap |-> Mgr2!insert(z, p), block |-> p]
          ELSE [heap |-> Mgr2!insert(k, c), block |-> c]
  <2>1. m = Mgr2!unlinked(Mgr2!set_status(
                Mgr2!set_span(h.mem, s_heap_hi, Mgr2!grow_span(r)), s_heap_hi,
                Mgr2!CHUNK_FREE), s_heap_hi)
    BY DEF Mgr2!set_span, Mgr2!set_status, Mgr2!unlinked, Mgr2!set_next_free,
       Mgr2!set_prev_free, Mgr2!get_footer, Mgr2!get_span, Mgr2!NULL, Mgr2!CHUNK_FREE,
       WithSpan, WithStatus, WithNext, WithPrev, NewMem
  <2> HIDE DEF m
  <2>2. p = Mgr2!prev_phys(m, c, Mgr2!s_heap_lo)
    BY DEF PrevAt, Mgr2!prev_phys, Mgr2!s_heap_lo, Mgr2!NULL
  <2> HIDE DEF p
  <2>3. y = Mgr2!detach([h EXCEPT !.mem = m], p)
    OBVIOUS
  <2> HIDE DEF y
  <2>4. z = [y EXCEPT !.mem = Mgr2!set_span(y.mem, p, Mgr2!get_span(y.mem, p)
                                                        + Mgr2!grow_span(r))]
    BY DEF WithSpan, Span, Mgr2!get_span, Mgr2!set_span
  <2> HIDE DEF z
  <2>5. Status(m, p) = Mgr2!get_status(m, p) /\ Mgr2!NULL = -1 /\ Mgr2!CHUNK_FREE = 0
    BY DEF Status, Mgr2!get_status, Mgr2!NULL, Mgr2!CHUNK_FREE
  <2> QED BY <2>1, <2>2, <2>3, <2>4, <2>5 DEF Mgr2!sys_grow
<1> HIDE DEF m, k
<1>6. Core(M2, m, C, end) /\ c \in C /\ B \subseteq C /\ c \in Nat /\ -1 \notin C
  <2>1. Core(M2, m, C, end) /\ c \in C /\ B \subseteq C
    BY <1>2 DEF Listed
  <2> HIDE DEF C, end
  <2>2. \A d \in C : d \in 0 .. M2 - 1
    BY <1>0, <2>1, CoreApart
  <2>3. c \in 0 .. M2 - 1 /\ -1 \notin 0 .. M2 - 1
    BY <2>1, <2>2
  <2> QED BY <1>0, <2>1, <2>2, <2>3
<1>7. /\ \/ p = -1 /\ c = 0
         \/ p \in C /\ p + Span(m, p) = c /\ p # -1 /\ p # c
      /\ \A e \in C : e + Span(m, e) = c => p = e
  BY <1>0, <1>6, PrevIsBlock
<1>8. \A e \in B : Span(m, e) = Span(h.mem, e) /\ Status(m, e) = Status(h.mem, e)
                   /\ e < c /\ Inside(h.mem, m, e)
  <2>1. \A e \in B : e < c
    BY <1>0, <1>1, CoreApart
  <2> QED BY <1>2, <2>1 DEF Alike
<1>9. CASE p \in F
  <2>1. /\ x.heap = Mgr2!insert(z, p) /\ x.block = p /\ p + Span(m, p) = c
        /\ p # c /\ p \in B /\ p \in C
    BY <1>1, <1>5, <1>6, <1>7, <1>8, <1>9
  <2> HIDE DEF y, p, C, end, c
  <2>2. /\ Listed2(y, C, F \ {p}, end) /\ Kept(m, y.mem, C \ {p})
        /\ Span(y.mem, p) = Span(m, p)
    <3>1. y = Mgr2!detach(k, p)
      BY DEF y
    <3>2. /\ Listed2(y, C, F \ {p}, end) /\ Kept(k.mem, y.mem, C \ {p})
          /\ Span(y.mem, p) = Span(k.mem, p)
      BY <1>4, <1>9, <3>1, Detached2
    <3> QED BY <1>3, <3>2
  <2>3. y = [mem |-> y.mem, bins |-> y.bins]
        /\ Listed(M2, y.mem, y.bins, Bins2, BinOf, C, F \ {p}, end)
    BY <2>2 DEF Listed2
  <2>5. p \in C \ (F \ {p}) /\ c \in C \ (F \ {p}) /\ c = p + Span(y.mem, p)
        /\ Span(y.mem, c) = g
    BY <1>1, <1>2, <1>6, <2>1, <2>2 DEF Kept
  <2>4. /\ z = [mem |-> z.mem, bins |-> z.bins] /\ z.bins = y.bins
        /\ z.mem = WithSpan(y.mem, p, Span(y.mem, p) + Span(y.mem, c))
    BY <2>3, <2>5
  <2> HIDE DEF z
  <2>6. /\ Listed(M2, z.mem, y.bins, Bins2, BinOf, C \ {c}, F \ {p}, end)
        /\ Kept(y.mem, z.mem, C \ {p, c})
        /\ Span(z.mem, p) = Span(y.mem, p) + Span(y.mem, c)
    <3>1. Joining(M2, y.mem, z.mem, y.bins, Bins2, BinOf, C, F \ {p}, p, c, end)
      BY <1>0, <2>3, <2>4, <2>5, ListedJoins
    <3> QED BY <3>1 DEF Joining
  <2>7. Listed2(z, C \ {c}, F \ {p}, end)
    BY <2>4, <2>6 DEF Listed2
  <2>8. p \in (C \ {c}) \ (F \ {p})
    BY <2>1
  <2>9. /\ Listed2(x.heap, C \ {c}, (F \ {p}) \cup {p}, end)
        /\ Kept(z.mem, x.heap.mem, (C \ {c}) \ {p}) /\ Span(x.heap.mem, p) = Span(z.mem, p)
        /\ x.block = p
    <3>1. x.heap = Mgr2!insert(z, p) /\ x.block = p
      BY <2>1
    <3>2. /\ Listed2(x.heap, C \ {c}, (F \ {p}) \cup {p}, end)
          /\ Kept(z.mem, x.heap.mem, (C \ {c}) \ {p}) /\ Span(x.heap.mem, p) = Span(z.mem, p)
      <4>1. \A w : w = Mgr2!insert(z, p) =>
              /\ Listed2(w, C \ {c}, (F \ {p}) \cup {p}, end)
              /\ Kept(z.mem, w.mem, (C \ {c}) \ {p}) /\ Span(w.mem, p) = Span(z.mem, p)
        BY ONLY <2>7, <2>8, Inserted2, SMTT(30)
      <4> QED BY ONLY <3>1, <4>1
    <3> QED BY <3>1, <3>2
  <2>10. Kept(m, x.heap.mem, C \ {p, c})
    <3>1. Kept(m, y.mem, C \ {p, c})
      BY <2>2, KeptFewer
    <3>2. Kept(m, z.mem, C \ {p, c})
      BY <2>6, <3>1, KeptTwice
    <3>3. (C \ {c}) \ {p} = C \ {p, c}
      OBVIOUS
    <3> QED BY <2>9, <3>2, <3>3, KeptTwice
  <2>11. (F \ {p}) \cup {p} = F
    BY <1>9
  <2>14. p \in Nat /\ Span(m, p) \in Nat /\ p + Span(x.heap.mem, p) = c + g
         /\ Span(x.heap.mem, p) = Span(m, p) + g
    <3>1. p \in Nat /\ Span(m, p) \in Nat
      BY <1>0, <1>6, <2>1, CoreApart
    <3> QED BY <1>0, <1>6, <2>1, <2>2, <2>5, <2>6, <2>9, <3>1
  <2>12. Coalesced(x.heap.mem, F)
    <3>1. ASSUME NEW e \in F PROVE e + Span(x.heap.mem, e) \notin F
      <4>1. CASE e = p
        <5>1. \A f \in F : f < c + g
          BY <1>0, <1>1, <1>6, <1>8, CoreApart
        <5>2. c + g \in Nat
          BY <1>0, <1>6
        <5> QED BY <2>14, <4>1, <5>1, <5>2
      <4>2. CASE e # p
        <5>1. e \in C \ {p, c} /\ e \in B
          BY <1>1, <1>2, <1>6, <4>2
        <5>2. Span(x.heap.mem, e) = Span(h.mem, e)
          BY <1>8, <2>10, <5>1 DEF Kept
        <5> QED BY <5>2 DEF Coalesced
      <4> QED BY <4>1, <4>2
    <3> QED BY <3>1 DEF Coalesced
  <2>13. (C \ {c}) \ F = B \ F
    BY <1>1, <1>2 DEF C
  <2>15. Kept(h.mem, x.heap.mem, B \ F)
    <3>1. B \ F \subseteq C \ {p, c}
      BY <1>2, <1>6, <1>9
    <3>2. Kept(h.mem, m, B \ F)
      BY <1>2, AlikeKept
    <3>3. Kept(m, x.heap.mem, B \ F)
      BY <2>10, <3>1, KeptFewer
    <3> QED BY <3>2, <3>3, KeptTwice
  <2>16. Span(x.heap.mem, x.block) >= r + 2
    BY <1>0, <2>1, <2>14
  <2> QED BY <1>9, <2>1, <2>9, <2>11, <2>12, <2>13, <2>15, <2>16 DEF end, c
<1>10. CASE p \notin F
  <2>1. x.heap = Mgr2!insert(k, c) /\ x.block = c
    BY <1>5, <1>7, <1>8, <1>10
  <2>0. c \in C /\ c \notin F
    BY <1>1, <1>2
  <2> HIDE DEF p, C, end, c
  <2>2. /\ Listed2(x.heap, C, F \cup {c}, end) /\ Kept(m, x.heap.mem, C \ {c})
        /\ Span(x.heap.mem, c) = g
    BY <1>2, <1>3, <1>4, <2>0, <2>1, Inserted2
  <2>3. Coalesced(x.heap.mem, F \cup {c})
    <3>1. ASSUME NEW e \in F \cup {c} PROVE e + Span(x.heap.mem, e) \notin F \cup {c}
      <4>1. CASE e = c
        <5>1. \A f \in F : f < c
          BY <1>1, <1>8
        <5>2. c + g > c /\ c + g \in Nat
          BY <1>0, <1>6
        <5> QED BY <1>1, <1>6, <2>2, <4>1, <5>1, <5>2, <1>0
      <4>2. CASE e \in F
        <5>0. e \in C \ {c} /\ e \in B
          BY <1>1, <1>2, <1>6, <4>2
        <5>1. Span(x.heap.mem, e) = Span(m, e) /\ Span(m, e) = Span(h.mem, e)
          BY <1>8, <2>2, <5>0 DEF Kept
        <5> QED BY <1>7, <1>10, <4>2, <5>0, <5>1 DEF Coalesced
      <4> QED BY <4>1, <4>2
    <3> QED BY <3>1 DEF Coalesced
  <2>4. C \ (F \cup {c}) = B \ F
    BY <1>1, <1>2 DEF C
  <2>5. Kept(h.mem, x.heap.mem, B \ F)
    <3>1. B \ F \subseteq C \ {c}
      BY <1>2, <1>6
    <3>2. Kept(h.mem, m, B \ F)
      BY <1>2, AlikeKept
    <3>3. Kept(m, x.heap.mem, B \ F)
      BY <2>2, <3>1, KeptFewer
    <3> QED BY <3>2, <3>3, KeptTwice
  <2> QED BY <1>0, <2>1, <2>2, <2>3, <2>4, <2>5 DEF end, c
<1> QED BY <1>9, <1>10

Allocates2(h, x, B, F, end, r) ==
  \E B2, F2 : /\ Listed2(x.heap, B2, F2, end)
              /\ x.block \notin B \ F /\ B2 \ F2 = (B \ F) \cup {x.block}
              /\ Kept(h.mem, x.heap.mem, B \ F) /\ Coalesced(x.heap.mem, F2)
              /\ Status(x.heap.mem, x.block) = 1
              /\ Span(x.heap.mem, x.block) >= r + 2

\* The front of the used block cur, of need units, is cut off; the back is a
\* block of its own.
CutMem(m, cur, need, rest) ==
  LET front == WithPrev(WithNext(WithStatus(WithSpan(m, cur, need), cur, 1), cur, -1), cur, -1)
  IN WithPrev(WithNext(WithSpan(front, cur + need, rest), cur + need, -1), cur + need, -1)

Cutting(M, m, n, hd, I, ix, B, F, end, cur, need) ==
  /\ Listed(M, n, hd, I, ix, B \cup {cur + need}, F, end) /\ cur + need \notin B
  /\ Kept(m, n, B \ {cur}) /\ Status(n, cur) = 1
  /\ Span(n, cur) = need /\ Span(n, cur + need) = Span(m, cur) - need

\* The front of cur alone.
LEMMA FrontCut ==
  ASSUME NEW M \in Nat, NEW m, NEW B, NEW end, Core(M, m, B, end), NEW cur \in B,
         NEW need \in Nat, need >= 2, NEW s, s = Span(m, cur), s - need >= 2,
         NEW x, x = WithPrev(WithNext(WithStatus(WithSpan(m, cur, need), cur, 1), cur, -1),
                             cur, -1)
  PROVE  /\ x \in Mem(M) /\ \A d \in B \ {cur} : Alike(m, x, d)
         /\ Span(x, cur) = need /\ Tag(x, cur) = need /\ Status(x, cur) = 1
<1> DEFINE e == cur + need - 1
           k1 == WithSpan(m, cur, need)
           k2 == WithStatus(k1, cur, 1)
           k3 == WithNext(k2, cur, -1)
<1>1. /\ cur \in 0 .. M - 1 /\ s \in 2 .. M /\ need \in 2 .. M
      /\ e > cur /\ e \in 0 .. M - 1 /\ cur + need - 1 \in 0 .. M - 1 /\ e < cur + s - 1
      /\ \A d \in B \ {cur} : /\ d \in Nat /\ Span(m, d) \in 2 .. M
                              /\ d + Span(m, d) - 1 \in 0 .. M - 1
                              /\ cur + s - 1 < d \/ d + Span(m, d) - 1 < cur
  BY CoreApart
<1>2. m \in Mem(M)
  BY DEF Core
<1>3. k1 = WithSpan(m, cur, need)
  OBVIOUS
<1> HIDE DEF k1
<1>4. /\ k1 \in Mem(M)
      /\ \A u \in 0 .. M - 1 : u # cur /\ u # e => k1[u] = m[u]
      /\ k1[cur].second = need /\ k1[e].first = need
  <2>1. cur + need - 1 \in 0 .. M - 1 /\ cur \in 0 .. M - 1 /\ need \in 2 .. M
    BY <1>1
  <2> HIDE DEF e
  <2>2. /\ k1 \in Mem(M)
        /\ \A u \in 0 .. M - 1 : u # cur /\ u # cur + need - 1 => k1[u] = m[u]
        /\ k1[cur].second = need /\ k1[cur + need - 1].first = need
    <3>1. SpanWriting(M, m, k1, cur, need)
      BY <1>2, <1>3, <2>1, SpanIsWritten
    <3> QED BY <3>1 DEF SpanWriting
  <2> QED BY <2>2 DEF e
<1>5. x = WithPrev(k3, cur, -1)
  BY <1>3
<1>6. k2 = [k1 EXCEPT ![cur].first = 1] /\ k3 = [k2 EXCEPT ![cur].ptr = -1]
  BY DEF WithStatus, WithNext
<1> HIDE DEF k2, k3, e
<1>7. k2 \in Mem(M) /\ k3 \in Mem(M)
  <2>1. 1 \in {-7} \cup 0 .. M /\ -1 \in Ptrs(M)
    BY <1>1 DEF Ptrs
  <2> QED BY <1>1, <1>4, <1>6, <2>1, FirstWrites, PtrWrites
<1>8. /\ \A u \in 0 .. M - 1 : u # cur => k3[u] = k1[u]
      /\ k3[cur].second = need /\ k3[cur].first = 1
  BY <1>1, <1>4, <1>6 DEF Mem
<1>9. x = [k3 EXCEPT ![e].ptr = -1]
  BY <1>5, <1>8 DEF WithPrev, e
<1>10. x \in Mem(M)
  <2>1. -1 \in Ptrs(M)
    BY DEF Ptrs
  <2> QED BY <1>1, <1>7, <1>9, <2>1, PtrWrites
<1>11. /\ \A u \in 0 .. M - 1 : u # cur /\ u # e => x[u] = m[u]
       /\ x[cur].second = need /\ x[cur].first = 1 /\ x[e].first = need
  <2>1. e # cur /\ e \in 0 .. M - 1 /\ cur \in 0 .. M - 1
    BY <1>1
  <2>2. \A u \in 0 .. M - 1 : u # e => x[u] = k3[u]
    BY <1>7, <1>9 DEF Mem
  <2>3. x[e].first = k3[e].first
    BY <1>7, <1>9, <2>1 DEF Mem
  <2>4. x[cur] = k3[cur]
    BY <2>1, <2>2
  <2>5. k3[e] = k1[e]
    BY <1>8, <2>1
  <2>6. ASSUME NEW u \in 0 .. M - 1, u # cur, u # e PROVE x[u] = m[u]
    BY <1>4, <1>8, <2>2, <2>6
  <2> QED BY <1>4, <1>8, <2>3, <2>4, <2>5, <2>6
<1>12. Span(x, cur) = need /\ Tag(x, cur) = need /\ Status(x, cur) = 1
  BY <1>11 DEF Span, Tag, Status, e
<1>13. ASSUME NEW d \in B \ {cur} PROVE Alike(m, x, d)
  <2>1. \A u \in d .. d + Span(m, d) - 1 : x[u] = m[u]
    <3> SUFFICES ASSUME NEW u \in d .. d + Span(m, d) - 1 PROVE x[u] = m[u]
      OBVIOUS
    <3>1. /\ d \in Nat /\ Span(m, d) \in 2 .. M
          /\ d + Span(m, d) - 1 \in 0 .. M - 1
          /\ cur + s - 1 < d \/ d + Span(m, d) - 1 < cur
      BY <1>1
    <3>2. u \in 0 .. M - 1 /\ u # cur /\ u # e
      BY <1>1, <3>1
    <3> QED BY <1>11, <3>2
  <2>2. d \in Int /\ Span(m, d) \in Int /\ Span(m, d) >= 2
    BY <1>1
  <2>3. x[d] = m[d] /\ x[d + Span(m, d) - 1] = m[d + Span(m, d) - 1]
    BY <2>1, <2>2
  <2>4. Inside(m, x, d)
    BY <2>1, <2>2 DEF Inside
  <2> QED BY <2>3, <2>4 DEF Alike, Span, Tag, Status, NextOf, PrevOf
<1> QED BY <1>10, <1>12, <1>13

\* A block cut in two is two blocks, and no list changes.
LEMMA ListedCut ==
  ASSUME NEW M \in Nat, NEW m, NEW hd, NEW I, NEW ix, NEW B, NEW F, NEW end,
         Listed(M, m, hd, I, ix, B, F, end), NEW cur \in B, cur \notin F,
         NEW need \in Nat, need >= 2, Span(m, cur) - need >= 2,
         NEW n, n = CutMem(m, cur, need, Span(m, cur) - need)
  PROVE  Cutting(M, m, n, hd, I, ix, B, F, end, cur, need)
<1> DEFINE s == Span(m, cur)
           b == cur + need
           x == WithPrev(WithNext(WithStatus(WithSpan(m, cur, need), cur, 1),
                                  cur, -1), cur, -1)
           k1 == WithSpan(x, b, s - need)
           k2 == WithNext(k1, b, -1)
           C == B \cup {b}
<1>1. Core(M, m, B, end) /\ F \subseteq B /\ \A d \in F : Status(m, d) = 0
  BY DEF Listed
<1>2. n = WithPrev(k2, b, -1)
  BY DEF CutMem
<1>3. s = Span(m, cur) /\ s - need >= 2 /\ x = WithPrev(WithNext(
        WithStatus(WithSpan(m, cur, need), cur, 1), cur, -1), cur, -1)
  OBVIOUS
<1> HIDE DEF x, s
<1>4. /\ x \in Mem(M) /\ \A d \in B \ {cur} : Alike(m, x, d)
      /\ Span(x, cur) = need /\ Tag(x, cur) = need /\ Status(x, cur) = 1
  BY <1>1, <1>3, FrontCut
<1>5. k1 = WithSpan(x, cur + need, Span(m, cur) - need)
  BY <1>3
<1> HIDE DEF k1
<1>6. /\ Core(M, k1, B \cup {cur + need}, end) /\ cur + need \notin B
      /\ \A d \in B \ {cur} : Alike(m, k1, d)
      /\ Span(k1, cur) = need /\ Span(k1, cur + need) = Span(m, cur) - need
      /\ Status(k1, cur) = Status(x, cur)
  BY <1>1, <1>4, <1>5, SpanSplits
<1>7. /\ Core(M, k1, C, end) /\ b \in C /\ C \ {b} = B /\ -1 \in Ptrs(M)
      /\ Span(k1, b) = s - need
  BY <1>3, <1>6 DEF Ptrs
<1> HIDE DEF k2, C, b
<1>8. Core(M, k2, C, end) /\ (\A d \in B : Alike(k1, k2, d)) /\ Span(k2, b) = s - need
  BY <1>7, NextWritten DEF k2
<1>9. Core(M, n, C, end) /\ (\A d \in B : Alike(k2, n, d)) /\ Span(n, b) = s - need
  BY <1>2, <1>7, <1>8, PrevWritten
<1>10. \A d \in B : Alike(k1, n, d)
  BY <1>8, <1>9 DEF Alike, Inside
<1>11. ASSUME NEW d \in B \ {cur} PROVE Alike(m, n, d)
  <2>1. Alike(m, k1, d) /\ Alike(k1, n, d)
    BY <1>6, <1>10
  <2> QED BY <2>1 DEF Alike, Inside
<1>12. Listed(M, n, hd, I, ix, C, F, end)
  <2>1. \A d \in F : Alike(m, n, d)
    BY <1>1, <1>11
  <2>2. F \subseteq C
    BY <1>1 DEF C
  <2> QED BY <1>9, <2>1, <2>2, ListedAlike
<1>13. Kept(m, n, B \ {cur})
  BY <1>11, AlikeKept
<1>14. Span(n, cur) = need /\ Status(n, cur) = 1
  BY <1>4, <1>6, <1>10 DEF Alike
<1> QED BY <1>3, <1>6, <1>9, <1>12, <1>13, <1>14 DEF Cutting, C, b

\* The front of a free block, or all of it, becomes used; the back goes to its bin.
LEMMA Allocated2 ==
  ASSUME NEW h, NEW B, NEW F, NEW end, Listed2(h, B, F, end), Coalesced(h.mem, F),
         NEW cur \in F, NEW r \in Nat, Span(h.mem, cur) >= r + 2,
         NEW x, x = Mgr2!do_alloc(h, cur, r + 2)
  PROVE  Allocates2(h, x, B, F, end, r)
<1> DEFINE need == r + 2
           s == Span(h.mem, cur)
           rest == s - need
           y == Mgr2!detach(h, cur)
           back == CutMem(y.mem, cur, need, rest)
           z == [y EXCEPT !.mem = back]
           b == cur + need
<1>1. /\ Listed(M2, h.mem, h.bins, Bins2, BinOf, B, F, end)
      /\ Core(M2, h.mem, B, end) /\ F \subseteq B /\ M2 \in Nat /\ cur \in B
  BY M2Number DEF Listed2, Listed
<1>2. /\ cur \in 0 .. M2 - 1 /\ s \in 2 .. M2 /\ need \in Nat /\ need >= 2
      /\ rest \in Nat /\ s = need + rest
  BY <1>1, CoreApart
<1>3. x = [heap |-> IF rest >= 2 THEN Mgr2!insert(z, b) ELSE y, block |-> cur]
  <2>1. back = Mgr2!unlinked(Mgr2!set_span(
                 Mgr2!unlinked(Mgr2!set_status(Mgr2!set_span(y.mem, cur, need), cur, 1), cur),
                 cur + need, rest), cur + need)
    <3> HIDE DEF y, need, rest
    <3> QED BY DEF CutMem, Mgr2!unlinked, Mgr2!set_span, Mgr2!set_status, Mgr2!get_footer,
         Mgr2!get_span, Mgr2!set_next_free, Mgr2!set_prev_free, Mgr2!NULL,
         WithSpan, WithStatus, WithNext, WithPrev
  <2>2. rest = Mgr2!get_span(h.mem, cur) - need
    BY DEF Span, Mgr2!get_span
  <2> HIDE DEF back, rest, need
  <2>3. Mgr2!do_alloc(h, cur, need) =
          [heap |-> IF rest >= 2 THEN Mgr2!insert(z, b) ELSE y, block |-> cur]
    BY <2>1, <2>2 DEF Mgr2!do_alloc, Mgr2!splits, Mgr2!CHUNK_USED
  <2> QED BY <2>3 DEF need
<1>4. /\ Listed2(y, B, F \ {cur}, end) /\ Kept(h.mem, y.mem, B \ {cur})
      /\ Span(y.mem, cur) = s /\ Status(y.mem, cur) = 1
  <2>1. y = Mgr2!detach(h, cur) /\ s = Span(h.mem, cur)
    OBVIOUS
  <2> HIDE DEF s, y
  <2> QED BY <2>1, Detached2
<1>5. Coalesced(y.mem, F \ {cur})
  <2> HIDE DEF y
  <2>1. \A e \in F \ {cur} : Span(y.mem, e) = Span(h.mem, e)
    BY <1>1, <1>4 DEF Kept
  <2> QED BY <2>1, CoalescedFewer
<1> HIDE DEF y
<1>6. Kept(h.mem, y.mem, B \ F)
  BY <1>1, <1>4, KeptFewer
<1>7. x.block = cur /\ cur \notin B \ F /\ B \ (F \ {cur}) = (B \ F) \cup {cur}
  BY <1>1, <1>3
<1>8. CASE rest < 2
  <2>1. x.heap = y
    BY <1>2, <1>3, <1>8
  <2>2. Span(x.heap.mem, cur) >= r + 2 /\ Status(x.heap.mem, cur) = 1
    BY <1>4, <2>1
  <2> QED BY <1>4, <1>5, <1>6, <1>7, <2>1, <2>2 DEF Allocates2
<1>9. CASE rest >= 2
  <2>1. x.heap = Mgr2!insert(z, b)
    BY <1>3, <1>9
  <2>2. y = [mem |-> y.mem, bins |-> y.bins]
        /\ Listed(M2, y.mem, y.bins, Bins2, BinOf, B, F \ {cur}, end)
    BY <1>4 DEF Listed2
  <2>3. z = [mem |-> z.mem, bins |-> z.bins] /\ z.bins = y.bins /\ z.mem = back
    BY <2>2
  <2>4. back = CutMem(y.mem, cur, need, Span(y.mem, cur) - need)
        /\ Span(y.mem, cur) - need >= 2
    BY <1>4, <1>9
  <2> HIDE DEF back, z, need, rest, s, b
  <2>5. Cutting(M2, y.mem, z.mem, y.bins, Bins2, BinOf, B, F \ {cur}, end, cur, need)
    <3>1. cur \in B /\ cur \notin F \ {cur} /\ need \in Nat /\ need >= 2 /\ M2 \in Nat
      BY <1>1, <1>2
    <3> QED BY <2>2, <2>3, <2>4, <3>1, ListedCut
  <2> DEFINE C == B \cup {b}
  <2>6. /\ Listed(M2, z.mem, z.bins, Bins2, BinOf, C, F \ {cur}, end) /\ b \notin B
        /\ Kept(y.mem, z.mem, B \ {cur}) /\ Status(z.mem, cur) = 1
        /\ Span(z.mem, cur) = need /\ Span(z.mem, b) = s - need
    BY <1>4, <2>3, <2>5 DEF Cutting, b
  <2>7. Listed2(z, C, F \ {cur}, end)
    BY <2>3, <2>6 DEF Listed2
  <2>8. b \in C \ (F \ {cur}) /\ cur \in C \ {b} /\ B \ {cur} \subseteq C \ {b}
        /\ B \ F \subseteq C \ {b} /\ B \ F \subseteq B \ {cur}
    BY <1>1, <2>6
  <2> HIDE DEF C
  <2>9. /\ Listed2(x.heap, C, (F \ {cur}) \cup {b}, end)
        /\ Kept(z.mem, x.heap.mem, C \ {b}) /\ Span(x.heap.mem, b) = Span(z.mem, b)
    <3> DEFINE w == x.heap
    <3>1. w = Mgr2!insert(z, b)
      BY <2>1
    <3> HIDE DEF w
    <3>2. /\ Listed2(w, C, (F \ {cur}) \cup {b}, end)
          /\ Kept(z.mem, w.mem, C \ {b}) /\ Span(w.mem, b) = Span(z.mem, b)
      BY <2>7, <2>8, <3>1, Inserted2
    <3> QED BY <3>2 DEF w
  <2>10. Span(x.heap.mem, cur) = need /\ Status(x.heap.mem, cur) = 1
    BY <2>6, <2>8, <2>9 DEF Kept
  <2>11. Kept(h.mem, x.heap.mem, B \ {cur})
    <3>1. Kept(h.mem, z.mem, B \ {cur})
      BY <1>4, <2>6, KeptTwice
    <3>2. Kept(z.mem, x.heap.mem, B \ {cur})
      BY <2>8, <2>9, KeptFewer
    <3> QED BY <3>1, <3>2, KeptTwice
  <2>12. Kept(h.mem, x.heap.mem, B \ F)
    BY <2>8, <2>11, KeptFewer
  <2>13. C \ ((F \ {cur}) \cup {b}) = (B \ F) \cup {cur}
    BY <1>1, <2>6 DEF C
  <2>14. Coalesced(x.heap.mem, (F \ {cur}) \cup {b})
    <3>0. b + Span(x.heap.mem, b) = cur + Span(h.mem, cur) /\ b \in Nat
          /\ Span(x.heap.mem, b) # 0
      BY <1>2, <1>9, <2>6, <2>9 DEF b, s, rest
    <3>1. ASSUME NEW e \in (F \ {cur}) \cup {b}
          PROVE  e + Span(x.heap.mem, e) \notin (F \ {cur}) \cup {b}
      <4>1. CASE e = b
        <5>1. b + Span(x.heap.mem, b) # b
          BY <1>2, <1>9, <2>6, <2>9, <3>0 DEF rest
        <5>2. b + Span(x.heap.mem, b) \notin F
          BY <3>0 DEF Coalesced
        <5> QED BY <4>1, <5>1, <5>2
      <4>2. CASE e \in F \ {cur}
        <5>1. Span(x.heap.mem, e) = Span(h.mem, e)
          BY <1>1, <2>11, <4>2 DEF Kept
        <5>2. e + Span(h.mem, e) \notin F
          BY <4>2 DEF Coalesced
        <5>3. e + Span(h.mem, e) # b
          <6>1. e \in Nat /\ Span(h.mem, e) \in 2 .. M2 /\ M2 \in Nat
                /\ (cur + Span(h.mem, cur) - 1 < e \/ e + Span(h.mem, e) - 1 < cur)
            BY <1>1, <4>2, CoreApart
          <6>2. cur \in Nat /\ Span(h.mem, cur) \in Nat /\ need \in Nat /\ need >= 2
                /\ Span(h.mem, cur) >= need
            BY <1>2 DEF s
          <6> HIDE DEF need
          <6>3. e + Span(h.mem, e) # cur + need
            BY <6>1, <6>2
          <6> QED BY <6>3 DEF b
        <5> QED BY <5>1, <5>2, <5>3
      <4> QED BY <4>1, <4>2
    <3> QED BY <3>1 DEF Coalesced
  <2>15. Span(x.heap.mem, cur) >= r + 2
    BY <2>10 DEF need
  <2> QED BY <1>7, <2>9, <2>10, <2>12, <2>13, <2>14, <2>15 DEF Allocates2
<1>10. rest < 2 \/ rest >= 2
  BY <1>2
<1> QED BY <1>8, <1>9, <1>10

\* A walk along a list, as the manager's search makes it.
LEMMA Walk2 ==
  ASSUME NEW m, NEW head
  PROVE  LET f == Mgr2!ListFrom(m, head)
         IN Walks(M2, m, head, f)
<1>1. \E f : Walks(M2, m, head, f)
  BY M2Number, WalkExists
<1>2. Walks(M2, m, head, CHOOSE f : Walks(M2, m, head, f))
  BY <1>1
<1>3. Mgr2!ListFrom(m, head) = CHOOSE f : Walks(M2, m, head, f)
  BY DEF Walks, Mgr2!ListFrom, WalkBody, Mgr2!NULL, Mgr2!get_next_free, NextOf, M2
<1> QED BY <1>2, <1>3

\* The search of heapmgr2, from the bin of the size up, finds a block if one fits.
LEMMA FirstFit2 ==
  ASSUME NEW h, NEW B, NEW F, NEW end, Listed2(h, B, F, end), NEW need \in Nat, need >= 2,
         NEW cur, cur = Mgr2!first_fit(h, need)
  PROVE  IF cur = -1 THEN \A c \in F : Span(h.mem, c) < need
         ELSE cur \in F /\ Span(h.mem, cur) >= need
<1> DEFINE f(b) == Mgr2!ListFrom(h.mem, h.bins[b])
           found(b) == {i \in 0 .. M2 : f(b)[i] # -1 /\ Span(h.mem, f(b)[i]) >= need}
           bins == {b \in Bins2 : b >= Mgr2!get_bin_index(need) /\ found(b) # {}}
           G(b) == InBin(h.mem, BinOf, F, b)
<1>1. Core(M2, h.mem, B, end) /\ F \subseteq B /\ M2 \in Nat
      /\ \A b \in Bins2 : Linked(h.mem, h.bins[b], G(b))
  BY M2Number DEF Listed2, Listed
<1>2. \A c \in F : c \in 0 .. M2 - 1 /\ Span(h.mem, c) \in 2 .. M2
  BY <1>1, CoreApart
<1>3. ASSUME NEW b \in Bins2 PROVE {f(b)[i] : i \in 0 .. M2} \ {-1} = G(b)
  <2>1. Walks(M2, h.mem, h.bins[b], f(b))
    BY Walk2
  <2>2. Linked(h.mem, h.bins[b], G(b)) /\ G(b) \subseteq 0 .. M2 - 1
    BY <1>1, <1>2 DEF InBin
  <2> DEFINE fb == f(b)
             Gb == G(b)
  <2> HIDE DEF f, G
  <2>3. WalkedOver(M2, h.mem, G(b), f(b))
    BY <1>1, <2>1, <2>2, LinkedWalk
  <2> QED BY <2>3 DEF WalkedOver
<1>4. cur = IF bins = {} THEN -1
            ELSE LET b == CHOOSE b \in bins : \A a \in bins : b <= a
                 IN f(b)[CHOOSE i \in found(b) : \A j \in found(b) : i <= j]
  BY DEF Mgr2!first_fit, Mgr2!fits, Mgr2!get_span, Mgr2!NULL, Mgr2!Bins, Bins2,
     Mgr2!get_search_bin, Span, M2
<1>5. \A b \in bins : b \in Bins2 /\ found(b) # {}
  OBVIOUS
<1>6. \A b : \A i \in found(b) : i \in 0 .. M2 /\ f(b)[i] # -1 /\ Span(h.mem, f(b)[i]) >= need
  OBVIOUS
<1>7. CASE bins = {}
  <2>1. ASSUME NEW c \in F, Span(h.mem, c) >= need PROVE FALSE
    <3> DEFINE b == BinOf[Span(h.mem, c)]
    <3>1. need \in 2 .. M2
      BY <1>1, <1>2, <2>1
    <3>2. b \in Bins2 /\ b >= BinOf[need]
      BY <1>2, <2>1, <3>1, BinsGrow
    <3>3. BinOf[need] = Mgr2!get_bin_index(need)
      BY DEF BinOf
    <3>4. c \in G(b) /\ c # -1
      BY <1>2 DEF InBin
    <3> HIDE DEF b, f, G
    <3>5. PICK i \in 0 .. M2 : f(b)[i] = c
      BY <1>3, <3>2, <3>4
    <3>6. i \in found(b)
      BY <2>1, <3>4, <3>5
    <3> HIDE DEF found
    <3> QED BY <1>7, <3>2, <3>3, <3>6
  <2>2. cur = -1
    BY <1>4, <1>7
  <2>3. \A c \in F : Span(h.mem, c) < need
    BY <1>2, <2>1
  <2> QED BY <2>2, <2>3
<1>8. CASE bins # {}
  <2> DEFINE b == CHOOSE b \in bins : \A a \in bins : b <= a
             l == CHOOSE i \in found(b) : \A j \in found(b) : i <= j
  <2>1. b \in bins
    <3>1. bins \subseteq Nat
      <4> HIDE DEF found
      <4> QED BY M2Number DEF Bins2
    <3> HIDE DEF bins
    <3>2. \E x \in bins : \A a \in bins : x <= a
      BY <1>8, <3>1, LeastNumber
    <3> QED BY <3>2
  <2>2. b \in Bins2 /\ found(b) # {}
    <3> HIDE DEF bins, found
    <3> QED BY <1>5, <2>1
  <2>3. l \in found(b)
    <3>1. found(b) \subseteq Nat
      <4>1. \A i \in found(b) : i \in 0 .. M2
        BY <1>6
      <4> HIDE DEF b, found
      <4> QED BY <4>1, M2Number
    <3> HIDE DEF b, found
    <3>2. \E x \in found(b) : \A a \in found(b) : x <= a
      BY <2>2, <3>1, LeastNumber
    <3> QED BY <3>2
  <2>4. cur = f(b)[l]
    <3> HIDE DEF found, bins, f
    <3> QED BY <1>4, <1>8
  <2> HIDE DEF bins, l, b, found
  <2>5. l \in 0 .. M2 /\ f(b)[l] # -1 /\ Span(h.mem, f(b)[l]) >= need
    BY <1>6, <2>3
  <2> HIDE DEF f, G
  <2>6. f(b)[l] \in G(b)
    BY <1>3, <2>2, <2>5
  <2>7. cur \in F /\ cur # -1 /\ Span(h.mem, cur) >= need
    BY <2>4, <2>5, <2>6 DEF G, InBin
  <2> QED BY <2>7
<1> QED BY <1>7, <1>8

-----------------------------------------------------------------------------
(* The steps of heapmgr2.                                                  *)

\* B are the blocks of a heap and F the free ones.
Holds2(h, has, end, B, F) ==
  Listed2(h, B, F, end) /\ Coalesced(h.mem, F) /\ Owned(h.mem, B, F, has)

Inv2 == \E B, F : Holds2(heap, live, s_heap_hi, B, F)

\* A free block of g, which is the heap or what it has grown to, is given.
LEMMA Taken2 ==
  ASSUME NEW B, NEW F, Owned(heap.mem, B, F, live),
         NEW g, NEW C, NEW G, NEW end, Listed2(g, C, G, end), Coalesced(g.mem, G),
         C \ G = B \ F, Kept(heap.mem, g.mem, B \ F),
         NEW cur \in G, NEW r \in Requests, Span(g.mem, cur) >= r + 2,
         NEW a, a = Mgr2!do_alloc(g, cur, r + 2), Mgr2!Give(a, r)
  PROVE  \E B2, F2 : Holds2(heap', live', end, B2, F2)
<1>0. r \in Nat /\ M2 \in Nat
  BY UnitsOK, M2Number
<1>1. PICK B2, F2 : /\ Listed2(a.heap, B2, F2, end)
                    /\ a.block \notin B \ F /\ B2 \ F2 = (B \ F) \cup {a.block}
                    /\ Kept(g.mem, a.heap.mem, B \ F) /\ Coalesced(a.heap.mem, F2)
                    /\ Status(a.heap.mem, a.block) = 1
                    /\ Span(a.heap.mem, a.block) >= r + 2
  <2>1. Allocates2(g, a, C, G, end, r)
    BY <1>0, Allocated2
  <2> QED BY <2>1 DEF Allocates2
<1>2. Listed(M2, a.heap.mem, a.heap.bins, Bins2, BinOf, B2, F2, end)
      /\ a.heap = [mem |-> a.heap.mem, bins |-> a.heap.bins]
  BY <1>1 DEF Listed2
<1>3. a.block \in Nat
  <2>1. a.block \in B2
    BY <1>1
  <2> QED BY <1>0, <1>2, <2>1, CoreApart DEF Listed
<1>4. /\ heap' = [mem |-> GivenMem(M2, a.heap.mem, a.block, r), bins |-> a.heap.bins]
      /\ live' = live \cup {[at |-> a.block + 1, n |-> r]}
  <2> DEFINE p == a.block + 1
  <2>1. heap' = [a.heap EXCEPT !.mem = [u \in 0 .. M2 - 1 |->
                  IF u \in p .. p + r - 1 THEN Bytes ELSE a.heap.mem[u]]]
    BY DEF Mgr2!Give, Mgr2!Addresses, Mgr2!Data, Bytes, M2
  <2>2. p .. p + r - 1 = a.block + 1 .. a.block + r
    BY <1>0, <1>3
  <2> HIDE DEF p
  <2>3. heap' = [a.heap EXCEPT !.mem = GivenMem(M2, a.heap.mem, a.block, r)]
    BY <2>1, <2>2 DEF GivenMem
  <2> QED BY <1>2, <2>3 DEF Mgr2!Give
<1>5. Kept(heap.mem, a.heap.mem, B \ F)
  BY <1>1, KeptTwice
<1> DEFINE n == heap'.mem
<1>6. n = GivenMem(M2, a.heap.mem, a.block, r)
  BY <1>4
<1> HIDE DEF n
<1>7. Managed(M2, n, a.heap.bins, Bins2, BinOf, B2, F2, end,
              live \cup {[at |-> a.block + 1, n |-> r]})
  BY <1>0, <1>1, <1>2, <1>5, <1>6, ManagedMalloc
<1>8. heap'.bins = a.heap.bins /\ heap' = [mem |-> heap'.mem, bins |-> heap'.bins]
  BY <1>4
<1>9. Holds2(heap', live', end, B2, F2)
  BY <1>4, <1>7, <1>8 DEF Holds2, Listed2, Managed, n
<1> QED BY <1>9

\* heapmgr_malloc of heapmgr2, when a free block is large enough.
LEMMA MallocFits2 ==
  ASSUME Inv2, NEW r \in Requests, Mgr2!MallocFits(r)
  PROVE  Inv2' /\ s_heap_hi' = s_heap_hi
<1>1. PICK B, F : Holds2(heap, live, s_heap_hi, B, F)
  BY DEF Inv2
<1> DEFINE cur == Mgr2!first_fit(heap, r + 2)
<1>2. /\ cur # -1 /\ Mgr2!Give(Mgr2!do_alloc(heap, cur, r + 2), r)
      /\ s_heap_hi' = s_heap_hi
  BY DEF Mgr2!MallocFits, Mgr2!need_span, Mgr2!NULL
<1>3. r \in Nat /\ Listed2(heap, B, F, s_heap_hi) /\ Coalesced(heap.mem, F)
      /\ Owned(heap.mem, B, F, live)
  BY <1>1, UnitsOK DEF Holds2
<1>4. cur \in F /\ Span(heap.mem, cur) >= r + 2
  <2>1. r + 2 \in Nat /\ r + 2 >= 2
    BY <1>3
  <2>2. IF cur = -1 THEN \A c \in F : Span(heap.mem, c) < r + 2
        ELSE cur \in F /\ Span(heap.mem, cur) >= r + 2
    BY <1>3, <2>1, FirstFit2
  <2> HIDE DEF cur
  <2> QED BY <1>2, <2>2
<1> HIDE DEF cur
<1>5. Kept(heap.mem, heap.mem, B \ F)
  BY DEF Kept, Inside
<1>6. \E B2, F2 : Holds2(heap', live', s_heap_hi, B2, F2)
  BY <1>2, <1>3, <1>4, <1>5, Taken2
<1> QED BY <1>2, <1>6 DEF Inv2

\* heapmgr_malloc of heapmgr2, when the heap has to grow: no free block fits.
LEMMA MallocGrows2 ==
  ASSUME Inv2, NEW r \in Requests, Mgr2!MallocGrows(r)
  PROVE  Inv2' /\ Mgr2!NoBlockFits
<1>1. PICK B, F : Holds2(heap, live, s_heap_hi, B, F)
  BY DEF Inv2
<1> DEFINE x == Mgr2!sys_grow(heap, r)
           g == Mgr2!grow_span(r)
<1>2. /\ Mgr2!first_fit(heap, r + 2) = -1
      /\ s_heap_hi + g <= M2 /\ s_heap_hi' = s_heap_hi + g
      /\ Mgr2!Give(Mgr2!do_alloc(x.heap, x.block, r + 2), r)
  BY DEF Mgr2!MallocGrows, Mgr2!need_span, Mgr2!NULL, M2
<1>3. r \in Nat /\ Listed2(heap, B, F, s_heap_hi) /\ Coalesced(heap.mem, F)
      /\ Owned(heap.mem, B, F, live)
  BY <1>1, UnitsOK DEF Holds2
<1>4. \A c \in F : Span(heap.mem, c) < r + 2
  <2>1. r + 2 \in Nat /\ r + 2 >= 2
    BY <1>3
  <2> QED BY <1>2, <1>3, <2>1, FirstFit2
<1>5. \A d \in B \ F : Status(heap.mem, d) = 1
  BY <1>3, OwnedMarked
<1>6. x = Mgr2!sys_grow(heap, r) /\ g = Mgr2!grow_span(r)
  OBVIOUS
<1> HIDE DEF x, g
<1>7. PICK C, G : /\ Listed2(x.heap, C, G, s_heap_hi + g) /\ C \ G = B \ F
                  /\ Kept(heap.mem, x.heap.mem, B \ F)
                  /\ Coalesced(x.heap.mem, G)
                  /\ x.block \in G /\ Span(x.heap.mem, x.block) >= r + 2
  <2>1. Grows2(heap, x, B, F, s_heap_hi + g, r)
    BY <1>2, <1>3, <1>5, <1>6, Grown2
  <2> QED BY <2>1 DEF Grows2
<1>8. \E B2, F2 : Holds2(heap', live', s_heap_hi + g, B2, F2)
  BY <1>2, <1>3, <1>7, Taken2
<1>9. Mgr2!TheBlocks = B /\ Mgr2!FreeBlocks = F
  <2>1. Core(M2, heap.mem, B, s_heap_hi) /\ M2 \in Nat
        /\ Listed(M2, heap.mem, heap.bins, Bins2, BinOf, B, F, s_heap_hi)
    BY <1>3, M2Number DEF Listed2, Listed
  <2>2. BlocksOf(M2, heap.mem, s_heap_hi) = B
    BY <2>1, BlocksFound
  <2>3. Mgr2!TheBlocks = BlocksOf(M2, heap.mem, s_heap_hi)
    BY DEF Mgr2!TheBlocks, Mgr2!Blocks, BlocksOf, Mgr2!is_valid, Valid, Mgr2!get_span, Span,
       Mgr2!get_footer, Tag, M2
  <2>4. {c \in B : Status(heap.mem, c) = 0} = F
    BY <1>3, <2>1, FreeFound
  <2> QED BY <2>2, <2>3, <2>4 DEF Mgr2!FreeBlocks, Mgr2!get_status, Status, Mgr2!CHUNK_FREE
<1>10. Mgr2!NoBlockFits
  <2>1. \A a \in live' \ live : a.n = r
    BY <1>2 DEF Mgr2!Give
  <2> QED BY <1>4, <1>9, <2>1 DEF Mgr2!NoBlockFits, Mgr2!get_span, Span
<1> QED BY <1>2, <1>8, <1>10 DEF Inv2

\* heapmgr_free of heapmgr2, with what it joins.
LEMMA Free2 ==
  ASSUME Inv2, NEW a \in live, Mgr2!Free(a)
  PROVE  Inv2' /\ s_heap_hi' = s_heap_hi
<1>1. PICK B, F : Holds2(heap, live, s_heap_hi, B, F)
  BY DEF Inv2
<1> DEFINE c == a.at - 1
           y == Mgr2!right_joined(heap, c)
<1>2. /\ heap' = Mgr2!free_joined(y, c) /\ live' = live \ {a} /\ s_heap_hi' = s_heap_hi
  BY DEF Mgr2!Free
<1>3. /\ Listed2(heap, B, F, s_heap_hi) /\ Coalesced(heap.mem, F)
      /\ Owned(heap.mem, B, F, live) /\ M2 \in Nat
      /\ Core(M2, heap.mem, B, s_heap_hi)
  BY <1>1, M2Number DEF Holds2, Listed2, Listed
<1>4. c \in B \ F
  BY <1>3 DEF Owned
<1>5. \A d \in B \ F : Status(heap.mem, d) = 1
  BY <1>3, OwnedMarked
<1>6. y = Mgr2!right_joined(heap, c)
  OBVIOUS
<1> HIDE DEF c, y
<1>7. PICK C, G : /\ Listed2(y, C, G, s_heap_hi) /\ C \ G = B \ F
                  /\ Kept(heap.mem, y.mem, (B \ F) \ {c})
                  /\ Coalesced(y.mem, G) /\ c + Span(y.mem, c) \notin G
  <2>1. c \in B /\ c \notin F
    BY <1>4
  <2>2. RightJoins2(heap, y, B, F, c)
    BY <1>3, <1>5, <1>6, <2>1, RightJoined2
  <2> QED BY <2>2 DEF RightJoins2
<1>8. PICK B2, F2 : /\ Listed2(heap', B2, F2, s_heap_hi) /\ B2 \ F2 = (C \ G) \ {c}
                    /\ Kept(y.mem, heap'.mem, (C \ G) \ {c})
                    /\ Coalesced(heap'.mem, F2)
  <2>1. c \in C /\ c \notin G
    BY <1>4, <1>7
  <2>2. \A d \in (C \ G) \ {c} : Status(y.mem, d) = 1
    BY <1>5, <1>7 DEF Kept
  <2> QED BY <1>2, <1>7, <2>1, <2>2, FreeJoined2
<1>9. Kept(heap.mem, heap'.mem, (B \ F) \ {c}) /\ B2 \ F2 = (B \ F) \ {c}
  <2>1. Kept(y.mem, heap'.mem, (B \ F) \ {c})
    BY <1>7, <1>8
  <2> QED BY <1>7, <1>8, <2>1, KeptTwice
<1>10. Owned(heap'.mem, B2, F2, live \ {a})
  BY <1>3, <1>9, OwnedFree DEF c
<1>11. Holds2(heap', live', s_heap_hi', B2, F2)
  BY <1>2, <1>8, <1>10 DEF Holds2
<1> QED BY <1>2, <1>11 DEF Inv2

\* heapmgr2 starts with an empty heap that holds its invariant.
LEMMA Init2 ==
  ASSUME Mgr2!Init
  PROVE  Inv2
<1> DEFINE m == [u \in 0 .. M2 - 1 |-> Bytes]
           hd == [b \in Bins2 |-> -1]
<1>1. heap = [mem |-> m, bins |-> hd] /\ s_heap_hi = 0 /\ live = {}
  BY DEF Mgr2!Init, Mgr2!Addresses, Mgr2!Data, Mgr2!NULL, Mgr2!s_heap_lo, Mgr2!Bins, Bins2,
     Bytes, M2
<1>2. m \in Mem(M2)
  BY DEF Mem, Ptrs, Bytes
<1>0. hd = [b \in Bins2 |-> hd[b]] /\ \A b \in Bins2 : hd[b] = -1
  OBVIOUS
<1> HIDE DEF m, hd
<1>3. Core(M2, m, {}, 0)
  BY <1>2, M2Number DEF Core, Tiled
<1>4. Linked(m, -1, {})
  <2>1. Ranked(m, {}, [n \in Nat |-> 0], 0)
    BY DEF Ranked
  <2> QED BY <2>1 DEF Linked
<1>5. heap.mem = m /\ heap.bins = hd /\ heap = [mem |-> heap.mem, bins |-> heap.bins]
  BY <1>1
<1>6. Listed(M2, m, hd, Bins2, BinOf, {}, {}, 0)
  <2>1. \A b \in Bins2 : Linked(m, hd[b], InBin(m, BinOf, {}, b))
    <3>1. \A b \in Bins2 : InBin(m, BinOf, {}, b) = {}
      BY DEF InBin
    <3> QED BY <1>0, <1>4, <3>1
  <2> QED BY <1>0, <1>3, <2>1, BinsGrow DEF Listed
<1>7. Coalesced(m, {}) /\ Owned(m, {}, {}, {})
  BY DEF Coalesced, Owned
<1>8. Holds2(heap, live, s_heap_hi, {}, {})
  BY <1>1, <1>5, <1>6, <1>7 DEF Holds2, Listed2
<1> QED BY <1>8 DEF Inv2

\* In a heap that holds the invariant of heapmgr2, its heap check passes.
LEMMA Valid2 ==
  ASSUME Inv2
  PROVE  Mgr2!HeapValid /\ Apart(live, M2, heap.mem)
<1>1. PICK B, F : Holds2(heap, live, s_heap_hi, B, F)
  BY DEF Inv2
<1>2. /\ Listed2(heap, B, F, s_heap_hi) /\ Coalesced(heap.mem, F)
      /\ Owned(heap.mem, B, F, live) /\ M2 \in Nat
      /\ Core(M2, heap.mem, B, s_heap_hi) /\ F \subseteq B
      /\ Listed(M2, heap.mem, heap.bins, Bins2, BinOf, B, F, s_heap_hi)
      /\ \A e \in F : Status(heap.mem, e) = 0
  BY <1>1, M2Number DEF Holds2, Listed2, Listed
<1>3. BlocksOf(M2, heap.mem, s_heap_hi) = B /\ \A c \in B : Valid(heap.mem, c, s_heap_hi)
  BY <1>2, BlocksFound
<1>4. {c \in B : Status(heap.mem, c) = 0} = F
  BY <1>2, FreeFound
<1>5. Mgr2!Blocks(heap.mem, s_heap_hi) = B
  <2>1. Mgr2!Blocks(heap.mem, s_heap_hi) = BlocksOf(M2, heap.mem, s_heap_hi)
    BY DEF Mgr2!Blocks, BlocksOf, Mgr2!is_valid, Valid, Mgr2!get_span, Span,
       Mgr2!get_footer, Tag, M2
  <2> QED BY <1>3, <2>1
<1>6. Mgr2!TheBlocks = B /\ Mgr2!FreeBlocks = F
  BY <1>4, <1>5 DEF Mgr2!TheBlocks, Mgr2!FreeBlocks, Mgr2!get_status, Status, Mgr2!CHUNK_FREE
<1>7. \A c \in F : c \in 0 .. M2 - 1 /\ Span(heap.mem, c) \in Nat
  BY <1>2, CoreApart
<1>8. ASSUME NEW b \in Bins2
      PROVE  /\ WalkedOver(M2, heap.mem, InBin(heap.mem, BinOf, F, b),
                           Mgr2!ListFrom(heap.mem, heap.bins[b]))
             /\ Linked(heap.mem, heap.bins[b], InBin(heap.mem, BinOf, F, b))
             /\ InBin(heap.mem, BinOf, F, b) \subseteq 0 .. M2 - 1
  <2> DEFINE f == Mgr2!ListFrom(heap.mem, heap.bins[b])
             G == InBin(heap.mem, BinOf, F, b)
             head == heap.bins[b]
  <2>1. Walks(M2, heap.mem, head, f)
    BY Walk2
  <2>2. Linked(heap.mem, head, G) /\ G \subseteq 0 .. M2 - 1
    BY <1>2, <1>7 DEF Listed, InBin
  <2> HIDE DEF f, G, head
  <2>3. WalkedOver(M2, heap.mem, G, f)
    BY <1>2, <2>1, <2>2, LinkedWalk
  <2> QED BY <2>2, <2>3 DEF f, G, head
<1>10. Mgr2!FreeListsExact
  <2> SUFFICES ASSUME NEW b \in Bins2
               PROVE  /\ Mgr2!ListSound(heap.mem, heap.bins[b])
                      /\ Mgr2!OnList(heap.mem, heap.bins[b])
                           = {c \in F : Mgr2!get_bin_index(Span(heap.mem, c)) = b}
    BY <1>6 DEF Mgr2!FreeListsExact, Mgr2!Bins, Bins2, Mgr2!get_span, Span
  <2> DEFINE G == InBin(heap.mem, BinOf, F, b)
  <2>0. WalkedOver(M2, heap.mem, G, Mgr2!ListFrom(heap.mem, heap.bins[b]))
    BY <1>8
  <2>1. Mgr2!ListSound(heap.mem, heap.bins[b])
    BY <2>0 DEF WalkedOver, Mgr2!ListSound, Mgr2!get_prev_free, Mgr2!get_footer,
       Mgr2!get_span, Mgr2!NULL, PrevOf, M2
  <2>3. G = {c \in F : Mgr2!get_bin_index(Span(heap.mem, c)) = b}
    BY <1>7 DEF InBin, BinOf
  <2> HIDE DEF G
  <2>2. Mgr2!OnList(heap.mem, heap.bins[b]) = G
    BY <2>0 DEF WalkedOver, Mgr2!OnList, Mgr2!NULL, M2
  <2> QED BY <2>1, <2>2, <2>3
<1>11. Mgr2!HeapSound(heap.mem, s_heap_hi)
  <2>1. ASSUME NEW c \in B PROVE Mgr2!is_valid(heap.mem, c, s_heap_hi)
    BY <1>3 DEF Mgr2!is_valid, Valid, Mgr2!get_span, Span, Mgr2!get_footer, Tag
  <2>2. ASSUME NEW c \in B, Status(heap.mem, c) = 0, NextAt(heap.mem, c, s_heap_hi) # -1
        PROVE  Status(heap.mem, NextAt(heap.mem, c, s_heap_hi)) # 0
    <3>1. NextAt(heap.mem, c, s_heap_hi) = c + Span(heap.mem, c)
          /\ c + Span(heap.mem, c) \in B
      BY <1>2, <2>2, NextIsBlock
    <3>2. c \in F
      BY <1>4, <2>2
    <3> QED BY <1>2, <1>4, <3>1, <3>2 DEF Coalesced
  <2> QED BY <1>5, <2>1, <2>2 DEF Mgr2!HeapSound, Mgr2!next_phys, NextAt, Mgr2!get_status,
             Status, Mgr2!get_span, Span, Mgr2!NULL, Mgr2!CHUNK_FREE
<1>12. Apart(live, M2, heap.mem)
  BY <1>2, OwnedApart DEF Apart
<1>13. Mgr2!UsedExact
  BY <1>2, <1>6 DEF Owned, Mgr2!UsedExact, Mgr2!get_span, Span
<1>14. Mgr2!TypeOK
  <2>1. heap.mem \in [Mgr2!Addresses -> [first : {-7} \cup 0 .. M2,
                                         second : {-7} \cup 0 .. M2,
                                         ptr : {-7, -1} \cup Mgr2!Addresses]]
    BY <1>2 DEF Core, Mem, Ptrs, Mgr2!Addresses, M2
  <2>2. heap.bins \in [Mgr2!Bins -> {-1} \cup Mgr2!Addresses]
    <3>1. \A b \in Bins2 : heap.bins[b] \in {-1} \cup (0 .. M2 - 1)
      BY <1>8 DEF Linked
    <3>2. heap.bins = [b \in Bins2 |-> heap.bins[b]]
      BY <1>2 DEF Listed
    <3> QED BY <3>1, <3>2 DEF Mgr2!Addresses, Mgr2!Bins, Bins2, M2
  <2>3. s_heap_hi \in 0 .. M2
    BY <1>2 DEF Core, Tiled
  <2>4. live \subseteq [at : Mgr2!Addresses, n : Requests]
    <3>1. \A a \in live : a \in [at : Nat, n : Requests] /\ a.at \in 0 .. M2 - 1
      BY <1>2, <1>12 DEF Owned, Apart
    <3> QED BY <3>1 DEF Mgr2!Addresses, M2
  <2> QED BY <2>1, <2>2, <2>3, <2>4 DEF Mgr2!TypeOK, Mgr2!NULL, M2
<1> QED BY <1>10, <1>11, <1>12, <1>13, <1>14 DEF Mgr2!HeapValid

\* Each step of heapmgr2 keeps its invariant, is a call, and grows only if it must.
LEMMA Next2 ==
  ASSUME Inv2, Mgr2!Next
  PROVE  /\ Inv2' /\ Calls(live, live')
         /\ s_heap_hi' # s_heap_hi => Mgr2!NoBlockFits
<1>1. ASSUME NEW r \in Requests, Mgr2!MallocFits(r)
      PROVE  Inv2' /\ Calls(live, live') /\ s_heap_hi' = s_heap_hi
  BY <1>1, MallocFits2 DEF Mgr2!MallocFits, Mgr2!Give, Calls
<1>2. ASSUME NEW r \in Requests, Mgr2!MallocGrows(r)
      PROVE  Inv2' /\ Calls(live, live') /\ Mgr2!NoBlockFits
  BY <1>2, MallocGrows2 DEF Mgr2!MallocGrows, Mgr2!Give, Calls
<1>3. ASSUME NEW a \in live, Mgr2!Free(a)
      PROVE  Inv2' /\ Calls(live, live') /\ s_heap_hi' = s_heap_hi
  BY <1>3, Free2 DEF Mgr2!Free, Calls
<1> QED BY <1>1, <1>2, <1>3 DEF Mgr2!Next

\* In heapmgr2, what the program wrote and still has is all that it has.
LEMMA Written2 ==
  ASSUME Apart(live, M2, heap.mem)
  PROVE  Mgr2!writtenBar = UNION {UnitsOf(a) : a \in live}
  BY DEF Mgr2!writtenBar, Apart, UnitsOf, Mgr2!Addresses, Mgr2!Data, Bytes, M2

\* The invariant of heapmgr2 is about nothing but the variables.
LEMMA Stutters2 ==
  ASSUME Inv2, UNCHANGED vars
  PROVE  Inv2'
  BY DEF Inv2, vars

-----------------------------------------------------------------------------
(* Lists in one direction and in the order of the addresses.               *)

\* c is the least of S, or -1 if there is none.
Least(S, c) == IF S = {} THEN c = -1 ELSE c \in S /\ \A d \in S : c <= d

Above(F, c) == {d \in F : c < d}

\* From head on, each block leads to the next one of F.
Chained(m, head, F) ==
  /\ F \subseteq Nat
  /\ Least(F, head)
  /\ \A c \in F : Least(Above(F, c), NextOf(m, c))

\* p is the last of F before c, or -1 if there is none.
Prior(F, c, p) ==
  IF p = -1 THEN \A d \in F : c <= d
  ELSE p \in F /\ p < c /\ \A d \in F : d < c => d <= p

\* The list in the order of the addresses goes on if no link changes.
LEMMA ChainedSame ==
  ASSUME NEW m, NEW n, NEW head, NEW F, Chained(m, head, F),
         \A c \in F : NextOf(n, c) = NextOf(m, c)
  PROVE  Chained(n, head, F)
  BY DEF Chained

\* What leads to what, once c is on the list behind p.
LEMMA ChainInsert ==
  ASSUME NEW m, NEW n, NEW head, NEW F, Chained(m, head, F),
         NEW c \in Nat, c \notin F, NEW p, Prior(F, c, p),
         \A d \in F \ {p} : NextOf(n, d) = NextOf(m, d),
         p # -1 => NextOf(n, p) = c,
         NextOf(n, c) = IF p = -1 THEN head ELSE NextOf(m, p)
  PROVE  Chained(n, IF p = -1 THEN c ELSE head, F \cup {c})
<1> DEFINE G == F \cup {c}
<1>0. F \subseteq Nat /\ -1 \notin F /\ \A d \in F : d \in Nat
  BY DEF Chained
<1>1. Least(Above(G, c), NextOf(n, c))
  <2>1. Above(G, c) = Above(F, c)
    BY DEF Above
  <2>2. CASE p = -1
    <3>0. \A d \in F : c < d
      BY <1>0, <2>2 DEF Prior
    <3>1. Above(F, c) = F
      BY <3>0 DEF Above
    <3> QED BY <2>1, <2>2, <3>1 DEF Chained
  <2>3. CASE p # -1
    <3>0. p \in Nat /\ p < c /\ \A d \in F : d < c => d <= p
      BY <1>0, <2>3 DEF Prior
    <3>3. \A d \in F : c < d <=> p < d
      BY <1>0, <3>0
    <3>1. Above(F, c) = Above(F, p)
      BY <3>3 DEF Above
    <3>2. Least(Above(F, p), NextOf(m, p))
      BY <2>3 DEF Chained, Prior
    <3> QED BY <2>1, <2>3, <3>1, <3>2
  <2> QED BY <2>2, <2>3
<1>2. ASSUME NEW d \in F PROVE Least(Above(G, d), NextOf(n, d))
  <2>0. d \in Nat /\ d # -1 /\ d # c
    BY <1>0
  <2>1. CASE d = p
    <3>1. NextOf(n, d) = c /\ d < c
      BY <2>0, <2>1 DEF Prior
    <3>2. \A e \in Above(G, d) : c <= e
      <4>1. ASSUME NEW e \in F, d < e PROVE c <= e
        BY <1>0, <2>0, <2>1, <4>1 DEF Prior
      <4> QED BY <4>1 DEF Above
    <3>3. c \in Above(G, d)
      BY <3>1 DEF Above
    <3> QED BY <3>1, <3>2, <3>3 DEF Least
  <2>2. CASE d # p /\ d > c
    <3>1. Above(G, d) = Above(F, d)
      BY <2>0, <2>2 DEF Above
    <3> QED BY <2>2, <3>1 DEF Chained
  <2>3. CASE d # p /\ d < c
    <3>0. p # -1
      BY <2>0, <2>3 DEF Prior
    <3>1. p # -1 /\ p \in F /\ d < p /\ p < c
      <4>1. p \in F /\ p < c /\ d <= p
        BY <2>3, <3>0 DEF Prior
      <4> QED BY <1>0, <2>0, <2>3, <3>0, <4>1
    <3>2. Least(Above(F, d), NextOf(m, d)) /\ p \in Above(F, d)
      BY <3>1 DEF Chained, Above
    <3>3. NextOf(m, d) <= p /\ NextOf(m, d) \in Above(F, d)
          /\ \A e \in Above(F, d) : NextOf(m, d) <= e
      BY <3>2 DEF Least
    <3>4. NextOf(m, d) \in Nat /\ NextOf(m, d) <= c
      <4>1. NextOf(m, d) \in F
        BY <3>3 DEF Above
      <4>2. NextOf(m, d) \in Nat /\ p \in Nat
        BY <1>0, <3>1, <4>1
      <4>3. NextOf(m, d) <= p /\ p < c
        BY <3>1, <3>3
      <4> QED BY <4>2, <4>3
    <3>5. Above(G, d) = Above(F, d) \cup {c}
      BY <2>3 DEF Above
    <3>6. NextOf(n, d) = NextOf(m, d)
      BY <2>3
    <3> QED BY <3>3, <3>4, <3>5, <3>6 DEF Least
  <2> QED BY <2>0, <2>1, <2>2, <2>3
<1>3. Least(G, IF p = -1 THEN c ELSE head)
  <2>1. CASE p = -1
    BY <1>0, <2>1 DEF Prior, Least
  <2>2. CASE p # -1
    <3>1. head \in F /\ \A d \in F : head <= d
      BY <2>2 DEF Chained, Least, Prior
    <3>2. head <= p /\ p < c /\ p \in Nat
      BY <1>0, <2>2, <3>1 DEF Prior
    <3>3. head <= c
      BY <1>0, <3>1, <3>2
    <3> QED BY <2>2, <3>1, <3>3 DEF Least
  <2> QED BY <2>1, <2>2
<1> QED BY <1>0, <1>1, <1>2, <1>3 DEF Chained

\* What leads to what, once c is off the list, where p was before it.
LEMMA ChainRemove ==
  ASSUME NEW m, NEW n, NEW head, NEW F, Chained(m, head, F),
         NEW c \in F, NEW p, Prior(F, c, p),
         \A d \in F \ {c, p} : NextOf(n, d) = NextOf(m, d),
         p # -1 => NextOf(n, p) = NextOf(m, c)
  PROVE  Chained(n, IF p = -1 THEN NextOf(m, c) ELSE head, F \ {c})
<1> DEFINE G == F \ {c}
<1>0. F \subseteq Nat /\ -1 \notin F /\ c \in Nat /\ \A d \in F : d \in Nat
  BY DEF Chained
<1>1. Least(Above(F, c), NextOf(m, c))
  BY DEF Chained
<1>2. ASSUME NEW d \in G PROVE Least(Above(G, d), NextOf(n, d))
  <2>0. d \in Nat /\ d # -1 /\ d # c /\ d \in F
    BY <1>0
  <2>1. CASE d = p
    <3>1. Above(G, d) = Above(F, c)
      <4>1. ASSUME NEW e \in F PROVE (e # c /\ d < e) <=> c < e
        BY <1>0, <2>0, <2>1 DEF Prior
      <4> QED BY <4>1 DEF Above
    <3>2. NextOf(n, d) = NextOf(m, c)
      BY <2>0, <2>1
    <3> QED BY <1>1, <3>1, <3>2
  <2>2. CASE d # p /\ d > c
    <3>1. Above(G, d) = Above(F, d)
      BY <1>0, <2>0, <2>2 DEF Above
    <3> QED BY <2>0, <2>2, <3>1 DEF Chained
  <2>3. CASE d # p /\ d < c
    <3>0. p # -1
      BY <1>0, <2>0, <2>3 DEF Prior
    <3>1. p # -1 /\ p \in F /\ d < p /\ p < c /\ p \in Nat
      <4>1. p \in F /\ p < c /\ d <= p
        BY <2>0, <2>3, <3>0 DEF Prior
      <4> QED BY <1>0, <2>0, <2>3, <3>0, <4>1
    <3>2. Least(Above(F, d), NextOf(m, d)) /\ p \in Above(F, d)
      BY <2>0, <3>1 DEF Chained, Above
    <3>3. NextOf(m, d) <= p /\ NextOf(m, d) \in Above(F, d)
          /\ \A e \in Above(F, d) : NextOf(m, d) <= e
      BY <3>2 DEF Least
    <3>4. NextOf(m, d) \in Nat /\ NextOf(m, d) # c
      <4>1. NextOf(m, d) \in F
        BY <3>3 DEF Above
      <4>2. NextOf(m, d) \in Nat /\ p \in Nat /\ c \in Nat
        BY <1>0, <3>1, <4>1
      <4>3. NextOf(m, d) <= p /\ p < c
        BY <3>1, <3>3
      <4> QED BY <4>2, <4>3
    <3>5. Above(G, d) = Above(F, d) \ {c}
      BY DEF Above
    <3>6. NextOf(n, d) = NextOf(m, d)
      BY <2>0, <2>3
    <3> QED BY <3>3, <3>4, <3>5, <3>6 DEF Least
  <2> QED BY <1>0, <2>0, <2>1, <2>2, <2>3
<1>3. Least(G, IF p = -1 THEN NextOf(m, c) ELSE head)
  <2>1. CASE p = -1
    <3>0. \A d \in F : d # c <=> c < d
      BY <1>0, <2>1 DEF Prior
    <3>1. G = Above(F, c)
      BY <3>0 DEF Above
    <3> QED BY <1>1, <2>1, <3>1
  <2>2. CASE p # -1
    <3>1. head \in F /\ \A d \in F : head <= d
      BY DEF Chained, Least
    <3>4. p \in F /\ p < c
      BY <2>2 DEF Prior
    <3>2. head <= p /\ p < c /\ p \in Nat /\ p \in G
      BY <1>0, <3>1, <3>4
    <3>3. head # c
      BY <1>0, <3>1, <3>2
    <3> QED BY <2>2, <3>1, <3>2, <3>3 DEF Least
  <2> QED BY <2>1, <2>2
<1> QED BY <1>0, <1>2, <1>3 DEF Chained

\* A set of numbers up to a bound that is not empty has a greatest one.
LEMMA GreatestNumber ==
  ASSUME NEW K \in Int, NEW T, T \subseteq Int, T # {}, \A t \in T : t <= K
  PROVE  \E x \in T : \A y \in T : y <= x
<1> DEFINE R == {K - t : t \in T}
<1>1. R \subseteq Nat /\ R # {}
  <2>1. \A t \in T : K - t \in Nat
    OBVIOUS
  <2> QED BY <2>1
<1>2. PICK r \in R : \A s \in R : r <= s
  <2> HIDE DEF R
  <2> QED BY <1>1, LeastNumber
<1>3. PICK x \in T : r = K - x
  BY <1>2
<1>4. ASSUME NEW y \in T PROVE y <= x
  <2>1. K - y \in R
    OBVIOUS
  <2>2. r <= K - y
    BY <1>2, <2>1
  <2> QED BY <1>3, <2>2
<1> QED BY <1>4

\* There always is a last one before c.
LEMMA PriorExists ==
  ASSUME NEW F, F \subseteq Nat, NEW c \in Nat
  PROVE  \E p : Prior(F, c, p)
<1> DEFINE T == {d \in F : d < c}
<1>1. CASE T = {}
  <2>1. Prior(F, c, -1)
    BY <1>1 DEF Prior
  <2> QED BY <2>1
<1>2. CASE T # {}
  <2>1. PICK p \in T : \A d \in T : d <= p
    <3>1. T \subseteq Int /\ c \in Int /\ \A t \in T : t <= c
      <4>1. ASSUME NEW t \in T PROVE t \in Int /\ t <= c
        <5>1. t \in Nat /\ t < c
          OBVIOUS
        <5> HIDE DEF T
        <5> QED BY <5>1
      <4> HIDE DEF T
      <4> QED BY <4>1
    <3> HIDE DEF T
    <3> QED BY <1>2, <3>1, GreatestNumber
  <2>2. Prior(F, c, p)
    BY <2>1 DEF Prior
  <2> QED BY <2>2
<1> QED BY <1>1, <1>2

\* The walk of N steps has met F in order, and only then ends.
ChainWalked(M, F, f, N) ==
  /\ N \in 0 .. M /\ \A i \in 0 .. M : f[i] # -1 <=> i < N
  /\ {f[i] : i \in 0 .. N - 1} = F
  /\ \A i, j \in 0 .. N - 1 : i < j => f[i] < f[j]
  /\ \A i \in 0 .. N - 1 : f[i] \in F

\* Following such a list from its head visits its blocks once, in order.
LEMMA ChainWalk ==
  ASSUME NEW M \in Nat, NEW m, NEW head, NEW F, F \subseteq 0 .. M - 1, Chained(m, head, F),
         NEW f, Walks(M, m, head, f)
  PROVE  \E N : ChainWalked(M, F, f, N)
<1>1. f[0] = head /\ -1 \notin F /\ \A c \in F : c \in Nat
  BY DEF Walks, WalkBody
<1>2. ASSUME NEW i \in Nat, i + 1 <= M
      PROVE  f[i + 1] = IF f[i] = -1 THEN -1 ELSE NextOf(m, f[i])
  <2>1. i + 1 \in 0 .. M /\ i + 1 # 0 /\ (i + 1) - 1 = i
    BY <1>2
  <2>2. f[i + 1] = WalkBody(f, m, head, i + 1)
    BY <2>1 DEF Walks
  <2> QED BY <2>1, <2>2 DEF WalkBody
<1>6. \A i \in 0 .. M : f[i] = -1 \/ f[i] \in F
  <2> DEFINE Z == {k \in Nat : k <= M => (f[k] = -1 \/ f[k] \in F)}
  <2>1. 0 \in Z
    BY <1>1 DEF Chained, Least
  <2>2. ASSUME NEW k \in Nat, k \in Z PROVE k + 1 \in Z
    <3>1. SUFFICES ASSUME k + 1 <= M PROVE f[k + 1] = -1 \/ f[k + 1] \in F
      OBVIOUS
    <3>2. f[k] = -1 \/ f[k] \in F
      BY <2>2, <3>1
    <3>3. f[k] \in F => Least(Above(F, f[k]), NextOf(m, f[k]))
      BY DEF Chained
    <3> QED BY <1>2, <3>1, <3>2, <3>3 DEF Least, Above
  <2>3. Nat \subseteq Z
    <3> HIDE DEF Z
    <3> QED BY <2>1, <2>2, SetInduction
  <2> QED BY <2>3
<1> DEFINE
      Right(i) == /\ f[i] # -1 => /\ f[i] \in F /\ f[i] >= i
                                  /\ \A j \in 0 .. i - 1 : f[j] # -1 /\ f[j] < f[i]
                  /\ f[i] # -1 => \A d \in F : d <= f[i] => \E j \in 0 .. i : f[j] = d
                  /\ f[i] = -1 => \A d \in F : \E j \in 0 .. i - 1 : f[j] = d
      S == {i \in Nat : i <= M => Right(i)}
<1>3. 0 \in S
  <2>1. Right(0)
    <3>1. CASE F = {}
      BY <1>1, <3>1 DEF Chained, Least
    <3>2. CASE F # {}
      <4>1. head \in F /\ \A d \in F : head <= d
        BY <3>2 DEF Chained, Least
      <4> QED BY <1>1, <4>1
    <3> QED BY <3>1, <3>2
  <2> QED BY <2>1
<1>4. ASSUME NEW i \in Nat, i \in S PROVE i + 1 \in S
  <2>1. SUFFICES ASSUME i + 1 <= M PROVE Right(i + 1)
    OBVIOUS
  <2>2. Right(i)
    BY <1>4, <2>1
  <2>3. CASE f[i] = -1
    <3>1. f[i + 1] = -1
      BY <1>2, <2>1, <2>3
    <3>2. \A d \in F : \E j \in 0 .. i - 1 : f[j] = d
      BY <2>2, <2>3
    <3>3. \A d \in F : \E j \in 0 .. (i + 1) - 1 : f[j] = d
      BY <3>2
    <3> QED BY <3>1, <3>3
  <2>4. CASE f[i] # -1
    <3>1. /\ f[i] \in F /\ f[i] >= i /\ f[i] \in Nat
          /\ \A j \in 0 .. i - 1 : f[j] # -1 /\ f[j] < f[i]
          /\ \A d \in F : d <= f[i] => \E j \in 0 .. i : f[j] = d
      BY <1>1, <2>2, <2>4
    <3>2. f[i + 1] = NextOf(m, f[i]) /\ Least(Above(F, f[i]), f[i + 1])
      BY <1>2, <2>1, <2>4, <3>1 DEF Chained
    <3>3. \A j \in 0 .. i : f[j] # -1 /\ f[j] <= f[i] /\ f[j] \in F
      <4>1. ASSUME NEW j \in 0 .. i PROVE f[j] # -1 /\ f[j] <= f[i]
        <5>1. j = i \/ j \in 0 .. i - 1
          OBVIOUS
        <5>2. CASE j = i
          <6>1. f[i] \in Nat /\ f[i] # -1
            BY <2>4, <3>1
          <6> QED BY <5>2, <6>1
        <5>3. CASE j \in 0 .. i - 1
          <6>1. f[j] # -1 /\ f[j] < f[i] /\ (f[j] = -1 \/ f[j] \in F)
            BY <1>6, <2>1, <3>1, <5>3
          <6>2. f[j] \in Nat /\ f[i] \in Nat
            BY <1>1, <3>1, <6>1
          <6> QED BY <6>1, <6>2
        <5> QED BY <5>1, <5>2, <5>3
      <4>2. \A j \in 0 .. i : f[j] = -1 \/ f[j] \in F
        BY <1>6, <2>1
      <4> QED BY <4>1, <4>2
    <3>4. CASE Above(F, f[i]) = {}
      <4>1. f[i + 1] = -1
        BY <3>2, <3>4 DEF Least
      <4>2. \A d \in F : d <= f[i]
        BY <1>1, <3>1, <3>4 DEF Above
      <4>3. \A d \in F : \E j \in 0 .. (i + 1) - 1 : f[j] = d
        BY <3>1, <4>2
      <4> QED BY <4>1, <4>3
    <3>5. CASE Above(F, f[i]) # {}
      <4>1. /\ f[i + 1] \in F /\ f[i] < f[i + 1] /\ f[i + 1] # -1
            /\ \A d \in F : f[i] < d => f[i + 1] <= d
        BY <1>1, <3>2, <3>5 DEF Least, Above
      <4>2. f[i + 1] >= i + 1 /\ f[i + 1] \in Nat
        <5>1. f[i + 1] \in Nat
          BY <1>1, <4>1
        <5> QED BY <3>1, <4>1, <5>1
      <4>3. \A j \in 0 .. (i + 1) - 1 : f[j] # -1 /\ f[j] < f[i + 1]
        <5>1. ASSUME NEW j \in 0 .. (i + 1) - 1 PROVE f[j] # -1 /\ f[j] < f[i + 1]
          <6>1. j \in 0 .. i
            OBVIOUS
          <6>2. f[j] # -1 /\ f[j] <= f[i] /\ f[j] \in Nat
            BY <1>1, <3>3, <6>1
          <6> QED BY <3>1, <4>1, <4>2, <6>2
        <5> QED BY <5>1
      <4>4. \A d \in F : d <= f[i + 1] => \E j \in 0 .. i + 1 : f[j] = d
        <5>1. ASSUME NEW d \in F, d <= f[i + 1] PROVE \E j \in 0 .. i + 1 : f[j] = d
          <6>1. CASE d <= f[i]
            <7>1. PICK j \in 0 .. i : f[j] = d
              BY <3>1, <6>1
            <7> QED BY <7>1
          <6>2. CASE f[i] < d
            BY <1>1, <4>1, <4>2, <5>1, <6>2
          <6> QED BY <1>1, <3>1, <6>1, <6>2
        <5> QED BY <5>1
      <4> QED BY <4>1, <4>2, <4>3, <4>4
    <3> QED BY <3>4, <3>5
  <2> QED BY <2>3, <2>4
<1>5. \A i \in 0 .. M : Right(i)
  <2>1. Nat \subseteq S
    <3> HIDE DEF S
    <3> QED BY <1>3, <1>4, SetInduction
  <2> HIDE DEF Right
  <2> QED BY <2>1
<1>16. f[M] = -1
  <2>1. SUFFICES ASSUME f[M] # -1 PROVE FALSE
    OBVIOUS
  <2>2. Right(M)
    BY <1>5
  <2>3. f[M] \in F /\ f[M] >= M
    BY <2>1, <2>2
  <2>4. f[M] \in 0 .. M - 1
    BY <2>3
  <2> QED BY <2>3, <2>4
<1> DEFINE E == {i \in 0 .. M : f[i] = -1}
<1>7. PICK N \in E : \A i \in E : N <= i
  <2>1. E \subseteq Nat /\ E # {}
    BY <1>16
  <2> HIDE DEF E
  <2> QED BY <2>1, LeastNumber
<1>8. ASSUME NEW i \in 0 .. M, i > N PROVE f[i] = -1
  <2>1. Right(i)
    BY <1>5
  <2>2. N \in 0 .. i - 1 /\ f[N] = -1
    BY <1>7, <1>8
  <2> QED BY <2>1, <2>2
<1>9. \A i \in 0 .. M : f[i] # -1 <=> i < N
  BY <1>7, <1>8
<1>10. ASSUME NEW i \in 0 .. N - 1
       PROVE  f[i] \in F /\ \A j \in 0 .. i - 1 : f[j] < f[i]
  <2>1. Right(i) /\ f[i] # -1
    BY <1>5, <1>7, <1>9
  <2> QED BY <2>1
<1>11. \A d \in F : \E j \in 0 .. N - 1 : f[j] = d
  <2>1. Right(N) /\ f[N] = -1
    BY <1>5, <1>7
  <2> QED BY <2>1
<1>12. \A i, j \in 0 .. N - 1 : i < j => f[i] < f[j]
  <2>1. ASSUME NEW i \in 0 .. N - 1, NEW j \in 0 .. N - 1, i < j PROVE f[i] < f[j]
    <3>1. i \in 0 .. j - 1
      BY <1>7, <2>1
    <3> QED BY <1>10, <3>1
  <2> QED BY <2>1
<1>13. {f[i] : i \in 0 .. N - 1} = F
  BY <1>10, <1>11
<1>14. ChainWalked(M, F, f, N)
  BY <1>7, <1>9, <1>10, <1>12, <1>13 DEF ChainWalked
<1> QED BY <1>14

\* The blocks B fill the heap up to end, and F of them are on the list, which
\* starts at head and goes up.
Sorted(m, head, B, F, end) ==
  Tiled(m, B, end) /\ F \subseteq B /\ Chained(m, head, F)

\* What is known of the numbers in a heap with such a list.
LEMMA SortedNumbers ==
  ASSUME NEW m, NEW head, NEW B, NEW F, NEW end, Sorted(m, head, B, F, end)
  PROVE  /\ end \in Nat /\ -1 \notin B
         /\ \A d \in B : d \in Nat /\ Span(m, d) \in Nat /\ Span(m, d) >= 1
                         /\ d + Span(m, d) <= end
         /\ \A d, e \in B : d < e => d + Span(m, d) <= e
         /\ head \in F \/ head = -1
         /\ \A d \in F : NextOf(m, d) \in F \/ NextOf(m, d) = -1
  BY DEF Sorted, Tiled, Chained, Least, Above

\* The list stays if no link and no span changes.
LEMMA SortedSame ==
  ASSUME NEW m, NEW n, NEW head, NEW B, NEW F, NEW end, Sorted(m, head, B, F, end),
         \A d \in B : Span(n, d) = Span(m, d),
         \A d \in F : NextOf(n, d) = NextOf(m, d)
  PROVE  Sorted(n, head, B, F, end)
  BY TiledSame, ChainedSame DEF Sorted

After(m, head, p) == IF p = -1 THEN head ELSE NextOf(m, p)

\* c is put on the list behind p.
LEMMA SortedLink ==
  ASSUME NEW m, NEW n, NEW head, NEW B, NEW F, NEW end, Sorted(m, head, B, F, end),
         NEW c \in B, c \notin F, NEW p, Prior(F, c, p),
         \A d \in B : Span(n, d) = Span(m, d),
         \A d \in F \ {p} : NextOf(n, d) = NextOf(m, d),
         p # -1 => NextOf(n, p) = c,
         NextOf(n, c) = After(m, head, p)
  PROVE  Sorted(n, IF p = -1 THEN c ELSE head, B, F \cup {c}, end)
<1>1. Tiled(n, B, end) /\ F \cup {c} \subseteq B
  BY TiledSame DEF Sorted
<1>2. c \in Nat /\ Chained(m, head, F)
  BY DEF Sorted, Tiled
<1>3. Chained(n, IF p = -1 THEN c ELSE head, F \cup {c})
  BY <1>2, ChainInsert DEF After
<1> QED BY <1>1, <1>3 DEF Sorted

\* c is taken off the list.
LEMMA SortedUnlink ==
  ASSUME NEW m, NEW n, NEW head, NEW B, NEW F, NEW end, Sorted(m, head, B, F, end),
         NEW c \in F, NEW p, Prior(F, c, p),
         \A d \in B : Span(n, d) = Span(m, d),
         \A d \in F \ {c, p} : NextOf(n, d) = NextOf(m, d),
         p # -1 => NextOf(n, p) = NextOf(m, c)
  PROVE  Sorted(n, IF p = -1 THEN NextOf(m, c) ELSE head, B, F \ {c}, end)
<1>1. Tiled(n, B, end) /\ F \ {c} \subseteq B
  BY TiledSame DEF Sorted
<1>2. Chained(m, head, F)
  BY DEF Sorted
<1>3. Chained(n, IF p = -1 THEN NextOf(m, c) ELSE head, F \ {c})
  BY <1>2, ChainRemove
<1> QED BY <1>1, <1>3 DEF Sorted

\* b is joined to a, both on the list.
LEMMA SortedJoin ==
  ASSUME NEW m, NEW n, NEW head, NEW B, NEW F, NEW end, Sorted(m, head, B, F, end),
         NEW a \in F, NEW b \in F, b = a + Span(m, a),
         Span(n, a) = Span(m, a) + Span(m, b), NextOf(n, a) = NextOf(m, b),
         \A d \in B \ {a, b} : Span(n, d) = Span(m, d),
         \A d \in F \ {a, b} : NextOf(n, d) = NextOf(m, d)
  PROVE  Sorted(n, head, B \ {b}, F \ {b}, end)
<1>0. F \subseteq B /\ a \in B /\ b \in B
  BY DEF Sorted
<1>1. a < b /\ a \in Nat /\ b \in Nat /\ \A d \in F : d < b => d <= a
  <2>1. \A d \in F : d \in Nat /\ Span(m, d) \in Nat /\ Span(m, d) >= 1
    BY <1>0, SortedNumbers
  <2>2. ASSUME NEW d \in F, a < d PROVE b <= d
    BY <1>0, <2>2, SortedNumbers
  <2> QED BY <2>1, <2>2
<1>2. Prior(F, b, a)
  BY <1>1 DEF Prior
<1>3. Tiled(n, B \ {b}, end)
  BY <1>0, TiledJoins DEF Sorted
<1>4. Chained(n, head, F \ {b})
  <2>1. Chained(m, head, F) /\ a # -1
    BY <1>1 DEF Sorted
  <2>2. Chained(n, IF a = -1 THEN NextOf(m, b) ELSE head, F \ {b})
    BY <1>2, <2>1, ChainRemove, ZenonT(40)
  <2> QED BY <2>1, <2>2
<1> QED BY <1>0, <1>3, <1>4 DEF Sorted

\* The back of c becomes a block of its own, which is not on the list.
LEMMA SortedSplit ==
  ASSUME NEW m, NEW n, NEW head, NEW B, NEW F, NEW end, Sorted(m, head, B, F, end),
         NEW c \in B, NEW rest \in Nat, rest >= 1, rest < Span(m, c),
         Span(n, c) = rest, Span(n, c + rest) = Span(m, c) - rest,
         \A d \in B \ {c} : Span(n, d) = Span(m, d),
         \A d \in F : NextOf(n, d) = NextOf(m, d)
  PROVE  Sorted(n, head, B \cup {c + rest}, F, end) /\ c + rest \notin B
<1>0. rest \in Nat \ {0}
  OBVIOUS
<1>1. Tiled(n, B \cup {c + rest}, end) /\ c + rest \notin B
  BY <1>0, TiledSplits DEF Sorted
<1> QED BY <1>1, ChainedSame DEF Sorted

\* A block is added at the end, and not on the list.
LEMMA SortedGrow ==
  ASSUME NEW m, NEW n, NEW head, NEW B, NEW F, NEW end, Sorted(m, head, B, F, end),
         NEW g \in Nat, g >= 1, Span(n, end) = g,
         \A d \in B : Span(n, d) = Span(m, d),
         \A d \in F : NextOf(n, d) = NextOf(m, d)
  PROVE  Sorted(n, head, B \cup {end}, F, end + g) /\ end \notin B
<1>0. g \in Nat \ {0}
  OBVIOUS
<1>1. Tiled(n, B \cup {end}, end + g) /\ end \notin B
  BY <1>0, TiledGrows DEF Sorted
<1> QED BY <1>1, ChainedSame DEF Sorted

-----------------------------------------------------------------------------
(* A used block c joins the list behind p, and the neighbours it touches.  *)

\* It touches the block after p, or p.
Up(m, q, c)   == q # -1 /\ c + Span(m, c) = q
Down(m, p, c) == p # -1 /\ p + Span(m, p) = c

\* The block that has c, and those that are no longer blocks.
Joined(m, p, c) == IF Down(m, p, c) THEN p ELSE c
Gone(m, q, p, c) ==
  (IF Up(m, q, c) THEN {q} ELSE {}) \cup (IF Down(m, p, c) THEN {c} ELSE {})

Freeing(m, n, head, g, B, F, c, p) ==
  LET q == After(m, head, p)
      b == Joined(m, p, c)
      gone == Gone(m, q, p, c)
  IN /\ Span(n, b) = (Span(m, c) + IF Up(m, q, c) THEN Span(m, q) ELSE 0)
                       + IF Down(m, p, c) THEN Span(m, p) ELSE 0
     /\ NextOf(n, b) = IF Up(m, q, c) THEN NextOf(m, q) ELSE q
     /\ p # -1 /\ p # b => NextOf(n, p) = c
     /\ \A d \in B \ ({b} \cup gone) : Span(n, d) = Span(m, d)
     /\ \A d \in F \ ({b, p} \cup gone) : NextOf(n, d) = NextOf(m, d)
     /\ g = IF p = -1 THEN c ELSE head

\* The block after p is the first above c.
LEMMA AfterPrior ==
  ASSUME NEW m, NEW head, NEW F, NEW c \in Nat, NEW p, Chained(m, head, F),
         c \notin F, Prior(F, c, p)
  PROVE  Least(Above(F, c), After(m, head, p))
<1>0. \A d \in F : d \in Nat
  BY DEF Chained
<1>1. CASE p = -1
  <2>1. \A d \in F : c < d
    BY <1>0, <1>1 DEF Prior
  <2>2. Above(F, c) = F
    BY <2>1 DEF Above
  <2> QED BY <1>1, <2>2 DEF Chained, After
<1>2. CASE p # -1
  <2>1. p \in F /\ p < c /\ \A d \in F : d < c => d <= p
    BY <1>2 DEF Prior
  <2>2. \A d \in F : c < d <=> p < d
    BY <1>0, <2>1
  <2>3. Above(F, c) = Above(F, p)
    BY <2>2 DEF Above
  <2> QED BY <1>2, <2>1, <2>3 DEF Chained, After
<1> QED BY <1>1, <1>2

\* What comes of it.
Freed(m, n, head, g, B, F, c, p, end) ==
  LET gone == Gone(m, After(m, head, p), p, c)
      b == Joined(m, p, c)
      C == B \ gone
      G == (F \cup {c}) \ gone
  IN /\ Sorted(n, g, C, G, end) /\ C \ G = (B \ F) \ {c}
     /\ Coalesced(n, G)
     /\ b \in G /\ Span(n, b) >= Span(m, c)
     /\ \A d \in (B \ F) \ {c} : Span(n, d) = Span(m, d)

\* A block freed behind the one before it, and joined on both sides, leaves a list
\* in order, and no two free blocks that touch.
LEMMA FreeingSorted ==
  ASSUME NEW m, NEW n, NEW head, NEW g, NEW B, NEW F, NEW end,
         Sorted(m, head, B, F, end), Coalesced(m, F),
         NEW c \in B, c \notin F, NEW p, Prior(F, c, p),
         Freeing(m, n, head, g, B, F, c, p)
  PROVE  Freed(m, n, head, g, B, F, c, p, end)
<1> DEFINE q == After(m, head, p)
           up == Up(m, q, c)
           down == Down(m, p, c)
           b == Joined(m, p, c)
           gone == Gone(m, q, p, c)
           s == Span(m, c) + IF up THEN Span(m, q) ELSE 0
           r == IF up THEN NextOf(m, q) ELSE q
           k1 == [u \in B |->
                    [first |-> 0, second |-> m[u].second,
                     ptr |-> IF u = c THEN q ELSE IF u = p THEN c ELSE m[u].ptr]]
           k2 == [u \in B |->
                    [first |-> 0, second |-> IF u = c THEN s ELSE m[u].second,
                     ptr |-> IF u = c THEN r ELSE IF u = p THEN c ELSE m[u].ptr]]
           U == IF up THEN {q} ELSE {}
           H == F \cup {c}
<1>0. /\ F \subseteq B /\ Chained(m, head, F) /\ Tiled(m, B, end)
      /\ \A d \in B : d \in Nat /\ Span(m, d) \in Nat /\ Span(m, d) >= 1
      /\ \A d, e \in B : d < e => d + Span(m, d) <= e
      /\ -1 \notin B
  BY SortedNumbers DEF Sorted
<1>1. p = -1 \/ (p \in F /\ p < c /\ \A d \in F : d < c => d <= p)
  BY DEF Prior
<1>2. /\ q = -1 \/ (q \in F /\ c < q)
      /\ \A d \in F : c < d => q \in F /\ q <= d
  <2>1. Least(Above(F, c), q)
    BY <1>0, AfterPrior
  <2> HIDE DEF q
  <2> QED BY <2>1 DEF Least, Above
<1>3. p # c /\ (q # -1 => q # c /\ q # p)
  BY <1>0, <1>1, <1>2
<1>4. /\ Span(n, b) = s + IF down THEN Span(m, p) ELSE 0
      /\ NextOf(n, b) = r
      /\ p # -1 /\ p # b => NextOf(n, p) = c
      /\ \A d \in B \ ({b} \cup gone) : Span(n, d) = Span(m, d)
      /\ \A d \in F \ ({b, p} \cup gone) : NextOf(n, d) = NextOf(m, d)
      /\ g = IF p = -1 THEN c ELSE head
  BY DEF Freeing
<1>5. /\ b = IF down THEN p ELSE c
      /\ gone = U \cup (IF down THEN {c} ELSE {})
      /\ down <=> (p # -1 /\ p + Span(m, p) = c)
      /\ up <=> (q # -1 /\ c + Span(m, c) = q)
  BY DEF Joined, Gone, Up, Down
<1>6. /\ \A d \in B : Span(k1, d) = Span(m, d)
      /\ \A d \in B : NextOf(k1, d) = IF d = c THEN q ELSE IF d = p THEN c ELSE NextOf(m, d)
      /\ \A d \in B : Span(k2, d) = IF d = c THEN s ELSE Span(m, d)
      /\ \A d \in B : NextOf(k2, d) = IF d = c THEN r ELSE IF d = p THEN c ELSE NextOf(m, d)
  BY DEF Span, NextOf
<1> HIDE DEF k1, k2, q, b, gone, up, down
<1>7. Sorted(k1, g, B, H, end)
  <2>1. NextOf(k1, c) = After(m, head, p) /\ (p # -1 => NextOf(k1, p) = c)
        /\ \A d \in F \ {p} : NextOf(k1, d) = NextOf(m, d)
    BY <1>0, <1>1, <1>3, <1>6 DEF q
  <2>2. \A d \in B : Span(k1, d) = Span(m, d)
    BY <1>6
  <2> HIDE DEF H
  <2>3. Sorted(k1, IF p = -1 THEN c ELSE head, B, F \cup {c}, end)
    BY <2>1, <2>2, SortedLink, ZenonT(40)
  <2> QED BY <1>4, <2>3 DEF H
<1>8. Sorted(k2, g, B \ U, H \ U, end)
  <2>1. CASE up
    <3>1. c \in H /\ q \in H /\ q = c + Span(k1, c) /\ q \in B /\ q # c /\ q # p
      BY <1>0, <1>2, <1>3, <1>5, <1>6, <2>1
    <3>2. Span(k2, c) = Span(k1, c) + Span(k1, q) /\ NextOf(k2, c) = NextOf(k1, q)
      BY <1>6, <2>1, <3>1
    <3>3. /\ \A d \in B \ {c, q} : Span(k2, d) = Span(k1, d)
          /\ \A d \in H \ {c, q} : NextOf(k2, d) = NextOf(k1, d)
      BY <1>0, <1>6
    <3> HIDE DEF H, s, r
    <3>4. Sorted(k2, g, B \ {q}, H \ {q}, end)
      BY <1>7, <3>1, <3>2, <3>3, SortedJoin
    <3> QED BY <2>1, <3>4
  <2>2. CASE ~ up
    <3>1. s = Span(m, c) /\ r = q /\ U = {}
      BY <1>0, <2>2
    <3>2. /\ \A d \in B : Span(k2, d) = Span(k1, d)
          /\ \A d \in H : NextOf(k2, d) = NextOf(k1, d)
      BY <1>0, <1>6, <3>1
    <3> HIDE DEF H, s, r
    <3>3. Sorted(k2, g, B, H, end)
      BY <1>7, <3>2, SortedSame
    <3> QED BY <3>1, <3>3
  <2> QED BY <2>1, <2>2
<1> DEFINE C == B \ gone
           G == H \ gone
<1>9. Sorted(n, g, C, G, end)
  <2>1. CASE down
    <3>1. p \in H \ U /\ c \in H \ U /\ p # c /\ p \in B \ U /\ c \in B \ U /\ b = p
          /\ p \in F
      BY <1>0, <1>1, <1>3, <1>5, <2>1
    <3>2. c = p + Span(k2, p)
      BY <1>5, <1>6, <2>1, <3>1
    <3>3. Span(n, p) = Span(k2, p) + Span(k2, c) /\ NextOf(n, p) = NextOf(k2, c)
      <4>1. Span(k2, p) = Span(m, p) /\ Span(k2, c) = s /\ NextOf(k2, c) = r
        BY <1>6, <3>1
      <4>2. s \in Nat /\ Span(m, p) \in Nat
        <5>1. q # -1 => Span(m, q) \in Nat
          BY <1>0, <1>2
        <5> QED BY <1>0, <1>5, <3>1, <5>1
      <4> HIDE DEF s, r
      <4> QED BY <1>4, <2>1, <3>1, <4>1, <4>2
    <3>4. gone = U \cup {c}
      BY <1>5, <2>1
    <3>5. /\ \A d \in (B \ U) \ {p, c} : Span(n, d) = Span(k2, d)
          /\ \A d \in (H \ U) \ {p, c} : NextOf(n, d) = NextOf(k2, d)
      BY <1>0, <1>4, <1>6, <3>1, <3>4
    <3>6. Sorted(n, g, (B \ U) \ {c}, (H \ U) \ {c}, end)
      <4> DEFINE BB == B \ U
                 HH == H \ U
      <4>1. p \in HH /\ c \in HH
        BY <3>1
      <4>2. /\ Sorted(k2, g, BB, HH, end)
            /\ \A d \in BB \ {p, c} : Span(n, d) = Span(k2, d)
            /\ \A d \in HH \ {p, c} : NextOf(n, d) = NextOf(k2, d)
        BY <1>8, <3>5
      <4> HIDE DEF BB, HH
      <4>3. Sorted(n, g, BB \ {c}, HH \ {c}, end)
        BY <3>2, <3>3, <4>1, <4>2, SortedJoin
      <4> QED BY <4>3 DEF BB, HH
    <3>7. C = (B \ U) \ {c} /\ G = (H \ U) \ {c}
      BY <3>4
    <3> QED BY <3>6, <3>7
  <2>2. CASE ~ down
    <3>1. b = c /\ gone = U /\ c \notin U
      BY <1>3, <1>5, <2>2
    <3>2. Span(n, c) = s /\ NextOf(n, c) = r
      <4>1. s \in Nat
        <5>1. q # -1 => Span(m, q) \in Nat
          BY <1>0, <1>2
        <5> QED BY <1>0, <1>5, <5>1
      <4> HIDE DEF s, r
      <4> QED BY <1>4, <2>2, <3>1, <4>1
    <3>3. \A d \in B \ U : Span(n, d) = Span(k2, d)
      BY <1>4, <1>6, <3>1, <3>2
    <3>4. \A d \in H \ U : NextOf(n, d) = NextOf(k2, d)
      <4>1. ASSUME NEW d \in H \ U PROVE NextOf(n, d) = NextOf(k2, d)
        <5>1. d \in B
          BY <1>0
        <5>2. CASE d = c
          BY <1>6, <3>2, <5>1, <5>2
        <5>3. CASE d = p /\ d # c
          <6>1. p # -1
            BY <1>0, <5>1, <5>3
          <6> QED BY <1>4, <1>6, <3>1, <5>1, <5>3, <6>1
        <5>4. CASE d # p /\ d # c
          BY <1>4, <1>6, <3>1, <5>1, <5>4
        <5> QED BY <5>2, <5>3, <5>4
      <4> QED BY <4>1
    <3> DEFINE BB == B \ U
               HH == H \ U
    <3>5. /\ Sorted(k2, g, BB, HH, end)
          /\ \A d \in BB : Span(n, d) = Span(k2, d)
          /\ \A d \in HH : NextOf(n, d) = NextOf(k2, d)
      BY <1>8, <3>3, <3>4
    <3>6. C = BB /\ G = HH
      BY <3>1
    <3> HIDE DEF BB, HH, C, G
    <3> QED BY <3>5, <3>6, SortedSame
  <2> QED BY <2>1, <2>2
<1>10. C \ G = (B \ F) \ {c}
  <2>1. gone \subseteq F \cup {c}
    BY <1>0, <1>2, <1>5
  <2> QED BY <2>1
<1>11. b \in G
  BY <1>1, <1>3, <1>5
<1>12. Span(n, b) >= Span(m, c) /\ b + Span(n, b) = c + s
  <2>1. q # -1 => Span(m, q) \in Nat
    BY <1>0, <1>2
  <2>2. p # -1 => Span(m, p) \in Nat /\ p \in Nat
    BY <1>0, <1>1
  <2>3. s \in Nat /\ s >= Span(m, c) /\ Span(m, c) \in Nat /\ c \in Nat
    BY <1>0, <1>5, <2>1
  <2> HIDE DEF s
  <2> QED BY <1>4, <1>5, <2>2, <2>3
<1>13. Coalesced(n, G)
  <2>1. ASSUME NEW d \in G PROVE d + Span(n, d) \notin G
    <3>1. CASE d = b
      <4>1. CASE up
        <5>1. c + s = q + Span(m, q) /\ c < q /\ q \in F /\ c \in Nat
              /\ q \in Nat /\ Span(m, q) \in Nat
          <6>1. q \in F /\ c < q /\ c + Span(m, c) = q
            BY <1>2, <1>5, <4>1
          <6>2. c \in Nat /\ q \in Nat /\ Span(m, c) \in Nat /\ Span(m, q) \in Nat
            BY <1>0, <6>1
          <6> QED BY <4>1, <6>1, <6>2
        <5>2. q + Span(m, q) \notin F
          BY <5>1 DEF Coalesced
        <5>3. q + Span(m, q) # c
          BY <5>1
        <5> QED BY <1>12, <3>1, <5>1, <5>2, <5>3
      <4>2. CASE ~ up
        <5>1. c + s = c + Span(m, c) /\ c + Span(m, c) # c
          BY <1>0, <4>2
        <5>2. c + Span(m, c) \notin F
          <6>1. SUFFICES ASSUME c + Span(m, c) \in F PROVE FALSE
            OBVIOUS
          <6> DEFINE e == c + Span(m, c)
          <6>2. c < e /\ e \in F /\ c \in Nat /\ e \in Nat
            BY <1>0, <6>1
          <6>3. q \in F /\ q <= e /\ q # -1 /\ c < q
            BY <1>0, <1>2, <6>2
          <6>4. e <= q
            BY <1>0, <6>3
          <6>5. q \in Nat
            BY <1>0, <6>3
          <6> HIDE DEF e
          <6>6. q = e
            BY <6>2, <6>3, <6>4, <6>5
          <6> QED BY <1>5, <4>2, <6>3, <6>6 DEF e
        <5> HIDE DEF s
        <5> QED BY <1>12, <3>1, <5>1, <5>2
      <4> QED BY <4>1, <4>2
    <3>2. CASE d # b
      <4>1. d \in F /\ d # c /\ d \notin gone
        BY <1>5, <3>2
      <4>2. Span(n, d) = Span(m, d) /\ d + Span(m, d) \notin F
        BY <1>0, <1>4, <3>2, <4>1 DEF Coalesced
      <4>3. d + Span(m, d) # c
        <5>1. SUFFICES ASSUME d + Span(m, d) = c PROVE FALSE
          OBVIOUS
        <5>2. d < c /\ d \in Nat /\ d \in B
          BY <1>0, <4>1, <5>1
        <5>3. p # -1 /\ p \in F /\ p < c /\ d <= p /\ p \in Nat
          <6>1. p # -1
            BY <4>1, <5>2 DEF Prior
          <6> QED BY <1>0, <1>1, <4>1, <5>2, <6>1
        <5>4. d = p
          <6>1. d < p => c <= p
            BY <1>0, <5>1, <5>2, <5>3
          <6> QED BY <1>0, <5>2, <5>3, <6>1
        <5> QED BY <1>5, <3>2, <5>1, <5>3, <5>4
      <4> QED BY <4>2, <4>3
    <3> QED BY <3>1, <3>2
  <2> HIDE DEF G
  <2> QED BY <2>1 DEF Coalesced
<1>14. \A d \in (B \ F) \ {c} : Span(n, d) = Span(m, d)
  <2>1. b \in F \cup {c} /\ gone \subseteq F \cup {c}
    BY <1>1, <1>2, <1>5
  <2> QED BY <1>4, <2>1
<1> QED BY <1>9, <1>10, <1>11, <1>12, <1>13, <1>14 DEF Freed, q, b, gone

-----------------------------------------------------------------------------
(* What the program has in blocks that have a header only.                 *)

\* The blocks D are as large as before, with the same in them.
Saved(m, n, D) ==
  \A d \in D : /\ Span(n, d) = Span(m, d)
               /\ \A u \in d + 1 .. d + Span(m, d) - 1 : n[u] = m[u]

\* What two changes save, both together save.
LEMMA SavedTwice ==
  ASSUME NEW k, NEW m, NEW n, NEW D, Saved(k, m, D), Saved(m, n, D)
  PROVE  Saved(k, n, D)
  BY DEF Saved

\* What is saved of some blocks is saved of fewer.
LEMMA SavedFewer ==
  ASSUME NEW m, NEW n, NEW D, Saved(m, n, D), NEW E, E \subseteq D
  PROVE  Saved(m, n, E)
  BY DEF Saved

\* What is written to headers, and into block c, leaves the others as they are.
LEMMA SavedOthers ==
  ASSUME NEW m, NEW n, NEW B, NEW end, Tiled(m, B, end), NEW c \in B,
         NEW D, D \subseteq B \ {c},
         \A d \in D : Span(n, d) = Span(m, d),
         \A u \in 0 .. end - 1 :
           u \in B \/ u \in c .. c + Span(m, c) - 1 \/ n[u] = m[u]
  PROVE  Saved(m, n, D)
<1>1. ASSUME NEW d \in D, NEW u \in d + 1 .. d + Span(m, d) - 1
      PROVE  n[u] = m[u]
  <2>1. /\ d \in Nat /\ Span(m, d) \in Nat /\ d + Span(m, d) <= end /\ end \in Nat
        /\ c \in Nat /\ Span(m, c) \in Nat /\ d # c
    BY DEF Tiled
  <2>2. u \in 0 .. end - 1
    BY <2>1
  <2>3. u \notin B
    <3>1. SUFFICES ASSUME u \in B PROVE FALSE
      OBVIOUS
    <3>2. d < u => d + Span(m, d) <= u
      BY <3>1 DEF Tiled
    <3> QED BY <2>1, <3>2
  <2>4. u \notin c .. c + Span(m, c) - 1
    <3>1. /\ d < c => d + Span(m, d) <= c
          /\ c < d => c + Span(m, c) <= d
      BY DEF Tiled
    <3> QED BY <2>1, <3>1
  <2> QED BY <2>2, <2>3, <2>4
<1> QED BY <1>1 DEF Saved

\* What is written to headers leaves all blocks as they are that keep their size.
LEMMA SavedInside ==
  ASSUME NEW m, NEW n, NEW B, NEW end, Tiled(m, B, end), NEW D, D \subseteq B,
         \A d \in D : Span(n, d) = Span(m, d),
         \A u \in 0 .. end - 1 : u \in B \/ n[u] = m[u]
  PROVE  Saved(m, n, D)
<1>1. ASSUME NEW d \in D, NEW u \in d + 1 .. d + Span(m, d) - 1
      PROVE  n[u] = m[u]
  <2>1. /\ d \in Nat /\ Span(m, d) \in Nat /\ d + Span(m, d) <= end /\ end \in Nat
    BY DEF Tiled
  <2>2. u \in 0 .. end - 1
    BY <2>1
  <2>3. u \notin B
    <3>1. SUFFICES ASSUME u \in B PROVE FALSE
      OBVIOUS
    <3>2. d < u => d + Span(m, d) <= u
      BY <3>1 DEF Tiled
    <3> QED BY <2>1, <3>2
  <2> QED BY <2>2, <2>3
<1> QED BY <1>1 DEF Saved

\* U are the blocks of the objects has, which have room there and are filled.
Roomy(m, U, has) ==
  /\ has \subseteq [at : Nat, n : Requests]
  /\ {a.at - 1 : a \in has} = U
  /\ \A a, b \in has : a.at = b.at => a = b
  /\ \A a \in has : /\ Span(m, a.at - 1) >= a.n + 1
                    /\ \A u \in a.at .. a.at + a.n - 1 : m[u] = Bytes

\* What the program fills is not a header, and not part of another block.
Giving(m, n, B, c, r) ==
  /\ \A d \in B : n[d] = m[d]
  /\ \A u \in c + 1 .. c + r : n[u] = Bytes
  /\ Saved(m, n, B \ {c})

\* The program fills what it was given without a header of any block.
LEMMA GivenHeaders ==
  ASSUME NEW M \in Nat, NEW m, NEW B, NEW end, Tiled(m, B, end), end <= M,
         NEW c \in B, NEW r \in Nat, Span(m, c) >= r + 1,
         NEW n, n = GivenMem(M, m, c, r)
  PROVE  Giving(m, n, B, c, r)
<1>1. /\ \A d \in B : d \in Nat /\ Span(m, d) \in Nat /\ Span(m, d) >= 1
                      /\ d + Span(m, d) <= end
      /\ \A d, e \in B : d < e => d + Span(m, d) <= e
      /\ end \in Nat
  BY DEF Tiled
<1>2. \A u \in 0 .. M - 1 : n[u] = IF u \in c + 1 .. c + r THEN Bytes ELSE m[u]
  BY DEF GivenMem
<1>3. ASSUME NEW d \in B PROVE n[d] = m[d]
  <2>1. d \in 0 .. M - 1
    BY <1>1
  <2>2. d \notin c + 1 .. c + r
    BY <1>1
  <2> QED BY <1>2, <2>1, <2>2
<1>4. \A u \in c + 1 .. c + r : n[u] = Bytes
  BY <1>1, <1>2
<1>5. Saved(m, n, B \ {c})
  <2>1. \A d \in B \ {c} : Span(n, d) = Span(m, d)
    BY <1>3 DEF Span
  <2>2. \A u \in 0 .. end - 1 : u \in B \/ u \in c .. c + Span(m, c) - 1 \/ n[u] = m[u]
    BY <1>1, <1>2
  <2> QED BY <2>1, <2>2, SavedOthers
<1> QED BY <1>3, <1>4, <1>5 DEF Giving

\* The program gets block c.
LEMMA RoomyMalloc ==
  ASSUME NEW M \in Nat, NEW m, NEW U, NEW has, Roomy(m, U, has),
         NEW k, Saved(m, k, U), NEW B, NEW end, Tiled(k, B, end), end <= M,
         NEW c \in B, c \notin U, U \subseteq B,
         NEW r \in Requests, Span(k, c) >= r + 1,
         NEW n, n = GivenMem(M, k, c, r)
  PROVE  Roomy(n, U \cup {c}, has \cup {[at |-> c + 1, n |-> r]})
<1> DEFINE new == [at |-> c + 1, n |-> r]
<1>0. r \in Nat /\ Requests \subseteq Nat \ {0} /\ c \in Nat
  BY UnitsOK DEF Tiled
<1>1. /\ \A d \in B : n[d] = k[d]
      /\ \A u \in c + 1 .. c + r : n[u] = Bytes
      /\ Saved(k, n, B \ {c})
  <2>1. Giving(k, n, B, c, r)
    BY <1>0, GivenHeaders
  <2> QED BY <2>1 DEF Giving
<1>2. Saved(m, n, U)
  <2>1. Saved(k, n, U)
    <3>1. U \subseteq B \ {c}
      OBVIOUS
    <3> QED BY <1>1, <3>1, SavedFewer
  <2> QED BY <2>1, SavedTwice
<1>3. ASSUME NEW a \in has
      PROVE  /\ a.at - 1 \in U /\ a.at \in Nat /\ a.n \in Nat /\ a.at # c + 1
             /\ Span(n, a.at - 1) >= a.n + 1
             /\ \A u \in a.at .. a.at + a.n - 1 : n[u] = Bytes
  <2>1. /\ a.at - 1 \in U /\ a.at \in Nat /\ a.n \in Nat
        /\ Span(m, a.at - 1) >= a.n + 1
        /\ \A u \in a.at .. a.at + a.n - 1 : m[u] = Bytes
    BY <1>0 DEF Roomy
  <2>2. Span(n, a.at - 1) = Span(m, a.at - 1) /\ Span(k, a.at - 1) = Span(m, a.at - 1)
        /\ \A u \in (a.at - 1) + 1 .. (a.at - 1) + Span(m, a.at - 1) - 1 : n[u] = m[u]
    BY <1>2, <2>1 DEF Saved
  <2>3. Span(m, a.at - 1) \in Nat
    BY <2>1, <2>2 DEF Tiled
  <2>4. \A u \in a.at .. a.at + a.n - 1 : n[u] = m[u]
    BY <2>1, <2>2, <2>3
  <2> QED BY <1>0, <2>1, <2>2, <2>4
<1>4. new \in [at : Nat, n : Requests] /\ new.at - 1 = c /\ new.n = r /\ new.at = c + 1
  BY <1>0
<1> HIDE DEF new
<1>5. /\ Span(n, new.at - 1) >= new.n + 1
      /\ \A u \in new.at .. new.at + new.n - 1 : n[u] = Bytes
  BY <1>0, <1>1, <1>4 DEF Span
<1>6. {a.at - 1 : a \in has \cup {new}} = U \cup {c}
  <2>1. {a.at - 1 : a \in has} = U
    BY DEF Roomy
  <2>2. {a.at - 1 : a \in has \cup {new}} = {a.at - 1 : a \in has} \cup {c}
    BY <1>4
  <2> QED BY <2>1, <2>2
<1>7. \A a, b \in has \cup {new} : a.at = b.at => a = b
  BY <1>3, <1>4 DEF Roomy
<1>8. has \cup {new} \subseteq [at : Nat, n : Requests]
  BY <1>4 DEF Roomy
<1>9. \A a \in has \cup {new} : /\ Span(n, a.at - 1) >= a.n + 1
                                /\ \A u \in a.at .. a.at + a.n - 1 : n[u] = Bytes
  BY <1>3, <1>5
<1>10. Roomy(n, U \cup {c}, has \cup {new})
  BY <1>6, <1>7, <1>8, <1>9 DEF Roomy
<1> QED BY <1>10 DEF new

\* The program no longer has a.
LEMMA RoomyFree ==
  ASSUME NEW m, NEW B, NEW end, Tiled(m, B, end),
         NEW U, U \subseteq B, NEW has, Roomy(m, U, has), NEW a \in has,
         NEW n, Saved(m, n, U \ {a.at - 1})
  PROVE  Roomy(n, U \ {a.at - 1}, has \ {a})
<1>0. Requests \subseteq Nat \ {0}
  BY UnitsOK
<1>1. ASSUME NEW b \in has \ {a}
      PROVE  /\ b.at - 1 \in U \ {a.at - 1} /\ Span(n, b.at - 1) >= b.n + 1
             /\ \A u \in b.at .. b.at + b.n - 1 : n[u] = Bytes
  <2>1. /\ b.at \in Nat /\ a.at \in Nat /\ b.n \in Nat /\ b.at - 1 \in U
        /\ Span(m, b.at - 1) >= b.n + 1
        /\ \A u \in b.at .. b.at + b.n - 1 : m[u] = Bytes
    BY <1>0 DEF Roomy
  <2>2. b.at # a.at
    BY DEF Roomy
  <2>3. b.at - 1 \in U \ {a.at - 1}
    BY <2>1, <2>2
  <2>4. Span(n, b.at - 1) = Span(m, b.at - 1)
        /\ \A u \in (b.at - 1) + 1 .. (b.at - 1) + Span(m, b.at - 1) - 1 : n[u] = m[u]
    BY <2>3 DEF Saved
  <2>5. Span(m, b.at - 1) \in Nat
    BY <2>1 DEF Tiled
  <2>6. \A u \in b.at .. b.at + b.n - 1 : n[u] = m[u]
    BY <2>1, <2>4, <2>5
  <2> QED BY <2>1, <2>3, <2>4, <2>6
<1>2. {b.at - 1 : b \in has \ {a}} = U \ {a.at - 1}
  <2>1. {b.at - 1 : b \in has} = U
    BY DEF Roomy
  <2> QED BY <1>1, <2>1
<1> QED BY <1>1, <1>2 DEF Roomy

\* The objects lie apart.
LEMMA RoomyApart ==
  ASSUME NEW M \in Nat, NEW m, NEW B, NEW end, Tiled(m, B, end), end <= M,
         NEW U, U \subseteq B, NEW has, Roomy(m, U, has)
  PROVE  Apart(has, M, m)
<1>0. Requests \subseteq Nat \ {0}
  BY UnitsOK
<1>1. ASSUME NEW a \in has
      PROVE  /\ a.at - 1 \in B /\ a.at \in Nat /\ a.n \in Nat \ {0}
             /\ Span(m, a.at - 1) >= a.n + 1
             /\ Span(m, a.at - 1) \in Nat /\ (a.at - 1) + Span(m, a.at - 1) <= end
             /\ end \in Nat /\ a.at - 1 \in Nat
  <2>1. a.at - 1 \in B /\ a.at \in Nat /\ a.n \in Nat \ {0}
        /\ Span(m, a.at - 1) >= a.n + 1
    BY <1>0 DEF Roomy
  <2> QED BY <2>1 DEF Tiled
<1>2. ASSUME NEW a \in has PROVE a.at \in 0 .. M - 1 /\ UnitsOf(a) \subseteq 0 .. M - 1
  BY <1>1 DEF UnitsOf
<1>3. ASSUME NEW a \in has, NEW b \in has, a # b PROVE UnitsOf(a) \cap UnitsOf(b) = {}
  <2>1. a.at # b.at
    BY <1>3 DEF Roomy
  <2>2. /\ a.at < b.at => (a.at - 1) + Span(m, a.at - 1) <= b.at - 1
        /\ b.at < a.at => (b.at - 1) + Span(m, b.at - 1) <= a.at - 1
    <3>1. \A d, e \in B : d < e => d + Span(m, d) <= e
      BY DEF Tiled
    <3>2. a.at < b.at <=> a.at - 1 < b.at - 1
      BY <1>1
    <3>3. b.at < a.at <=> b.at - 1 < a.at - 1
      BY <1>1
    <3> QED BY <1>1, <3>1, <3>2, <3>3
  <2> QED BY <1>1, <2>1, <2>2 DEF UnitsOf
<1> QED BY <1>2, <1>3 DEF Roomy, Apart, UnitsOf

\* The walk along the list in the order of the addresses: what is before c.
LEMMA PriorWalked ==
  ASSUME NEW M \in Nat, NEW F, F \subseteq Nat, NEW f, NEW N, ChainWalked(M, F, f, N),
         NEW c \in Nat, NEW stop \in 0 .. N,
         \A i \in 0 .. stop - 1 : f[i] < c,
         \A i \in stop .. N - 1 : c <= f[i]
  PROVE  Prior(F, c, IF stop = 0 THEN -1 ELSE f[stop - 1])
<1>0. \A d \in F : d \in Nat
  OBVIOUS
<1>1. /\ N \in 0 .. M /\ \A i \in 0 .. N - 1 : f[i] \in F
      /\ \A i, j \in 0 .. N - 1 : i < j => f[i] < f[j]
      /\ \A d \in F : \E i \in 0 .. N - 1 : f[i] = d
  BY DEF ChainWalked
<1>2. CASE stop = 0
  <2>1. \A d \in F : c <= d
    BY <1>1, <1>2
  <2> QED BY <1>2, <2>1 DEF Prior
<1>3. CASE stop # 0
  <2> DEFINE p == f[stop - 1]
  <2>0. N \in Nat
    BY <1>1
  <2>1. stop - 1 \in 0 .. stop - 1 /\ stop - 1 \in 0 .. N - 1
    BY <1>3, <2>0
  <2>2. p \in F /\ p < c /\ p \in Nat /\ p # -1
    <3>1. p \in F
      BY <1>1, <2>1
    <3>2. p < c
      BY <2>1
    <3> HIDE DEF p
    <3> QED BY <1>0, <3>1, <3>2
  <2>3. ASSUME NEW d \in F, d < c PROVE d <= p
    <3>1. PICK i \in 0 .. N - 1 : f[i] = d
      BY <1>1
    <3>2. i \in 0 .. stop - 1
      <4>1. i \notin stop .. N - 1
        BY <1>0, <2>3, <3>1
      <4> QED BY <4>1
    <3>3. i = stop - 1 \/ f[i] < f[stop - 1]
      BY <1>1, <2>1, <3>2
    <3> QED BY <1>0, <2>2, <3>1, <3>3
  <2> HIDE DEF p
  <2>4. Prior(F, c, p)
    BY <2>2, <2>3 DEF Prior
  <2> QED BY <1>3, <2>4 DEF p
<1> QED BY <1>2, <1>3

-----------------------------------------------------------------------------
(* heapmgrbase: headers only, one list in the order of the addresses.      *)

M3 == MaxUnits["heapmgrbase"]
MemB == [0 .. M3 - 1 -> [first : {-7, 0, 1}, second : {-7} \cup 0 .. M3, ptr : Ptrs(M3)]]

\* The bounds of heapmgrbase are numbers.
LEMMA M3Number == M3 \in Nat /\ Growth["heapmgrbase"] \in Nat \ {0}
  BY UnitsOK DEF M3, Managers

\* n differs from m in the header of c, where it has these fields.
Puts(m, n, c, first, second, ptr) ==
  /\ n \in MemB
  /\ \A u \in 0 .. M3 - 1 : u # c => n[u] = m[u]
  /\ n[c].first = first /\ n[c].second = second /\ n[c].ptr = ptr

\* set_status writes one field of one unit.
LEMMA PutFirst ==
  ASSUME NEW m \in MemB, NEW c \in 0 .. M3 - 1, NEW s \in {0, 1},
         NEW n, n = [m EXCEPT ![c].first = s]
  PROVE  Puts(m, n, c, s, m[c].second, m[c].ptr)
  BY DEF MemB, Puts

\* set_span_units writes one field of one unit.
LEMMA PutSecond ==
  ASSUME NEW m \in MemB, NEW c \in 0 .. M3 - 1, NEW s \in 0 .. M3,
         NEW n, n = [m EXCEPT ![c].second = s]
  PROVE  Puts(m, n, c, m[c].first, s, m[c].ptr)
<1>1. s \in {-7} \cup 0 .. M3
  OBVIOUS
<1> QED BY <1>1 DEF MemB, Puts

\* set_next_free writes one field of one unit.
LEMMA PutPtr ==
  ASSUME NEW m \in MemB, NEW c \in 0 .. M3 - 1, NEW p \in Ptrs(M3),
         NEW n, n = [m EXCEPT ![c].ptr = p]
  PROVE  Puts(m, n, c, m[c].first, m[c].second, p)
  BY DEF MemB, Puts

\* Two writes to one header.
LEMMA PutTwice ==
  ASSUME NEW k, NEW m, NEW n, NEW c, NEW s1, NEW s2, NEW s3, NEW t1, NEW t2, NEW t3,
         Puts(k, m, c, s1, s2, s3), Puts(m, n, c, t1, t2, t3)
  PROVE  Puts(k, n, c, t1, t2, t3)
  BY DEF Puts

\* What a block of the heap may have in its fields.
LEMMA FieldsB ==
  ASSUME NEW m \in MemB, NEW u \in 0 .. M3 - 1
  PROVE  m[u].ptr \in Ptrs(M3) /\ m[u].second \in {-7} \cup 0 .. M3
  BY DEF MemB

\* coalesce_two
LEMMA PutJoin ==
  ASSUME NEW m \in MemB, NEW a \in 0 .. M3 - 1, NEW b \in 0 .. M3 - 1,
         a # b, Span(m, a) + Span(m, b) \in 0 .. M3, NextOf(m, b) \in Ptrs(M3),
         NEW n, n = Base!coalesce_two(m, a, b)
  PROVE  Puts(m, n, a, Status(m, a), Span(m, a) + Span(m, b), NextOf(m, b))
<1> DEFINE s == Span(m, a) + Span(m, b)
           k == [m EXCEPT ![a].second = s]
<1>1. n = [k EXCEPT ![a].ptr = NextOf(m, b)]
  BY DEF Base!coalesce_two, Base!set_next_free, Base!set_span_units, Base!get_span,
     Base!get_next_free, Span, NextOf
<1>2. s \in 0 .. M3
  OBVIOUS
<1>3. k = [m EXCEPT ![a].second = s]
  OBVIOUS
<1> HIDE DEF k, s
<1>4. Puts(m, k, a, m[a].first, s, m[a].ptr)
  BY <1>2, <1>3, PutSecond
<1>5. k \in MemB /\ k[a].first = m[a].first /\ k[a].second = s
  BY <1>4 DEF Puts
<1>6. Puts(k, n, a, k[a].first, k[a].second, NextOf(m, b))
  BY <1>1, <1>5, PutPtr
<1>7. Puts(m, n, a, k[a].first, k[a].second, NextOf(m, b))
  BY <1>4, <1>6, PutTwice
<1> QED BY <1>5, <1>7 DEF s, Status

ListedB(h, B, F, end) ==
  /\ h = [mem |-> h.mem, head |-> h.head] /\ h.mem \in MemB /\ end <= M3
  /\ Sorted(h.mem, h.head, B, F, end)
  /\ \A c \in F : Status(h.mem, c) = 0
  /\ \A c \in B \ F : Status(h.mem, c) = 1

\* What is known of the numbers in such a heap.
Numbers(h, B, F, end) ==
  /\ M3 \in Nat /\ end \in 0 .. M3 /\ F \subseteq B /\ -1 \notin B
  /\ \A d \in B : /\ d \in 0 .. M3 - 1 /\ Span(h.mem, d) \in 1 .. M3
                  /\ d + Span(h.mem, d) <= end
  /\ \A d, e \in B : d < e => d + Span(h.mem, d) <= e
  /\ \A d \in B : d + Span(h.mem, d) < end => d + Span(h.mem, d) \in B
  /\ h.head \in Ptrs(M3)
  /\ \A d \in F : NextOf(h.mem, d) \in Ptrs(M3)
  /\ h.mem \in MemB
  /\ \A d \in F : Status(h.mem, d) = 0
  /\ \A d \in B \ F : Status(h.mem, d) = 1

\* What is known of the numbers in a heap of heapmgrbase.
LEMMA ListedNumbers ==
  ASSUME NEW h, NEW B, NEW F, NEW end, ListedB(h, B, F, end)
  PROVE  Numbers(h, B, F, end)
<1>1. Sorted(h.mem, h.head, B, F, end) /\ end <= M3 /\ M3 \in Nat
  BY M3Number DEF ListedB
<1>2. /\ end \in Nat /\ -1 \notin B /\ F \subseteq B
      /\ \A d \in B : d \in Nat /\ Span(h.mem, d) \in Nat /\ Span(h.mem, d) >= 1
                      /\ d + Span(h.mem, d) <= end
      /\ \A d, e \in B : d < e => d + Span(h.mem, d) <= e
      /\ h.head \in F \/ h.head = -1
      /\ \A d \in F : NextOf(h.mem, d) \in F \/ NextOf(h.mem, d) = -1
  BY <1>1, SortedNumbers DEF Sorted
<1>3. \A d \in B : /\ d \in 0 .. M3 - 1 /\ Span(h.mem, d) \in 1 .. M3
  BY <1>1, <1>2
<1>4. \A d \in B : d + Span(h.mem, d) < end => d + Span(h.mem, d) \in B
  BY <1>1, <1>2 DEF Sorted, Tiled
<1>5. h.head \in Ptrs(M3) /\ \A d \in F : NextOf(h.mem, d) \in Ptrs(M3)
  BY <1>2, <1>3 DEF Ptrs
<1>6. /\ h.mem \in MemB
      /\ \A d \in F : Status(h.mem, d) = 0
      /\ \A d \in B \ F : Status(h.mem, d) = 1
  BY DEF ListedB
<1> QED BY <1>1, <1>2, <1>3, <1>4, <1>5, <1>6 DEF Numbers

\* What putting c on the list does to the memory, when p is before c.
FreeOf(h, x, B, F, c, p) ==
  /\ x = [mem |-> x.mem, head |-> x.head] /\ x.mem \in MemB
  /\ Freeing(h.mem, x.mem, h.head, x.head, B, F, c, p)
  /\ \A u \in 0 .. M3 - 1 : u \in B \/ x.mem[u] = h.mem[u]
  /\ Status(x.mem, c) = 0
  /\ \A d \in B \ {c} : Status(x.mem, d) = Status(h.mem, d)

\* push_front frees c when no free block is before it.
LEMMA PushFrees ==
  ASSUME NEW h, NEW B, NEW F, NEW end, ListedB(h, B, F, end), NEW c \in B, c \notin F,
         Prior(F, c, -1), NEW x, x = Base!push_front(h, c, end)
  PROVE  FreeOf(h, x, B, F, c, -1)
<1> DEFINE q == h.head
           m1 == [h.mem EXCEPT ![c].first = 0]
           m == [m1 EXCEPT ![c].ptr = q]
           up == q # -1 /\ c + Span(h.mem, c) = q
           k == Base!coalesce_two(m, c, q)
<1>0. /\ h.mem \in MemB /\ q \in Ptrs(M3) /\ end \in 0 .. M3 /\ M3 \in Nat
      /\ \A d \in B : /\ d \in 0 .. M3 - 1 /\ Span(h.mem, d) \in 1 .. M3
                      /\ d + Span(h.mem, d) <= end
      /\ F \subseteq B /\ \A d \in F : NextOf(h.mem, d) \in Ptrs(M3)
  <2>1. Numbers(h, B, F, end)
    BY ListedNumbers
  <2> QED BY <2>1 DEF Numbers
<1>1. q = -1 \/ q \in F
  BY SortedNumbers DEF ListedB
<1>2. x = [mem |-> IF q # -1 /\ NextAt(m, c, end) = q THEN k ELSE m, head |-> c]
  BY DEF Base!push_front, Base!set_next_free, Base!set_status, Base!adjacent,
     Base!next_phys, Base!get_span, Base!NULL, Base!CHUNK_FREE, NextAt, Span
<1>3. m1 = [h.mem EXCEPT ![c].first = 0] /\ m = [m1 EXCEPT ![c].ptr = q]
      /\ k = Base!coalesce_two(m, c, q)
  OBVIOUS
<1> HIDE DEF m1, m, k, q
<1>4. Puts(h.mem, m1, c, 0, Span(h.mem, c), NextOf(h.mem, c))
  BY <1>0, <1>3, PutFirst DEF Span, NextOf
<1>5. m1 \in MemB /\ m1[c].first = 0 /\ m1[c].second = Span(h.mem, c)
  BY <1>4 DEF Puts
<1>6. Puts(m1, m, c, 0, Span(h.mem, c), q)
  BY <1>0, <1>3, <1>5, PutPtr
<1>7. Puts(h.mem, m, c, 0, Span(h.mem, c), q)
  BY <1>4, <1>6, PutTwice
<1>8. /\ m \in MemB /\ Status(m, c) = 0 /\ Span(m, c) = Span(h.mem, c) /\ NextOf(m, c) = q
      /\ \A u \in 0 .. M3 - 1 : u # c => m[u] = h.mem[u]
  BY <1>7 DEF Puts, Status, Span, NextOf
<1>9. up <=> q # -1 /\ NextAt(m, c, end) = q
  <2>1. q # -1 => q \in 0 .. M3 - 1 /\ q < end
    <3>1. q # -1 => q \in 0 .. M3 - 1 /\ Span(h.mem, q) \in 1 .. M3
                    /\ q + Span(h.mem, q) <= end
      BY <1>0, <1>1
    <3> QED BY <1>0, <3>1
  <2> QED BY <1>0, <1>8, <2>1 DEF NextAt
<1>10. /\ Up(h.mem, q, c) <=> up
       /\ ~ Down(h.mem, -1, c) /\ Joined(h.mem, -1, c) = c /\ After(h.mem, h.head, -1) = q
       /\ Gone(h.mem, q, -1, c) = IF up THEN {q} ELSE {}
  BY DEF Up, Down, Joined, Gone, After, q
<1>11. CASE up
  <2>1. q \in F /\ q \in B /\ q # c /\ q \in 0 .. M3 - 1 /\ c \in 0 .. M3 - 1
    BY <1>0, <1>1, <1>11
  <2>2. Span(m, q) = Span(h.mem, q) /\ NextOf(m, q) = NextOf(h.mem, q)
    BY <1>8, <2>1 DEF Span, NextOf
  <2>3. Span(m, c) + Span(m, q) \in 0 .. M3 /\ NextOf(m, q) \in Ptrs(M3)
    <3>1. c + Span(h.mem, c) = q /\ q + Span(h.mem, q) <= end /\ c \in Nat
          /\ Span(h.mem, c) \in Nat /\ Span(h.mem, q) \in Nat
      BY <1>0, <1>11, <2>1
    <3>2. Span(h.mem, c) + Span(h.mem, q) \in 0 .. M3
      BY <1>0, <3>1
    <3> QED BY <1>0, <1>8, <2>1, <2>2, <3>2
  <2>4. Puts(m, k, c, 0, Span(m, c) + Span(m, q), NextOf(m, q))
    BY <1>3, <1>8, <2>1, <2>3, PutJoin
  <2>5. Puts(h.mem, k, c, 0, Span(m, c) + Span(m, q), NextOf(m, q))
    BY <1>7, <2>4, PutTwice
  <2>6. x.mem = k /\ x.head = c /\ x = [mem |-> k, head |-> c]
    BY <1>2, <1>9, <1>11
  <2>7. /\ k \in MemB /\ Status(k, c) = 0
        /\ Span(k, c) = Span(h.mem, c) + Span(h.mem, q) /\ NextOf(k, c) = NextOf(h.mem, q)
        /\ \A u \in 0 .. M3 - 1 : u # c => k[u] = h.mem[u]
    BY <1>8, <2>2, <2>5 DEF Puts, Status, Span, NextOf
  <2>8. \A d \in B \ {c} : Span(k, d) = Span(h.mem, d) /\ NextOf(k, d) = NextOf(h.mem, d)
                           /\ Status(k, d) = Status(h.mem, d)
    BY <1>0, <2>7 DEF Span, NextOf, Status
  <2>9. Freeing(h.mem, k, h.head, c, B, F, c, -1)
    <3>1. Span(k, c) = (Span(h.mem, c) + Span(h.mem, q)) + 0
      BY <1>0, <2>1, <2>7
    <3> QED BY <1>0, <1>10, <1>11, <2>1, <2>7, <2>8, <3>1 DEF Freeing
  <2> QED BY <2>6, <2>7, <2>8, <2>9 DEF FreeOf
<1>12. CASE ~ up
  <2>1. x.mem = m /\ x.head = c /\ x = [mem |-> m, head |-> c]
    BY <1>2, <1>9, <1>12
  <2>2. \A d \in B \ {c} : Span(m, d) = Span(h.mem, d) /\ NextOf(m, d) = NextOf(h.mem, d)
                           /\ Status(m, d) = Status(h.mem, d)
    BY <1>0, <1>8 DEF Span, NextOf, Status
  <2>3. Freeing(h.mem, m, h.head, c, B, F, c, -1)
    <3>1. Span(m, c) = (Span(h.mem, c) + 0) + 0
      BY <1>0, <1>8
    <3> QED BY <1>0, <1>10, <1>12, <1>8, <2>2, <3>1 DEF Freeing
  <2> QED BY <1>8, <2>1, <2>2, <2>3 DEF FreeOf
<1> QED BY <1>11, <1>12

\* insert_after frees c behind p, and returns what it was joined to.
LEMMA InsertFrees ==
  ASSUME NEW h, NEW B, NEW F, NEW end, ListedB(h, B, F, end), NEW c \in B, c \notin F,
         NEW p, p # -1, Prior(F, c, p), NEW a, a = Base!insert_after(h, p, c, end)
  PROVE  FreeOf(h, a.heap, B, F, c, p) /\ a.block = Joined(h.mem, p, c)
<1> DEFINE q == NextOf(h.mem, p)
           m1 == [h.mem EXCEPT ![c].ptr = q]
           m2 == [m1 EXCEPT ![p].ptr = c]
           m == [m2 EXCEPT ![c].first = 0]
           down == p + Span(h.mem, p) = c
           up == q # -1 /\ c + Span(h.mem, c) = q
           b == IF down THEN p ELSE c
           j == IF down THEN Base!coalesce_two(m, p, c) ELSE m
           e == NextAt(j, b, end)
           n == IF e # -1 /\ Status(j, e) = 0 THEN Base!coalesce_two(j, b, e) ELSE j
<1>0. /\ h.mem \in MemB /\ end \in 0 .. M3 /\ M3 \in Nat /\ -1 \notin B
      /\ \A d \in B : /\ d \in 0 .. M3 - 1 /\ Span(h.mem, d) \in 1 .. M3
                      /\ d + Span(h.mem, d) <= end
      /\ F \subseteq B /\ \A d \in F : NextOf(h.mem, d) \in Ptrs(M3)
      /\ \A d \in B : d + Span(h.mem, d) < end => d + Span(h.mem, d) \in B
      /\ \A d, f \in B : d < f => d + Span(h.mem, d) <= f
      /\ \A d \in F : Status(h.mem, d) = 0
      /\ \A d \in B \ F : Status(h.mem, d) = 1
  <2>1. Numbers(h, B, F, end)
    BY ListedNumbers
  <2> QED BY <2>1 DEF Numbers
<1>1. p \in F /\ p \in B /\ p < c /\ p # c /\ p \in 0 .. M3 - 1 /\ c \in 0 .. M3 - 1
  BY <1>0 DEF Prior
<1>2. /\ q = -1 \/ (q \in F /\ c < q)
      /\ \A d \in F : c < d => q \in F /\ q <= d
  <2>1. Chained(h.mem, h.head, F) /\ c \in Nat
    BY <1>1 DEF ListedB, Sorted
  <2>2. Least(Above(F, c), q)
    BY <2>1, AfterPrior DEF After
  <2> HIDE DEF q
  <2> QED BY <2>2 DEF Least, Above
<1>3. q \in Ptrs(M3) /\ c \in Ptrs(M3)
  BY <1>0, <1>1 DEF Ptrs
<1>4. m1 = [h.mem EXCEPT ![c].ptr = q] /\ m2 = [m1 EXCEPT ![p].ptr = c]
      /\ m = [m2 EXCEPT ![c].first = 0]
  OBVIOUS
<1> HIDE DEF m1, m2, m, q
<1>5. Puts(h.mem, m1, c, Status(h.mem, c), Span(h.mem, c), q)
  BY <1>0, <1>1, <1>3, <1>4, PutPtr DEF Status, Span
<1>6. /\ m1 \in MemB /\ m1[c].second = Span(h.mem, c) /\ m1[c].ptr = q
      /\ \A u \in 0 .. M3 - 1 : u # c => m1[u] = h.mem[u]
  BY <1>5 DEF Puts
<1>7. Puts(m1, m2, p, Status(h.mem, p), Span(h.mem, p), c)
  <2>1. m1[p] = h.mem[p]
    BY <1>1, <1>6
  <2> QED BY <1>1, <1>3, <1>4, <1>6, <2>1, PutPtr DEF Status, Span
<1>8. /\ m2 \in MemB /\ m2[c].second = Span(h.mem, c) /\ m2[c].ptr = q
      /\ m2[p].first = Status(h.mem, p) /\ m2[p].second = Span(h.mem, p) /\ m2[p].ptr = c
      /\ \A u \in 0 .. M3 - 1 : u # c /\ u # p => m2[u] = h.mem[u]
  <2>1. m2[c] = m1[c] /\ \A u \in 0 .. M3 - 1 : u # p => m2[u] = m1[u]
    BY <1>1, <1>7 DEF Puts
  <2> QED BY <1>6, <1>7, <2>1 DEF Puts
<1>9. Puts(m2, m, c, 0, Span(h.mem, c), q)
  BY <1>1, <1>4, <1>8, PutFirst
<1>10. /\ m \in MemB /\ Status(m, c) = 0 /\ Span(m, c) = Span(h.mem, c) /\ NextOf(m, c) = q
       /\ Status(m, p) = Status(h.mem, p) /\ Span(m, p) = Span(h.mem, p) /\ NextOf(m, p) = c
       /\ \A u \in 0 .. M3 - 1 : u # c /\ u # p => m[u] = h.mem[u]
  <2>1. m[p] = m2[p] /\ \A u \in 0 .. M3 - 1 : u # c => m[u] = m2[u]
    BY <1>1, <1>9 DEF Puts
  <2> QED BY <1>8, <1>9, <2>1 DEF Puts, Status, Span, NextOf
<1>11. down <=> NextAt(m, p, end) = c
  <2>1. c < end /\ c \in Nat /\ c # -1 /\ p \in Nat /\ Span(h.mem, p) \in Nat
    <3>1. c + Span(h.mem, c) <= end /\ Span(h.mem, c) \in 1 .. M3
      BY <1>0
    <3>2. Span(h.mem, p) \in 1 .. M3
      BY <1>0, <1>1
    <3> QED BY <1>0, <1>1, <3>1, <3>2
  <2> QED BY <1>0, <1>10, <2>1 DEF NextAt
<1>12. a = [heap |-> [h EXCEPT !.mem = n], block |-> b]
  <2>1. m = Base!set_status(Base!set_next_free(Base!set_next_free(h.mem, c,
                              Base!get_next_free(h.mem, p)), p, c), c, 0)
    BY <1>4 DEF Base!set_status, Base!set_next_free, Base!get_next_free, q, NextOf
  <2>2. \A k, d : Base!adjacent(k, d, end) = NextAt(k, d, end)
    BY DEF Base!adjacent, Base!next_phys, NextAt, Base!get_span, Span, Base!NULL
  <2>3. \A k, d : Base!joined_upper(k, d, end)
                  = IF NextAt(k, d, end) # -1 /\ Status(k, NextAt(k, d, end)) = 0
                    THEN Base!coalesce_two(k, d, NextAt(k, d, end)) ELSE k
    BY <2>2 DEF Base!joined_upper, Base!get_status, Status, Base!NULL, Base!CHUNK_FREE
  <2> HIDE DEF down
  <2>4. a = [heap |-> [h EXCEPT !.mem = Base!joined_upper(j, b, end)], block |-> b]
    BY <1>11, <2>1, <2>2 DEF Base!insert_after, Base!CHUNK_FREE
  <2> HIDE DEF j, b, e, n
  <2>5. Base!joined_upper(j, b, end) = n
    BY <2>3 DEF e, n
  <2> QED BY <2>4, <2>5
<1>13. j = (IF down THEN Base!coalesce_two(m, p, c) ELSE m) /\ b = (IF down THEN p ELSE c)
       /\ e = NextAt(j, b, end)
       /\ n = IF e # -1 /\ Status(j, e) = 0 THEN Base!coalesce_two(j, b, e) ELSE j
  OBVIOUS
<1> HIDE DEF j, b, e, n
<1> DEFINE t == IF down THEN Span(h.mem, p) + Span(h.mem, c) ELSE Span(h.mem, c)
<1>14. /\ j \in MemB /\ Status(j, b) = 0 /\ Span(j, b) = t /\ NextOf(j, b) = q
       /\ Status(j, c) = 0 /\ Status(j, p) = 0 /\ (b # p => NextOf(j, p) = c)
       /\ Span(j, p) = IF down THEN t ELSE Span(h.mem, p)
       /\ \A u \in 0 .. M3 - 1 : u # c /\ u # p => j[u] = h.mem[u]
  <2>0. Status(h.mem, p) = 0
    BY <1>0, <1>1
  <2>1. CASE down
    <3>1. Span(m, p) + Span(m, c) \in 0 .. M3 /\ NextOf(m, c) \in Ptrs(M3)
      <4>1. p + Span(h.mem, p) = c /\ c + Span(h.mem, c) <= end /\ p \in Nat
            /\ Span(h.mem, c) \in Nat /\ Span(h.mem, p) \in Nat
        BY <1>0, <1>1, <2>1
      <4>2. Span(h.mem, p) + Span(h.mem, c) \in 0 .. M3
        BY <1>0, <4>1
      <4> QED BY <1>3, <1>10, <4>2
    <3>2. Puts(m, j, p, 0, Span(m, p) + Span(m, c), NextOf(m, c))
      BY <1>1, <1>10, <1>13, <2>0, <2>1, <3>1, PutJoin
    <3>3. j[c] = m[c] /\ \A u \in 0 .. M3 - 1 : u # p => j[u] = m[u]
      BY <1>1, <3>2 DEF Puts
    <3> HIDE DEF down
    <3>4. b = p /\ t = Span(m, p) + Span(m, c)
      BY <1>10, <1>13, <2>1
    <3> HIDE DEF t
    <3>5. Status(j, p) = 0 /\ Span(j, p) = t /\ NextOf(j, p) = q /\ j \in MemB
      BY <1>10, <3>2, <3>4 DEF Puts, Status, Span, NextOf
    <3>6. Status(j, c) = 0
      BY <1>10, <3>3 DEF Status
    <3>7. \A u \in 0 .. M3 - 1 : u # c /\ u # p => j[u] = h.mem[u]
      BY <1>10, <3>3
    <3> QED BY <2>1, <3>4, <3>5, <3>6, <3>7
  <2>2. CASE ~ down
    <3> HIDE DEF down
    <3>1. j = m /\ b = c /\ t = Span(h.mem, c)
      BY <1>13, <2>2
    <3> QED BY <1>1, <1>10, <2>0, <2>2, <3>1
  <2> QED BY <2>1, <2>2
<1>15. b + t = c + Span(h.mem, c) /\ t \in Nat /\ b \in 0 .. M3 - 1 /\ (b = p \/ b = c)
  <2>1. Span(h.mem, c) \in Nat /\ Span(h.mem, p) \in Nat /\ c \in Nat /\ p \in Nat
    BY <1>0, <1>1
  <2> QED BY <1>1, <1>13, <2>1
<1>16. e = IF c + Span(h.mem, c) >= end THEN -1 ELSE c + Span(h.mem, c)
  <2> HIDE DEF t
  <2> QED BY <1>13, <1>14, <1>15 DEF NextAt
<1>17. (e # -1 /\ Status(j, e) = 0 <=> up) /\ (up => e = q)
  <2> DEFINE s == c + Span(h.mem, c)
  <2>1. s \in Nat /\ c < s /\ c \in Nat
    BY <1>0, <1>1
  <2>2. CASE s < end
    <3>1. e = s /\ e \in B /\ e # c /\ e # p /\ e # -1 /\ e \in 0 .. M3 - 1
      BY <1>0, <1>1, <1>16, <2>1, <2>2
    <3>2. Status(j, e) = Status(h.mem, e)
      BY <1>14, <3>1 DEF Status
    <3>3. e \in F <=> Status(h.mem, e) = 0
      BY <1>0, <3>1
    <3>4. e \in F <=> q = e
      <4>1. ASSUME e \in F PROVE q = e
        <5>1. q \in F /\ q <= e /\ c < q
          BY <1>0, <1>2, <2>1, <3>1, <4>1
        <5>2. e <= q
          BY <1>0, <3>1, <5>1
        <5>3. q \in Nat
          BY <1>0, <5>1
        <5> QED BY <2>1, <3>1, <5>1, <5>2, <5>3
      <4>2. q = e => e \in F
        BY <1>2, <3>1
      <4> QED BY <4>1, <4>2
    <3> QED BY <3>1, <3>2, <3>3, <3>4
  <2>3. CASE ~ (s < end)
    <3>1. e = -1
      BY <1>0, <1>16, <2>1, <2>3
    <3>2. ~ up
      <4>1. SUFFICES ASSUME up PROVE FALSE
        OBVIOUS
      <4>2. q \in F /\ q = s
        BY <1>2, <4>1
      <4>3. q + Span(h.mem, q) <= end /\ Span(h.mem, q) \in 1 .. M3
        BY <1>0, <4>2
      <4> QED BY <1>0, <2>1, <2>3, <4>2, <4>3
    <3> QED BY <3>1, <3>2
  <2> QED BY <2>2, <2>3
<1> DEFINE z == t + IF up THEN Span(h.mem, q) ELSE 0
           y == IF up THEN NextOf(h.mem, q) ELSE q
<1>18. /\ n \in MemB /\ Status(n, b) = 0 /\ Span(n, b) = z /\ NextOf(n, b) = y
       /\ \A u \in 0 .. M3 - 1 : u # b => n[u] = j[u]
  <2>1. CASE up
    <3>1. e = q /\ q \in F /\ q \in 0 .. M3 - 1 /\ q # c /\ q # p /\ q # b
          /\ n = Base!coalesce_two(j, b, q)
      BY <1>0, <1>1, <1>2, <1>13, <1>15, <1>17, <2>1
    <3>2. Span(j, q) = Span(h.mem, q) /\ NextOf(j, q) = NextOf(h.mem, q)
      BY <1>14, <3>1 DEF Span, NextOf
    <3>3. Span(j, b) + Span(j, q) \in 0 .. M3 /\ NextOf(j, q) \in Ptrs(M3)
      <4>1. c + Span(h.mem, c) = q /\ q + Span(h.mem, q) <= end
            /\ Span(h.mem, q) \in Nat /\ b \in Nat
        BY <1>0, <1>15, <2>1, <3>1
      <4>2. b + t = q /\ t \in Nat
        BY <1>15, <4>1
      <4> HIDE DEF t
      <4>3. t + Span(h.mem, q) \in 0 .. M3
        BY <1>0, <4>1, <4>2
      <4> QED BY <1>0, <1>14, <3>1, <3>2, <4>3
    <3>4. Puts(j, n, b, 0, Span(j, b) + Span(j, q), NextOf(j, q))
      BY <1>14, <1>15, <3>1, <3>3, PutJoin
    <3>5. z = Span(j, b) + Span(j, q) /\ y = NextOf(j, q)
      BY <1>14, <2>1, <3>2
    <3> HIDE DEF z, y
    <3> QED BY <3>4, <3>5 DEF Puts, Status, Span, NextOf
  <2>2. CASE ~ up
    <3>1. n = j
      BY <1>13, <1>17, <2>2
    <3>2. z = t /\ y = q
      BY <1>15, <2>2
    <3> HIDE DEF z, y, t
    <3> QED BY <1>14, <3>1, <3>2
  <2> QED BY <2>1, <2>2
<1>19. /\ b = Joined(h.mem, p, c) /\ q = After(h.mem, h.head, p)
       /\ Up(h.mem, q, c) <=> up
       /\ Down(h.mem, p, c) <=> down
       /\ Gone(h.mem, q, p, c) = (IF up THEN {q} ELSE {}) \cup (IF down THEN {c} ELSE {})
  BY <1>13 DEF Joined, After, Up, Down, Gone, q
<1>20. z = (Span(h.mem, c) + IF up THEN Span(h.mem, q) ELSE 0)
             + IF down THEN Span(h.mem, p) ELSE 0
  <2>1. Span(h.mem, c) \in Nat /\ Span(h.mem, p) \in Nat
    BY <1>0, <1>1
  <2>2. up => Span(h.mem, q) \in Nat
    BY <1>0, <1>2
  <2> HIDE DEF up, down
  <2> QED BY <2>1, <2>2
<1>21. \A d \in B \ {c, p} : n[d] = h.mem[d]
  BY <1>0, <1>14, <1>15, <1>18
<1>22. Freeing(h.mem, n, h.head, h.head, B, F, c, p)
  <2>1. p # b => NextOf(n, p) = c /\ Span(n, p) = Span(h.mem, p) /\ b = c /\ ~ down
    <3> SUFFICES ASSUME p # b PROVE NextOf(n, p) = c /\ Span(n, p) = Span(h.mem, p)
                                    /\ b = c /\ ~ down
      OBVIOUS
    <3>1. b = c /\ ~ down
      BY <1>13, <1>15
    <3>2. n[p] = j[p]
      BY <1>1, <1>18
    <3> HIDE DEF down
    <3> QED BY <1>14, <3>1, <3>2 DEF NextOf, Span
  <2>2. down => b = p
    BY <1>13
  <2> DEFINE gone == (IF up THEN {q} ELSE {}) \cup (IF down THEN {c} ELSE {})
  <2>3. \A d \in B \ ({b} \cup gone) : Span(n, d) = Span(h.mem, d)
    <3>1. ASSUME NEW d \in B \ ({b} \cup gone) PROVE Span(n, d) = Span(h.mem, d)
      <4>1. CASE d = c
        BY <1>13, <3>1, <4>1
      <4>2. CASE d = p
        BY <2>1, <3>1, <4>2
      <4>3. CASE d # c /\ d # p
        BY <1>21, <4>3 DEF Span
      <4> QED BY <4>1, <4>2, <4>3
    <3> QED BY <3>1
  <2>4. \A d \in F \ ({b, p} \cup gone) : NextOf(n, d) = NextOf(h.mem, d)
    BY <1>0, <1>21 DEF NextOf
  <2>5. gone = Gone(h.mem, q, p, c)
    BY <1>19
  <2> HIDE DEF gone, z, y
  <2>6. y = IF up THEN NextOf(h.mem, q) ELSE q
    BY DEF y
  <2> HIDE DEF up, down
  <2>7. /\ Span(n, b) = (Span(h.mem, c) + IF Up(h.mem, q, c) THEN Span(h.mem, q) ELSE 0)
                          + IF Down(h.mem, p, c) THEN Span(h.mem, p) ELSE 0
        /\ NextOf(n, b) = IF Up(h.mem, q, c) THEN NextOf(h.mem, q) ELSE q
        /\ p # -1 /\ p # b => NextOf(n, p) = c
        /\ \A d \in B \ ({b} \cup Gone(h.mem, q, p, c)) : Span(n, d) = Span(h.mem, d)
        /\ \A d \in F \ ({b, p} \cup Gone(h.mem, q, p, c)) : NextOf(n, d) = NextOf(h.mem, d)
        /\ h.head = IF p = -1 THEN c ELSE h.head
    BY <1>18, <1>19, <1>20, <2>1, <2>3, <2>4, <2>5, <2>6
  <2> QED BY <1>19, <2>7 DEF Freeing
<1>23. /\ Status(n, c) = 0 /\ Status(n, p) = Status(h.mem, p)
  <2>1. Status(h.mem, p) = 0
    BY <1>0, <1>1
  <2>2. \A u \in {c, p} : u = b \/ n[u] = j[u]
    BY <1>1, <1>18
  <2> HIDE DEF t, z, y, up, down
  <2> QED BY <1>14, <1>18, <2>1, <2>2 DEF Status
<1>24. \A d \in B \ {c} : Status(n, d) = Status(h.mem, d)
  BY <1>21, <1>23 DEF Status
<1>25. \A u \in 0 .. M3 - 1 : u \in B \/ n[u] = h.mem[u]
  BY <1>1, <1>14, <1>15, <1>18
<1>26. a.heap = [mem |-> n, head |-> h.head] /\ a.block = b
  <2>1. h = [mem |-> h.mem, head |-> h.head]
    BY DEF ListedB
  <2> QED BY <1>12, <2>1
<1>27. FreeOf(h, a.heap, B, F, c, p)
  BY <1>18, <1>22, <1>23, <1>24, <1>25, <1>26 DEF FreeOf
<1> QED BY <1>19, <1>26, <1>27

\* What putting c on the list behind p comes to.
FreedB(h, x, B, F, c, p, end) ==
  LET gone == Gone(h.mem, After(h.mem, h.head, p), p, c)
      b == Joined(h.mem, p, c)
      C == B \ gone
      G == (F \cup {c}) \ gone
  IN /\ ListedB(x, C, G, end) /\ C \ G = (B \ F) \ {c}
     /\ Coalesced(x.mem, G) /\ Saved(h.mem, x.mem, (B \ F) \ {c})
     /\ b \in G /\ Span(x.mem, b) >= Span(h.mem, c)

\* A block of heapmgrbase so freed leaves its list in order and its blocks joined.
LEMMA FreeIsFreed ==
  ASSUME NEW h, NEW B, NEW F, NEW end, ListedB(h, B, F, end), Coalesced(h.mem, F),
         NEW c \in B, c \notin F, NEW p, Prior(F, c, p), NEW x, FreeOf(h, x, B, F, c, p)
  PROVE  FreedB(h, x, B, F, c, p, end)
<1> DEFINE gone == Gone(h.mem, After(h.mem, h.head, p), p, c)
           b == Joined(h.mem, p, c)
           C == B \ gone
           G == (F \cup {c}) \ gone
<1>1. Sorted(h.mem, h.head, B, F, end)
  BY DEF ListedB
<1>2. Freeing(h.mem, x.mem, h.head, x.head, B, F, c, p)
  BY DEF FreeOf
<1>3. Freed(h.mem, x.mem, h.head, x.head, B, F, c, p, end)
  BY <1>1, <1>2, FreeingSorted
<1>4. /\ Sorted(x.mem, x.head, C, G, end) /\ C \ G = (B \ F) \ {c}
      /\ Coalesced(x.mem, G) /\ b \in G /\ Span(x.mem, b) >= Span(h.mem, c)
      /\ \A d \in (B \ F) \ {c} : Span(x.mem, d) = Span(h.mem, d)
  BY <1>3 DEF Freed
<1>5. /\ M3 \in Nat /\ end \in 0 .. M3 /\ F \subseteq B
      /\ \A d \in F : Status(h.mem, d) = 0
      /\ \A d \in B \ F : Status(h.mem, d) = 1
  <2>1. Numbers(h, B, F, end)
    BY ListedNumbers
  <2> QED BY <2>1 DEF Numbers
<1>6. /\ Status(x.mem, c) = 0
      /\ \A d \in B \ {c} : Status(x.mem, d) = Status(h.mem, d)
      /\ \A u \in 0 .. M3 - 1 : u \in B \/ x.mem[u] = h.mem[u]
      /\ x = [mem |-> x.mem, head |-> x.head] /\ x.mem \in MemB
  BY DEF FreeOf
<1>7. (\A d \in G : Status(x.mem, d) = 0) /\ \A d \in C \ G : Status(x.mem, d) = 1
  <2>1. \A d \in G : d = c \/ (d \in F /\ d \in B \ {c})
    BY <1>5
  <2>2. \A d \in C \ G : d \in B \ F /\ d \in B \ {c}
    BY <1>4
  <2> QED BY <1>5, <1>6, <2>1, <2>2
<1>8. ListedB(x, C, G, end)
  BY <1>4, <1>5, <1>6, <1>7 DEF ListedB
<1>9. Saved(h.mem, x.mem, (B \ F) \ {c})
  <2>1. Tiled(h.mem, B, end)
    BY <1>1 DEF Sorted
  <2>2. \A u \in 0 .. end - 1 : u \in B \/ x.mem[u] = h.mem[u]
    BY <1>5, <1>6
  <2>3. (B \ F) \ {c} \subseteq B
    OBVIOUS
  <2> QED BY <1>4, <2>1, <2>2, <2>3, SavedInside
<1> QED BY <1>4, <1>8, <1>9 DEF FreedB

\* What taking c off the list comes to.
DetachedB(h, x, B, F, c, end) ==
  /\ ListedB(x, B, F \ {c}, end)
  /\ Saved(h.mem, x.mem, B \ F)
  /\ \A d \in B : Span(x.mem, d) = Span(h.mem, d)

\* detach of heapmgrbase takes c off the list behind p.
LEMMA DetachIsDetached ==
  ASSUME NEW h, NEW B, NEW F, NEW end, ListedB(h, B, F, end), NEW c \in F,
         NEW p, Prior(F, c, p), NEW x, x = Base!detach(h, p, c)
  PROVE  DetachedB(h, x, B, F, c, end)
<1> DEFINE q == NextOf(h.mem, c)
           m1 == IF p = -1 THEN h.mem ELSE [h.mem EXCEPT ![p].ptr = q]
           m2 == [m1 EXCEPT ![c].ptr = -1]
           n == [m2 EXCEPT ![c].first = 1]
<1>0. /\ h.mem \in MemB /\ end \in 0 .. M3 /\ M3 \in Nat /\ F \subseteq B
      /\ \A d \in B : d \in 0 .. M3 - 1
      /\ \A d \in F : NextOf(h.mem, d) \in Ptrs(M3)
      /\ \A d \in F : Status(h.mem, d) = 0
      /\ \A d \in B \ F : Status(h.mem, d) = 1
  <2>1. Numbers(h, B, F, end)
    BY ListedNumbers
  <2> QED BY <2>1 DEF Numbers
<1>1. x = [mem |-> n, head |-> IF p = -1 THEN q ELSE h.head]
  BY DEF Base!detach, Base!get_next_free, Base!set_next_free, Base!set_status, Base!NULL,
     Base!CHUNK_USED, NextOf
<1>2. m1 = (IF p = -1 THEN h.mem ELSE [h.mem EXCEPT ![p].ptr = q])
      /\ m2 = [m1 EXCEPT ![c].ptr = -1] /\ n = [m2 EXCEPT ![c].first = 1]
  OBVIOUS
<1>3. /\ q \in Ptrs(M3) /\ -1 \in Ptrs(M3) /\ c \in B /\ c \in 0 .. M3 - 1
      /\ p # -1 => p \in F /\ p \in 0 .. M3 - 1 /\ p # c
  BY <1>0 DEF Prior, Ptrs
<1> HIDE DEF q, m1, m2, n
<1>4. /\ m1 \in MemB /\ \A u \in 0 .. M3 - 1 : u # p => m1[u] = h.mem[u]
      /\ p # -1 => /\ Status(m1, p) = Status(h.mem, p) /\ Span(m1, p) = Span(h.mem, p)
                   /\ NextOf(m1, p) = q
  <2>1. CASE p = -1
    BY <1>0, <1>2, <2>1
  <2>2. CASE p # -1
    <3>1. Puts(h.mem, m1, p, Status(h.mem, p), Span(h.mem, p), q)
      BY <1>0, <1>2, <1>3, <2>2, PutPtr DEF Status, Span
    <3> QED BY <3>1 DEF Puts, Status, Span, NextOf
  <2> QED BY <2>1, <2>2
<1>5. Puts(m1, m2, c, Status(h.mem, c), Span(h.mem, c), -1)
  <2>1. m1[c] = h.mem[c]
    BY <1>3, <1>4
  <2> QED BY <1>2, <1>3, <1>4, <2>1, PutPtr DEF Status, Span
<1>6. m2 \in MemB /\ m2[c].second = Span(h.mem, c) /\ m2[c].ptr = -1
  BY <1>5 DEF Puts
<1>7. Puts(m2, n, c, 1, Span(h.mem, c), -1)
  BY <1>2, <1>3, <1>6, PutFirst
<1>8. Puts(m1, n, c, 1, Span(h.mem, c), -1)
  BY <1>5, <1>7, PutTwice
<1>9. /\ n \in MemB /\ Status(n, c) = 1 /\ Span(n, c) = Span(h.mem, c)
      /\ \A u \in 0 .. M3 - 1 : u # c => n[u] = m1[u]
  BY <1>8 DEF Puts, Status, Span
<1>10. p # -1 => /\ Status(n, p) = Status(h.mem, p) /\ Span(n, p) = Span(h.mem, p)
                 /\ NextOf(n, p) = q
  BY <1>3, <1>4, <1>9 DEF Status, Span, NextOf
<1>11. \A u \in 0 .. M3 - 1 : u # c /\ u # p => n[u] = h.mem[u]
  BY <1>4, <1>9
<1>12. \A d \in B : Span(n, d) = Span(h.mem, d) /\ (d # c => Status(n, d) = Status(h.mem, d))
  <2>1. ASSUME NEW d \in B
        PROVE  Span(n, d) = Span(h.mem, d) /\ (d # c => Status(n, d) = Status(h.mem, d))
    <3>0. d \in 0 .. M3 - 1 /\ d # -1
      BY <1>0
    <3>1. CASE d = c
      BY <1>9, <3>1
    <3>2. CASE d = p
      BY <1>3, <1>10, <3>0, <3>2
    <3>3. CASE d # c /\ d # p
      BY <1>11, <3>0, <3>3 DEF Span, Status
    <3> QED BY <3>1, <3>2, <3>3
  <2> QED BY <2>1
<1>13. \A d \in F \ {c, p} : NextOf(n, d) = NextOf(h.mem, d)
  BY <1>0, <1>11 DEF NextOf
<1>14. Sorted(n, IF p = -1 THEN q ELSE h.head, B, F \ {c}, end)
  <2>1. Sorted(h.mem, h.head, B, F, end)
    BY DEF ListedB
  <2>2. \A d \in B : Span(n, d) = Span(h.mem, d)
    BY <1>12
  <2>3. p # -1 => NextOf(n, p) = NextOf(h.mem, c)
    BY <1>10 DEF q
  <2>4. Sorted(n, IF p = -1 THEN NextOf(h.mem, c) ELSE h.head, B, F \ {c}, end)
    BY <1>13, <2>1, <2>2, <2>3, SortedUnlink
  <2> QED BY <2>4 DEF q
<1>15. (\A d \in F \ {c} : Status(n, d) = 0) /\ \A d \in B \ (F \ {c}) : Status(n, d) = 1
  BY <1>0, <1>9, <1>12
<1>16. x.mem = n /\ x.head = (IF p = -1 THEN q ELSE h.head)
       /\ x = [mem |-> x.mem, head |-> x.head]
  BY <1>1
<1>17. ListedB(x, B, F \ {c}, end)
  BY <1>0, <1>9, <1>14, <1>15, <1>16 DEF ListedB
<1>18. Saved(h.mem, n, B \ F)
  <2>1. Tiled(h.mem, B, end)
    BY DEF ListedB, Sorted
  <2>2. \A u \in 0 .. end - 1 : u \in B \/ n[u] = h.mem[u]
    <3>1. \A u \in 0 .. end - 1 : u \in 0 .. M3 - 1
      BY <1>0
    <3>2. c \in B /\ (p # -1 => p \in B)
      BY <1>0, <1>3
    <3>3. \A u \in 0 .. end - 1 : u # -1
      OBVIOUS
    <3> QED BY <1>11, <3>1, <3>2, <3>3
  <2>3. B \ F \subseteq B /\ \A d \in B \ F : Span(n, d) = Span(h.mem, d)
    BY <1>12
  <2> QED BY <2>1, <2>2, <2>3, SavedInside
<1> QED BY <1>12, <1>16, <1>17, <1>18 DEF DetachedB

\* What giving the back of c comes to.
SplitB(h, a, B, F, c, r, end) ==
  /\ ListedB(a.heap, B \cup {a.block}, F, end) /\ a.block \notin B
  /\ Saved(h.mem, a.heap.mem, B \ F)
  /\ Span(a.heap.mem, a.block) = r + 1
  /\ \A d \in F \ {c} : Span(a.heap.mem, d) = Span(h.mem, d)
  /\ c + Span(a.heap.mem, c) = a.block

\* split_for_alloc takes the tail of a free block, which stays on the list.
LEMMA SplitIsSplit ==
  ASSUME NEW h, NEW B, NEW F, NEW end, ListedB(h, B, F, end), NEW c \in F,
         NEW r \in Nat, Span(h.mem, c) > r + 1,
         NEW a, a = Base!split_for_alloc(h, c, r)
  PROVE  SplitB(h, a, B, F, c, r, end)
<1> DEFINE rest == Span(h.mem, c) - (r + 1)
           b == c + rest
           m1 == [h.mem EXCEPT ![c].second = rest]
           m2 == [m1 EXCEPT ![b].second = r + 1]
           m3 == [m2 EXCEPT ![b].first = 1]
           q == NextOf(m2, c)
           n == [m3 EXCEPT ![b].ptr = q]
<1>0. /\ h.mem \in MemB /\ end \in 0 .. M3 /\ M3 \in Nat /\ F \subseteq B
      /\ \A d \in B : /\ d \in 0 .. M3 - 1 /\ Span(h.mem, d) \in 1 .. M3
                      /\ d + Span(h.mem, d) <= end
      /\ \A d \in F : NextOf(h.mem, d) \in Ptrs(M3)
      /\ \A d \in F : Status(h.mem, d) = 0
      /\ \A d \in B \ F : Status(h.mem, d) = 1
  <2>1. Numbers(h, B, F, end)
    BY ListedNumbers
  <2> QED BY <2>1 DEF Numbers
<1>1. a = [heap |-> [h EXCEPT !.mem = n], block |-> b]
  BY DEF Base!split_for_alloc, Base!get_span, Base!set_span_units, Base!set_next_free,
     Base!set_status, Base!get_next_free, Base!CHUNK_USED, Span, NextOf
<1>2. /\ rest \in 0 .. M3 /\ rest >= 1 /\ rest < Span(h.mem, c) /\ r + 1 \in 0 .. M3
      /\ c \in 0 .. M3 - 1 /\ b \in 0 .. M3 - 1 /\ b # c /\ Span(h.mem, c) - rest = r + 1
      /\ c \in B /\ b < c + Span(h.mem, c) /\ b > c
  <2>1. c \in 0 .. M3 - 1 /\ Span(h.mem, c) \in 1 .. M3 /\ c + Span(h.mem, c) <= end /\ c \in B
    BY <1>0
  <2> QED BY <1>0, <2>1
<1>3. m1 = [h.mem EXCEPT ![c].second = rest] /\ m2 = [m1 EXCEPT ![b].second = r + 1]
      /\ m3 = [m2 EXCEPT ![b].first = 1] /\ q = NextOf(m2, c) /\ n = [m3 EXCEPT ![b].ptr = q]
  OBVIOUS
<1>20. b = c + rest
  OBVIOUS
<1> HIDE DEF m1, m2, m3, n, q, b, rest
<1>4. Puts(h.mem, m1, c, Status(h.mem, c), rest, NextOf(h.mem, c))
  BY <1>0, <1>2, <1>3, PutSecond DEF Status, NextOf
<1>5. m1 \in MemB /\ m1[b] = h.mem[b]
  BY <1>2, <1>4 DEF Puts
<1>6. Puts(m1, m2, b, h.mem[b].first, r + 1, h.mem[b].ptr)
  BY <1>2, <1>3, <1>5, PutSecond
<1>7. m2 \in MemB /\ m2[b].second = r + 1 /\ m2[b].ptr = h.mem[b].ptr
  BY <1>6 DEF Puts
<1>8. Puts(m2, m3, b, 1, r + 1, h.mem[b].ptr)
  BY <1>2, <1>3, <1>7, PutFirst
<1>9. m3 \in MemB /\ m3[b].second = r + 1 /\ m3[b].first = 1
  BY <1>8 DEF Puts
<1>10. q \in Ptrs(M3)
  BY <1>2, <1>3, <1>7, FieldsB DEF NextOf
<1>11. Puts(m3, n, b, 1, r + 1, q)
  BY <1>2, <1>3, <1>9, <1>10, PutPtr
<1>12. Puts(m1, n, b, 1, r + 1, q)
  BY <1>6, <1>8, <1>11, PutTwice
<1>13. /\ n \in MemB /\ Status(n, b) = 1 /\ Span(n, b) = r + 1
       /\ Status(n, c) = Status(h.mem, c) /\ Span(n, c) = rest
       /\ NextOf(n, c) = NextOf(h.mem, c)
       /\ \A u \in 0 .. M3 - 1 : u # c /\ u # b => n[u] = h.mem[u]
  <2>1. n \in MemB /\ Status(n, b) = 1 /\ Span(n, b) = r + 1
        /\ \A u \in 0 .. M3 - 1 : u # b => n[u] = m1[u]
    BY <1>12 DEF Puts, Status, Span
  <2>2. n[c] = m1[c]
    BY <1>2, <2>1
  <2> QED BY <1>4, <2>1, <2>2 DEF Puts, Status, Span, NextOf
<1>14. b \notin B
  <2>1. \A d, e \in B : d < e => d + Span(h.mem, d) <= e
    BY DEF ListedB, Sorted, Tiled
  <2> SUFFICES ASSUME b \in B PROVE FALSE
    OBVIOUS
  <2>2. c + Span(h.mem, c) <= b
    BY <1>2, <2>1
  <2>3. c + Span(h.mem, c) \in Nat /\ b \in Nat
    BY <1>0, <1>2
  <2> QED BY <1>2, <2>2, <2>3
<1>15. \A d \in B \ {c} : n[d] = h.mem[d]
  BY <1>0, <1>13, <1>14
<1>16. Sorted(n, h.head, B \cup {b}, F, end)
  <2>1. Sorted(h.mem, h.head, B, F, end)
    BY DEF ListedB
  <2>2. \A d \in B \ {c} : Span(n, d) = Span(h.mem, d)
    BY <1>15 DEF Span
  <2>3. \A d \in F : NextOf(n, d) = NextOf(h.mem, d)
    BY <1>0, <1>13, <1>15 DEF NextOf
  <2>4. Span(n, c + rest) = Span(h.mem, c) - rest
    BY <1>2, <1>13, <1>20
  <2>5. rest \in Nat
    BY <1>2
  <2>6. Sorted(n, h.head, B \cup {c + rest}, F, end)
    BY <1>2, <1>13, <2>1, <2>2, <2>3, <2>4, <2>5, SortedSplit, ZenonT(40)
  <2> QED BY <1>20, <2>6
<1>17. /\ \A d \in F : Status(n, d) = 0
       /\ \A d \in (B \cup {b}) \ F : Status(n, d) = 1
  <2>1. \A d \in B \ {c} : Status(n, d) = Status(h.mem, d)
    BY <1>15 DEF Status
  <2>2. Status(n, c) = 0
    BY <1>0, <1>13
  <2> QED BY <1>0, <1>13, <2>1, <2>2
<1>18. a.heap = [mem |-> n, head |-> h.head] /\ a.block = b
  <2>1. h = [mem |-> h.mem, head |-> h.head]
    BY DEF ListedB
  <2> QED BY <1>1, <2>1
<1>19. ListedB(a.heap, B \cup {b}, F, end)
  <2>1. a.heap.mem = n /\ a.heap.head = h.head
        /\ a.heap = [mem |-> a.heap.mem, head |-> a.heap.head] /\ end <= M3
    BY <1>0, <1>18
  <2> QED BY <1>13, <1>16, <1>17, <2>1 DEF ListedB
<1>21. Saved(h.mem, n, B \ F)
  <2>1. Tiled(h.mem, B, end) /\ B \ F \subseteq B \ {c}
    BY DEF ListedB, Sorted
  <2>2. \A d \in B \ F : Span(n, d) = Span(h.mem, d)
    BY <1>15 DEF Span
  <2>3. \A u \in 0 .. end - 1 :
          u \in B \/ u \in c .. c + Span(h.mem, c) - 1 \/ n[u] = h.mem[u]
    <3>1. b \in c .. c + Span(h.mem, c) - 1
      <4>1. Span(h.mem, c) \in Nat
        BY <1>0, <1>2
      <4> QED BY <1>2, <4>1
    <3>2. \A u \in 0 .. end - 1 : u \in 0 .. M3 - 1
      BY <1>0
    <3> QED BY <1>2, <1>13, <3>1, <3>2
  <2> QED BY <1>2, <2>1, <2>2, <2>3, SavedOthers
<1>22. \A d \in F \ {c} : Span(n, d) = Span(h.mem, d)
  BY <1>0, <1>15 DEF Span
<1>23. c + Span(n, c) = b
  BY <1>13, <1>20
<1> QED BY <1>13, <1>14, <1>18, <1>19, <1>21, <1>22, <1>23 DEF SplitB

\* A block has been found for the program.
AllocatesB(h, a, B, F, end, r) ==
  \E B2, F2 : /\ ListedB(a.heap, B2, F2, end) /\ Coalesced(a.heap.mem, F2)
              /\ a.block \notin B \ F /\ B2 \ F2 = (B \ F) \cup {a.block}
              /\ Saved(h.mem, a.heap.mem, B \ F)
              /\ Span(a.heap.mem, a.block) >= r + 1

\* What heapmgr_malloc takes, whole or the tail, is a block of its own.
LEMMA TakeAllocates ==
  ASSUME NEW h, NEW B, NEW F, NEW end, ListedB(h, B, F, end), Coalesced(h.mem, F),
         NEW c \in F, NEW p, Prior(F, c, p), NEW r \in Nat, Span(h.mem, c) >= r + 1,
         NEW a, a = Base!take(h, p, c, r)
  PROVE  AllocatesB(h, a, B, F, end, r)
<1>0. F \subseteq B /\ \A d \in B : Span(h.mem, d) \in Nat /\ -1 \notin B
  <2>1. Numbers(h, B, F, end)
    BY ListedNumbers
  <2> QED BY <2>1 DEF Numbers
<1>1. a = IF Span(h.mem, c) > r + 1 THEN Base!split_for_alloc(h, c, r)
          ELSE [heap |-> Base!detach(h, p, c), block |-> c]
  <2>1. Base!payload(h.mem, c) > r <=> Span(h.mem, c) > r + 1
    <3>1. Span(h.mem, c) \in Nat
      BY <1>0
    <3>2. Base!payload(h.mem, c) = Span(h.mem, c) - 1
      BY DEF Base!payload, Base!get_span, Span
    <3> QED BY <3>1, <3>2
  <2> QED BY <2>1 DEF Base!take
<1>2. CASE Span(h.mem, c) > r + 1
  <2>1. SplitB(h, a, B, F, c, r, end)
    BY <1>1, <1>2, SplitIsSplit
  <2>2. /\ ListedB(a.heap, B \cup {a.block}, F, end) /\ a.block \notin B
        /\ Saved(h.mem, a.heap.mem, B \ F)
        /\ Span(a.heap.mem, a.block) = r + 1
        /\ \A d \in F \ {c} : Span(a.heap.mem, d) = Span(h.mem, d)
        /\ c + Span(a.heap.mem, c) = a.block
    BY <2>1 DEF SplitB
  <2>3. Coalesced(a.heap.mem, F)
    BY <1>0, <2>2 DEF Coalesced
  <2>4. (B \cup {a.block}) \ F = (B \ F) \cup {a.block} /\ a.block \notin B \ F
    BY <1>0, <2>2
  <2>5. Span(a.heap.mem, a.block) >= r + 1
    BY <2>2
  <2> QED BY <2>2, <2>3, <2>4, <2>5 DEF AllocatesB
<1>3. CASE ~ (Span(h.mem, c) > r + 1)
  <2> DEFINE x == Base!detach(h, p, c)
  <2>1. a.heap = x /\ a.block = c
    BY <1>1, <1>3
  <2>2. DetachedB(h, x, B, F, c, end)
    <3> HIDE DEF x
    <3>1. x = Base!detach(h, p, c)
      BY DEF x
    <3> QED BY <3>1, DetachIsDetached
  <2> HIDE DEF x
  <2>3. /\ ListedB(x, B, F \ {c}, end)
        /\ Saved(h.mem, x.mem, B \ F)
        /\ \A d \in B : Span(x.mem, d) = Span(h.mem, d)
    BY <2>2 DEF DetachedB
  <2>4. Coalesced(x.mem, F \ {c})
    BY <1>0, <2>3 DEF Coalesced
  <2>5. c \notin B \ F /\ B \ (F \ {c}) = (B \ F) \cup {c} /\ Span(x.mem, c) >= r + 1
    BY <1>0, <2>3
  <2> QED BY <2>1, <2>3, <2>4, <2>5 DEF AllocatesB
<1> QED BY <1>2, <1>3

-----------------------------------------------------------------------------
(* The list of heapmgrbase, walked, and the steps of the manager.          *)

\* ListFrom of heapmgrbase is such a walk.
LEMMA WalkB ==
  ASSUME NEW m, NEW head
  PROVE  LET f == Base!ListFrom(m, head)
         IN Walks(M3, m, head, f)
<1>1. \E f : Walks(M3, m, head, f)
  BY M3Number, WalkExists
<1>2. Walks(M3, m, head, CHOOSE f : Walks(M3, m, head, f))
  BY <1>1
<1>3. Base!ListFrom(m, head) = CHOOSE f : Walks(M3, m, head, f)
  BY DEF Walks, Base!ListFrom, WalkBody, Base!NULL, Base!get_next_free, NextOf, M3
<1> QED BY <1>2, <1>3

\* The size of a set is the same in every module.
LEMMA CountB == \A S : Base!Cardinality(S) = Cardinality(S)
  BY DEF Base!Cardinality, Cardinality

\* The list has the N blocks of F, in the order of the addresses.
Ordered(list, F, N) ==
  /\ N \in Nat /\ DOMAIN list = 0 .. N - 1
  /\ {list[i] : i \in 0 .. N - 1} = F
  /\ \A i, j \in 0 .. N - 1 : i < j => list[i] < list[j]
  /\ \A i \in 0 .. N - 1 : list[i] \in F

\* The list that heapmgrbase walks has what is free, in order, and ends.
LEMMA ListIsOrdered ==
  ASSUME NEW h, NEW B, NEW F, NEW end, ListedB(h, B, F, end)
  PROVE  /\ \E N : Ordered(Base!ListOf(h), F, N)
         /\ LET f == Base!ListFrom(h.mem, h.head) IN f[M3] = -1
<1> DEFINE f == Base!ListFrom(h.mem, h.head)
<1>0. M3 \in Nat
  BY M3Number
<1>1. Walks(M3, h.mem, h.head, f)
  BY WalkB
<1>2. Base!ListOf(h) = [i \in {j \in 0 .. M3 : f[j] # -1} |-> f[i]]
  BY DEF Base!ListOf, Base!NULL, M3
<1> HIDE DEF f
<1>3. F \subseteq 0 .. M3 - 1 /\ Chained(h.mem, h.head, F)
  <2>1. Numbers(h, B, F, end)
    BY ListedNumbers
  <2> QED BY <2>1 DEF Numbers, ListedB, Sorted
<1>4. PICK N : ChainWalked(M3, F, f, N)
  BY <1>0, <1>1, <1>3, ChainWalk
<1>5. /\ N \in 0 .. M3 /\ \A i \in 0 .. M3 : f[i] # -1 <=> i < N
      /\ {f[i] : i \in 0 .. N - 1} = F
      /\ \A i, j \in 0 .. N - 1 : i < j => f[i] < f[j]
      /\ \A i \in 0 .. N - 1 : f[i] \in F
  BY <1>4 DEF ChainWalked
<1>6. N \in Nat /\ {j \in 0 .. M3 : f[j] # -1} = 0 .. N - 1
  <2>1. N \in Nat /\ N <= M3
    BY <1>0, <1>5
  <2>2. \A j : j \in 0 .. M3 /\ f[j] # -1 <=> j \in 0 .. N - 1
    BY <1>0, <1>5, <2>1
  <2> QED BY <2>1, <2>2
<1> DEFINE list == [i \in 0 .. N - 1 |-> f[i]]
<1>7. Base!ListOf(h) = list
  BY <1>2, <1>6
<1>8. \A i \in 0 .. N - 1 : list[i] = f[i]
  OBVIOUS
<1>9. {list[i] : i \in 0 .. N - 1} = {f[i] : i \in 0 .. N - 1}
  BY <1>8
<1>10. DOMAIN list = 0 .. N - 1
  OBVIOUS
<1> HIDE DEF list
<1>11. Ordered(list, F, N)
  BY <1>5, <1>6, <1>8, <1>9, <1>10 DEF Ordered
<1>12. f[M3] = -1
  BY <1>0, <1>5
<1> QED BY <1>7, <1>11, <1>12 DEF f

\* What is before c on the list: of a number stop up to which all are below c.
LEMMA OrderedPrior ==
  ASSUME NEW list, NEW F, F \subseteq Nat, NEW N, Ordered(list, F, N),
         NEW c \in Nat, NEW stop \in 0 .. N,
         \A i \in 0 .. stop - 1 : list[i] < c,
         \A i \in stop .. N - 1 : c <= list[i]
  PROVE  Prior(F, c, Base!before(list, stop))
<1>1. /\ N \in Nat /\ {list[i] : i \in 0 .. N - 1} = F
      /\ \A i, j \in 0 .. N - 1 : i < j => list[i] < list[j]
      /\ \A i \in 0 .. N - 1 : list[i] \in F /\ list[i] \in Nat
  BY DEF Ordered
<1>2. \A d \in F : \E i \in 0 .. N - 1 : d = list[i]
  BY <1>1
<1>3. Base!before(list, stop) = IF stop = 0 THEN -1 ELSE list[stop - 1]
  BY DEF Base!before, Base!NULL
<1>4. CASE stop = 0
  <2>1. \A d \in F : c <= d
    BY <1>2, <1>4
  <2> QED BY <1>3, <1>4, <2>1 DEF Prior
<1>5. CASE stop # 0
  <2>1. stop - 1 \in 0 .. N - 1 /\ stop - 1 \in 0 .. stop - 1
    BY <1>1, <1>5
  <2>2. list[stop - 1] \in F /\ list[stop - 1] < c /\ list[stop - 1] # -1
    BY <1>1, <2>1
  <2>3. ASSUME NEW i \in 0 .. N - 1, list[i] < c PROVE list[i] <= list[stop - 1]
    <3>1. i < stop
      <4> SUFFICES ASSUME i >= stop PROVE FALSE
        BY <1>1
      <4>1. i \in stop .. N - 1
        BY <1>1
      <4>2. c <= list[i]
        BY <4>1
      <4> QED BY <1>1, <2>3, <4>2
    <3>2. i = stop - 1 \/ i < stop - 1
      BY <1>1, <3>1
    <3>3. i = stop - 1 \/ list[i] < list[stop - 1]
      BY <1>1, <2>1, <3>2
    <3>4. list[i] \in Nat /\ list[stop - 1] \in Nat
      BY <1>1, <2>1
    <3> QED BY <3>3, <3>4
  <2>4. \A d \in F : d < c => d <= list[stop - 1]
    BY <1>2, <2>3
  <2> QED BY <1>3, <1>5, <2>2, <2>4 DEF Prior
<1> QED BY <1>4, <1>5

\* B are the blocks of a heap and F the free ones.
HoldsB(h, has, end, B, F) ==
  ListedB(h, B, F, end) /\ Coalesced(h.mem, F) /\ Roomy(h.mem, B \ F, has)

InvB == \E B, F : HoldsB(heap, live, s_heap_hi, B, F)

\* What the program writes to its block changes nothing for the others.
LEMMA ListedGiven ==
  ASSUME NEW h, NEW B, NEW F, NEW end, ListedB(h, B, F, end), Coalesced(h.mem, F),
         NEW c \in B, c \notin F, NEW r \in Nat, Span(h.mem, c) >= r + 1,
         NEW n, n = GivenMem(M3, h.mem, c, r)
  PROVE  /\ ListedB([mem |-> n, head |-> h.head], B, F, end)
         /\ Coalesced(n, F)
<1>1. /\ M3 \in Nat /\ end <= M3 /\ Tiled(h.mem, B, end) /\ F \subseteq B /\ h.mem \in MemB
      /\ Sorted(h.mem, h.head, B, F, end)
  BY M3Number DEF ListedB, Sorted
<1>2. Giving(h.mem, n, B, c, r)
  BY <1>1, GivenHeaders
<1>3. \A d \in B : n[d] = h.mem[d]
  BY <1>2 DEF Giving
<1>4. n \in MemB
  <2>1. \A u \in 0 .. M3 - 1 :
          h.mem[u] \in [first : {-7, 0, 1}, second : {-7} \cup 0 .. M3, ptr : Ptrs(M3)]
    BY <1>1 DEF MemB
  <2>2. Bytes \in [first : {-7, 0, 1}, second : {-7} \cup 0 .. M3, ptr : Ptrs(M3)]
    BY DEF Bytes, Ptrs
  <2> QED BY <2>1, <2>2 DEF MemB, GivenMem
<1>5. Sorted(n, h.head, B, F, end)
  <2>1. \A d \in B : Span(n, d) = Span(h.mem, d)
    BY <1>3 DEF Span
  <2>2. \A d \in F : NextOf(n, d) = NextOf(h.mem, d)
    BY <1>1, <1>3 DEF NextOf
  <2> QED BY <1>1, <2>1, <2>2, SortedSame
<1>6. Coalesced(n, F)
  <2>1. \A d \in F : Span(n, d) = Span(h.mem, d)
    BY <1>1, <1>3 DEF Span
  <2> QED BY <2>1 DEF Coalesced
<1>7. \A d \in B : Status(n, d) = Status(h.mem, d)
  BY <1>3 DEF Status
<1> DEFINE x == [mem |-> n, head |-> h.head]
<1>8. x.mem = n /\ x.head = h.head /\ x = [mem |-> x.mem, head |-> x.head]
  OBVIOUS
<1> HIDE DEF x
<1>9. /\ \A d \in F : Status(n, d) = 0
      /\ \A d \in B \ F : Status(n, d) = 1
  BY <1>1, <1>7 DEF ListedB
<1>10. ListedB(x, B, F, end)
  BY <1>1, <1>4, <1>5, <1>8, <1>9 DEF ListedB
<1> QED BY <1>6, <1>10 DEF x

\* A free block of g, which is the heap or what it has grown to, is given.
LEMMA TakenB ==
  ASSUME NEW B, NEW F, Roomy(heap.mem, B \ F, live),
         NEW g, NEW C, NEW G, NEW end, ListedB(g, C, G, end), Coalesced(g.mem, G),
         C \ G = B \ F, Saved(heap.mem, g.mem, B \ F),
         NEW c \in G, NEW p, Prior(G, c, p),
         NEW r \in Requests, Span(g.mem, c) >= r + 1,
         NEW a, a = Base!take(g, p, c, r), Base!Give(a, r)
  PROVE  \E B2, F2 : HoldsB(heap', live', end, B2, F2)
<1>0. r \in Nat /\ M3 \in Nat
  BY UnitsOK, M3Number
<1>1. AllocatesB(g, a, C, G, end, r)
  BY <1>0, TakeAllocates
<1>2. PICK B2, F2 : /\ ListedB(a.heap, B2, F2, end) /\ Coalesced(a.heap.mem, F2)
                    /\ a.block \notin C \ G /\ B2 \ F2 = (C \ G) \cup {a.block}
                    /\ Saved(g.mem, a.heap.mem, C \ G)
                    /\ Span(a.heap.mem, a.block) >= r + 1
  BY <1>1 DEF AllocatesB
<1> DEFINE k == a.heap
           b == a.block
           n == GivenMem(M3, k.mem, b, r)
           o == [at |-> b + 1, n |-> r]
<1>3. b \in B2 /\ b \notin F2 /\ b \in Nat /\ end <= M3 /\ Tiled(k.mem, B2, end)
  <2>1. Numbers(k, B2, F2, end)
    BY <1>2, ListedNumbers
  <2>2. b \in B2 /\ b \notin F2
    BY <1>2
  <2> QED BY <1>0, <1>2, <2>1, <2>2 DEF Numbers, ListedB, Sorted
<1>4. /\ heap' = [mem |-> n, head |-> k.head] /\ live' = live \cup {o}
  <2> DEFINE q == b + 1
  <2>1. heap' = [k EXCEPT !.mem = [u \in 0 .. M3 - 1 |->
                  IF u \in q .. q + r - 1 THEN Bytes ELSE k.mem[u]]]
    BY DEF Base!Give, Base!Addresses, Base!Data, Bytes, M3
  <2>2. q .. q + r - 1 = b + 1 .. b + r
    BY <1>0, <1>3
  <2>3. k = [mem |-> k.mem, head |-> k.head]
    BY <1>2 DEF ListedB
  <2> HIDE DEF q, k, b
  <2>4. heap' = [k EXCEPT !.mem = n]
    BY <2>1, <2>2 DEF GivenMem
  <2>5. live' = live \cup {o}
    BY DEF Base!Give, b
  <2> HIDE DEF n, o
  <2> QED BY <2>3, <2>4, <2>5
<1>5. Roomy(n, (B \ F) \cup {b}, live \cup {o})
  <2>1. Saved(heap.mem, k.mem, B \ F)
    BY <1>2, SavedTwice
  <2>2. b \notin B \ F /\ B \ F \subseteq B2 /\ Span(k.mem, b) >= r + 1
    BY <1>2
  <2> HIDE DEF k, b, n, o
  <2>3. n = GivenMem(M3, k.mem, b, r) /\ o = [at |-> b + 1, n |-> r]
    BY DEF n, o
  <2> QED BY <1>0, <1>3, <2>1, <2>2, <2>3, RoomyMalloc
<1>6. ListedB([mem |-> n, head |-> k.head], B2, F2, end) /\ Coalesced(n, F2)
  <2>1. ListedB(k, B2, F2, end) /\ Coalesced(k.mem, F2) /\ Span(k.mem, b) >= r + 1
    BY <1>2
  <2> HIDE DEF k, b, n
  <2>2. n = GivenMem(M3, k.mem, b, r)
    BY DEF n
  <2> QED BY <1>0, <1>3, <2>1, <2>2, ListedGiven
<1>7. B2 \ F2 = (B \ F) \cup {b}
  BY <1>2
<1> HIDE DEF k, b, n, o
<1>8. heap'.mem = n
  BY <1>4
<1>9. HoldsB(heap', live', end, B2, F2)
  BY <1>4, <1>5, <1>6, <1>7, <1>8 DEF HoldsB
<1> QED BY <1>9

\* heapmgr_malloc of heapmgrbase, when a free block is large enough.
LEMMA MallocFitsB ==
  ASSUME InvB, NEW r \in Requests, Base!MallocFits(r)
  PROVE  InvB' /\ s_heap_hi' = s_heap_hi
<1>1. PICK B, F : HoldsB(heap, live, s_heap_hi, B, F)
  BY DEF InvB
<1>2. /\ ListedB(heap, B, F, s_heap_hi) /\ Coalesced(heap.mem, F)
      /\ Roomy(heap.mem, B \ F, live) /\ r \in Nat
  BY <1>1, UnitsOK DEF HoldsB
<1> DEFINE list == Base!ListOf(heap)
<1>3. PICK i \in Base!Fitting(list, r) :
        /\ \A j \in Base!Fitting(list, r) : i <= j
        /\ Base!Give(Base!take(heap, Base!before(list, i), list[i], r), r)
  BY DEF Base!MallocFits
<1>4. s_heap_hi' = s_heap_hi
  BY DEF Base!MallocFits
<1>5. PICK N : Ordered(list, F, N)
  BY <1>2, ListIsOrdered
<1> HIDE DEF list
<1>6. F \subseteq Nat /\ \A d \in F : d \in Nat /\ Span(heap.mem, d) \in Nat
  <2>1. Numbers(heap, B, F, s_heap_hi)
    BY <1>2, ListedNumbers
  <2> QED BY <2>1 DEF Numbers
<1>7. i \in 0 .. N - 1 /\ Base!payload(heap.mem, list[i]) >= r
  BY <1>3, <1>5 DEF Base!Fitting, Ordered
<1>8. /\ N \in Nat /\ i \in Nat /\ i < N /\ i \in 0 .. N /\ list[i] \in F
      /\ \A j, k \in 0 .. N - 1 : j < k => list[j] < list[k]
      /\ \A j \in 0 .. N - 1 : list[j] \in Nat
  <2>1. /\ N \in Nat /\ \A j, k \in 0 .. N - 1 : j < k => list[j] < list[k]
        /\ \A j \in 0 .. N - 1 : list[j] \in F
    BY <1>5 DEF Ordered
  <2>2. i \in Nat /\ i < N /\ i \in 0 .. N
    BY <1>7, <2>1
  <2>3. list[i] \in F /\ \A j \in 0 .. N - 1 : list[j] \in Nat
    BY <1>6, <1>7, <2>1
  <2> QED BY <2>1, <2>2, <2>3
<1>9. Span(heap.mem, list[i]) >= r + 1
  <2>1. Base!payload(heap.mem, list[i]) = Span(heap.mem, list[i]) - 1
    BY DEF Base!payload, Base!get_span, Span
  <2>2. Span(heap.mem, list[i]) \in Nat
    BY <1>6, <1>8
  <2> QED BY <1>2, <1>7, <2>1, <2>2
<1>10. Prior(F, list[i], Base!before(list, i))
  <2>1. \A j \in 0 .. i - 1 : list[j] < list[i]
    BY <1>8
  <2>2. \A j \in i .. N - 1 : list[i] <= list[j]
    <3>1. ASSUME NEW j \in i .. N - 1 PROVE list[i] <= list[j]
      <4>1. j \in 0 .. N - 1 /\ (j = i \/ i < j)
        BY <1>8
      <4>2. list[j] \in Nat /\ list[i] \in Nat
        BY <1>8, <4>1
      <4>3. j = i \/ list[i] < list[j]
        BY <1>7, <1>8, <4>1
      <4> QED BY <4>2, <4>3
    <3> QED BY <3>1
  <2>3. list[i] \in Nat
    BY <1>6, <1>8
  <2> QED BY <1>5, <1>6, <1>8, <2>1, <2>2, <2>3, OrderedPrior
<1> DEFINE p == Base!before(list, i)
           a == Base!take(heap, p, list[i], r)
           c == list[i]
<1>11. Saved(heap.mem, heap.mem, B \ F)
  BY DEF Saved
<1>12. \E B2, F2 : HoldsB(heap', live', s_heap_hi, B2, F2)
  <2>1. Base!Give(a, r) /\ a = Base!take(heap, p, c, r) /\ Prior(F, c, p) /\ c \in F
        /\ Span(heap.mem, c) >= r + 1
    BY <1>3, <1>8, <1>9, <1>10
  <2> HIDE DEF a, p, c
  <2> QED BY <1>2, <1>11, <2>1, TakenB
<1> QED BY <1>4, <1>12 DEF InvB

\* heapmgr_free of heapmgrbase, with the search for its place.
LEMMA FreeStepB ==
  ASSUME InvB, NEW a \in live, Base!Free(a)
  PROVE  InvB' /\ s_heap_hi' = s_heap_hi
<1>1. PICK B, F : HoldsB(heap, live, s_heap_hi, B, F)
  BY DEF InvB
<1> DEFINE list == Base!ListOf(heap)
           c == a.at - 1
           from == {i \in DOMAIN list : c < list[i]}
           stop == IF from = {} THEN Base!Cardinality(DOMAIN list)
                   ELSE CHOOSE i \in from : \A j \in from : i <= j
           p == Base!before(list, stop)
<1>2. /\ heap' = IF p = -1 THEN Base!push_front(heap, c, s_heap_hi)
                 ELSE Base!insert_after(heap, p, c, s_heap_hi).heap
      /\ live' = live \ {a} /\ s_heap_hi' = s_heap_hi
  <2>1. live' = live \ {a} /\ s_heap_hi' = s_heap_hi
    BY DEF Base!Free
  <2>2. heap' = IF p = Base!NULL THEN Base!push_front(heap, c, s_heap_hi)
                ELSE Base!insert_after(heap, p, c, s_heap_hi).heap
    BY DEF Base!Free
  <2> HIDE DEF p, c
  <2> QED BY <2>1, <2>2 DEF Base!NULL
<1>3. /\ ListedB(heap, B, F, s_heap_hi) /\ Coalesced(heap.mem, F)
      /\ Roomy(heap.mem, B \ F, live)
  BY <1>1 DEF HoldsB
<1>4. PICK N : Ordered(list, F, N)
  BY <1>3, ListIsOrdered
<1> HIDE DEF list
<1>5. c \in B /\ c \notin F
  BY <1>3 DEF Roomy
<1>6. F \subseteq Nat /\ c \in Nat /\ \A d \in F : d \in Nat
  <2>1. Numbers(heap, B, F, s_heap_hi)
    BY <1>3, ListedNumbers
  <2> HIDE DEF c
  <2> QED BY <1>5, <2>1 DEF Numbers
<1> HIDE DEF c
<1>7. /\ N \in Nat /\ DOMAIN list = 0 .. N - 1
      /\ \A i, j \in 0 .. N - 1 : i < j => list[i] < list[j]
      /\ \A i \in 0 .. N - 1 : list[i] \in F
  BY <1>4 DEF Ordered
<1>8. \A i \in 0 .. N - 1 : list[i] \in Nat /\ list[i] # c
  BY <1>5, <1>6, <1>7
<1>9. Prior(F, c, p)
  <2>1. CASE from = {}
    <3>1. stop = N
      <4>1. Cardinality(0 .. N - 1) = IF 0 > N - 1 THEN 0 ELSE (N - 1) - 0 + 1
        BY <1>7, FS_Interval
      <4>2. Base!Cardinality(0 .. N - 1) = N
        BY <1>7, <4>1, CountB
      <4> QED BY <1>7, <2>1, <4>2
    <3> HIDE DEF stop
    <3>2. N \in 0 .. N /\ \A i \in N .. N - 1 : c <= list[i]
      BY <1>7
    <3>3. \A i \in 0 .. N - 1 : list[i] < c
      BY <1>6, <1>7, <1>8, <2>1
    <3> QED BY <1>4, <1>6, <3>1, <3>2, <3>3, OrderedPrior
  <2>2. CASE from # {}
    <3>1. from \subseteq Nat
      BY <1>7
    <3>2. \E x \in from : \A y \in from : x <= y
      <4> HIDE DEF from
      <4> QED BY <2>2, <3>1, LeastNumber
    <3>3. stop \in from /\ \A j \in from : stop <= j
      <4> HIDE DEF from
      <4>1. stop = CHOOSE i \in from : \A j \in from : i <= j
        BY <2>2
      <4> HIDE DEF stop
      <4> QED BY <3>2, <4>1
    <3> HIDE DEF stop
    <3>4. stop \in 0 .. N - 1 /\ c < list[stop]
      BY <1>7, <3>3
    <3>5. stop \in Nat /\ stop < N /\ stop \in 0 .. N
      BY <1>7, <3>4
    <3>6. ASSUME NEW i \in 0 .. stop - 1 PROVE list[i] < c
      <4>1. i \in 0 .. N - 1 /\ ~ (stop <= i)
        BY <1>7, <3>5
      <4>2. i \notin from
        BY <3>3, <4>1
      <4>3. ~ (c < list[i])
        BY <1>7, <4>1, <4>2
      <4> QED BY <1>6, <1>8, <4>1, <4>3
    <3>7. ASSUME NEW i \in stop .. N - 1 PROVE c <= list[i]
      <4>1. i \in 0 .. N - 1 /\ (i = stop \/ stop < i)
        BY <1>7, <3>5
      <4>2. i = stop \/ list[stop] < list[i]
        BY <1>7, <3>4, <4>1
      <4>3. list[i] \in Nat /\ list[stop] \in Nat
        BY <1>8, <3>4, <4>1
      <4> QED BY <1>6, <3>4, <4>2, <4>3
    <3> QED BY <1>4, <1>6, <3>5, <3>6, <3>7, OrderedPrior
  <2> QED BY <2>1, <2>2
<1> HIDE DEF p, stop, from
<1>10. FreeOf(heap, heap', B, F, c, p)
  <2>1. CASE p = -1
    <3>1. heap' = Base!push_front(heap, c, s_heap_hi) /\ Prior(F, c, -1)
      BY <1>2, <1>9, <2>1
    <3> DEFINE x == heap'
    <3>2. x = Base!push_front(heap, c, s_heap_hi)
      BY <3>1
    <3> HIDE DEF x
    <3>3. FreeOf(heap, x, B, F, c, -1)
      BY <1>3, <1>5, <3>1, <3>2, PushFrees
    <3> QED BY <2>1, <3>3 DEF x
  <2>2. CASE p # -1
    <3> DEFINE x == Base!insert_after(heap, p, c, s_heap_hi)
    <3>1. heap' = x.heap
      BY <1>2, <2>2
    <3>2. x = Base!insert_after(heap, p, c, s_heap_hi)
      OBVIOUS
    <3> HIDE DEF x
    <3>3. FreeOf(heap, x.heap, B, F, c, p)
      BY <1>3, <1>5, <1>9, <2>2, <3>2, InsertFrees
    <3> QED BY <3>1, <3>3
  <2> QED BY <2>1, <2>2
<1>11. FreedB(heap, heap', B, F, c, p, s_heap_hi)
  <2> DEFINE x == heap'
  <2>1. FreeOf(heap, x, B, F, c, p)
    BY <1>10
  <2> HIDE DEF x
  <2>2. FreedB(heap, x, B, F, c, p, s_heap_hi)
    BY <1>3, <1>5, <1>9, <2>1, FreeIsFreed
  <2> QED BY <2>2 DEF x
<1>12. PICK C, G : /\ ListedB(heap', C, G, s_heap_hi) /\ C \ G = (B \ F) \ {c}
                   /\ Coalesced(heap'.mem, G) /\ Saved(heap.mem, heap'.mem, (B \ F) \ {c})
  BY <1>11 DEF FreedB
<1>13. Roomy(heap'.mem, (B \ F) \ {c}, live \ {a})
  <2>1. Tiled(heap.mem, B, s_heap_hi) /\ B \ F \subseteq B
    BY <1>3 DEF ListedB, Sorted
  <2> DEFINE n == heap'.mem
  <2>2. Saved(heap.mem, n, (B \ F) \ {a.at - 1})
    BY <1>12 DEF c
  <2> HIDE DEF n
  <2>3. Roomy(n, (B \ F) \ {a.at - 1}, live \ {a})
    BY <1>3, <2>1, <2>2, RoomyFree
  <2> QED BY <2>3 DEF n, c
<1>14. HoldsB(heap', live', s_heap_hi', C, G)
  BY <1>2, <1>12, <1>13 DEF HoldsB
<1> QED BY <1>2, <1>14 DEF InvB

\* The blocks found from the start of the heap on are its blocks, and those that
\* are marked free the ones on the list.
LEMMA BlocksFoundB ==
  ASSUME NEW B, NEW F, ListedB(heap, B, F, s_heap_hi)
  PROVE  Base!TheBlocks = B /\ Base!FreeBlocks = F
<1> DEFINE m == heap.mem
           end == s_heap_hi
           V == {c \in 0 .. M3 : c + Span(m, c) \in c + 1 .. end}
           Is(f) == f = [c \in 0 .. M3 |->
                           IF c >= end THEN {}
                           ELSE {c} \cup IF c + Span(m, c) \in c + 1 .. end
                                         THEN f[c + Span(m, c)] ELSE {}]
<1>1. /\ M3 \in Nat /\ end \in 0 .. M3 /\ Tiled(m, B, end) /\ F \subseteq B /\ m \in MemB
      /\ \A d \in B : /\ d \in 0 .. M3 - 1 /\ Span(m, d) \in 1 .. M3
                      /\ d + Span(m, d) <= end
      /\ \A d \in F : Status(m, d) = 0
      /\ \A d \in B \ F : Status(m, d) = 1
  <2>1. Numbers(heap, B, F, end)
    BY ListedNumbers
  <2> QED BY <2>1 DEF Numbers, ListedB, Sorted
<1> HIDE DEF m, end
<1>2. ASSUME NEW c \in 0 .. M3, c \in V, c < end
      PROVE  Span(m, c) \in Nat /\ c + Span(m, c) <= end
  <2>1. c \in 0 .. M3 - 1
    BY <1>1, <1>2
  <2>2. Span(m, c) \in {-7} \cup 0 .. M3
    BY <1>1, <2>1, FieldsB DEF Span
  <2>3. c + Span(m, c) \in c + 1 .. end
    BY <1>2
  <2> QED BY <1>1, <2>1, <2>2, <2>3
<1>3. ASSUME NEW f PROVE Is(f) <=> Lays(M3, m, end, V, f)
  <2>1. ASSUME NEW c \in 0 .. M3
        PROVE  BlocksBody(f, m, end, V, c) =
                 IF c >= end THEN {}
                 ELSE {c} \cup IF c + Span(m, c) \in c + 1 .. end
                               THEN f[c + Span(m, c)] ELSE {}
    BY DEF BlocksBody
  <2> QED BY <2>1 DEF Lays
<1>4. \E f : Lays(M3, m, end, V, f)
  <2> HIDE DEF V
  <2> QED BY <1>1, <1>2, BlocksExist
<1>5. Is(CHOOSE f : Is(f))
  <2>1. \E f : Is(f)
    <3> HIDE DEF Is
    <3> QED BY <1>3, <1>4
  <2> HIDE DEF Is
  <2> QED BY <2>1
<1>6. Base!TheBlocks = (CHOOSE f : Is(f))[0]
  BY DEF Base!TheBlocks, Base!get_span, Span, M3, m, end
<1>7. B \subseteq V
  <2>1. ASSUME NEW c \in B PROVE c \in V
    <3>1. c \in 0 .. M3 /\ c + Span(m, c) \in c + 1 .. end
      BY <1>1
    <3> QED BY <3>1
  <2> QED BY <2>1
<1> DEFINE f == CHOOSE f : Is(f)
<1>8. Lays(M3, m, end, V, f)
  <2> HIDE DEF Is, V
  <2> QED BY <1>3, <1>5
<1> HIDE DEF f, V, Is
<1>9. f[0] = B
  BY <1>1, <1>7, <1>8, BlocksAre
<1>10. Base!TheBlocks = B
  BY <1>6, <1>9 DEF f
<1>11. {c \in B : Status(m, c) = 0} = F
  BY <1>1
<1> QED BY <1>10, <1>11 DEF Base!FreeBlocks, Base!get_status, Base!CHUNK_FREE, Status, m

\* The heap with the new block at its end, not yet on the list.
NewB(h, B, F, end, g, x) ==
  /\ ListedB(x, B \cup {end}, F, end + g) /\ Coalesced(x.mem, F) /\ end \notin B
  /\ Saved(h.mem, x.mem, B) /\ Span(x.mem, end) = g
  /\ \A d \in B : Span(x.mem, d) = Span(h.mem, d)
  /\ x.head = h.head

\* The writes of sys_grow_and_link, before the new block is freed, make it a block.
LEMMA NewIsNew ==
  ASSUME NEW h, NEW B, NEW F, NEW end, ListedB(h, B, F, end), Coalesced(h.mem, F),
         NEW g \in Nat, g >= 1, end + g <= M3,
         NEW x, x = [h EXCEPT !.mem =
                       [[[h.mem EXCEPT ![end].second = g]
                           EXCEPT ![end].ptr = -1] EXCEPT ![end].first = 1]]
  PROVE  NewB(h, B, F, end, g, x)
<1> DEFINE m1 == [h.mem EXCEPT ![end].second = g]
           m2 == [m1 EXCEPT ![end].ptr = -1]
           n == [m2 EXCEPT ![end].first = 1]
<1>1. x = [h EXCEPT !.mem = n]
  OBVIOUS
<1>2. /\ h.mem \in MemB /\ end \in Nat /\ M3 \in Nat /\ F \subseteq B
      /\ \A d \in B : d \in 0 .. M3 - 1 /\ d < end
      /\ \A d \in F : Status(h.mem, d) = 0
      /\ \A d \in B \ F : Status(h.mem, d) = 1
      /\ Sorted(h.mem, h.head, B, F, end) /\ Tiled(h.mem, B, end)
      /\ h = [mem |-> h.mem, head |-> h.head]
  <2>1. Numbers(h, B, F, end)
    BY ListedNumbers
  <2>2. \A d \in B : d \in Nat /\ Span(h.mem, d) \in Nat /\ Span(h.mem, d) >= 1
                     /\ d + Span(h.mem, d) <= end
    BY <2>1 DEF Numbers
  <2>3. end \in Nat
    BY <2>1 DEF Numbers
  <2>4. \A d \in B : d < end
    BY <2>2, <2>3
  <2> QED BY <2>1, <2>3, <2>4 DEF Numbers, ListedB, Sorted
<1>3. end \in 0 .. M3 - 1 /\ g \in 0 .. M3 /\ -1 \in Ptrs(M3)
  BY <1>2 DEF Ptrs
<1>4. m1 = [h.mem EXCEPT ![end].second = g] /\ m2 = [m1 EXCEPT ![end].ptr = -1]
      /\ n = [m2 EXCEPT ![end].first = 1]
  OBVIOUS
<1> HIDE DEF m1, m2, n
<1>5. Puts(h.mem, m1, end, h.mem[end].first, g, h.mem[end].ptr)
  BY <1>2, <1>3, <1>4, PutSecond
<1>6. m1 \in MemB /\ m1[end].second = g
  BY <1>5 DEF Puts
<1>7. Puts(m1, m2, end, m1[end].first, m1[end].second, -1)
  BY <1>3, <1>4, <1>6, PutPtr
<1>8. m2 \in MemB /\ m2[end].second = g /\ m2[end].ptr = -1
  BY <1>6, <1>7 DEF Puts
<1>9. Puts(m2, n, end, 1, m2[end].second, m2[end].ptr)
  BY <1>3, <1>4, <1>8, PutFirst
<1>10. Puts(h.mem, n, end, 1, m2[end].second, m2[end].ptr)
  BY <1>5, <1>7, <1>9, PutTwice
<1>11. /\ n \in MemB /\ Status(n, end) = 1 /\ Span(n, end) = g
       /\ \A u \in 0 .. M3 - 1 : u # end => n[u] = h.mem[u]
  BY <1>8, <1>10 DEF Puts, Status, Span
<1>12. \A d \in B : n[d] = h.mem[d]
  <2>1. ASSUME NEW d \in B PROVE n[d] = h.mem[d]
    <3>1. d \in 0 .. M3 - 1 /\ d # end
      BY <1>2
    <3> QED BY <1>11, <3>1
  <2> QED BY <2>1
<1>13. Sorted(n, h.head, B \cup {end}, F, end + g) /\ end \notin B
  <2>1. \A d \in B : Span(n, d) = Span(h.mem, d)
    BY <1>12 DEF Span
  <2>2. \A d \in F : NextOf(n, d) = NextOf(h.mem, d)
    BY <1>2, <1>12 DEF NextOf
  <2> QED BY <1>2, <1>11, <2>1, <2>2, SortedGrow
<1>14. /\ \A d \in F : Status(n, d) = 0
       /\ \A d \in (B \cup {end}) \ F : Status(n, d) = 1
  BY <1>2, <1>11, <1>12 DEF Status
<1>15. x.mem = n /\ x.head = h.head /\ x = [mem |-> x.mem, head |-> x.head]
  BY <1>1, <1>2
<1>16. ListedB(x, B \cup {end}, F, end + g)
  BY <1>11, <1>13, <1>14, <1>15 DEF ListedB
<1>17. Coalesced(n, F) /\ \A d \in B : Span(n, d) = Span(h.mem, d)
  <2>1. \A d \in B : Span(n, d) = Span(h.mem, d)
    BY <1>12 DEF Span
  <2> QED BY <1>2, <2>1 DEF Coalesced
<1>18. Saved(h.mem, n, B)
  <2>1. \A u \in 0 .. end - 1 : u \in B \/ n[u] = h.mem[u]
    <3>1. \A u \in 0 .. end - 1 : u \in 0 .. M3 - 1 /\ u # end
      BY <1>2, <1>3
    <3> QED BY <1>11, <3>1
  <2>2. B \subseteq B
    OBVIOUS
  <2> QED BY <1>2, <1>17, <2>1, <2>2, SavedInside
<1> QED BY <1>11, <1>13, <1>15, <1>16, <1>17, <1>18 DEF NewB

\* What the heap has grown to: block b is free, large enough, and p is before it.
GrownB(h, g, B, F, end, b, p, r) ==
  \E C, G : /\ ListedB(g, C, G, end) /\ C \ G = B \ F
            /\ Coalesced(g.mem, G) /\ Saved(h.mem, g.mem, B \ F)
            /\ b \in G /\ Span(g.mem, b) >= r + 1 /\ Prior(G, b, p)

\* The heap grows by what is asked for and its header, at least.
LEMMA SpanGrowsB ==
  ASSUME NEW r \in Nat
  PROVE  Base!grow_span(r) \in Nat /\ Base!grow_span(r) >= r + 1
<1>1. Growth["heapmgrbase"] \in Nat
  BY M3Number
<1> QED BY <1>1 DEF Base!grow_span

\* sys_grow_and_link leaves a free block that is large enough, and before_grown is
\* the one in front of it on the list.
LEMMA GrownIsGrown ==
  ASSUME NEW B, NEW F, ListedB(heap, B, F, s_heap_hi), Coalesced(heap.mem, F),
         NEW list, NEW N, Ordered(list, F, N),
         NEW r \in Nat, s_heap_hi + Base!grow_span(r) <= M3,
         NEW g, g = Base!sys_grow_and_link(heap, Base!before(list, N), r)
  PROVE  GrownB(heap, g.heap, B, F, s_heap_hi + Base!grow_span(r), g.block,
                Base!before_grown(list, g.block), r)
<1> DEFINE c == s_heap_hi
           k == Base!grow_span(r)
           end == c + k
           p == Base!before(list, N)
           new == [heap EXCEPT !.mem =
                       [[[heap.mem EXCEPT ![c].second = k]
                           EXCEPT ![c].ptr = -1] EXCEPT ![c].first = 1]]
<1>1. k \in Nat /\ k >= r + 1 /\ k >= 1
  BY SpanGrowsB
<1>2. g = IF heap.head = -1 THEN [heap |-> Base!push_front(new, c, end), block |-> c]
          ELSE Base!insert_after(new, p, c, end)
  BY DEF Base!sys_grow_and_link, Base!NULL, Base!set_status, Base!set_next_free,
     Base!set_span_units, Base!CHUNK_USED
<1>3. new = [heap EXCEPT !.mem =
                       [[[heap.mem EXCEPT ![c].second = k]
                           EXCEPT ![c].ptr = -1] EXCEPT ![c].first = 1]]
      /\ c + k <= M3 /\ c = s_heap_hi /\ end = c + k
  OBVIOUS
<1> HIDE DEF new, c, k, end
<1>4. ListedB(heap, B, F, c)
  BY <1>3
<1>5. NewB(heap, B, F, c, k, new)
  BY <1>1, <1>3, <1>4, NewIsNew
<1>6. /\ c \in Nat /\ F \subseteq Nat /\ F \subseteq B
      /\ \A d \in F : d \in Nat /\ Span(heap.mem, d) \in Nat /\ d < c
      /\ heap.head = -1 <=> F = {}
      /\ -1 \notin F
  <2>1. Numbers(heap, B, F, c)
    BY <1>4, ListedNumbers
  <2>2. F \subseteq B /\ -1 \notin F /\ c \in Nat
        /\ \A d \in F : d \in Nat /\ Span(heap.mem, d) \in Nat /\ Span(heap.mem, d) >= 1
                     /\ d + Span(heap.mem, d) <= c
    BY <2>1 DEF Numbers
  <2>3. \A d \in F : d < c
    BY <2>2
  <2>4. heap.head = -1 <=> F = {}
    BY <1>4, <2>2 DEF ListedB, Sorted, Chained, Least
  <2> QED BY <2>2, <2>3, <2>4
<1>7. /\ N \in Nat /\ DOMAIN list = 0 .. N - 1 /\ {list[i] : i \in 0 .. N - 1} = F
      /\ \A i, j \in 0 .. N - 1 : i < j => list[i] < list[j]
      /\ \A i \in 0 .. N - 1 : list[i] \in F /\ list[i] < c
  BY <1>6 DEF Ordered
<1>8. Prior(F, c, p)
  <2>1. N \in 0 .. N /\ \A i \in N .. N - 1 : c <= list[i]
    BY <1>7
  <2>2. \A i \in 0 .. N - 1 : list[i] < c
    BY <1>7
  <2> QED BY <1>6, <2>1, <2>2, OrderedPrior
<1>9. p = -1 <=> F = {}
  <2>1. p = IF N = 0 THEN -1 ELSE list[N - 1]
    BY DEF Base!before, Base!NULL
  <2>2. CASE N = 0
    BY <1>7, <2>1, <2>2
  <2>3. CASE N # 0
    <3>1. N - 1 \in 0 .. N - 1
      BY <1>7, <2>3
    <3>2. list[N - 1] \in F
      BY <1>7, <3>1
    <3> QED BY <1>6, <2>1, <2>3, <3>2
  <2> QED BY <2>2, <2>3
<1>10. p # -1 => N # 0 /\ p = list[N - 1]
  BY DEF Base!before, Base!NULL
<1>25. c \notin F
  BY <1>6
<1> HIDE DEF p
<1>11. /\ ListedB(new, B \cup {c}, F, end) /\ Coalesced(new.mem, F) /\ c \notin B
       /\ Saved(heap.mem, new.mem, B) /\ Span(new.mem, c) = k
       /\ new.head = heap.head
       /\ \A d \in B : Span(new.mem, d) = Span(heap.mem, d)
  BY <1>3, <1>5 DEF NewB
<1>12. c \in B \cup {c}
  OBVIOUS
<1>13. FreeOf(new, g.heap, B \cup {c}, F, c, p) /\ g.block = Joined(new.mem, p, c)
  <2>1. CASE F = {}
    <3>1. heap.head = -1 /\ p = -1
      BY <1>6, <1>9, <2>1
    <3> DEFINE x == Base!push_front(new, c, end)
    <3>2. g.heap = x /\ g.block = c
      BY <1>2, <3>1
    <3>3. x = Base!push_front(new, c, end)
      OBVIOUS
    <3> HIDE DEF x
    <3>4. Prior(F, c, -1)
      BY <1>8, <3>1
    <3>5. FreeOf(new, x, B \cup {c}, F, c, -1)
      BY <1>11, <1>12, <1>25, <3>3, <3>4, PushFrees
    <3> QED BY <3>1, <3>2, <3>5 DEF Joined, Down
  <2>2. CASE F # {}
    <3>1. heap.head # -1 /\ p # -1
      BY <1>6, <1>9, <2>2
    <3>2. g = Base!insert_after(new, p, c, end)
      BY <1>2, <3>1
    <3> QED BY <1>8, <1>11, <1>12, <1>25, <3>1, <3>2, InsertFrees
  <2> QED BY <2>1, <2>2
<1>14. FreedB(new, g.heap, B \cup {c}, F, c, p, end)
  <2> DEFINE x == g.heap
  <2>1. FreeOf(new, x, B \cup {c}, F, c, p)
    BY <1>13
  <2> HIDE DEF x
  <2>2. FreedB(new, x, B \cup {c}, F, c, p, end)
    BY <1>8, <1>11, <1>12, <1>25, <2>1, FreeIsFreed
  <2> QED BY <2>2 DEF x
<1>15. After(new.mem, new.head, p) = -1
  <2>1. Chained(new.mem, new.head, F)
    BY <1>11 DEF ListedB, Sorted
  <2>2. Least(Above(F, c), After(new.mem, new.head, p))
    BY <1>6, <1>8, <1>25, <2>1, AfterPrior
  <2>3. \A d \in F : ~ (c < d)
    BY <1>6
  <2>4. Above(F, c) = {}
    BY <2>3 DEF Above
  <2> QED BY <2>2, <2>4 DEF Least
<1> DEFINE b == g.block
           x == g.heap
           down == Down(new.mem, p, c)
           C == (B \cup {c}) \ IF down THEN {c} ELSE {}
           G == (F \cup {c}) \ IF down THEN {c} ELSE {}
<1>16. Gone(new.mem, After(new.mem, new.head, p), p, c) = IF down THEN {c} ELSE {}
  BY <1>15 DEF Gone, Up
<1>17. b = Joined(new.mem, p, c)
  BY <1>13
<1>18. /\ ListedB(x, C, G, end) /\ C \ G = ((B \cup {c}) \ F) \ {c}
       /\ Coalesced(x.mem, G) /\ Saved(new.mem, x.mem, ((B \cup {c}) \ F) \ {c})
       /\ b \in G /\ Span(x.mem, b) >= Span(new.mem, c)
  BY <1>14, <1>16, <1>17 DEF FreedB
<1>19. ((B \cup {c}) \ F) \ {c} = B \ F
  BY <1>11
<1>20. Saved(heap.mem, x.mem, B \ F)
  <2> HIDE DEF x
  <2>1. Saved(heap.mem, new.mem, B \ F)
    BY <1>11, SavedFewer
  <2> QED BY <1>18, <1>19, <2>1, SavedTwice
<1>21. Span(x.mem, b) >= r + 1
  <2>1. Span(x.mem, b) \in Nat
    <3> HIDE DEF x, b, C, G
    <3>1. Numbers(x, C, G, end)
      BY <1>18, ListedNumbers
    <3>2. b \in C /\ \A d \in C : Span(x.mem, d) \in 1 .. M3
      BY <1>18, <3>1 DEF Numbers
    <3> QED BY <3>2, M3Number
  <2> HIDE DEF x, b
  <2> QED BY <1>1, <1>11, <1>18, <2>1
<1> DEFINE q == Base!before_grown(list, b)
<1>22. q = IF N > 0 /\ b = list[N - 1] THEN Base!before(list, N - 1) ELSE p
  <2>1. Cardinality(0 .. N - 1) = IF 0 > N - 1 THEN 0 ELSE (N - 1) - 0 + 1
    BY <1>7, FS_Interval
  <2>2. Base!Cardinality(DOMAIN list) = N
    BY <1>7, <2>1, CountB
  <2>3. q = LET last == N - 1 IN
            IF last >= 0 /\ b = list[last] THEN Base!before(list, last)
            ELSE Base!before(list, last + 1)
    BY <2>2 DEF Base!before_grown
  <2>4. N - 1 + 1 = N /\ (N - 1 >= 0 <=> N > 0)
    BY <1>7
  <2> QED BY <2>3, <2>4 DEF p
<1> HIDE DEF b, x, q
<1>23. Prior(G, b, q)
  <2>1. CASE down
    <3>1. b = p /\ p # -1
      BY <1>17, <2>1 DEF Joined, Down
    <3>2. N > 0 /\ N # 0 /\ b = list[N - 1]
      BY <1>7, <1>10, <3>1
    <3>3. q = Base!before(list, N - 1)
      BY <1>22, <3>2
    <3>4. G = F
      BY <1>25, <2>1
    <3>5. N - 1 \in 0 .. N /\ N - 1 \in 0 .. N - 1
      BY <1>7, <3>2
    <3>6. b \in Nat
      BY <1>6, <1>7, <3>2, <3>5
    <3>7. \A i \in 0 .. (N - 1) - 1 : list[i] < b
      <4>1. \A i \in 0 .. (N - 1) - 1 : i \in 0 .. N - 1 /\ i < N - 1
        BY <1>7, <3>5
      <4> QED BY <1>7, <3>2, <3>5, <4>1
    <3>8. \A i \in N - 1 .. N - 1 : b <= list[i]
      <4>1. \A i \in N - 1 .. N - 1 : i = N - 1
        BY <1>7
      <4> QED BY <3>2, <3>6, <4>1
    <3> DEFINE stop == N - 1
    <3>9. stop \in 0 .. N /\ (\A i \in 0 .. stop - 1 : list[i] < b)
          /\ \A i \in stop .. N - 1 : b <= list[i]
      BY <3>5, <3>7, <3>8
    <3> HIDE DEF stop
    <3>10. Prior(F, b, Base!before(list, stop))
      BY <1>6, <3>6, <3>9, OrderedPrior
    <3> QED BY <3>3, <3>4, <3>10 DEF stop
  <2>2. CASE ~ down
    <3>1. b = c /\ G = F \cup {c}
      BY <1>17, <2>2 DEF Joined
    <3>2. ~ (N > 0 /\ b = list[N - 1])
      <4> SUFFICES ASSUME N > 0, b = list[N - 1] PROVE FALSE
        OBVIOUS
      <4>1. N - 1 \in 0 .. N - 1
        BY <1>7
      <4>2. list[N - 1] \in F
        BY <1>7, <4>1
      <4> QED BY <1>25, <3>1, <4>2
    <3>3. q = p
      BY <1>22, <3>2
    <3> QED BY <1>6, <1>8, <3>1, <3>3 DEF Prior
  <2> QED BY <2>1, <2>2
<1>24. C \ G = B \ F
  BY <1>18, <1>19
<1>26. GrownB(heap, x, B, F, end, b, q, r)
  <2> HIDE DEF C, G
  <2> QED BY <1>18, <1>20, <1>21, <1>23, <1>24 DEF GrownB
<1> QED BY <1>26 DEF x, b, q, end, c, k

\* heapmgr_malloc of heapmgrbase, when the heap has to grow: no free block fits.
LEMMA MallocGrowsB ==
  ASSUME InvB, NEW r \in Requests, Base!MallocGrows(r)
  PROVE  InvB' /\ Base!NoBlockFits
<1>1. PICK B, F : HoldsB(heap, live, s_heap_hi, B, F)
  BY DEF InvB
<1>2. /\ ListedB(heap, B, F, s_heap_hi) /\ Coalesced(heap.mem, F)
      /\ Roomy(heap.mem, B \ F, live) /\ r \in Nat
  BY <1>1, UnitsOK DEF HoldsB
<1> DEFINE list == Base!ListOf(heap)
           k == Base!grow_span(r)
           g == Base!sys_grow_and_link(heap,
                  Base!before(list, Base!Cardinality(DOMAIN list)), r)
           p == Base!before_grown(list, g.block)
           a == Base!take(g.heap, p, g.block, r)
<1>3. /\ Base!Fitting(list, r) = {} /\ s_heap_hi + k <= M3 /\ s_heap_hi' = s_heap_hi + k
      /\ Base!Give(a, r)
  BY DEF Base!MallocGrows, M3
<1>4. PICK N : Ordered(list, F, N)
  BY <1>2, ListIsOrdered
<1> HIDE DEF list
<1>5. /\ N \in Nat /\ DOMAIN list = 0 .. N - 1 /\ {list[i] : i \in 0 .. N - 1} = F
  BY <1>4 DEF Ordered
<1>6. Base!Cardinality(DOMAIN list) = N
  <2>1. Cardinality(0 .. N - 1) = IF 0 > N - 1 THEN 0 ELSE (N - 1) - 0 + 1
    BY <1>5, FS_Interval
  <2> QED BY <1>5, <2>1, CountB
<1>7. g = Base!sys_grow_and_link(heap, Base!before(list, N), r)
  BY <1>6
<1> HIDE DEF g
<1>8. GrownB(heap, g.heap, B, F, s_heap_hi + k, g.block, p, r)
  BY <1>2, <1>3, <1>4, <1>7, GrownIsGrown
<1> HIDE DEF p, k
<1>9. PICK C, G : /\ ListedB(g.heap, C, G, s_heap_hi + k) /\ C \ G = B \ F
                  /\ Coalesced(g.heap.mem, G) /\ Saved(heap.mem, g.heap.mem, B \ F)
                  /\ g.block \in G /\ Span(g.heap.mem, g.block) >= r + 1
                  /\ Prior(G, g.block, p)
  BY <1>8 DEF GrownB
<1>10. \E B2, F2 : HoldsB(heap', live', s_heap_hi + k, B2, F2)
  <2> DEFINE x == g.heap
             b == g.block
             end == s_heap_hi + k
  <2>1. /\ ListedB(x, C, G, end) /\ C \ G = B \ F
        /\ Coalesced(x.mem, G) /\ Saved(heap.mem, x.mem, B \ F)
        /\ b \in G /\ Span(x.mem, b) >= r + 1 /\ Prior(G, b, p)
    BY <1>9
  <2>2. a = Base!take(x, p, b, r) /\ Base!Give(a, r)
    BY <1>3
  <2> HIDE DEF a, x, b, end
  <2>3. \E B2, F2 : HoldsB(heap', live', end, B2, F2)
    BY <1>2, <2>1, <2>2, TakenB
  <2> QED BY <2>3 DEF end
<1>11. \A c \in F : Span(heap.mem, c) < r + 1
  <2>1. Numbers(heap, B, F, s_heap_hi)
    BY <1>2, ListedNumbers
  <2>2. \A c \in F : Span(heap.mem, c) \in Nat
    BY <2>1 DEF Numbers
  <2>3. ASSUME NEW i \in 0 .. N - 1 PROVE ~ (Span(heap.mem, list[i]) - 1 >= r)
    <3>1. i \notin Base!Fitting(list, r)
      BY <1>3
    <3> QED BY <1>5, <3>1 DEF Base!Fitting, Base!payload, Base!get_span, Span
  <2>4. ASSUME NEW c \in F PROVE Span(heap.mem, c) < r + 1
    <3>1. PICK i \in 0 .. N - 1 : c = list[i]
      BY <1>5
    <3>2. ~ (Span(heap.mem, c) - 1 >= r) /\ Span(heap.mem, c) \in Nat
      BY <2>2, <2>3, <3>1
    <3> QED BY <1>2, <3>2
  <2> QED BY <2>4
<1>12. Base!FreeBlocks = F
  BY <1>2, BlocksFoundB
<1>13. Base!NoBlockFits
  <2>1. live' = live \cup {[at |-> a.block + 1, n |-> r]}
    BY <1>3 DEF Base!Give
  <2> HIDE DEF a
  <2>2. \A d \in live' \ live : d.n = r
    BY <2>1
  <2> QED BY <1>11, <1>12, <2>2 DEF Base!NoBlockFits, Base!get_span, Span
<1> QED BY <1>3, <1>10, <1>13 DEF InvB

\* heapmgrbase starts with an empty heap that holds its invariant.
LEMMA InitB ==
  ASSUME Base!Init
  PROVE  InvB
<1> DEFINE m == [u \in 0 .. M3 - 1 |-> Bytes]
<1>1. heap = [mem |-> m, head |-> -1] /\ s_heap_hi = 0 /\ live = {}
  BY DEF Base!Init, Base!Addresses, Base!Data, Base!NULL, Bytes, M3
<1>2. m \in MemB
  BY DEF MemB, Ptrs, Bytes
<1> HIDE DEF m
<1>3. Sorted(m, -1, {}, {}, 0)
  BY DEF Sorted, Tiled, Chained, Least
<1>4. heap.mem = m /\ heap.head = -1 /\ heap = [mem |-> heap.mem, head |-> heap.head]
  BY <1>1
<1>5. ListedB(heap, {}, {}, 0)
  BY <1>2, <1>3, <1>4, M3Number DEF ListedB
<1>6. Coalesced(m, {}) /\ Roomy(m, {}, {})
  BY DEF Coalesced, Roomy
<1>7. HoldsB(heap, live, s_heap_hi, {}, {})
  BY <1>1, <1>4, <1>5, <1>6 DEF HoldsB
<1> QED BY <1>7 DEF InvB

\* In a heap that holds the invariant of heapmgrbase, its heap check passes.
LEMMA ValidB ==
  ASSUME InvB
  PROVE  Base!HeapValid /\ Apart(live, M3, heap.mem)
<1>1. PICK B, F : HoldsB(heap, live, s_heap_hi, B, F)
  BY DEF InvB
<1>2. /\ ListedB(heap, B, F, s_heap_hi) /\ Coalesced(heap.mem, F)
      /\ Roomy(heap.mem, B \ F, live)
      /\ Tiled(heap.mem, B, s_heap_hi) /\ s_heap_hi <= M3 /\ B \ F \subseteq B
  BY <1>1 DEF HoldsB, ListedB, Sorted
<1>3. Apart(live, M3, heap.mem)
  BY <1>2, M3Number, RoomyApart
<1>4. /\ M3 \in Nat /\ s_heap_hi \in 0 .. M3 /\ F \subseteq B /\ -1 \notin B
      /\ \A d \in B : /\ d \in 0 .. M3 - 1 /\ Span(heap.mem, d) \in 1 .. M3
                      /\ d + Span(heap.mem, d) <= s_heap_hi
      /\ heap.head \in Ptrs(M3) /\ heap.mem \in MemB
  <2>1. Numbers(heap, B, F, s_heap_hi)
    BY <1>2, ListedNumbers
  <2> QED BY <2>1 DEF Numbers
<1>5. Base!TheBlocks = B /\ Base!FreeBlocks = F
  BY <1>2, BlocksFoundB
<1>6. PICK N : Ordered(Base!ListOf(heap), F, N)
  BY <1>2, ListIsOrdered
<1> DEFINE f == Base!ListFrom(heap.mem, heap.head)
           list == Base!ListOf(heap)
<1>7. f[M3] = -1
  BY <1>2, ListIsOrdered
<1>8. /\ {list[i] : i \in DOMAIN list} = F
      /\ \A i, j \in DOMAIN list : i < j => list[i] < list[j]
  BY <1>6 DEF Ordered
<1>9. \A c \in B : /\ c + Span(heap.mem, c) \in c + 1 .. s_heap_hi
                   /\ c \in F => c + Span(heap.mem, c) \notin F
  <2>1. ASSUME NEW c \in B PROVE c + Span(heap.mem, c) \in c + 1 .. s_heap_hi
    BY <1>4
  <2> QED BY <1>2, <2>1 DEF Coalesced
<1>10. {a.at - 1 : a \in live} = B \ F
       /\ \A a \in live : Span(heap.mem, a.at - 1) >= a.n + 1
  BY <1>2 DEF Roomy
<1>11. Base!TypeOK
  <2>1. heap.mem \in [Base!Addresses -> [first : {-7, 0, 1},
                                         second : {-7} \cup 0 .. M3,
                                         ptr : {-7, -1} \cup Base!Addresses]]
    BY <1>4 DEF MemB, Ptrs, Base!Addresses, M3
  <2>2. heap.head \in {-1} \cup Base!Addresses
    <3>1. heap.head = -1 \/ heap.head \in F
      BY <1>2 DEF ListedB, Sorted, Chained, Least
    <3> QED BY <1>4, <3>1 DEF Base!Addresses, M3
  <2>3. live \subseteq [at : Base!Addresses, n : Requests]
    <3>1. \A a \in live : a \in [at : Nat, n : Requests] /\ a.at \in 0 .. M3 - 1
      BY <1>2, <1>3 DEF Roomy, Apart
    <3> QED BY <3>1 DEF Base!Addresses, M3
  <2> QED BY <1>4, <2>1, <2>2, <2>3 DEF Base!TypeOK, Base!NULL, Base!CHUNK_FREE,
             Base!CHUNK_USED, M3
<1> HIDE DEF f, list
<1>12. Base!HeapValid
  <2>1. f[MaxUnits["heapmgrbase"]] = -1
    BY <1>7 DEF M3
  <2> QED BY <1>5, <1>8, <1>9, <1>10, <1>11, <2>1
          DEF Base!HeapValid, Base!NULL, Base!get_span, Span, f, list
<1> QED BY <1>3, <1>12

\* Each step of heapmgrbase keeps its invariant, is a call, and grows only if it must.
LEMMA NextB ==
  ASSUME InvB, Base!Next
  PROVE  /\ InvB' /\ Calls(live, live')
         /\ s_heap_hi' # s_heap_hi => Base!NoBlockFits
<1>1. ASSUME NEW r \in Requests, Base!MallocFits(r)
      PROVE  InvB' /\ Calls(live, live') /\ s_heap_hi' = s_heap_hi
  BY <1>1, MallocFitsB DEF Base!MallocFits, Base!Give, Calls
<1>2. ASSUME NEW r \in Requests, Base!MallocGrows(r)
      PROVE  InvB' /\ Calls(live, live') /\ Base!NoBlockFits
  <2>1. InvB' /\ Base!NoBlockFits
    BY <1>2, MallocGrowsB
  <2>2. \E at : live' = live \cup {[at |-> at, n |-> r]}
    BY <1>2 DEF Base!MallocGrows, Base!Give
  <2> QED BY <2>1, <2>2 DEF Calls
<1>3. ASSUME NEW a \in live, Base!Free(a)
      PROVE  InvB' /\ Calls(live, live') /\ s_heap_hi' = s_heap_hi
  BY <1>3, FreeStepB DEF Base!Free, Calls
<1> QED BY <1>1, <1>2, <1>3 DEF Base!Next

\* In heapmgrbase, what the program wrote and still has is all that it has.
LEMMA WrittenB ==
  ASSUME Apart(live, M3, heap.mem)
  PROVE  Base!writtenBar = UNION {UnitsOf(a) : a \in live}
  BY DEF Base!writtenBar, Apart, UnitsOf, Base!Addresses, Base!Data, Bytes, M3

\* The invariant of heapmgrbase is about nothing but the variables.
LEMMA StuttersB ==
  ASSUME InvB, UNCHANGED vars
  PROVE  InvB'
  BY DEF InvB, vars

-----------------------------------------------------------------------------
(* Lists that lead back to where they start: the walk round one.           *)

\* One step round the list.
RoundBody(f, m, p, i) == IF i = 0 THEN p ELSE NextOf(m, f[i - 1])

\* f is the walk of k steps from p on.
Rounds(k, m, p, f) == f = [i \in 0 .. k |-> RoundBody(f, m, p, i)]

\* The recursive definition that goes round a list has a value.
LEMMA RoundExists ==
  ASSUME NEW M \in Nat, NEW m, NEW p
  PROVE  \E f : Rounds(M, m, p, f)
<1> USE DEF Rounds
<1> DEFINE Good(f, k) == f = [i \in 0 .. k |-> RoundBody(f, m, p, i)]
           S == {k \in Nat : \E f : Good(f, k)}
<1>1. 0 \in S
  <2> DEFINE f == [i \in 0 .. 0 |-> p]
  <2>1. \A i \in 0 .. 0 : RoundBody(f, m, p, i) = p
    BY DEF RoundBody
  <2>2. Good(f, 0)
    BY <2>1
  <2> QED BY <2>2
<1>2. ASSUME NEW k \in Nat, k \in S PROVE k + 1 \in S
  <2>1. PICK f : Good(f, k)
    BY <1>2
  <2> DEFINE g == [i \in 0 .. k + 1 |-> IF i = k + 1 THEN NextOf(m, f[k]) ELSE f[i]]
  <2>2. \A i \in 0 .. k : g[i] = f[i] /\ f[i] = RoundBody(f, m, p, i)
    BY <2>1
  <2>3. ASSUME NEW i \in 0 .. k + 1 PROVE g[i] = RoundBody(g, m, p, i)
    <3>1. CASE i = k + 1
      <4>1. i # 0 /\ i - 1 = k /\ k \in 0 .. k
        BY <3>1
      <4>2. g[i] = NextOf(m, f[k]) /\ g[k] = f[k]
        BY <2>2, <3>1, <4>1
      <4> HIDE DEF g
      <4> QED BY <4>1, <4>2 DEF RoundBody
    <3>2. CASE i \in 0 .. k
      <4>1. g[i] = RoundBody(f, m, p, i)
        BY <2>2, <3>2
      <4>2. i # 0 => i - 1 \in 0 .. k
        BY <3>2
      <4>3. i # 0 => g[i - 1] = f[i - 1]
        BY <2>2, <4>2
      <4> HIDE DEF g
      <4> QED BY <4>1, <4>3 DEF RoundBody
    <3> QED BY <3>1, <3>2
  <2>4. Good(g, k + 1)
    <3>1. g = [i \in 0 .. k + 1 |-> g[i]]
      OBVIOUS
    <3> HIDE DEF g
    <3> QED BY <2>3, <3>1
  <2> HIDE DEF g
  <2> QED BY <2>4
<1>3. Nat \subseteq S
  <2> HIDE DEF S
  <2> QED BY <1>1, <1>2, SetInduction
<1> QED BY <1>3

\* From each of C, which includes -1, to the next one above, and from the last to -1.
Circle(M, m, C) ==
  /\ C \subseteq -1 .. M - 1 /\ -1 \in C
  /\ \A x \in C :
       /\ NextOf(m, x) \in C
       /\ NextOf(m, x) # -1 => /\ x < NextOf(m, x)
                               /\ \A e \in C : x < e => NextOf(m, x) <= e
       /\ NextOf(m, x) = -1 => \A e \in C : e <= x

\* How far d is up from p, on the way round.
Key(M, p, d) == IF d >= p THEN d ELSE d + M + 1

\* Counted from where the walk starts, each step goes up to the next, until it is back.
LEMMA KeySteps ==
  ASSUME NEW M \in Nat, NEW m, NEW C, Circle(M, m, C), NEW p \in C, NEW x \in C
  PROVE  /\ NextOf(m, x) # p => Key(M, p, x) < Key(M, p, NextOf(m, x))
         /\ NextOf(m, x) # p => \A e \in C : Key(M, p, x) < Key(M, p, e)
                                   => Key(M, p, NextOf(m, x)) <= Key(M, p, e)
         /\ NextOf(m, x) = p => \A e \in C : Key(M, p, e) <= Key(M, p, x)
<1> DEFINE y == NextOf(m, x)
<1>1. /\ y \in C /\ x \in -1 .. M - 1 /\ y \in -1 .. M - 1 /\ p \in -1 .. M - 1
      /\ \A e \in C : e \in -1 .. M - 1
      /\ y # -1 => x < y /\ \A e \in C : x < e => y <= e
      /\ y = -1 => \A e \in C : e <= x
  BY DEF Circle
<1> HIDE DEF y
<1>2. /\ y # -1 => x < y /\ (x < p => y <= p)
      /\ y = -1 => p <= x
  BY <1>1
<1>3. y # p => Key(M, p, x) < Key(M, p, y)
  BY <1>1, <1>2 DEF Key
<1>4. ASSUME y # p, NEW e \in C, Key(M, p, x) < Key(M, p, e)
      PROVE  Key(M, p, y) <= Key(M, p, e)
  <2>1. e \in -1 .. M - 1 /\ (y # -1 => (x < e => y <= e)) /\ (y = -1 => e <= x)
    BY <1>1
  <2> QED BY <1>1, <1>2, <1>4, <2>1 DEF Key
<1>5. ASSUME y = p, NEW e \in C
      PROVE  Key(M, p, e) <= Key(M, p, x)
  <2>1. e \in -1 .. M - 1 /\ (y # -1 => (x < e => y <= e)) /\ (y = -1 => e <= x)
    BY <1>1
  <2> QED BY <1>1, <1>2, <1>5, <2>1 DEF Key
<1> QED BY <1>3, <1>4, <1>5 DEF y

\* The walk is back after r steps, and has then met all of C.
Round(m, C, p, f, M, r) ==
  /\ r \in 1 .. M + 1 /\ f[r] = p /\ \A i \in 1 .. r - 1 : f[i] # p
  /\ \A i \in 0 .. M + 1 : f[i] \in C
  /\ \A i \in 1 .. M + 1 : NextOf(m, f[i - 1]) = f[i]
  /\ \A d \in C : \E i \in 1 .. r : f[i] = d

\* A walk round a circle visits all of it before it is back where it started.
LEMMA RoundTaken ==
  ASSUME NEW M \in Nat, NEW m, NEW C, Circle(M, m, C), NEW p \in C,
         NEW f, Rounds(M + 1, m, p, f)
  PROVE  \E r : Round(m, C, p, f, M, r)
<1>1. f[0] = p /\ \A i \in 1 .. M + 1 : NextOf(m, f[i - 1]) = f[i]
  <2>1. \A i \in 0 .. M + 1 : f[i] = RoundBody(f, m, p, i)
    BY DEF Rounds
  <2>2. 0 \in 0 .. M + 1 /\ \A i \in 1 .. M + 1 : i \in 0 .. M + 1 /\ i # 0
    OBVIOUS
  <2> QED BY <2>1, <2>2 DEF RoundBody
<1>2. \A i \in 0 .. M + 1 : f[i] \in C
  <2> DEFINE S == {n \in Nat : n <= M + 1 => f[n] \in C}
  <2>1. 0 \in S
    BY <1>1
  <2>2. ASSUME NEW n \in Nat, n \in S PROVE n + 1 \in S
    <3> SUFFICES ASSUME n + 1 <= M + 1 PROVE f[n + 1] \in C
      OBVIOUS
    <3>1. f[n] \in C /\ n + 1 \in 1 .. M + 1 /\ (n + 1) - 1 = n
      BY <2>2
    <3>2. f[n + 1] = NextOf(m, f[n])
      BY <1>1, <3>1
    <3> QED BY <3>1, <3>2 DEF Circle
  <2>3. Nat \subseteq S
    <3> HIDE DEF S
    <3> QED BY <2>1, <2>2, SetInduction
  <2> QED BY <2>3
<1>3. \A d \in C : d \in Int /\ -1 <= d /\ d <= M - 1
  BY DEF Circle
<1>4. \E r \in 1 .. M + 1 : f[r] = p
  <2> SUFFICES ASSUME \A r \in 1 .. M + 1 : f[r] # p PROVE FALSE
    OBVIOUS
  <2> DEFINE S == {n \in Nat : n <= M + 1 => Key(M, p, f[n]) >= p + n}
  <2>1. 0 \in S
    BY <1>1, <1>3 DEF Key
  <2>2. ASSUME NEW n \in Nat, n \in S PROVE n + 1 \in S
    <3> SUFFICES ASSUME n + 1 <= M + 1 PROVE Key(M, p, f[n + 1]) >= p + (n + 1)
      OBVIOUS
    <3>1. n \in 0 .. M + 1 /\ n + 1 \in 1 .. M + 1 /\ (n + 1) - 1 = n /\ n + 1 \in 0 .. M + 1
      OBVIOUS
    <3>2. Key(M, p, f[n]) >= p + n /\ f[n] \in C /\ f[n + 1] \in C
          /\ f[n + 1] = NextOf(m, f[n]) /\ f[n + 1] # p
      BY <1>1, <1>2, <2>2, <3>1
    <3>3. Key(M, p, f[n]) < Key(M, p, f[n + 1])
      BY <3>2, KeySteps
    <3>4. Key(M, p, f[n]) \in Int /\ Key(M, p, f[n + 1]) \in Int /\ p \in Int
      BY <1>3, <3>2 DEF Key
    <3> QED BY <3>2, <3>3, <3>4
  <2>3. Nat \subseteq S
    <3> HIDE DEF S
    <3> QED BY <2>1, <2>2, SetInduction
  <2>4. M + 1 \in 0 .. M + 1 /\ M + 1 \in Nat
    OBVIOUS
  <2>5. Key(M, p, f[M + 1]) >= p + (M + 1) /\ f[M + 1] \in C
    BY <1>2, <2>3, <2>4
  <2> QED BY <1>3, <2>5 DEF Key
<1>5. PICK r \in 1 .. M + 1 : f[r] = p /\ \A i \in 1 .. r - 1 : f[i] # p
  <2> DEFINE T == {i \in 1 .. M + 1 : f[i] = p}
  <2>1. T \subseteq Nat /\ T # {}
    BY <1>4
  <2>2. PICK r \in T : \A y \in T : r <= y
    <3> HIDE DEF T
    <3> QED BY <2>1, LeastNumber
  <2>3. \A i \in 1 .. r - 1 : i \in 1 .. M + 1 /\ ~ (r <= i)
    OBVIOUS
  <2> QED BY <2>2, <2>3
<1>6. ASSUME NEW d \in C PROVE \E i \in 1 .. r : f[i] = d
  <2>1. CASE d = p
    BY <1>5, <2>1
  <2>2. CASE d # p
    <3> SUFFICES ASSUME \A i \in 1 .. r : f[i] # d PROVE FALSE
      OBVIOUS
    <3> DEFINE S == {n \in Nat : n <= r - 1 => Key(M, p, f[n]) < Key(M, p, d)}
    <3>1. 0 \in S
      BY <1>1, <1>3, <2>2 DEF Key
    <3>2. ASSUME NEW n \in Nat, n \in S PROVE n + 1 \in S
      <4> SUFFICES ASSUME n + 1 <= r - 1 PROVE Key(M, p, f[n + 1]) < Key(M, p, d)
        OBVIOUS
      <4>1. n \in 0 .. M + 1 /\ n + 1 \in 1 .. M + 1 /\ (n + 1) - 1 = n /\ n + 1 \in 0 .. M + 1
            /\ n + 1 \in 1 .. r - 1 /\ n + 1 \in 1 .. r
        OBVIOUS
      <4>2. Key(M, p, f[n]) < Key(M, p, d) /\ f[n] \in C /\ f[n + 1] \in C
            /\ f[n + 1] = NextOf(m, f[n]) /\ f[n + 1] # p /\ f[n + 1] # d
        BY <1>1, <1>2, <1>5, <3>2, <4>1
      <4>3. Key(M, p, f[n + 1]) <= Key(M, p, d)
        BY <4>2, KeySteps
      <4> QED BY <1>3, <4>2, <4>3 DEF Key
    <3>3. Nat \subseteq S
      <4> HIDE DEF S
      <4> QED BY <3>1, <3>2, SetInduction
    <3>4. r - 1 \in Nat /\ r - 1 \in 0 .. M + 1 /\ r \in 1 .. M + 1
      OBVIOUS
    <3>5. Key(M, p, f[r - 1]) < Key(M, p, d) /\ f[r - 1] \in C /\ NextOf(m, f[r - 1]) = p
      BY <1>1, <1>2, <1>5, <3>3, <3>4
    <3>6. Key(M, p, d) <= Key(M, p, f[r - 1])
      BY <3>5, KeySteps
    <3> QED BY <1>3, <3>5, <3>6 DEF Key
  <2> QED BY <2>1, <2>2
<1>7. Round(m, C, p, f, M, r)
  BY <1>1, <1>2, <1>5, <1>6 DEF Round
<1> QED BY <1>7

-----------------------------------------------------------------------------
(* heapmgrkr: the list of the other one, closed to a circle through base.  *)

M4 == MaxUnits["heapmgrkr"]
Links == {-7, -2, -1} \cup 0 .. M4 - 1
MemK == [{-1} \cup 0 .. M4 - 1 -> [ptr : Links, size : {-7} \cup 0 .. M4]]

\* The bounds of heapmgrkr are numbers.
LEMMA M4Number == M4 \in Nat /\ Growth["heapmgrkr"] \in Nat \ {0}
  BY UnitsOK DEF M4, Managers

\* The heap without base, as the lemmas on sorted lists have it.
View(m) ==
  [u \in 0 .. M4 - 1 |-> [first |-> m[u].size, second |-> m[u].size, ptr |-> m[u].ptr]]

\* What the view of a header says.
LEMMA Viewed ==
  ASSUME NEW m
  PROVE  \A u \in 0 .. M4 - 1 :
           Span(View(m), u) = m[u].size /\ NextOf(View(m), u) = m[u].ptr
  BY DEF Span, NextOf, View

\* B are the blocks of the heap, and F those on the circle.
ListedK(m, B, F, end) ==
  /\ m \in MemK /\ end <= M4 /\ m[-1].size = 0
  /\ Sorted(View(m), m[-1].ptr, B, F, end)

\* What is known of the numbers in such a heap.
NumbersK(m, B, F, end) ==
  /\ M4 \in Nat /\ end \in 0 .. M4 /\ F \subseteq B /\ -1 \notin B
  /\ \A d \in B : /\ d \in 0 .. M4 - 1 /\ m[d].size \in 1 .. M4
                  /\ d + m[d].size <= end
                  /\ Span(View(m), d) = m[d].size
  /\ \A d, e \in B : d < e => d + m[d].size <= e
  /\ m[-1].ptr = -1 \/ m[-1].ptr \in F
  /\ \A d \in F : m[d].ptr = -1 \/ m[d].ptr \in F
  /\ \A d \in B : NextOf(View(m), d) = m[d].ptr
  /\ m \in MemK

\* What is known of the numbers in a heap of heapmgrkr.
LEMMA ListedNumbersK ==
  ASSUME NEW m, NEW B, NEW F, NEW end, ListedK(m, B, F, end)
  PROVE  NumbersK(m, B, F, end)
<1> DEFINE v == View(m)
           head == m[-1].ptr
<1>1. Sorted(v, head, B, F, end) /\ M4 \in Nat /\ end <= M4 /\ m \in MemK
  BY M4Number DEF ListedK
<1> HIDE DEF v, head
<1>2. /\ end \in Nat /\ -1 \notin B
      /\ \A d \in B : d \in Nat /\ Span(v, d) \in Nat /\ Span(v, d) >= 1
                      /\ d + Span(v, d) <= end
      /\ \A d, e \in B : d < e => d + Span(v, d) <= e
      /\ head \in F \/ head = -1
      /\ \A d \in F : NextOf(v, d) \in F \/ NextOf(v, d) = -1
  BY <1>1, SortedNumbers
<1>3. \A d \in B : d \in 0 .. M4 - 1 /\ Span(v, d) \in 1 .. M4
  BY <1>1, <1>2
<1>4. \A d \in B : Span(v, d) = m[d].size /\ NextOf(v, d) = m[d].ptr
  BY <1>3, Viewed DEF v
<1>5. F \subseteq B /\ end \in 0 .. M4
  BY <1>1, <1>2 DEF Sorted
<1> QED BY <1>1, <1>2, <1>3, <1>4, <1>5 DEF NumbersK, v, head

\* base and the blocks on the list are a circle.
LEMMA ListedCircle ==
  ASSUME NEW m, NEW B, NEW F, NEW end, ListedK(m, B, F, end)
  PROVE  Circle(M4, m, F \cup {-1})
<1>1. /\ F \subseteq B /\ M4 \in Nat
      /\ \A d \in F : d \in 0 .. M4 - 1 /\ NextOf(View(m), d) = m[d].ptr
      /\ m[-1].ptr = -1 \/ m[-1].ptr \in F
      /\ \A d \in F : m[d].ptr = -1 \/ m[d].ptr \in F
  <2>1. NumbersK(m, B, F, end)
    BY ListedNumbersK
  <2> QED BY <2>1 DEF NumbersK
<1>2. /\ Least(F, m[-1].ptr)
      /\ \A c \in F : Least(Above(F, c), m[c].ptr)
  <2>1. Chained(View(m), m[-1].ptr, F)
    BY DEF ListedK, Sorted
  <2> QED BY <1>1, <2>1 DEF Chained
<1>3. ASSUME NEW x \in F
      PROVE  /\ m[x].ptr # -1 => x < m[x].ptr /\ \A e \in F : x < e => m[x].ptr <= e
             /\ m[x].ptr = -1 => \A e \in F : e <= x
  <2>1. Least(Above(F, x), m[x].ptr)
    BY <1>2
  <2>2. CASE Above(F, x) = {}
    <3>1. m[x].ptr = -1 /\ \A e \in F : ~ (x < e)
      BY <2>1, <2>2 DEF Least, Above
    <3> QED BY <1>1, <3>1
  <2>3. CASE Above(F, x) # {}
    <3>1. m[x].ptr \in Above(F, x) /\ \A d \in Above(F, x) : m[x].ptr <= d
      BY <2>1, <2>3 DEF Least
    <3>2. m[x].ptr \in F /\ x < m[x].ptr /\ \A e \in F : x < e => m[x].ptr <= e
      BY <3>1 DEF Above
    <3> QED BY <1>1, <3>2
  <2> QED BY <2>2, <2>3
<1>4. /\ m[-1].ptr # -1 => -1 < m[-1].ptr /\ \A e \in F : m[-1].ptr <= e
      /\ m[-1].ptr = -1 => F = {}
  BY <1>1, <1>2 DEF Least
<1> DEFINE C == F \cup {-1}
<1>5. C \subseteq -1 .. M4 - 1 /\ -1 \in C
  BY <1>1
<1>6. ASSUME NEW x \in C
      PROVE  /\ m[x].ptr \in C
             /\ m[x].ptr # -1 => x < m[x].ptr /\ \A e \in C : x < e => m[x].ptr <= e
             /\ m[x].ptr = -1 => \A e \in C : e <= x
  <2>1. CASE x \in F
    <3>1. \A e \in C : e \in F \/ e = -1
      OBVIOUS
    <3>2. x \in Nat
      BY <1>1, <2>1
    <3>3. m[x].ptr \in C
      BY <1>1, <2>1
    <3> DEFINE q == m[x].ptr
    <3>4. /\ q # -1 => x < q /\ \A e \in F : x < e => q <= e
          /\ q = -1 => \A e \in F : e <= x
      BY <1>3, <2>1
    <3>5. ~ (x < -1) /\ -1 <= x
      BY <3>2
    <3> HIDE DEF C, q
    <3>6. q # -1 => \A e \in C : x < e => q <= e
      BY <3>1, <3>4, <3>5
    <3>7. q = -1 => \A e \in C : e <= x
      BY <3>1, <3>4, <3>5
    <3>8. q = m[x].ptr /\ (q # -1 => x < q) /\ m[x].ptr \in C
      BY <3>3, <3>4 DEF q
    <3> QED BY <3>6, <3>7, <3>8
  <2>2. CASE x = -1
    <3>1. \A e \in C : e \in F \/ e = -1
      OBVIOUS
    <3>2. m[x].ptr \in C
      BY <1>1, <2>2
    <3>3. ~ (-1 < -1) /\ -1 <= -1
      OBVIOUS
    <3> DEFINE q == m[-1].ptr
    <3>4. m[x].ptr = q
      BY <2>2
    <3>5. /\ q # -1 => -1 < q /\ \A e \in F : q <= e
          /\ q = -1 => F = {}
      BY <1>4
    <3> HIDE DEF C, q
    <3>6. q # -1 => \A e \in C : -1 < e => q <= e
      BY <3>1, <3>3, <3>5
    <3>7. q = -1 => \A e \in C : e <= -1
      BY <3>1, <3>3, <3>5
    <3> QED BY <2>2, <3>2, <3>4, <3>5, <3>6, <3>7
  <2> QED BY <2>1, <2>2
<1> QED BY <1>5, <1>6 DEF Circle, NextOf

\* What leads to c is the last before c.
LEMMA CirclePrior ==
  ASSUME NEW m, NEW C, Circle(M4, m, C), NEW p \in C, NEW F, C = F \cup {-1}, -1 \notin F,
         NEW c \in F, NextOf(m, p) = c
  PROVE  Prior(F, c, p)
<1>1. /\ p < c /\ \A e \in C : p < e => c <= e
      /\ \A e \in C : e \in Int /\ e >= -1
  BY DEF Circle
<1>2. CASE p = -1
  <2>1. \A d \in F : -1 < d
    BY <1>1
  <2> QED BY <1>1, <1>2, <2>1 DEF Prior
<1>3. CASE p # -1
  <2>1. p \in F
    BY <1>3
  <2>2. ASSUME NEW d \in F, d < c PROVE d <= p
    <3>1. d \in C /\ ~ (c <= d)
      BY <1>1, <2>2
    <3> QED BY <1>1, <3>1
  <2> QED BY <1>1, <1>3, <2>1, <2>2 DEF Prior
<1> QED BY <1>2, <1>3

\* Where the search of heapmgr_free stops.
LEMMA BetweenPrior ==
  ASSUME NEW m, NEW C, Circle(M4, m, C), NEW F, C = F \cup {-1}, -1 \notin F,
         NEW c \in Nat, c \notin F, NEW p \in C
  PROVE  KR!between(m, c, p) <=> Prior(F, c, p)
<1> DEFINE q == NextOf(m, p)
<1>1. /\ q \in C /\ \A e \in C : e \in Int /\ e >= -1
      /\ q # -1 => p < q /\ \A e \in C : p < e => q <= e
      /\ q = -1 => \A e \in C : e <= p
  BY DEF Circle
<1>2. KR!between(m, c, p) <=> \/ p < c /\ c < q
                              \/ p >= q /\ (p < c \/ c < q)
  BY DEF KR!between, NextOf
<1>3. \A e \in F : e \in Nat /\ e # c
  BY <1>1
<1>4. c # q /\ c # p
  BY <1>1
<1> HIDE DEF q
<1>5. ASSUME KR!between(m, c, p) PROVE Prior(F, c, p)
  <2>1. /\ p < c
        /\ q = -1 \/ c < q
    BY <1>1, <1>2, <1>5
  <2>2. \A d \in F : d < c => d <= p
    <3> SUFFICES ASSUME NEW d \in F, d < c, p < d PROVE FALSE
      BY <1>1, <1>3
    <3>1. d \in C
      OBVIOUS
    <3> QED BY <1>1, <1>3, <2>1, <3>1
  <2>3. p = -1 => \A d \in F : c <= d
    BY <1>3, <2>2
  <2>4. p # -1 => p \in F
    OBVIOUS
  <2> QED BY <2>1, <2>2, <2>3, <2>4 DEF Prior
<1>6. ASSUME Prior(F, c, p) PROVE KR!between(m, c, p)
  <2>1. p < c /\ \A d \in F : d < c => d <= p
    BY <1>3, <1>6 DEF Prior
  <2>2. q # -1 => q \in F
    BY <1>1
  <2>3. q # -1 => c < q
    BY <1>1, <1>3, <1>4, <2>1, <2>2
  <2> QED BY <1>1, <1>2, <2>1, <2>3
<1> QED BY <1>5, <1>6

\* The walk of the manager.
LEMMA WalkK ==
  ASSUME NEW m, NEW p
  PROVE  LET f == KR!WalkFrom(m, p)
         IN Rounds(M4 + 1, m, p, f)
<1>1. \E f : Rounds(M4 + 1, m, p, f)
  <2>1. M4 + 1 \in Nat
    BY M4Number
  <2> QED BY <2>1, RoundExists
<1>2. Rounds(M4 + 1, m, p, CHOOSE f : Rounds(M4 + 1, m, p, f))
  BY <1>1
<1>3. KR!WalkFrom(m, p) = CHOOSE f : Rounds(M4 + 1, m, p, f)
  BY DEF Rounds, KR!WalkFrom, RoundBody, NextOf, M4
<1> QED BY <1>2, <1>3

\* The least of a set of numbers.
LEMMA FirstIs ==
  ASSUME NEW T, T \subseteq Nat, T # {}
  PROVE  KR!First(T) \in T /\ \A j \in T : KR!First(T) <= j
<1>1. \E x \in T : \A y \in T : x <= y
  BY LeastNumber
<1> QED BY <1>1 DEF KR!First

\* A heap whose list the manager can walk: freep is on it.
LEMMA RoundK ==
  ASSUME NEW m, NEW B, NEW F, NEW end, ListedK(m, B, F, end), NEW p \in F \cup {-1}
  PROVE  LET f == KR!WalkFrom(m, p)
         IN \E r : Round(m, F \cup {-1}, p, f, M4, r)
<1> DEFINE f == KR!WalkFrom(m, p)
<1>1. Rounds(M4 + 1, m, p, f)
  BY WalkK
<1> HIDE DEF f
<1>2. Circle(M4, m, F \cup {-1})
  BY ListedCircle
<1>3. \E r : Round(m, F \cup {-1}, p, f, M4, r)
  BY <1>1, <1>2, M4Number, RoundTaken
<1> QED BY <1>3 DEF f

\* The search finds where c belongs.
LEMMA SearchFinds ==
  ASSUME NEW m, NEW B, NEW F, NEW end, ListedK(m, B, F, end), NEW from \in F \cup {-1},
         NEW c \in Nat, c \notin F
  PROVE  LET at == KR!WalkFrom(m, from)
         IN Prior(F, c, at[KR!First({i \in 0 .. M4 + 1 : KR!between(m, c, at[i])})])
<1> DEFINE at == KR!WalkFrom(m, from)
           T == {i \in 0 .. M4 + 1 : KR!between(m, c, at[i])}
           C == F \cup {-1}
<1>1. PICK r : Round(m, C, from, at, M4, r)
  BY RoundK
<1>2. Circle(M4, m, C)
  BY ListedCircle
<1>3. -1 \notin F /\ F \subseteq Nat /\ M4 \in Nat
  <2>1. NumbersK(m, B, F, end)
    BY ListedNumbersK
  <2> QED BY <2>1 DEF NumbersK
<1> HIDE DEF at
<1>4. PICK p : Prior(F, c, p)
  BY <1>3, PriorExists
<1>5. p \in C
  BY <1>4 DEF Prior
<1>6. PICK i \in 1 .. r : at[i] = p
  BY <1>1, <1>5 DEF Round
<1>7. r \in 1 .. M4 + 1
  BY <1>1 DEF Round
<1>8. i \in 0 .. M4 + 1
  BY <1>3, <1>7
<1>9. KR!between(m, c, at[i])
  BY <1>2, <1>3, <1>4, <1>5, <1>6, BetweenPrior
<1>10. T # {} /\ T \subseteq Nat
  BY <1>8, <1>9
<1>11. KR!First(T) \in T
  <2> HIDE DEF T
  <2> QED BY <1>10, FirstIs
<1> DEFINE j == KR!First(T)
<1>12. j \in 0 .. M4 + 1 /\ KR!between(m, c, at[j])
  BY <1>11
<1> HIDE DEF j
<1>13. at[j] \in C
  BY <1>1, <1>12 DEF Round
<1>14. Prior(F, c, at[j])
  BY <1>2, <1>3, <1>12, <1>13, BetweenPrior
<1> QED BY <1>14 DEF j, at

\* n differs from m in the header of c, where it has these fields.
PutsK(m, n, c, ptr, size) ==
  /\ n \in MemK
  /\ \A u \in {-1} \cup 0 .. M4 - 1 : u # c => n[u] = m[u]
  /\ n[c].ptr = ptr /\ n[c].size = size

\* A header is written.
LEMMA PutBoth ==
  ASSUME NEW m \in MemK, NEW c \in {-1} \cup 0 .. M4 - 1, NEW p \in Links, NEW s \in 0 .. M4,
         NEW n, n = [m EXCEPT ![c] = [ptr |-> p, size |-> s]]
  PROVE  PutsK(m, n, c, p, s)
  BY DEF MemK, PutsK

\* The link of a header is written.
LEMMA PutLink ==
  ASSUME NEW m \in MemK, NEW c \in {-1} \cup 0 .. M4 - 1, NEW p \in Links,
         NEW n, n = [m EXCEPT ![c].ptr = p]
  PROVE  PutsK(m, n, c, p, m[c].size)
  BY DEF MemK, PutsK

\* The size of a header is written.
LEMMA PutSize ==
  ASSUME NEW m \in MemK, NEW c \in {-1} \cup 0 .. M4 - 1, NEW s \in 0 .. M4,
         NEW n, n = [m EXCEPT ![c].size = s]
  PROVE  PutsK(m, n, c, m[c].ptr, s)
<1>1. n = [m EXCEPT ![c] = [m[c] EXCEPT !.size = s]]
  OBVIOUS
<1>2. m[c] \in [ptr : Links, size : {-7} \cup 0 .. M4]
  BY DEF MemK
<1>3. [m[c] EXCEPT !.size = s] \in [ptr : Links, size : {-7} \cup 0 .. M4]
  BY <1>2
<1>4. \A u \in {-1} \cup 0 .. M4 - 1 : u # c => n[u] = m[u]
  BY <1>1 DEF MemK
<1>5. n[c] = [m[c] EXCEPT !.size = s]
  BY <1>1 DEF MemK
<1>6. n \in MemK
  BY <1>1, <1>3 DEF MemK
<1> QED BY <1>2, <1>4, <1>5, <1>6 DEF PutsK

\* What a block that is joined to c, or that c is joined to, does to c.
Larger(m, q, c) == m[c].size + IF c + m[c].size = q THEN m[q].size ELSE 0
Further(m, q, c) == IF c + m[c].size = q THEN m[q].ptr ELSE q

\* What putting c on the list behind p does to the memory.
FreeOfK(m, n, B, F, c, p) ==
  /\ n \in MemK /\ n[-1].size = 0
  /\ Freeing(View(m), View(n), m[-1].ptr, n[-1].ptr, B, F, c, p)
  /\ \A u \in 0 .. M4 - 1 : u \in B \/ n[u] = m[u]

\* The writes of heapmgr_free: c is joined to q, or linked to it, and then p to c.
JoiningK(m, c, p, q, k, n) ==
  /\ q = m[p].ptr
  /\ k = IF c + m[c].size = q
         THEN [m EXCEPT ![c] = [ptr |-> m[q].ptr, size |-> m[c].size + m[q].size]]
         ELSE [m EXCEPT ![c].ptr = q]
  /\ n = IF p # -1 /\ p + k[p].size = c
         THEN [k EXCEPT ![p] = [ptr |-> k[c].ptr, size |-> k[p].size + k[c].size]]
         ELSE [k EXCEPT ![p].ptr = c]

\* The writes of heapmgr_free put c behind p on the circle, joined on both sides.
LEMMA FreeingK ==
  ASSUME NEW m, NEW B, NEW F, NEW end, ListedK(m, B, F, end),
         NEW c \in B, c \notin F, NEW p, Prior(F, c, p),
         NEW q, NEW k, NEW n, JoiningK(m, c, p, q, k, n)
  PROVE  FreeOfK(m, n, B, F, c, p)
<1> DEFINE up == c + m[c].size = q
           down == p # -1 /\ p + m[p].size = c
           s == Larger(m, q, c)
           t == Further(m, q, c)
           D == {-1} \cup 0 .. M4 - 1
<1>0. NumbersK(m, B, F, end)
  BY ListedNumbersK
<1>9. q = m[p].ptr
  BY DEF JoiningK
<1>10. k = IF up THEN [m EXCEPT ![c] = [ptr |-> m[q].ptr, size |-> m[c].size + m[q].size]]
                 ELSE [m EXCEPT ![c].ptr = q]
  BY DEF JoiningK
<1>11. n = IF p # -1 /\ p + k[p].size = c
           THEN [k EXCEPT ![p] = [ptr |-> k[c].ptr, size |-> k[p].size + k[c].size]]
           ELSE [k EXCEPT ![p].ptr = c]
  BY DEF JoiningK
<1>12. /\ \A u \in 0 .. M4 - 1 : Span(View(m), u) = m[u].size /\ NextOf(View(m), u) = m[u].ptr
       /\ \A u \in 0 .. M4 - 1 : Span(View(n), u) = n[u].size /\ NextOf(View(n), u) = n[u].ptr
  BY Viewed
<1>1. /\ M4 \in Nat /\ end \in 0 .. M4 /\ F \subseteq B /\ -1 \notin B /\ m \in MemK
      /\ \A d \in B : /\ d \in 0 .. M4 - 1 /\ m[d].size \in 1 .. M4
                      /\ d + m[d].size <= end
      /\ m[-1].ptr = -1 \/ m[-1].ptr \in F
      /\ \A d \in F : m[d].ptr = -1 \/ m[d].ptr \in F
  BY <1>0 DEF NumbersK
<1>2. /\ c \in 0 .. M4 - 1 /\ m[c].size \in 1 .. M4 /\ c + m[c].size <= end
      /\ c \in D /\ p \in D /\ p # c /\ (p # -1 => p \in F) /\ p < c
      /\ q = -1 \/ q \in F
  <2>1. p # -1 => p \in F /\ p < c
    BY DEF Prior
  <2>2. c \in 0 .. M4 - 1 /\ m[c].size \in 1 .. M4 /\ c + m[c].size <= end
    BY <1>1
  <2>3. p # -1 => p \in 0 .. M4 - 1
    BY <1>1, <2>1
  <2>4. q = -1 \/ q \in F
    BY <1>1, <1>9, <2>1
  <2> QED BY <2>1, <2>2, <2>3, <2>4
<1>3. /\ s \in 0 .. M4 /\ t \in Links
      /\ up => q \in F /\ q \in 0 .. M4 - 1 /\ q # c /\ c + m[c].size + m[q].size <= end
               /\ m[q].size \in 1 .. M4 /\ q > c
      /\ c + s <= end
  <2>1. CASE up
    <3>1. q \in F /\ q \in B
      BY <1>1, <1>2, <2>1
    <3>2. q \in 0 .. M4 - 1 /\ m[q].size \in 1 .. M4 /\ q + m[q].size <= end
          /\ m[q].ptr \in Links
      BY <1>1, <3>1 DEF Links
    <3>3. s = m[c].size + m[q].size /\ t = m[q].ptr
      BY <2>1 DEF Larger, Further
    <3>4. s \in 0 .. M4 /\ c + s <= end /\ q # c /\ q > c
          /\ c + m[c].size + m[q].size <= end
      <4> HIDE DEF s
      <4> QED BY <1>1, <1>2, <2>1, <3>2, <3>3
    <3> QED BY <3>1, <3>2, <3>3, <3>4
  <2>2. CASE ~ up
    <3>1. s = m[c].size /\ t = q
      BY <1>2, <2>2 DEF Larger, Further
    <3>2. q \in Links
      BY <1>1, <1>2 DEF Links
    <3> QED BY <1>1, <1>2, <2>2, <3>1, <3>2
  <2> QED BY <2>1, <2>2
<1>4. PutsK(m, k, c, t, s)
  <2>1. CASE up
    <3>1. k = [m EXCEPT ![c] = [ptr |-> t, size |-> s]]
      BY <1>10, <2>1 DEF Larger, Further
    <3> HIDE DEF s, t
    <3> QED BY <1>1, <1>2, <1>3, <3>1, PutBoth
  <2>2. CASE ~ up
    <3>1. k = [m EXCEPT ![c].ptr = t] /\ s = m[c].size
      BY <1>2, <1>10, <2>2 DEF Larger, Further
    <3> HIDE DEF s, t
    <3> QED BY <1>1, <1>2, <1>3, <3>1, PutLink
  <2> QED BY <2>1, <2>2
<1> HIDE DEF s, t
<1>5. k \in MemK /\ k[c].ptr = t /\ k[c].size = s /\ \A u \in D : u # c => k[u] = m[u]
  BY <1>4 DEF PutsK
<1>6. k[p] = m[p]
  BY <1>2, <1>5
<1>7. CASE down
  <2>1. p \in F /\ p \in 0 .. M4 - 1 /\ m[p].size \in 1 .. M4 /\ p \in B
    BY <1>1, <1>2, <1>7
  <2>2. n = [k EXCEPT ![p] = [ptr |-> t, size |-> m[p].size + s]]
    BY <1>5, <1>6, <1>7, <1>11
  <2>3. m[p].size + s \in 0 .. M4
    BY <1>1, <1>2, <1>3, <1>7, <2>1
  <2>4. PutsK(k, n, p, t, m[p].size + s)
    BY <1>2, <1>3, <1>5, <2>2, <2>3, PutBoth
  <2>5. /\ n \in MemK /\ n[p].ptr = t /\ n[p].size = m[p].size + s
        /\ \A u \in D : u # c /\ u # p => n[u] = m[u]
    BY <1>5, <2>4 DEF PutsK
  <2>6. n[-1] = m[-1]
    <3>1. -1 # c /\ -1 # p /\ -1 \in D
      BY <1>2, <1>7
    <3> QED BY <2>5, <3>1
  <2>7. Freeing(View(m), View(n), m[-1].ptr, n[-1].ptr, B, F, c, p)
    <3>1. /\ Span(View(m), c) = m[c].size /\ Span(View(m), p) = m[p].size
          /\ Span(View(n), p) = n[p].size /\ NextOf(View(n), p) = n[p].ptr
          /\ NextOf(View(m), p) = q
      BY <1>2, <1>9, <1>12, <2>1
    <3>2. After(View(m), m[-1].ptr, p) = q
      BY <1>7, <3>1 DEF After
    <3>3. Down(View(m), p, c) /\ Joined(View(m), p, c) = p
      BY <1>7, <3>1 DEF Down, Joined
    <3>4. Up(View(m), q, c) <=> up
      BY <1>1, <1>2, <3>1 DEF Up
    <3>5. Gone(View(m), q, p, c) = (IF up THEN {q} ELSE {}) \cup {c}
      BY <3>3, <3>4 DEF Gone
    <3>6. up => Span(View(m), q) = m[q].size /\ NextOf(View(m), q) = m[q].ptr
      BY <1>3, <1>12
    <3>7. t = IF up THEN NextOf(View(m), q) ELSE q
      BY <3>6 DEF Further, t
    <3>8. Span(View(n), p) = (Span(View(m), c) + IF up THEN Span(View(m), q) ELSE 0)
                               + Span(View(m), p)
      <4>1. s = m[c].size + IF up THEN Span(View(m), q) ELSE 0
        BY <3>6 DEF s, Larger
      <4>2. s \in Nat /\ m[p].size \in Nat
        BY <1>1, <1>3, <2>1
      <4>3. n[p].size = s + m[p].size
        BY <2>5, <4>2
      <4> DEFINE j == IF up THEN Span(View(m), q) ELSE 0
      <4>4. s = m[c].size + j
        BY <4>1
      <4> HIDE DEF j
      <4>5. Span(View(n), p) = (Span(View(m), c) + j) + Span(View(m), p)
        BY <3>1, <4>3, <4>4
      <4> QED BY <4>5 DEF j
    <3>9. \A d \in B \ {p, c} : Span(View(n), d) = Span(View(m), d)
                                /\ NextOf(View(n), d) = NextOf(View(m), d)
      <4>1. ASSUME NEW d \in B, d # p, d # c
            PROVE  Span(View(n), d) = Span(View(m), d)
                   /\ NextOf(View(n), d) = NextOf(View(m), d)
        <5>1. d \in 0 .. M4 - 1 /\ n[d] = m[d]
          BY <1>1, <2>5, <4>1
        <5> QED BY <1>12, <5>1
      <4> QED BY <4>1
    <3> QED BY <1>1, <1>7, <2>5, <2>6, <3>1, <3>2, <3>3, <3>4, <3>5, <3>7, <3>8, <3>9
            DEF Freeing
  <2>8. \A u \in 0 .. M4 - 1 : u \in B \/ n[u] = m[u]
    BY <2>1, <2>5
  <2>9. n[-1].size = 0
    BY <2>6 DEF ListedK
  <2> QED BY <2>5, <2>7, <2>8, <2>9 DEF FreeOfK
<1>8. CASE ~ down
  <2>2. n = [k EXCEPT ![p].ptr = c]
    BY <1>6, <1>8, <1>11
  <2>3. c \in Links
    BY <1>2 DEF Links
  <2>4. PutsK(k, n, p, c, m[p].size)
    BY <1>2, <1>5, <1>6, <2>2, <2>3, PutLink
  <2>5. /\ n \in MemK /\ n[p].ptr = c /\ n[p].size = m[p].size
        /\ n[c].ptr = t /\ n[c].size = s
        /\ \A u \in D : u # c /\ u # p => n[u] = m[u]
    BY <1>2, <1>5, <2>4 DEF PutsK
  <2>6. n[-1].size = m[-1].size /\ n[-1].ptr = IF p = -1 THEN c ELSE m[-1].ptr
    <3>1. -1 # c /\ -1 \in D
      BY <1>2
    <3>2. CASE p = -1
      BY <2>5, <3>2
    <3>3. CASE p # -1
      <4>1. n[-1] = m[-1]
        BY <2>5, <3>1, <3>3
      <4> QED BY <3>3, <4>1
    <3> QED BY <3>2, <3>3
  <2>7. Freeing(View(m), View(n), m[-1].ptr, n[-1].ptr, B, F, c, p)
    <3>1. /\ Span(View(m), c) = m[c].size /\ Span(View(n), c) = n[c].size
          /\ NextOf(View(n), c) = n[c].ptr
      BY <1>2, <1>12
    <3>0. p # -1 => /\ p \in 0 .. M4 - 1 /\ p \in B
                    /\ NextOf(View(m), p) = q /\ Span(View(m), p) = m[p].size
                    /\ NextOf(View(n), p) = c /\ Span(View(n), p) = m[p].size
      <4>1. p # -1 => p \in 0 .. M4 - 1 /\ p \in B
        BY <1>1, <1>2
      <4> QED BY <1>9, <1>12, <2>5, <4>1
    <3>2. After(View(m), m[-1].ptr, p) = q
      BY <1>9, <3>0 DEF After
    <3>3. ~ Down(View(m), p, c) /\ Joined(View(m), p, c) = c
      BY <1>8, <3>0 DEF Down, Joined
    <3>4. Up(View(m), q, c) <=> up
      BY <1>1, <1>2, <3>1 DEF Up
    <3>5. Gone(View(m), q, p, c) = IF up THEN {q} ELSE {}
      BY <3>3, <3>4 DEF Gone
    <3>6. up => Span(View(m), q) = m[q].size /\ NextOf(View(m), q) = m[q].ptr
      BY <1>3, <1>12
    <3>7. t = IF up THEN NextOf(View(m), q) ELSE q
      BY <3>6 DEF Further, t
    <3>8. Span(View(n), c) = (Span(View(m), c) + IF up THEN Span(View(m), q) ELSE 0) + 0
      <4>1. s = m[c].size + IF up THEN Span(View(m), q) ELSE 0
        BY <3>6 DEF s, Larger
      <4>2. s \in Nat /\ s = s + 0
        BY <1>1, <1>3
      <4> DEFINE j == IF up THEN Span(View(m), q) ELSE 0
      <4>4. s = m[c].size + j
        BY <4>1
      <4> HIDE DEF j
      <4>5. Span(View(n), c) = (Span(View(m), c) + j) + 0
        BY <2>5, <3>1, <4>2, <4>4
      <4> QED BY <4>5 DEF j
    <3>9. ASSUME NEW d \in B, d # c
          PROVE  Span(View(n), d) = Span(View(m), d)
                 /\ (d # p => NextOf(View(n), d) = NextOf(View(m), d))
      <4>1. CASE d = p
        BY <1>1, <3>0, <4>1
      <4>2. CASE d # p
        <5>1. d \in 0 .. M4 - 1 /\ n[d] = m[d]
          BY <1>1, <2>5, <3>9, <4>2
        <5> QED BY <1>12, <5>1
      <4> QED BY <4>1, <4>2
    <3>10. \A d \in B : d # c =>
             Span(View(n), d) = Span(View(m), d)
             /\ (d # p => NextOf(View(n), d) = NextOf(View(m), d))
      BY <3>9
    <3> QED BY <1>1, <1>8, <2>5, <2>6, <3>0, <3>1, <3>2, <3>3, <3>4, <3>5, <3>7, <3>8, <3>10
            DEF Freeing
  <2>8. \A u \in 0 .. M4 - 1 : u \in B \/ n[u] = m[u]
    <3>1. ASSUME NEW u \in 0 .. M4 - 1, u \notin B PROVE n[u] = m[u]
      <4>1. u # c /\ u # p /\ u \in D
        BY <1>1, <1>2, <3>1
      <4> QED BY <2>5, <4>1
    <3> QED BY <3>1
  <2>9. n[-1].size = 0
    BY <2>6 DEF ListedK
  <2> QED BY <2>5, <2>7, <2>8, <2>9 DEF FreeOfK
<1> QED BY <1>7, <1>8

\* What heapmgr_free comes to.
FreedK(m, x, B, F, c, end) ==
  \E C, G, b :
    /\ x = [mem |-> x.mem, freep |-> x.freep]
    /\ ListedK(x.mem, C, G, end) /\ C \ G = (B \ F) \ {c}
    /\ Coalesced(View(x.mem), G) /\ Saved(View(m), View(x.mem), (B \ F) \ {c})
    /\ b \in G /\ Span(View(x.mem), b) >= Span(View(m), c)
    /\ x.freep \in G \cup {-1}

\* heapmgr_free finds the place of c from any freep on, and frees it there.
LEMMA FreedIsFreedK ==
  ASSUME NEW m, NEW B, NEW F, NEW end, ListedK(m, B, F, end), Coalesced(View(m), F),
         NEW from \in F \cup {-1}, NEW c \in B, c \notin F,
         NEW x, x = KR!freed(m, from, c)
  PROVE  FreedK(m, x, B, F, c, end)
<1> DEFINE at == KR!WalkFrom(m, from)
           p == at[KR!First({i \in 0 .. M4 + 1 : KR!between(m, c, at[i])})]
           q == m[p].ptr
           k == IF c + m[c].size = q
                THEN [m EXCEPT ![c] = [ptr |-> m[q].ptr, size |-> m[c].size + m[q].size]]
                ELSE [m EXCEPT ![c].ptr = q]
           n == IF p # -1 /\ p + k[p].size = c
                THEN [k EXCEPT ![p] = [ptr |-> k[c].ptr, size |-> k[p].size + k[c].size]]
                ELSE [k EXCEPT ![p].ptr = c]
<1>0. NumbersK(m, B, F, end)
  BY ListedNumbersK
<1>1. c \in Nat /\ c # -1 /\ F \subseteq B /\ F \subseteq Nat /\ M4 \in Nat /\ -1 \notin B
      /\ \A d \in B : d \in 0 .. M4 - 1
  BY <1>0 DEF NumbersK
<1>2. Prior(F, c, p)
  BY <1>1, SearchFinds
<1>3. x = [mem |-> n, freep |-> p]
  <2>1. x = [mem |-> IF KR!touches(k, p, c)
                     THEN [k EXCEPT ![p] = [ptr |-> k[c].ptr, size |-> k[p].size + k[c].size]]
                     ELSE [k EXCEPT ![p].ptr = c],
             freep |-> p]
    <3>1. KR!joins_upper(m, c, p) <=> c + m[c].size = q
      BY <1>1 DEF KR!joins_upper, KR!touches, KR!base
    <3> QED BY <3>1 DEF KR!freed, M4
  <2> HIDE DEF p, k
  <2> QED BY <2>1 DEF KR!touches, KR!base
<1> HIDE DEF p, at
<1>4. FreeOfK(m, n, B, F, c, p)
  <2> DEFINE kk == k
             nn == n
  <2>1. q = m[p].ptr
    OBVIOUS
  <2> HIDE DEF q
  <2>2. kk = IF c + m[c].size = q
             THEN [m EXCEPT ![c] = [ptr |-> m[q].ptr, size |-> m[c].size + m[q].size]]
             ELSE [m EXCEPT ![c].ptr = q]
    OBVIOUS
  <2>3. nn = IF p # -1 /\ p + kk[p].size = c
             THEN [kk EXCEPT ![p] = [ptr |-> kk[c].ptr, size |-> kk[p].size + kk[c].size]]
             ELSE [kk EXCEPT ![p].ptr = c]
    OBVIOUS
  <2> HIDE DEF kk, k
  <2> HIDE DEF nn, n
  <2>5. JoiningK(m, c, p, q, kk, nn)
    BY <2>1, <2>2, <2>3 DEF JoiningK
  <2>4. FreeOfK(m, nn, B, F, c, p)
    BY <1>2, <2>5, FreeingK
  <2> QED BY <2>4 DEF nn
<1> HIDE DEF n, k, q
<1>5. /\ n \in MemK /\ n[-1].size = 0
      /\ Freeing(View(m), View(n), m[-1].ptr, n[-1].ptr, B, F, c, p)
      /\ \A u \in 0 .. M4 - 1 : u \in B \/ n[u] = m[u]
  BY <1>4 DEF FreeOfK
<1>6. Sorted(View(m), m[-1].ptr, B, F, end) /\ end <= M4
  BY DEF ListedK
<1>7. Freed(View(m), View(n), m[-1].ptr, n[-1].ptr, B, F, c, p, end)
  <2> DEFINE v == View(m)
             w == View(n)
             g == m[-1].ptr
             l == n[-1].ptr
  <2>1. Sorted(v, g, B, F, end) /\ Coalesced(v, F) /\ Freeing(v, w, g, l, B, F, c, p)
    BY <1>5, <1>6
  <2> HIDE DEF v, w, g, l
  <2>2. Freed(v, w, g, l, B, F, c, p, end)
    BY <1>2, <2>1, FreeingSorted
  <2> QED BY <2>2 DEF v, w, g, l
<1> DEFINE gone == Gone(View(m), After(View(m), m[-1].ptr, p), p, c)
           b == Joined(View(m), p, c)
           C == B \ gone
           G == (F \cup {c}) \ gone
<1>8. /\ Sorted(View(n), n[-1].ptr, C, G, end) /\ C \ G = (B \ F) \ {c}
      /\ Coalesced(View(n), G)
      /\ b \in G /\ Span(View(n), b) >= Span(View(m), c)
      /\ \A d \in (B \ F) \ {c} : Span(View(n), d) = Span(View(m), d)
  BY <1>7 DEF Freed
<1>9. ListedK(n, C, G, end)
  BY <1>5, <1>6, <1>8 DEF ListedK
<1>10. Saved(View(m), View(n), (B \ F) \ {c})
  <2>1. Tiled(View(m), B, end) /\ end \in Nat
    BY <1>6 DEF Sorted, Tiled
  <2>2. ASSUME NEW u \in 0 .. end - 1 PROVE u \in B \/ View(n)[u] = View(m)[u]
    <3>1. u \in 0 .. M4 - 1
      BY <1>1, <1>6, <2>1
    <3> QED BY <1>5, <3>1 DEF View
  <2>3. (B \ F) \ {c} \subseteq B
    OBVIOUS
  <2> DEFINE v == View(m)
             w == View(n)
             D == (B \ F) \ {c}
  <2>4. /\ Tiled(v, B, end) /\ \A u \in 0 .. end - 1 : u \in B \/ w[u] = v[u]
        /\ D \subseteq B /\ \A d \in D : Span(w, d) = Span(v, d)
    BY <1>8, <2>1, <2>2, <2>3
  <2> HIDE DEF v, w, D
  <2>5. Saved(v, w, D)
    BY <2>4, SavedInside
  <2> QED BY <2>5 DEF v, w, D
<1>11. p \in G \cup {-1}
  <2> SUFFICES ASSUME p # -1 PROVE p \in G
    OBVIOUS
  <2>1. p \in F /\ p < c /\ p \in Nat
    BY <1>1, <1>2 DEF Prior
  <2>2. p # c
    BY <1>1, <2>1
  <2>3. ASSUME Up(View(m), After(View(m), m[-1].ptr, p), c)
        PROVE  p # After(View(m), m[-1].ptr, p)
    <3>1. Span(View(m), c) \in Nat
      BY <1>6 DEF Sorted, Tiled
    <3>2. c + Span(View(m), c) = After(View(m), m[-1].ptr, p)
      BY <2>3 DEF Up
    <3> QED BY <1>1, <2>1, <3>1, <3>2
  <2> QED BY <2>1, <2>2, <2>3 DEF Gone
<1>12. x.mem = n /\ x.freep = p /\ x = [mem |-> x.mem, freep |-> x.freep]
  BY <1>3
<1> HIDE DEF C, G, b
<1> QED BY <1>8, <1>9, <1>10, <1>11, <1>12 DEF FreedK

\* Block b of memory k, which m has become, is no longer free.
AllocatesK(m, k, b, prev, B, F, end, r) ==
  \E B2, F2 :
    /\ ListedK(k, B2, F2, end) /\ Coalesced(View(k), F2)
    /\ b \notin B \ F /\ B2 \ F2 = (B \ F) \cup {b} /\ b \in Nat
    /\ Saved(View(m), View(k), B \ F)
    /\ Span(View(k), b) >= r + 1
    /\ prev \in F2 \cup {-1}

\* All of p is given.
LEMMA AllTaken ==
  ASSUME NEW m, NEW B, NEW F, NEW end, ListedK(m, B, F, end), Coalesced(View(m), F),
         NEW p \in F, NEW prev \in F \cup {-1}, m[prev].ptr = p,
         NEW r \in Nat, m[p].size >= r + 1,
         NEW k, k = [m EXCEPT ![prev].ptr = m[p].ptr]
  PROVE  AllocatesK(m, k, p, prev, B, F, end, r)
<1> DEFINE D == {-1} \cup 0 .. M4 - 1
           g == m[-1].ptr
<1>0. NumbersK(m, B, F, end)
  BY ListedNumbersK
<1>1. /\ M4 \in Nat /\ end \in 0 .. M4 /\ F \subseteq B /\ -1 \notin B /\ m \in MemK
      /\ \A d \in B : d \in 0 .. M4 - 1 /\ m[d].size \in 1 .. M4
      /\ \A d \in F : m[d].ptr = -1 \/ m[d].ptr \in F
  BY <1>0 DEF NumbersK
<1>2. Prior(F, p, prev)
  <2>1. Circle(M4, m, F \cup {-1})
    BY ListedCircle
  <2>2. -1 \notin F /\ NextOf(m, prev) = p
    BY <1>1 DEF NextOf
  <2> QED BY <2>1, <2>2, CirclePrior
<1>3. prev # p /\ prev \in D /\ p \in 0 .. M4 - 1 /\ p \in Nat
      /\ (prev # -1 => prev \in F /\ prev \in 0 .. M4 - 1)
  <2>1. p \in 0 .. M4 - 1 /\ p \in Nat
    BY <1>1
  <2>2. prev # -1 => prev \in F /\ prev < p
    BY <1>2 DEF Prior
  <2> QED BY <1>1, <2>1, <2>2
<1>4. m[p].ptr \in Links
  BY <1>1 DEF Links
<1>5. PutsK(m, k, prev, m[p].ptr, m[prev].size)
  BY <1>1, <1>3, <1>4, PutLink
<1>6. /\ k \in MemK /\ k[prev].ptr = m[p].ptr /\ \A d \in D : k[d].size = m[d].size
      /\ \A d \in D : d # prev => k[d] = m[d]
  BY <1>5 DEF PutsK
<1>7. /\ \A u \in 0 .. M4 - 1 : Span(View(m), u) = m[u].size /\ NextOf(View(m), u) = m[u].ptr
      /\ \A u \in 0 .. M4 - 1 : Span(View(k), u) = k[u].size /\ NextOf(View(k), u) = k[u].ptr
  BY Viewed
<1>16. ASSUME NEW d \in B
       PROVE  /\ Span(View(k), d) = Span(View(m), d)
              /\ d # prev => NextOf(View(k), d) = NextOf(View(m), d)
  <2>1. d \in 0 .. M4 - 1 /\ d \in D
    BY <1>1
  <2>2. k[d].size = m[d].size /\ (d # prev => k[d] = m[d])
    BY <1>6, <2>1
  <2>3. /\ Span(View(m), d) = m[d].size /\ NextOf(View(m), d) = m[d].ptr
        /\ Span(View(k), d) = k[d].size /\ NextOf(View(k), d) = k[d].ptr
    BY ONLY <1>7, <2>1
  <2> QED BY ONLY <2>2, <2>3
<1>8. k[-1].ptr = IF prev = -1 THEN NextOf(View(m), p) ELSE g
  <2>1. CASE prev = -1
    BY <1>3, <1>6, <1>7, <2>1
  <2>2. CASE prev # -1
    <3>1. -1 \in D
      OBVIOUS
    <3>2. k[-1] = m[-1]
      BY <1>6, <2>2, <3>1
    <3> QED BY <2>2, <3>2
  <2> QED BY <2>1, <2>2
<1>9. Sorted(View(k), k[-1].ptr, B, F \ {p}, end)
  <2>1. Sorted(View(m), g, B, F, end)
    BY DEF ListedK
  <2>2. \A d \in B : Span(View(k), d) = Span(View(m), d)
    BY <1>16
  <2>3. \A d \in F \ {p, prev} : NextOf(View(k), d) = NextOf(View(m), d)
    BY <1>1, <1>16
  <2>4. prev # -1 => NextOf(View(k), prev) = NextOf(View(m), p)
    <3>1. NextOf(View(m), p) = m[p].ptr
      BY ONLY <1>3, <1>7
    <3>2. prev # -1 => NextOf(View(k), prev) = k[prev].ptr
      BY ONLY <1>3, <1>7
    <3> QED BY ONLY <1>6, <3>1, <3>2
  <2> DEFINE v == View(m)
             w == View(k)
  <2> HIDE DEF g
  <2>5. /\ Sorted(v, g, B, F, end)
        /\ \A d \in B : Span(w, d) = Span(v, d)
        /\ \A d \in F \ {p, prev} : NextOf(w, d) = NextOf(v, d)
        /\ prev # -1 => NextOf(w, prev) = NextOf(v, p)
    BY <2>1, <2>2, <2>3, <2>4
  <2>6. k[-1].ptr = IF prev = -1 THEN NextOf(v, p) ELSE g
    BY <1>8
  <2> HIDE DEF v, w
  <2>7. Sorted(w, IF prev = -1 THEN NextOf(v, p) ELSE g, B, F \ {p}, end)
    BY <1>2, <2>5, SortedUnlink, ZenonT(40)
  <2> QED BY <2>6, <2>7 DEF w
<1>10. ListedK(k, B, F \ {p}, end)
  <2>1. k[-1].size = 0 /\ end <= M4
    <3>1. -1 \in D /\ m[-1].size = 0 /\ end <= M4
      BY DEF ListedK
    <3> QED BY <1>6, <3>1
  <2> QED BY <1>6, <1>9, <2>1 DEF ListedK
<1>11. \A d \in B : Span(View(k), d) = Span(View(m), d)
  BY <1>16
<1>12. Coalesced(View(k), F \ {p})
  BY <1>1, <1>11 DEF Coalesced
<1>13. Saved(View(m), View(k), B \ F)
  <2>1. Tiled(View(m), B, end) /\ end \in Nat /\ end <= M4
    BY DEF ListedK, Sorted, Tiled
  <2>2. ASSUME NEW u \in 0 .. end - 1 PROVE u \in B \/ View(k)[u] = View(m)[u]
    <3>1. u \in 0 .. M4 - 1
      BY <1>1, <2>1
    <3>2. u \notin B => u # prev /\ u \in D
      BY <1>1, <1>3, <3>1
    <3> QED BY <1>6, <3>1, <3>2 DEF View
  <2> DEFINE v == View(m)
             w == View(k)
             E == B \ F
  <2>4. /\ Tiled(v, B, end) /\ \A u \in 0 .. end - 1 : u \in B \/ w[u] = v[u]
        /\ E \subseteq B /\ \A d \in E : Span(w, d) = Span(v, d)
    BY <1>11, <2>1, <2>2
  <2> HIDE DEF v, w, E
  <2>5. Saved(v, w, E)
    BY <2>4, SavedInside
  <2> QED BY <2>5 DEF v, w, E
<1>14. Span(View(k), p) >= r + 1
  <2>1. Span(View(k), p) = m[p].size
    BY <1>3, <1>6, <1>7
  <2> QED BY <2>1
<1>15. p \notin B \ F /\ B \ (F \ {p}) = (B \ F) \cup {p} /\ prev \in (F \ {p}) \cup {-1}
  BY <1>1, <1>3
<1> QED BY <1>3, <1>10, <1>12, <1>13, <1>14, <1>15 DEF AllocatesK

\* p keeps its first units, and the others become a block.
Cut(m, k, p, rest, r) ==
  k = [m EXCEPT ![p].size = rest, ![p + rest].size = r + 1]

\* The back of p is given.
LEMMA BackTaken ==
  ASSUME NEW m, NEW B, NEW F, NEW end, ListedK(m, B, F, end), Coalesced(View(m), F),
         NEW p \in F, NEW prev \in F \cup {-1},
         NEW r \in Nat, m[p].size > r + 1,
         NEW rest, rest = m[p].size - (r + 1),
         NEW k, Cut(m, k, p, rest, r)
  PROVE  AllocatesK(m, k, p + rest, prev, B, F, end, r)
<1> DEFINE D == {-1} \cup 0 .. M4 - 1
           g == m[-1].ptr
           b == p + rest
           j == [m EXCEPT ![p].size = rest]
<1>0. NumbersK(m, B, F, end)
  BY ListedNumbersK
<1>1. /\ M4 \in Nat /\ end \in 0 .. M4 /\ F \subseteq B /\ -1 \notin B /\ m \in MemK
      /\ \A d \in B : d \in 0 .. M4 - 1 /\ m[d].size \in 1 .. M4 /\ d + m[d].size <= end
      /\ \A d, e \in B : d < e => d + m[d].size <= e
      /\ m[-1].ptr = -1 \/ m[-1].ptr \in F
      /\ \A d \in F : m[d].ptr = -1 \/ m[d].ptr \in F
  BY <1>0 DEF NumbersK
<1>2. /\ p \in B /\ p \in 0 .. M4 - 1 /\ m[p].size \in 1 .. M4 /\ p + m[p].size <= end
      /\ rest \in Nat /\ rest >= 1 /\ rest < m[p].size /\ rest \in 0 .. M4
      /\ m[p].size - rest = r + 1 /\ r + 1 \in 0 .. M4
      /\ b \in 0 .. M4 - 1 /\ b # p /\ b > p /\ b < p + m[p].size /\ b \in D /\ p \in D
      /\ b + (r + 1) = p + m[p].size /\ b \in Nat
  <2>1. p \in B /\ p \in 0 .. M4 - 1 /\ m[p].size \in 1 .. M4 /\ p + m[p].size <= end
    BY <1>1
  <2> QED BY <1>1, <2>1
<1>3. k = [j EXCEPT ![b].size = r + 1] /\ j = [m EXCEPT ![p].size = rest]
  BY DEF Cut
<1>23. b = p + rest
  OBVIOUS
<1> HIDE DEF b, j
<1>4. PutsK(m, j, p, m[p].ptr, rest)
  BY <1>1, <1>2, <1>3, PutSize
<1>5. j \in MemK /\ j[b] = m[b]
  BY <1>2, <1>4 DEF PutsK
<1>6. PutsK(j, k, b, m[b].ptr, r + 1)
  BY <1>2, <1>3, <1>5, PutSize
<1>7. /\ k \in MemK /\ k[p].ptr = m[p].ptr /\ k[p].size = rest /\ k[b].size = r + 1
      /\ \A d \in D : d # p /\ d # b => k[d] = m[d]
  BY <1>2, <1>4, <1>6 DEF PutsK
<1>8. b \notin B
  <2> SUFFICES ASSUME b \in B PROVE FALSE
    OBVIOUS
  <2>1. p + m[p].size <= b
    BY <1>1, <1>2
  <2> QED BY <1>2, <2>1
<1>9. /\ \A u \in 0 .. M4 - 1 : Span(View(m), u) = m[u].size /\ NextOf(View(m), u) = m[u].ptr
      /\ \A u \in 0 .. M4 - 1 : Span(View(k), u) = k[u].size /\ NextOf(View(k), u) = k[u].ptr
  <2>1. \A u \in 0 .. M4 - 1 : Span(View(m), u) = m[u].size /\ NextOf(View(m), u) = m[u].ptr
    BY Viewed
  <2>2. \A u \in 0 .. M4 - 1 : Span(View(k), u) = k[u].size /\ NextOf(View(k), u) = k[u].ptr
    BY Viewed
  <2> QED BY <2>1, <2>2
<1>10. /\ \A d \in B \ {p} : Span(View(k), d) = Span(View(m), d)
       /\ \A d \in F : NextOf(View(k), d) = NextOf(View(m), d)
       /\ Span(View(k), p) = rest /\ Span(View(m), p) = m[p].size
       /\ Span(View(k), b) = r + 1
  <2>1. ASSUME NEW d \in B, d # p
        PROVE  Span(View(k), d) = Span(View(m), d) /\ NextOf(View(k), d) = NextOf(View(m), d)
    <3>1. d \in 0 .. M4 - 1 /\ k[d] = m[d]
      BY <1>1, <1>7, <1>8, <2>1
    <3> QED BY <1>9, <3>1
  <2>2. NextOf(View(k), p) = NextOf(View(m), p)
    BY <1>2, <1>7, <1>9
  <2> QED BY <1>1, <1>2, <1>7, <1>9, <2>1, <2>2
<1>11. Sorted(View(k), g, B \cup {b}, F, end)
  <2> DEFINE v == View(m)
             w == View(k)
  <2>1. Sorted(v, g, B, F, end)
    BY DEF ListedK
  <2>2. /\ Span(w, p) = rest /\ Span(w, p + rest) = Span(v, p) - rest
        /\ rest < Span(v, p)
        /\ \A d \in B \ {p} : Span(w, d) = Span(v, d)
        /\ \A d \in F : NextOf(w, d) = NextOf(v, d)
    BY <1>2, <1>10, <1>23
  <2> HIDE DEF v, w, g
  <2>3. Sorted(w, g, B \cup {p + rest}, F, end)
    BY <1>2, <2>1, <2>2, SortedSplit
  <2> QED BY <1>23, <2>3 DEF w
<1>12. k[-1] = m[-1]
  <2>1. -1 \in D /\ -1 # p /\ -1 # b
    BY <1>2
  <2> QED BY <1>7, <2>1
<1>13. ListedK(k, B \cup {b}, F, end)
  <2>1. m[-1].size = 0 /\ end <= M4
    BY DEF ListedK
  <2> QED BY <1>7, <1>11, <1>12, <2>1 DEF ListedK
<1>14. Coalesced(View(k), F)
  <2>1. ASSUME NEW d \in F PROVE d + Span(View(k), d) \notin F
    <3>1. CASE d = p
      <4>1. d + Span(View(k), d) = b
        BY <1>10, <1>23, <3>1
      <4> QED BY <1>1, <1>8, <4>1
    <3>2. CASE d # p
      BY <1>1, <1>10, <3>2 DEF Coalesced
    <3> QED BY <3>1, <3>2
  <2> QED BY <2>1 DEF Coalesced
<1>15. Saved(View(m), View(k), B \ F)
  <2>1. Tiled(View(m), B, end) /\ end \in Nat /\ end <= M4
    BY DEF ListedK, Sorted, Tiled
  <2>2. ASSUME NEW u \in 0 .. end - 1
        PROVE  u \in B \/ u \in p .. p + Span(View(m), p) - 1 \/ View(k)[u] = View(m)[u]
    <3>1. u \in 0 .. M4 - 1 /\ u \in D
      BY <1>1, <2>1
    <3>2. b \in p .. p + Span(View(m), p) - 1
      <4>1. b \in Nat /\ p \in Nat /\ m[p].size \in Nat /\ b >= p /\ b <= p + m[p].size - 1
        BY <1>2
      <4> QED BY <1>10, <4>1
    <3>3. CASE u = b
      BY <3>2, <3>3
    <3>4. CASE u = p
      BY <1>2, <3>4
    <3>5. CASE u # b /\ u # p
      BY <1>7, <3>1, <3>5 DEF View
    <3> QED BY <3>3, <3>4, <3>5
  <2> DEFINE v == View(m)
             w == View(k)
             E == B \ F
  <2>4. /\ Tiled(v, B, end)
        /\ \A u \in 0 .. end - 1 : u \in B \/ u \in p .. p + Span(v, p) - 1 \/ w[u] = v[u]
        /\ E \subseteq B \ {p} /\ \A d \in E : Span(w, d) = Span(v, d)
    BY <1>10, <2>1, <2>2
  <2> HIDE DEF v, w, E
  <2>5. Saved(v, w, E)
    BY <1>2, <2>4, SavedOthers
  <2> QED BY <2>5 DEF v, w, E
<1>16. /\ b \notin B \ F /\ (B \cup {b}) \ F = (B \ F) \cup {b}
       /\ Span(View(k), b) >= r + 1
  BY <1>1, <1>2, <1>8, <1>10
<1>17. AllocatesK(m, k, b, prev, B, F, end, r)
  BY <1>2, <1>13, <1>14, <1>15, <1>16 DEF AllocatesK
<1> QED BY <1>17, <1>23

-----------------------------------------------------------------------------
(* The steps of heapmgrkr.                                                 *)

\* What the search of heapmgr_malloc finds.
SearchK(h, F, r) ==
  LET f == KR!WalkFrom(h.mem, h.freep)
      T == KR!Fitting(h, r)
      i == KR!First(T)
  IN /\ T = {} => \A d \in F \cup {-1} : h.mem[d].size < r + 1
     /\ T # {} => /\ f[i] \in F /\ f[i - 1] \in F \cup {-1}
                  /\ h.mem[f[i - 1]].ptr = f[i]
                  /\ h.mem[f[i]].size >= r + 1

\* The search, once round from freep, finds a block that is large enough if one is.
LEMMA SearchIs ==
  ASSUME NEW h, NEW B, NEW F, NEW end, ListedK(h.mem, B, F, end),
         h.freep \in F \cup {-1}, NEW r \in Nat
  PROVE  SearchK(h, F, r)
<1> DEFINE m == h.mem
           p == h.freep
           f == KR!WalkFrom(m, p)
           R == {i \in 1 .. M4 + 1 : f[i] = p}
           T == KR!Fitting(h, r)
           j == KR!First(T)
<1>1. PICK l : Round(m, F \cup {-1}, p, f, M4, l)
  <2> HIDE DEF m, p
  <2>1. ListedK(m, B, F, end) /\ p \in F \cup {-1}
    BY DEF m, p
  <2> QED BY <2>1, RoundK
<1>2. T = {i \in 1 .. KR!First(R) : m[f[i]].size >= r + 1}
  BY DEF KR!Fitting, KR!nunits, M4
<1>3. /\ M4 \in Nat /\ m[-1].size = 0 /\ \A d \in F : m[d].size \in Nat
  <2>1. NumbersK(m, B, F, end)
    BY ListedNumbersK
  <2> QED BY <2>1 DEF NumbersK, ListedK
<1> HIDE DEF m, f, p
<1>4. /\ l \in 1 .. M4 + 1 /\ f[l] = p /\ \A i \in 1 .. l - 1 : f[i] # p
      /\ \A i \in 0 .. M4 + 1 : f[i] \in F \cup {-1}
      /\ \A i \in 1 .. M4 + 1 : NextOf(m, f[i - 1]) = f[i]
      /\ \A d \in F \cup {-1} : \E i \in 1 .. l : f[i] = d
  BY <1>1 DEF Round
<1>5. KR!First(R) = l
  <2>1. l \in R /\ R \subseteq Nat /\ R # {}
    BY <1>3, <1>4
  <2>2. KR!First(R) \in R /\ \A i \in R : KR!First(R) <= i
    <3> HIDE DEF R
    <3> QED BY <2>1, FirstIs
  <2> DEFINE z == KR!First(R)
  <2>3. z \in 1 .. M4 + 1 /\ f[z] = p /\ z <= l
    BY <2>1, <2>2
  <2> HIDE DEF z
  <2>4. ~ (z \in 1 .. l - 1)
    BY <1>4, <2>3
  <2>5. z = l
    BY <1>3, <1>4, <2>3, <2>4
  <2> QED BY <2>5 DEF z
<1>6. T = {i \in 1 .. l : m[f[i]].size >= r + 1}
  BY <1>2, <1>5
<1> HIDE DEF T
<1>7. ASSUME T = {}, NEW d \in F \cup {-1} PROVE m[d].size < r + 1
  <2>1. PICK i \in 1 .. l : f[i] = d
    BY <1>4
  <2>2. ~ (m[d].size >= r + 1)
    BY <1>6, <1>7, <2>1
  <2>3. m[d].size \in Nat
    BY <1>3
  <2> QED BY <2>2, <2>3
<1>8. ASSUME T # {}
      PROVE  /\ f[j] \in F /\ f[j - 1] \in F \cup {-1}
             /\ m[f[j - 1]].ptr = f[j]
             /\ m[f[j]].size >= r + 1
  <2>1. T \subseteq Nat
    BY <1>3, <1>4, <1>6
  <2>2. j \in T
    BY <1>8, <2>1, FirstIs
  <2> HIDE DEF j
  <2>3. j \in 1 .. l /\ m[f[j]].size >= r + 1
    BY <1>6, <2>2
  <2>4. j \in 1 .. M4 + 1 /\ j \in 0 .. M4 + 1 /\ j - 1 \in 0 .. M4 + 1
    BY <1>3, <1>4, <2>3
  <2>5. f[j] # -1
    BY <1>3, <2>3
  <2> QED BY <1>4, <2>3, <2>4, <2>5 DEF NextOf
<1> QED BY <1>7, <1>8 DEF SearchK, m, f, p, T, j

\* The program fills what it is given in block b.
FilledK(k, b, r) ==
  [u \in DOMAIN k |-> IF u \in b + 1 .. b + r THEN [ptr |-> -7, size |-> -7] ELSE k[u]]

\* The program fills what it was given without a header of any block.
LEMMA ListedFilled ==
  ASSUME NEW k, NEW B, NEW F, NEW end, ListedK(k, B, F, end), Coalesced(View(k), F),
         NEW b \in B, b \notin F, NEW r \in Nat, Span(View(k), b) >= r + 1
  PROVE  /\ ListedK(FilledK(k, b, r), B, F, end)
         /\ Coalesced(View(FilledK(k, b, r)), F)
         /\ View(FilledK(k, b, r)) = GivenMem(M4, View(k), b, r)
<1> DEFINE x == FilledK(k, b, r)
           D == {-1} \cup 0 .. M4 - 1
<1>1. /\ M4 \in Nat /\ end <= M4 /\ Tiled(View(k), B, end) /\ F \subseteq B /\ k \in MemK
      /\ Sorted(View(k), k[-1].ptr, B, F, end) /\ k[-1].size = 0 /\ b \in Nat
  BY M4Number DEF ListedK, Sorted, Tiled
<1>2. \A u \in D : x[u] = IF u \in b + 1 .. b + r THEN [ptr |-> -7, size |-> -7] ELSE k[u]
  BY <1>1 DEF FilledK, MemK
<1>3. x \in MemK
  <2>1. \A u \in D : k[u] \in [ptr : Links, size : {-7} \cup 0 .. M4]
    BY <1>1 DEF MemK
  <2>2. [ptr |-> -7, size |-> -7] \in [ptr : Links, size : {-7} \cup 0 .. M4]
    BY DEF Links
  <2>3. DOMAIN k = D
    BY <1>1 DEF MemK
  <2> QED BY <2>1, <2>2, <2>3 DEF MemK, FilledK
<1>4. x[-1] = k[-1]
  <2>1. -1 \in D /\ -1 \notin b + 1 .. b + r
    BY <1>1
  <2> QED BY <1>2, <2>1
<1>5. View(x) = GivenMem(M4, View(k), b, r)
  <2>1. ASSUME NEW u \in 0 .. M4 - 1
        PROVE  View(x)[u] = IF u \in b + 1 .. b + r THEN Bytes ELSE View(k)[u]
    <3>1. u \in D
      OBVIOUS
    <3>2. CASE u \in b + 1 .. b + r
      BY <1>2, <3>1, <3>2 DEF View, Bytes
    <3>3. CASE u \notin b + 1 .. b + r
      BY <1>2, <3>1, <3>3 DEF View
    <3> QED BY <3>2, <3>3
  <2>2. View(x) = [u \in 0 .. M4 - 1 |-> View(x)[u]]
    BY DEF View
  <2> HIDE DEF x
  <2> QED BY <2>1, <2>2 DEF GivenMem
<1> DEFINE v == View(k)
           w == View(x)
<1>6. Giving(v, w, B, b, r)
  <2>1. w = GivenMem(M4, v, b, r) /\ Tiled(v, B, end) /\ Span(v, b) >= r + 1
    BY <1>1, <1>5
  <2> HIDE DEF v, w
  <2> QED BY <1>1, <2>1, GivenHeaders
<1> HIDE DEF x
<1>7. \A d \in B : w[d] = v[d]
  BY <1>6 DEF Giving
<1>8. Sorted(w, k[-1].ptr, B, F, end) /\ Coalesced(w, F)
  <2>1. Sorted(v, k[-1].ptr, B, F, end) /\ Coalesced(v, F)
    BY <1>1
  <2> HIDE DEF v, w
  <2>2. \A d \in B : Span(w, d) = Span(v, d) /\ NextOf(w, d) = NextOf(v, d)
    BY <1>7 DEF Span, NextOf
  <2>3. Sorted(w, k[-1].ptr, B, F, end)
    BY <1>1, <2>1, <2>2, SortedSame
  <2> QED BY <1>1, <2>1, <2>2, <2>3 DEF Coalesced
<1>9. ListedK(x, B, F, end)
  BY <1>1, <1>3, <1>4, <1>8 DEF ListedK
<1> QED BY <1>5, <1>8, <1>9 DEF x

\* B are the blocks of a heap and F those on the circle; freep is one of them.
HoldsK(h, has, end, B, F) ==
  /\ h = [mem |-> h.mem, freep |-> h.freep] /\ h.freep \in F \cup {-1}
  /\ ListedK(h.mem, B, F, end) /\ Coalesced(View(h.mem), F)
  /\ Roomy(View(h.mem), B \ F, has)

\* One of the free blocks of g, which m has become, is given.
LEMMA TakenK ==
  ASSUME NEW m, NEW B, NEW F, Roomy(View(m), B \ F, live),
         NEW g, NEW C, NEW G, NEW end, ListedK(g.mem, C, G, end), Coalesced(View(g.mem), G),
         C \ G = B \ F, Saved(View(m), View(g.mem), B \ F), g.freep \in G \cup {-1},
         NEW r \in Requests, KR!Fitting(g, r) # {}, KR!Take(g, r)
  PROVE  /\ \E B2, F2 : HoldsK(heap', live', end, B2, F2)
         /\ \E at : live' = live \cup {[at |-> at, n |-> r]}
<1> DEFINE f == KR!WalkFrom(g.mem, g.freep)
           i == KR!First(KR!Fitting(g, r))
           p == f[i]
           prev == f[i - 1]
           rest == g.mem[p].size - (r + 1)
           k == IF rest = 0 THEN [g.mem EXCEPT ![prev].ptr = g.mem[p].ptr]
                ELSE [g.mem EXCEPT ![p].size = rest, ![p + rest].size = r + 1]
           b == p + rest
           o == [at |-> b + 1, n |-> r]
<1>0. r \in Nat /\ M4 \in Nat
  BY UnitsOK, M4Number
<1>1. /\ p \in G /\ prev \in G \cup {-1} /\ g.mem[prev].ptr = p
      /\ g.mem[p].size >= r + 1
  <2>1. SearchK(g, G, r)
    BY <1>0, SearchIs
  <2> QED BY <2>1 DEF SearchK
<1>2. /\ heap' = [mem |-> [u \in DOMAIN k |-> IF u \in b + 1 .. b + r
                                               THEN [ptr |-> -7, size |-> -7] ELSE k[u]],
                  freep |-> prev]
      /\ live' = live \cup {o}
  BY DEF KR!Take, KR!nunits, KR!Data
<1>3. heap' = [mem |-> FilledK(k, b, r), freep |-> prev]
  <2> HIDE DEF k, b, prev
  <2> QED BY <1>2 DEF FilledK
<1>4. /\ k = IF rest = 0 THEN [g.mem EXCEPT ![prev].ptr = g.mem[p].ptr]
             ELSE [g.mem EXCEPT ![p].size = rest, ![p + rest].size = r + 1]
      /\ rest = g.mem[p].size - (r + 1) /\ b = p + rest /\ o = [at |-> b + 1, n |-> r]
  OBVIOUS
<1> HIDE DEF k, o, b, rest, prev, p, i, f
<1>5. p \in Nat /\ g.mem[p].size \in Nat
  <2> DEFINE n == g.mem
  <2>1. ListedK(n, C, G, end)
    OBVIOUS
  <2> HIDE DEF n
  <2>2. NumbersK(n, C, G, end)
    BY <2>1, ListedNumbersK
  <2>3. p \in Nat /\ n[p].size \in Nat
    BY <1>1, <2>2 DEF NumbersK
  <2> QED BY <2>3 DEF n
<1>6. AllocatesK(g.mem, k, b, prev, C, G, end, r)
  <2> DEFINE n == g.mem
  <2>0. /\ ListedK(n, C, G, end) /\ Coalesced(View(n), G) /\ n[prev].ptr = p
        /\ n[p].size >= r + 1 /\ n[p].size \in Nat
        /\ k = IF rest = 0 THEN [n EXCEPT ![prev].ptr = n[p].ptr]
               ELSE [n EXCEPT ![p].size = rest, ![p + rest].size = r + 1]
        /\ rest = n[p].size - (r + 1)
    BY <1>1, <1>4, <1>5
  <2> HIDE DEF n
  <2>1. CASE rest = 0
    <3>1. b = p /\ k = [n EXCEPT ![prev].ptr = n[p].ptr]
      BY <1>4, <1>5, <2>0, <2>1, SMTT(30)
    <3>2. AllocatesK(n, k, p, prev, C, G, end, r)
      BY <1>0, <1>1, <2>0, <3>1, AllTaken
    <3> QED BY <3>1, <3>2 DEF n
  <2>2. CASE rest # 0
    <3>1. n[p].size > r + 1
      BY <1>0, <2>0, <2>2
    <3>2. Cut(n, k, p, rest, r)
      BY <2>0, <2>2 DEF Cut
    <3>3. AllocatesK(n, k, p + rest, prev, C, G, end, r)
      BY <1>0, <1>1, <2>0, <3>1, <3>2, BackTaken
    <3> QED BY <1>4, <3>3 DEF n
  <2> QED BY <2>1, <2>2
<1>7. PICK B2, F2 : /\ ListedK(k, B2, F2, end) /\ Coalesced(View(k), F2)
                    /\ b \notin C \ G /\ B2 \ F2 = (C \ G) \cup {b} /\ b \in Nat
                    /\ Saved(View(g.mem), View(k), C \ G)
                    /\ Span(View(k), b) >= r + 1
                    /\ prev \in F2 \cup {-1}
  BY <1>6 DEF AllocatesK
<1> DEFINE n == FilledK(k, b, r)
<1>8. b \in B2 /\ b \notin F2 /\ end <= M4 /\ Tiled(View(k), B2, end)
  BY <1>7 DEF ListedK, Sorted
<1>9. /\ ListedK(n, B2, F2, end) /\ Coalesced(View(n), F2)
      /\ View(n) = GivenMem(M4, View(k), b, r)
  BY <1>0, <1>7, <1>8, ListedFilled
<1>10. Roomy(View(n), (B \ F) \cup {b}, live \cup {o})
  <2> DEFINE v == View(m)
             w == View(k)
             x == View(n)
             U == B \ F
  <2>1. Saved(v, w, U)
    <3> DEFINE y == View(g.mem)
    <3>1. Saved(v, y, U) /\ Saved(y, w, U)
      BY <1>7
    <3> HIDE DEF v, w, y, U
    <3> QED BY <3>1, SavedTwice
  <2>2. /\ b \notin U /\ U \subseteq B2 /\ Span(w, b) >= r + 1 /\ Tiled(w, B2, end)
        /\ x = GivenMem(M4, w, b, r) /\ Roomy(v, U, live)
    BY <1>7, <1>8, <1>9
  <2> HIDE DEF v, w, x, U
  <2>3. Roomy(x, U \cup {b}, live \cup {[at |-> b + 1, n |-> r]})
    BY <1>0, <1>8, <2>1, <2>2, RoomyMalloc
  <2> QED BY <1>4, <2>3 DEF x, U
<1>11. B2 \ F2 = (B \ F) \cup {b}
  BY <1>7
<1> HIDE DEF n
<1>12. /\ heap'.mem = n /\ heap'.freep = prev
       /\ heap' = [mem |-> heap'.mem, freep |-> heap'.freep]
  BY <1>3 DEF n
<1>13. HoldsK(heap', live', end, B2, F2)
  BY <1>2, <1>7, <1>9, <1>10, <1>11, <1>12 DEF HoldsK
<1>14. \E at : live' = live \cup {[at |-> at, n |-> r]}
  BY <1>2, <1>4
<1> QED BY <1>13, <1>14

\* Nothing has been asked for yet: the list has not been started.
Fresh ==
  /\ heap = [mem |-> [u \in {-1} \cup 0 .. M4 - 1 |->
                        IF u = -1 THEN [ptr |-> -2, size |-> 0]
                        ELSE [ptr |-> -7, size |-> -7]],
             freep |-> -2]
  /\ s_heap_hi = 0 /\ live = {}

\* What is true of heapmgrkr between calls.
InvK == Fresh \/ \E B, F : HoldsK(heap, live, s_heap_hi, B, F)

\* A manager that has been called once has its list.
LEMMA HoldsStarted ==
  ASSUME NEW h, NEW has, NEW end, NEW B, NEW F, HoldsK(h, has, end, B, F)
  PROVE  h.freep # -2 /\ NumbersK(h.mem, B, F, end)
<1> DEFINE m == h.mem
<1>1. ListedK(m, B, F, end) /\ h.freep \in F \cup {-1}
  BY DEF HoldsK
<1> HIDE DEF m
<1>2. NumbersK(m, B, F, end)
  BY <1>1, ListedNumbersK
<1>3. F \subseteq 0 .. M4 - 1 /\ M4 \in Nat
  BY <1>2 DEF NumbersK
<1>4. h.freep # -2
  BY <1>1, <1>3
<1> QED BY <1>2, <1>4 DEF m

\* The first call starts the list, the others find it started.
LEMMA StartedHolds ==
  ASSUME InvK
  PROVE  /\ \E B, F : HoldsK(KR!Started, live, s_heap_hi, B, F)
         /\ heap.freep # -2 => KR!Started = heap
<1>1. KR!Started = IF heap.freep # -2 THEN heap
                   ELSE [mem |-> [heap.mem EXCEPT ![-1].ptr = -1], freep |-> -1]
  BY DEF KR!Started, KR!NULL, KR!base
<1>2. CASE Fresh
  <2> DEFINE D == {-1} \cup 0 .. M4 - 1
             m == [u \in D |-> IF u = -1 THEN [ptr |-> -2, size |-> 0]
                               ELSE [ptr |-> -7, size |-> -7]]
             n == [m EXCEPT ![-1].ptr = -1]
             x == [mem |-> n, freep |-> -1]
  <2>1. heap = [mem |-> m, freep |-> -2] /\ s_heap_hi = 0 /\ live = {}
    BY <1>2 DEF Fresh
  <2>2. m \in MemK /\ m[-1].size = 0
    BY M4Number DEF MemK, Links
  <2> HIDE DEF m
  <2>3. heap.freep = -2 /\ heap.mem = m
    BY <2>1
  <2>4. KR!Started = x
    BY <1>1, <2>3
  <2>5. PutsK(m, n, -1, -1, m[-1].size)
    <3>1. n = [m EXCEPT ![-1].ptr = -1] /\ -1 \in {-1} \cup 0 .. M4 - 1 /\ -1 \in Links
      BY DEF Links
    <3> HIDE DEF n
    <3> QED BY <2>2, <3>1, PutLink
  <2> HIDE DEF n
  <2>6. n \in MemK /\ n[-1].ptr = -1 /\ n[-1].size = 0
    BY <2>2, <2>5 DEF PutsK
  <2>7. Sorted(View(n), -1, {}, {}, 0)
    BY DEF Sorted, Tiled, Chained, Least
  <2>8. ListedK(n, {}, {}, 0)
    BY <2>6, <2>7, M4Number DEF ListedK
  <2>9. Coalesced(View(n), {}) /\ Roomy(View(n), {}, {})
    BY DEF Coalesced, Roomy
  <2>10. x.mem = n /\ x.freep = -1 /\ x = [mem |-> x.mem, freep |-> x.freep]
    OBVIOUS
  <2> HIDE DEF x
  <2>11. HoldsK(x, {}, 0, {}, {})
    BY <2>8, <2>9, <2>10 DEF HoldsK
  <2> QED BY <2>1, <2>3, <2>4, <2>11
<1>3. CASE ~ Fresh
  <2>1. PICK B, F : HoldsK(heap, live, s_heap_hi, B, F)
    BY <1>3 DEF InvK
  <2>2. heap.freep # -2
    BY <2>1, HoldsStarted
  <2> QED BY <1>1, <2>1, <2>2
<1> QED BY <1>2, <1>3

\* heapmgr_malloc of heapmgrkr, when a free block is large enough.
LEMMA MallocFitsK ==
  ASSUME InvK, NEW r \in Requests, KR!MallocFits(r)
  PROVE  /\ InvK' /\ s_heap_hi' = s_heap_hi
         /\ \E at : live' = live \cup {[at |-> at, n |-> r]}
<1> DEFINE g == KR!Started
<1>1. PICK B, F : HoldsK(g, live, s_heap_hi, B, F)
  BY StartedHolds
<1>2. KR!Fitting(g, r) # {} /\ KR!Take(g, r) /\ s_heap_hi' = s_heap_hi
  BY DEF KR!MallocFits
<1> HIDE DEF g
<1> DEFINE m == g.mem
           v == View(m)
<1>3. /\ ListedK(g.mem, B, F, s_heap_hi) /\ Coalesced(View(g.mem), F)
      /\ Roomy(v, B \ F, live) /\ g.freep \in F \cup {-1}
  BY <1>1 DEF HoldsK
<1>4. Saved(v, v, B \ F)
  <2> HIDE DEF v
  <2> QED BY DEF Saved
<1>5. Saved(View(m), View(g.mem), B \ F) /\ Roomy(View(m), B \ F, live)
  BY <1>3, <1>4
<1> HIDE DEF m, v
<1>6. /\ \E B2, F2 : HoldsK(heap', live', s_heap_hi, B2, F2)
      /\ \E at : live' = live \cup {[at |-> at, n |-> r]}
  BY <1>2, <1>3, <1>5, TakenK
<1> QED BY <1>2, <1>6 DEF InvK

\* heapmgr_malloc of heapmgrkr returns NULL, having at most started the list.
LEMMA MallocFailsK ==
  ASSUME InvK, NEW r \in Requests, KR!MallocFails(r)
  PROVE  InvK' /\ s_heap_hi' = s_heap_hi /\ live' = live
<1>1. heap' = KR!Started /\ s_heap_hi' = s_heap_hi /\ live' = live
  BY DEF KR!MallocFails
<1>2. PICK B, F : HoldsK(KR!Started, live, s_heap_hi, B, F)
  BY StartedHolds
<1> QED BY <1>1, <1>2 DEF InvK

\* heapmgr_free of heapmgrkr.
LEMMA FreeStepK ==
  ASSUME InvK, NEW a \in live, KR!Free(a)
  PROVE  InvK' /\ s_heap_hi' = s_heap_hi /\ live' = live \ {a}
<1> DEFINE c == a.at - 1
           x == KR!freed(heap.mem, heap.freep, c)
           m == heap.mem
<1>1. PICK B, F : HoldsK(heap, live, s_heap_hi, B, F)
  BY DEF InvK, Fresh
<1>2. heap' = x /\ live' = live \ {a} /\ s_heap_hi' = s_heap_hi
  BY DEF KR!Free
<1>3. /\ ListedK(m, B, F, s_heap_hi) /\ Coalesced(View(m), F)
      /\ Roomy(View(m), B \ F, live) /\ heap.freep \in F \cup {-1}
  BY <1>1 DEF HoldsK
<1>4. c \in B /\ c \notin F /\ c = a.at - 1
  <2>1. {b.at - 1 : b \in live} = B \ F
    BY <1>3 DEF Roomy
  <2> QED BY <2>1
<1>5. x = KR!freed(m, heap.freep, c)
  OBVIOUS
<1> HIDE DEF c, m, x
<1>6. FreedK(m, x, B, F, c, s_heap_hi)
  BY <1>3, <1>4, <1>5, FreedIsFreedK
<1>7. PICK C, G, b :
         /\ x = [mem |-> x.mem, freep |-> x.freep]
         /\ ListedK(x.mem, C, G, s_heap_hi) /\ C \ G = (B \ F) \ {c}
         /\ Coalesced(View(x.mem), G) /\ Saved(View(m), View(x.mem), (B \ F) \ {c})
         /\ b \in G /\ Span(View(x.mem), b) >= Span(View(m), c)
         /\ x.freep \in G \cup {-1}
  BY <1>6 DEF FreedK
<1>8. Roomy(View(x.mem), (B \ F) \ {c}, live \ {a})
  <2> DEFINE v == View(m)
             w == View(x.mem)
             U == B \ F
  <2>1. /\ Saved(v, w, U \ {a.at - 1}) /\ Roomy(v, U, live) /\ U \subseteq B
        /\ Tiled(v, B, s_heap_hi)
    BY <1>3, <1>4, <1>7 DEF ListedK, Sorted
  <2> HIDE DEF v, w, U
  <2>2. Roomy(w, U \ {a.at - 1}, live \ {a})
    BY <2>1, RoomyFree
  <2> QED BY <1>4, <2>2 DEF w, U
<1>9. HoldsK(x, live \ {a}, s_heap_hi, C, G)
  BY <1>7, <1>8 DEF HoldsK
<1> QED BY <1>2, <1>9 DEF InvK

\* The memory with the new block of g units at its end, not yet on the circle.
NewK(m, n, B, F, end, g) ==
  /\ ListedK(n, B \cup {end}, F, end + g) /\ Coalesced(View(n), F) /\ end \notin B
  /\ Saved(View(m), View(n), B) /\ Span(View(n), end) = g /\ n[-1].ptr = m[-1].ptr

\* The size that morecore writes makes what sbrk gave a block.
LEMMA NewIsNewK ==
  ASSUME NEW m, NEW B, NEW F, NEW end, ListedK(m, B, F, end), Coalesced(View(m), F),
         NEW g \in Nat, g >= 1, end + g <= M4,
         NEW n, n = [m EXCEPT ![end].size = g]
  PROVE  NewK(m, n, B, F, end, g)
<1>1. /\ M4 \in Nat /\ end \in Nat /\ F \subseteq B /\ m \in MemK /\ m[-1].size = 0
      /\ \A d \in B : d \in 0 .. M4 - 1 /\ d < end
      /\ Sorted(View(m), m[-1].ptr, B, F, end) /\ Tiled(View(m), B, end)
  <2>1. NumbersK(m, B, F, end)
    BY ListedNumbersK
  <2>2. \A d \in B : d \in Nat /\ m[d].size \in Nat /\ m[d].size >= 1
                     /\ d + m[d].size <= end
    BY <2>1 DEF NumbersK
  <2>3. end \in Nat
    BY <2>1 DEF NumbersK
  <2>4. \A d \in B : d < end
    BY <2>2, <2>3
  <2> QED BY <2>1, <2>3, <2>4 DEF NumbersK, ListedK, Sorted
<1>2. end \in 0 .. M4 - 1 /\ g \in 0 .. M4 /\ end \in {-1} \cup 0 .. M4 - 1 /\ end # -1
  BY <1>1
<1>3. PutsK(m, n, end, m[end].ptr, g)
  BY <1>1, <1>2, PutSize
<1>4. /\ n \in MemK /\ n[end].size = g
      /\ \A u \in {-1} \cup 0 .. M4 - 1 : u # end => n[u] = m[u]
  BY <1>3 DEF PutsK
<1>5. n[-1] = m[-1]
  BY <1>2, <1>4
<1> DEFINE v == View(m)
           w == View(n)
<1>6. Span(w, end) = g
  BY <1>2, <1>4, Viewed
<1>7. \A u \in 0 .. M4 - 1 : u # end => w[u] = v[u]
  <2>1. ASSUME NEW u \in 0 .. M4 - 1, u # end PROVE w[u] = v[u]
    <3>1. n[u] = m[u]
      BY <1>4, <2>1
    <3> QED BY <3>1 DEF View
  <2> QED BY <2>1
<1>8. \A d \in B : w[d] = v[d]
  <2>1. ASSUME NEW d \in B PROVE w[d] = v[d]
    <3>1. d \in 0 .. M4 - 1 /\ d # end
      BY <1>1
    <3> HIDE DEF v, w
    <3> QED BY <1>7, <3>1
  <2> QED BY <2>1
<1> DEFINE head == m[-1].ptr
<1>9. Sorted(v, head, B, F, end) /\ Tiled(v, B, end) /\ Coalesced(v, F)
  BY <1>1
<1>10. n[-1].ptr = head /\ n[-1].size = 0
  BY <1>1, <1>5
<1> HIDE DEF v, w, head
<1>11. /\ \A d \in B : Span(w, d) = Span(v, d)
       /\ \A d \in F : NextOf(w, d) = NextOf(v, d)
  BY <1>1, <1>8 DEF Span, NextOf
<1>12. Sorted(w, head, B \cup {end}, F, end + g) /\ end \notin B
  BY <1>6, <1>9, <1>11, SortedGrow
<1>13. Coalesced(w, F)
  BY <1>1, <1>9, <1>11 DEF Coalesced
<1>14. Saved(v, w, B)
  <2>1. \A u \in 0 .. end - 1 : u \in B \/ w[u] = v[u]
    <3>1. \A u \in 0 .. end - 1 : u \in 0 .. M4 - 1 /\ u # end
      BY <1>1, <1>2
    <3> QED BY <1>7, <3>1
  <2>2. B \subseteq B
    OBVIOUS
  <2> QED BY <1>9, <1>11, <2>1, <2>2, SavedInside
<1>15. ListedK(n, B \cup {end}, F, end + g)
  BY <1>4, <1>10, <1>12 DEF ListedK, w
<1> QED BY <1>6, <1>10, <1>12, <1>13, <1>14, <1>15 DEF NewK, v, w, head

\* The heap grows by what is asked for and its header, at least.
LEMMA MoreK ==
  ASSUME NEW r \in Nat
  PROVE  KR!more(r) \in Nat /\ KR!more(r) >= r + 1
<1>1. Growth["heapmgrkr"] \in Nat
  BY M4Number
<1> QED BY <1>1 DEF KR!more, KR!nunits

\* What the heap has grown to: its circle has a block that is large enough.
GrownK(m, x, B, F, end, r) ==
  \E C, G : /\ x = [mem |-> x.mem, freep |-> x.freep] /\ x.freep \in G \cup {-1}
            /\ ListedK(x.mem, C, G, end) /\ C \ G = B \ F
            /\ Coalesced(View(x.mem), G) /\ Saved(View(m), View(x.mem), B \ F)
            /\ KR!Fitting(x, r) # {}

\* morecore leaves a free block that is large enough, wherever it was joined.
LEMMA GrownIsGrownK ==
  ASSUME NEW m, NEW B, NEW F, NEW end, ListedK(m, B, F, end), Coalesced(View(m), F),
         NEW from \in F \cup {-1}, NEW r \in Nat, end + KR!more(r) <= M4,
         NEW n, n = [m EXCEPT ![end].size = KR!more(r)],
         NEW x, x = KR!freed(n, from, end)
  PROVE  GrownK(m, x, B, F, end + KR!more(r), r)
<1> DEFINE g == KR!more(r)
           top == end + g
           A == B \cup {end}
<1>1. g \in Nat /\ g >= r + 1 /\ g >= 1
  BY MoreK
<1>2. n = [m EXCEPT ![end].size = g] /\ end + g <= M4 /\ top = end + g
      /\ A = B \cup {end}
  OBVIOUS
<1> HIDE DEF g
<1>3. NewK(m, n, B, F, end, g)
  BY <1>1, <1>2, NewIsNewK
<1>4. F \subseteq B
  BY DEF ListedK, Sorted
<1>5. /\ ListedK(n, A, F, top) /\ Coalesced(View(n), F) /\ end \notin B /\ end \in A
      /\ end \notin F
      /\ Saved(View(m), View(n), B) /\ Span(View(n), end) = g
  BY <1>3, <1>4 DEF NewK
<1> HIDE DEF top, A
<1>6. FreedK(n, x, A, F, end, top)
  BY <1>5, FreedIsFreedK
<1>7. PICK C, G, b :
         /\ x = [mem |-> x.mem, freep |-> x.freep]
         /\ ListedK(x.mem, C, G, top) /\ C \ G = (A \ F) \ {end}
         /\ Coalesced(View(x.mem), G) /\ Saved(View(n), View(x.mem), (A \ F) \ {end})
         /\ b \in G /\ Span(View(x.mem), b) >= Span(View(n), end)
         /\ x.freep \in G \cup {-1}
  BY <1>6 DEF FreedK
<1>8. (A \ F) \ {end} = B \ F
  BY <1>2, <1>5
<1>9. Saved(View(m), View(x.mem), B \ F)
  <2> DEFINE u == View(m)
             v == View(n)
             w == View(x.mem)
             U == B \ F
  <2>1. Saved(u, v, B) /\ U \subseteq B /\ Saved(v, w, U)
    BY <1>5, <1>7, <1>8
  <2> HIDE DEF u, v, w, U
  <2>2. Saved(u, v, U)
    BY <2>1, SavedFewer
  <2>3. Saved(u, w, U)
    BY <2>1, <2>2, SavedTwice
  <2> QED BY <2>3 DEF u, w, U
<1>10. KR!Fitting(x, r) # {}
  <2> DEFINE z == x.mem
  <2>1. ListedK(z, C, G, top)
    BY <1>7
  <2> HIDE DEF z
  <2>2. NumbersK(z, C, G, top)
    BY <2>1, ListedNumbersK
  <2>3. z[b].size \in Nat /\ Span(View(z), b) = z[b].size
    <3>1. b \in C /\ M4 \in Nat
      BY <1>7, <2>2 DEF NumbersK
    <3>2. z[b].size \in 1 .. M4 /\ Span(View(z), b) = z[b].size
      BY <2>2, <3>1 DEF NumbersK
    <3> QED BY <3>1, <3>2
  <2>4. z[b].size >= g
    BY <1>5, <1>7, <2>3 DEF z
  <2>5. ~ (x.mem[b].size < r + 1)
    BY <1>1, <2>3, <2>4 DEF z
  <2>6. SearchK(x, G, r)
    BY <1>7, SearchIs
  <2>7. b \in G \cup {-1}
    BY <1>7
  <2> QED BY <2>5, <2>6, <2>7 DEF SearchK
<1>11. GrownK(m, x, B, F, top, r)
  BY <1>7, <1>8, <1>9, <1>10 DEF GrownK
<1> QED BY <1>11 DEF top, g

\* The circle, walked from base, is what is free and base.
LEMMA CircleFound ==
  ASSUME NEW B, NEW F, NEW end, ListedK(heap.mem, B, F, end)
  PROVE  KR!OnList = F \cup {-1}
<1> DEFINE m == heap.mem
           f == KR!WalkFrom(m, -1)
           C == F \cup {-1}
<1>1. KR!OnList = {f[i] : i \in 0 .. M4 + 1}
  BY DEF KR!OnList, KR!base, M4
<1>2. PICK r : Round(m, C, -1, f, M4, r)
  <2> HIDE DEF m
  <2>1. ListedK(m, B, F, end) /\ -1 \in F \cup {-1}
    BY DEF m
  <2> QED BY <2>1, RoundK
<1> HIDE DEF m, f, C
<1>3. /\ r \in 1 .. M4 + 1 /\ \A i \in 0 .. M4 + 1 : f[i] \in C
      /\ \A d \in C : \E i \in 1 .. r : f[i] = d
  BY <1>2 DEF Round
<1>4. {f[i] : i \in 0 .. M4 + 1} \subseteq C
  BY <1>3
<1>5. ASSUME NEW d \in C PROVE d \in {f[i] : i \in 0 .. M4 + 1}
  <2>1. PICK i \in 1 .. r : f[i] = d
    BY <1>3
  <2>2. i \in 0 .. M4 + 1
    BY <1>3, M4Number
  <2> QED BY <2>1, <2>2
<1>6. {f[i] : i \in 0 .. M4 + 1} = C
  BY <1>4, <1>5
<1> QED BY <1>1, <1>6 DEF C

\* heapmgr_malloc of heapmgrkr, when the heap has to grow: no free block fits.
LEMMA MallocGrowsK ==
  ASSUME InvK, NEW r \in Requests, KR!MallocGrows(r)
  PROVE  /\ InvK' /\ KR!NoBlockFits
         /\ \E at : live' = live \cup {[at |-> at, n |-> r]}
<1> DEFINE h == KR!Started
           n == [h.mem EXCEPT ![s_heap_hi].size = KR!more(r)]
           x == KR!freed(n, h.freep, s_heap_hi)
           m == h.mem
           top == s_heap_hi + KR!more(r)
<1>1. PICK B, F : HoldsK(h, live, s_heap_hi, B, F)
  BY StartedHolds
<1>2. /\ KR!Fitting(h, r) = {} /\ s_heap_hi + KR!more(r) <= M4
      /\ s_heap_hi' = top /\ KR!Take(x, r)
  BY DEF KR!MallocGrows, M4
<1>3. heap.freep # -2 => h = heap
  BY StartedHolds
<1>4. /\ n = [m EXCEPT ![s_heap_hi].size = KR!more(r)] /\ m = h.mem
      /\ x = KR!freed(n, h.freep, s_heap_hi) /\ top = s_heap_hi + KR!more(r)
      /\ r \in Nat
  BY UnitsOK
<1> HIDE DEF h, m, n, x, top
<1>5. /\ ListedK(m, B, F, s_heap_hi) /\ Coalesced(View(m), F)
      /\ Roomy(View(m), B \ F, live) /\ h.freep \in F \cup {-1}
  BY <1>1, <1>4 DEF HoldsK
<1>6. GrownK(m, x, B, F, top, r)
  <2>1. GrownK(m, x, B, F, s_heap_hi + KR!more(r), r)
    BY <1>2, <1>4, <1>5, GrownIsGrownK
  <2> QED BY <1>4, <2>1
<1>7. PICK C, G :
         /\ x = [mem |-> x.mem, freep |-> x.freep] /\ x.freep \in G \cup {-1}
         /\ ListedK(x.mem, C, G, top) /\ C \ G = B \ F
         /\ Coalesced(View(x.mem), G) /\ Saved(View(m), View(x.mem), B \ F)
         /\ KR!Fitting(x, r) # {}
  BY <1>6 DEF GrownK
<1>8. /\ \E B2, F2 : HoldsK(heap', live', top, B2, F2)
      /\ \E at : live' = live \cup {[at |-> at, n |-> r]}
  BY <1>2, <1>5, <1>7, TakenK
<1>9. PICK at : live' = live \cup {[at |-> at, n |-> r]}
  BY <1>8
<1>10. KR!NoBlockFits
  <2>1. SUFFICES ASSUME heap.freep # -2, NEW a \in live' \ live, NEW c \in KR!OnList
                 PROVE  heap.mem[c].size < r + 1 /\ a.n = r
    BY DEF KR!NoBlockFits, KR!NULL, KR!nunits
  <2>2. a.n = r
    BY <1>9
  <2>3. h = heap /\ ListedK(h.mem, B, F, s_heap_hi)
    BY <1>3, <1>4, <1>5, <2>1
  <2>4. c \in F \cup {-1}
    BY <2>3, CircleFound
  <2>5. SearchK(h, F, r)
    BY <1>4, <1>5, <2>3, SearchIs
  <2>6. \A d \in F \cup {-1} : h.mem[d].size < r + 1
    BY <1>2, <2>5 DEF SearchK
  <2> QED BY <2>2, <2>3, <2>4, <2>6
<1> QED BY <1>2, <1>8, <1>10 DEF InvK

\* heapmgrkr starts with a list that has not been started.
LEMMA InitK ==
  ASSUME KR!Init
  PROVE  InvK
<1>1. Fresh
  BY DEF KR!Init, Fresh, KR!base, KR!NULL, KR!Addresses, KR!Data, M4
<1> QED BY <1>1 DEF InvK

\* Each step of heapmgrkr keeps its invariant, is a call or one that failed, and grows
\* only if it must.
LEMMA NextK ==
  ASSUME InvK, KR!Next
  PROVE  /\ InvK' /\ (Calls(live, live') \/ live' = live)
         /\ s_heap_hi' # s_heap_hi => KR!NoBlockFits
<1>1. ASSUME NEW r \in Requests, KR!MallocFits(r)
      PROVE  InvK' /\ Calls(live, live') /\ s_heap_hi' = s_heap_hi
  <2>1. /\ InvK' /\ s_heap_hi' = s_heap_hi
        /\ \E at : live' = live \cup {[at |-> at, n |-> r]}
    BY <1>1, MallocFitsK
  <2> QED BY <2>1 DEF Calls
<1>2. ASSUME NEW r \in Requests, KR!MallocGrows(r)
      PROVE  InvK' /\ Calls(live, live') /\ KR!NoBlockFits
  <2>1. /\ InvK' /\ KR!NoBlockFits
        /\ \E at : live' = live \cup {[at |-> at, n |-> r]}
    BY <1>2, MallocGrowsK
  <2> QED BY <2>1 DEF Calls
<1>3. ASSUME NEW r \in Requests, KR!MallocFails(r)
      PROVE  InvK' /\ live' = live /\ s_heap_hi' = s_heap_hi
  BY <1>3, MallocFailsK
<1>4. ASSUME NEW a \in live, KR!Free(a)
      PROVE  InvK' /\ Calls(live, live') /\ s_heap_hi' = s_heap_hi
  <2>1. InvK' /\ s_heap_hi' = s_heap_hi /\ live' = live \ {a}
    BY <1>4, FreeStepK
  <2> QED BY <2>1 DEF Calls
<1> QED BY <1>1, <1>2, <1>3, <1>4 DEF KR!Next

\* The invariant of heapmgrkr is about nothing but the variables.
LEMMA StuttersK ==
  ASSUME InvK, UNCHANGED vars
  PROVE  InvK'
  BY DEF InvK, Fresh, vars

\* What the program wrote is what it has, also as the contract counts it.
LEMMA WrittenK ==
  ASSUME Apart(live, M4, View(heap.mem)), heap.mem \in MemK
  PROVE  KR!writtenBar = UNION {UnitsOf(a) : a \in live}
<1>1. ASSUME NEW a \in live, NEW u \in UnitsOf(a)
      PROVE  u \in 0 .. M4 - 1 /\ heap.mem[u] = [ptr |-> -7, size |-> -7]
  <2>1. u \in 0 .. M4 - 1 /\ View(heap.mem)[u] = Bytes
    BY <1>1 DEF Apart
  <2>2. heap.mem[u].size = -7 /\ heap.mem[u].ptr = -7
    BY <2>1 DEF View, Bytes
  <2>3. heap.mem[u] \in [ptr : Links, size : {-7} \cup 0 .. M4]
    BY <2>1 DEF MemK
  <2> QED BY <2>1, <2>2, <2>3
<1>2. KR!writtenBar = {u \in 0 .. M4 - 1 : /\ heap.mem[u] = [ptr |-> -7, size |-> -7]
                                           /\ \E a \in live : u \in UnitsOf(a)}
  BY DEF KR!writtenBar, KR!Addresses, KR!Data, UnitsOf, M4
<1> QED BY <1>1, <1>2

\* Blocks that lie end to end cover the heap, and no unit twice.
LEMMA TiledCovers ==
  ASSUME NEW m, NEW B, NEW end, Tiled(m, B, end)
  PROVE  /\ UNION {c .. c + Span(m, c) - 1 : c \in B} = 0 .. end - 1
         /\ \A c, d \in B : c # d =>
              (c .. c + Span(m, c) - 1) \cap (d .. d + Span(m, d) - 1) = {}
<1>1. /\ end \in Nat /\ B \subseteq Nat
      /\ \A c \in B : c \in Nat /\ Span(m, c) \in Nat /\ Span(m, c) >= 1
                      /\ c + Span(m, c) <= end
      /\ \A c \in B : c + Span(m, c) = end \/ c + Span(m, c) \in B
      /\ \A c, d \in B : c < d => c + Span(m, c) <= d
      /\ end # 0 => 0 \in B
  BY DEF Tiled
<1>2. ASSUME NEW c \in B PROVE c .. c + Span(m, c) - 1 \subseteq 0 .. end - 1
  BY <1>1
<1>3. ASSUME NEW u \in 0 .. end - 1 PROVE \E c \in B : u \in c .. c + Span(m, c) - 1
  <2> DEFINE T == {c \in B : c <= u}
  <2>1. 0 \in T /\ T \subseteq Int /\ u \in Int /\ \A t \in T : t <= u
    <3>1. u \in Nat /\ end # 0
      BY <1>1
    <3>2. 0 \in B /\ B \subseteq Int
      BY <1>1, <3>1
    <3>3. 0 <= u
      BY <3>1
    <3>4. 0 \in T
      BY <3>2, <3>3
    <3>5. \A t \in T : t \in Int /\ t <= u
      BY <3>2
    <3> QED BY <3>1, <3>4, <3>5
  <2>2. PICK c \in T : \A y \in T : y <= c
    <3> HIDE DEF T
    <3>1. T # {}
      BY <2>1
    <3> QED BY <2>1, <3>1, GreatestNumber
  <2>3. c \in B /\ c <= u
    OBVIOUS
  <2>4. c + Span(m, c) > u
    <3> SUFFICES ASSUME ~ (c + Span(m, c) > u) PROVE FALSE
      OBVIOUS
    <3>1. /\ c \in Nat /\ Span(m, c) \in Nat /\ Span(m, c) >= 1
          /\ c + Span(m, c) = end \/ c + Span(m, c) \in B
      BY <1>1, <2>3
    <3>2. c + Span(m, c) <= u /\ c + Span(m, c) # end /\ u < end
      BY <1>1, <3>1
    <3>3. c + Span(m, c) \in T
      BY <3>1, <3>2
    <3>4. c + Span(m, c) <= c
      <4> HIDE DEF T
      <4> QED BY <2>2, <3>3
    <3> QED BY <3>1, <3>4
  <2>5. u \in c .. c + Span(m, c) - 1
    BY <1>1, <2>3, <2>4
  <2> QED BY <2>3, <2>5
<1>4. UNION {c .. c + Span(m, c) - 1 : c \in B} = 0 .. end - 1
  BY <1>2, <1>3
<1>5. ASSUME NEW c \in B, NEW d \in B, c # d,
             NEW u \in c .. c + Span(m, c) - 1, u \in d .. d + Span(m, d) - 1
      PROVE  FALSE
  <2>1. c < d \/ d < c
    BY <1>1, <1>5
  <2>2. c + Span(m, c) <= d \/ d + Span(m, d) <= c
    BY <1>1, <2>1
  <2>3. u \in Int /\ c <= u /\ u < c + Span(m, c) /\ d <= u /\ u < d + Span(m, d)
    BY <1>1, <1>5
  <2> QED BY <1>1, <2>2, <2>3
<1> QED BY <1>4, <1>5

\* The circle leads down once: from its last block to base.
LEMMA LeadsDownOnce ==
  ASSUME NEW m, NEW C, Circle(M4, m, C)
  PROVE  KR!Cardinality({p \in C : m[p].ptr <= p}) = 1
<1>1. /\ C \subseteq -1 .. M4 - 1 /\ -1 \in C /\ M4 \in Nat
      /\ \A x \in C : /\ m[x].ptr \in C
                      /\ m[x].ptr # -1 => x < m[x].ptr
                      /\ m[x].ptr = -1 => \A e \in C : e <= x
  BY M4Number DEF Circle, NextOf
<1>2. \A x \in C : x \in Int /\ -1 <= x /\ x <= M4 /\ m[x].ptr \in Int
  BY <1>1
<1>3. PICK x \in C : \A y \in C : y <= x
  <2>1. M4 \in Int /\ C \subseteq Int /\ C # {} /\ \A t \in C : t <= M4
    BY <1>1, <1>2
  <2> QED BY <2>1, GreatestNumber
<1>4. m[x].ptr = -1
  <2>1. m[x].ptr <= x
    BY <1>1, <1>3
  <2> QED BY <1>1, <1>2, <2>1
<1>5. ASSUME NEW y \in C PROVE m[y].ptr <= y <=> y = x
  <2>1. CASE y = x
    BY <1>2, <1>4, <2>1
  <2>2. CASE y # x
    <3>1. m[y].ptr # -1
      <4> SUFFICES ASSUME m[y].ptr = -1 PROVE FALSE
        OBVIOUS
      <4>1. x <= y /\ y <= x
        BY <1>1, <1>3
      <4> QED BY <1>2, <2>2, <4>1
    <3>2. y < m[y].ptr
      BY <1>1, <3>1
    <3>3. ~ (m[y].ptr <= y)
      BY <1>2, <3>2
    <3> QED BY <2>2, <3>3
  <2> QED BY <2>1, <2>2
<1>6. {p \in C : m[p].ptr <= p} = {x}
  BY <1>5
<1>7. \A S : KR!Cardinality(S) = Cardinality(S)
  BY DEF KR!Cardinality, Cardinality
<1> QED BY <1>6, <1>7, FS_Singleton

\* In a heap that holds the invariant of heapmgrkr, its list and its blocks are valid.
LEMMA ValidK ==
  ASSUME InvK
  PROVE  KR!HeapValid /\ Apart(live, M4, View(heap.mem)) /\ heap.mem \in MemK
<1> DEFINE m == heap.mem
<1>1. CASE Fresh
  <2>1. /\ m = [u \in {-1} \cup 0 .. M4 - 1 |-> IF u = -1 THEN [ptr |-> -2, size |-> 0]
                                              ELSE [ptr |-> -7, size |-> -7]]
        /\ heap.freep = -2 /\ s_heap_hi = 0 /\ live = {}
    BY <1>1 DEF Fresh
  <2> HIDE DEF m
  <2>2. m \in MemK
    BY <2>1, M4Number DEF MemK, Links
  <2>3. KR!TypeOK
    <3>1. m \in [{-1} \cup 0 .. M4 - 1 -> [ptr : {-7, -2, -1} \cup 0 .. M4 - 1,
                                           size : {-7} \cup 0 .. M4]]
      BY <2>2 DEF MemK, Links
    <3>2. heap.freep \in {-2, -1} \cup 0 .. M4 - 1 /\ s_heap_hi \in 0 .. M4
      BY <2>1, M4Number
    <3>3. live \subseteq [at : 0 .. M4 - 1, n : Requests]
      BY <2>1
    <3> QED BY <3>1, <3>2, <3>3 DEF KR!TypeOK, KR!base, KR!NULL, KR!Addresses, M4, m
  <2>4. KR!HeapValid
    BY <2>1, <2>3 DEF KR!HeapValid, KR!NULL
  <2>5. Apart(live, M4, View(m))
    BY <2>1 DEF Apart
  <2> QED BY <2>2, <2>4, <2>5 DEF m
<1>2. CASE ~ Fresh
  <2>1. PICK B, F : HoldsK(heap, live, s_heap_hi, B, F)
    BY <1>2 DEF InvK
  <2>2. /\ ListedK(m, B, F, s_heap_hi) /\ Coalesced(View(m), F)
        /\ Roomy(View(m), B \ F, live) /\ heap.freep \in F \cup {-1}
        /\ Tiled(View(m), B, s_heap_hi) /\ s_heap_hi <= M4
    BY <2>1 DEF HoldsK, ListedK, Sorted
  <2>3. KR!OnList = F \cup {-1}
    BY <2>2, CircleFound
  <2>4. \A c : KR!Block(c) = c .. c + m[c].size - 1
    BY DEF KR!Block
  <2> HIDE DEF m
  <2>5. NumbersK(m, B, F, s_heap_hi)
    BY <2>2, ListedNumbersK
  <2>6. /\ M4 \in Nat /\ s_heap_hi \in 0 .. M4 /\ F \subseteq B /\ -1 \notin B /\ m \in MemK
        /\ \A d \in B : /\ d \in 0 .. M4 - 1 /\ m[d].size \in 1 .. M4
                        /\ Span(View(m), d) = m[d].size
        /\ m[-1].ptr = -1 \/ m[-1].ptr \in F
        /\ \A d \in F : m[d].ptr = -1 \/ m[d].ptr \in F
    BY <2>5 DEF NumbersK
  <2>7. Apart(live, M4, View(m))
    <3> DEFINE v == View(m)
               U == B \ F
    <3>1. Tiled(v, B, s_heap_hi) /\ U \subseteq B /\ Roomy(v, U, live)
      BY <2>2
    <3> HIDE DEF v, U
    <3>2. Apart(live, M4, v)
      BY <2>2, <2>6, <3>1, RoomyApart
    <3> QED BY <3>2 DEF v
  <2>8. /\ {a.at - 1 : a \in live} = B \ F
        /\ \A a \in live : Span(View(m), a.at - 1) >= a.n + 1
        /\ live \subseteq [at : Nat, n : Requests]
    BY <2>2 DEF Roomy
  <2>9. \A a \in live : m[a.at - 1].size >= a.n + 1
    <3>1. \A a \in live : a.at - 1 \in B
      BY <2>8
    <3> QED BY <2>6, <2>8, <3>1
  <2>10. KR!TypeOK
    <3>1. m \in [{-1} \cup 0 .. M4 - 1 -> [ptr : {-7, -2, -1} \cup 0 .. M4 - 1,
                                           size : {-7} \cup 0 .. M4]]
      BY <2>6 DEF MemK, Links
    <3>2. heap.freep \in {-2, -1} \cup 0 .. M4 - 1
      BY <2>2, <2>6
    <3>3. live \subseteq [at : 0 .. M4 - 1, n : Requests]
      <4>1. \A a \in live : a \in [at : Nat, n : Requests] /\ a.at \in 0 .. M4 - 1
        BY <2>7, <2>8 DEF Apart
      <4> QED BY <4>1
    <3> QED BY <2>6, <3>1, <3>2, <3>3
            DEF KR!TypeOK, KR!base, KR!NULL, KR!Addresses, M4, m
  <2>11. /\ ((F \cup {-1}) \ {-1}) \cup (B \ F) = B
         /\ (F \cup {-1}) \cap (B \ F) = {}
    BY <2>6
  <2>12. KR!Cardinality({p \in F \cup {-1} : m[p].ptr <= p}) = 1
    <3>1. Circle(M4, m, F \cup {-1})
      BY <2>2, ListedCircle
    <3> QED BY <3>1, LeadsDownOnce
  <2>13. ASSUME NEW p \in F \cup {-1} PROVE ~ (p # -1 /\ p + m[p].size = m[p].ptr)
    <3> SUFFICES ASSUME p # -1, p + m[p].size = m[p].ptr PROVE FALSE
      OBVIOUS
    <3>1. p \in F /\ p \in B
      BY <2>6
    <3>2. p + m[p].size \notin F
      BY <2>2, <2>6, <3>1 DEF Coalesced
    <3>3. p + m[p].size = -1
      BY <2>6, <3>1, <3>2
    <3>4. p \in Nat /\ m[p].size \in Nat
      BY <2>6, <3>1
    <3> QED BY <3>3, <3>4
  <2>14. /\ UNION {c .. c + m[c].size - 1 : c \in B} = 0 .. s_heap_hi - 1
         /\ \A c, d \in B : c # d =>
              (c .. c + m[c].size - 1) \cap (d .. d + m[d].size - 1) = {}
    <3>1. \A c \in B : Span(View(m), c) = m[c].size
      BY <2>6
    <3> DEFINE v == View(m)
    <3>2. Tiled(v, B, s_heap_hi) /\ \A c \in B : Span(v, c) = m[c].size
      BY <2>2, <3>1
    <3> HIDE DEF v
    <3>3. /\ UNION {c .. c + Span(v, c) - 1 : c \in B} = 0 .. s_heap_hi - 1
          /\ \A c, d \in B : c # d =>
               (c .. c + Span(v, c) - 1) \cap (d .. d + Span(v, d) - 1) = {}
      BY <3>2, TiledCovers
    <3>4. {c .. c + Span(v, c) - 1 : c \in B} = {c .. c + m[c].size - 1 : c \in B}
      BY <3>2
    <3> QED BY <3>2, <3>3, <3>4
  <2>15. KR!HeapValid
    <3> DEFINE circle == KR!OnList
               used == {a.at - 1 : a \in live}
               blocks == (circle \ {-1}) \cup used
    <3>1. circle = F \cup {-1} /\ used = B \ F /\ blocks = B
      BY <2>3, <2>8, <2>11
    <3>2. KR!HeapValid <=>
            /\ KR!TypeOK
            /\ heap.freep # -2 =>
                 /\ heap.freep \in circle
                 /\ KR!Cardinality({p \in circle : m[p].ptr <= p}) = 1
                 /\ \A p \in circle : ~ (p # -1 /\ p + m[p].size = m[p].ptr)
                 /\ UNION {KR!Block(c) : c \in blocks} = 0 .. s_heap_hi - 1
                 /\ \A c, d \in blocks : c # d => KR!Block(c) \cap KR!Block(d) = {}
                 /\ circle \cap used = {}
            /\ \A a \in live : m[a.at - 1].size >= a.n + 1
      BY DEF KR!HeapValid, KR!NULL, KR!base, KR!touches, KR!nunits, m
    <3> HIDE DEF circle, used, blocks
    <3>3. KR!Cardinality({p \in circle : m[p].ptr <= p}) = 1
      BY <2>12, <3>1
    <3>4. \A p \in circle : ~ (p # -1 /\ p + m[p].size = m[p].ptr)
      BY <2>13, <3>1
    <3>5. UNION {KR!Block(c) : c \in blocks} = 0 .. s_heap_hi - 1
      <4>1. {KR!Block(c) : c \in blocks} = {c .. c + m[c].size - 1 : c \in B}
        BY <2>4, <3>1
      <4> QED BY <2>14, <4>1
    <3>6. \A c, d \in blocks : c # d => KR!Block(c) \cap KR!Block(d) = {}
      BY <2>4, <2>14, <3>1
    <3>7. circle \cap used = {} /\ heap.freep \in circle
      BY <2>2, <2>11, <3>1
    <3> QED BY <2>9, <2>10, <3>2, <3>3, <3>4, <3>5, <3>6, <3>7
  <2> QED BY <2>6, <2>7, <2>15 DEF m
<1> QED BY <1>1, <1>2

-----------------------------------------------------------------------------
(* The program with whichever manager it is linked with.                   *)

\* The inductive invariant: there are blocks, and free ones among them, that lie
\* and are listed as the manager keeps them, and the program has the others.
IInv ==
  /\ manager \in Managers
  /\ manager = "heapmgr1"    => Inv1
  /\ manager = "heapmgr2"    => Inv2
  /\ manager = "heapmgrbase" => InvB
  /\ manager = "heapmgrkr"   => InvK

\* Each manager starts with its invariant.
LEMMA InitIInv ==
  ASSUME Init
  PROVE  IInv
  BY Init1, Init2, InitB, InitK DEF Init, IInv, Managers

\* No other block fits a call for which the heap grows.
NoOtherFits ==
  CASE manager = "heapmgr1"    -> Mgr1!NoBlockFits
    [] manager = "heapmgr2"    -> Mgr2!NoBlockFits
    [] manager = "heapmgrbase" -> Base!NoBlockFits
    [] manager = "heapmgrkr"   -> KR!NoBlockFits

\* What is shown of each step, for the manager that takes it.
LEMMA NextIInv ==
  ASSUME IInv, Next
  PROVE  /\ IInv' /\ (Calls(live, live') \/ live' = live) /\ manager' = manager
         /\ s_heap_hi' # s_heap_hi => NoOtherFits
<1>1. manager' = manager /\ manager \in Managers
  BY DEF Next, IInv
<1>2. CASE manager = "heapmgr1" /\ Mgr1!Next
  <2>1. Inv1' /\ Calls(live, live') /\ (s_heap_hi' # s_heap_hi => Mgr1!NoBlockFits)
    BY <1>2, Next1 DEF IInv
  <2> QED BY <1>1, <1>2, <2>1 DEF IInv, NoOtherFits
<1>3. CASE manager = "heapmgr2" /\ Mgr2!Next
  <2>1. Inv2' /\ Calls(live, live') /\ (s_heap_hi' # s_heap_hi => Mgr2!NoBlockFits)
    BY <1>3, Next2 DEF IInv
  <2> QED BY <1>1, <1>3, <2>1 DEF IInv, NoOtherFits
<1>4. CASE manager = "heapmgrbase" /\ Base!Next
  <2>1. InvB' /\ Calls(live, live') /\ (s_heap_hi' # s_heap_hi => Base!NoBlockFits)
    BY <1>4, NextB DEF IInv
  <2> QED BY <1>1, <1>4, <2>1 DEF IInv, NoOtherFits
<1>5. CASE manager = "heapmgrkr" /\ KR!Next
  <2>1. /\ InvK' /\ (Calls(live, live') \/ live' = live)
        /\ s_heap_hi' # s_heap_hi => KR!NoBlockFits
    BY <1>5, NextK DEF IInv
  <2> QED BY <1>1, <1>5, <2>1 DEF IInv, NoOtherFits
<1> QED BY <1>2, <1>3, <1>4, <1>5 DEF Next

\* The invariant is about nothing but the variables.
LEMMA StuttersIInv ==
  ASSUME IInv, UNCHANGED vars
  PROVE  IInv'
<1>1. manager' = manager
  BY DEF vars
<1> QED BY <1>1, Stutters1, Stutters2, StuttersB, StuttersK DEF IInv

\* What the program wrote is what it has, and its objects lie apart.
Written ==
  /\ \E m : Apart(live, MaxUnits[manager], m)
  /\ writtenBar = UNION {UnitsOf(a) : a \in live}

\* The invariant says that the heap is valid, and how the contract sees it.
LEMMA IInvWritten ==
  ASSUME IInv
  PROVE  Written /\ HeapValid
<1>0. manager \in Managers
  BY DEF IInv
<1>1. CASE manager = "heapmgr1"
  <2>1. Mgr1!HeapValid /\ Apart(live, M1, heap.mem)
    BY <1>1, Valid1 DEF IInv
  <2>2. writtenBar = UNION {UnitsOf(a) : a \in live}
    BY <1>1, <2>1, Written1 DEF writtenBar
  <2> QED BY <1>1, <2>1, <2>2 DEF Written, HeapValid, M1
<1>2. CASE manager = "heapmgr2"
  <2>1. Mgr2!HeapValid /\ Apart(live, M2, heap.mem)
    BY <1>2, Valid2 DEF IInv
  <2>2. writtenBar = UNION {UnitsOf(a) : a \in live}
    BY <1>2, <2>1, Written2 DEF writtenBar
  <2> QED BY <1>2, <2>1, <2>2 DEF Written, HeapValid, M2
<1>3. CASE manager = "heapmgrbase"
  <2>1. Base!HeapValid /\ Apart(live, M3, heap.mem)
    BY <1>3, ValidB DEF IInv
  <2>2. writtenBar = UNION {UnitsOf(a) : a \in live}
    BY <1>3, <2>1, WrittenB DEF writtenBar
  <2> QED BY <1>3, <2>1, <2>2 DEF Written, HeapValid, M3
<1>4. CASE manager = "heapmgrkr"
  <2>1. KR!HeapValid /\ Apart(live, M4, View(heap.mem)) /\ heap.mem \in MemK
    BY <1>4, ValidK DEF IInv
  <2>2. writtenBar = UNION {UnitsOf(a) : a \in live}
    BY <1>4, <2>1, WrittenK DEF writtenBar
  <2> QED BY <1>4, <2>1, <2>2 DEF Written, HeapValid, M4
<1> QED BY <1>0, <1>1, <1>2, <1>3, <1>4 DEF Managers

\* The invariant holds whatever the program calls.
LEMMA SpecIInv == Spec => []IInv
<1>1. Init => IInv
  BY InitIInv
<1>2. IInv /\ [Next]_vars => IInv'
  BY NextIInv, StuttersIInv
<1> QED BY <1>1, <1>2, PTL DEF Spec

\* The heap check passes after any calls of heapmgr_malloc and heapmgr_free, for each
\* manager: the blocks cover the heap, free neighbours have been joined, and each block
\* is either the program's and large enough, or on the list it belongs to.
THEOREM HeapsAreValid == Spec => []HeapValid
<1>1. IInv => HeapValid
  BY IInvWritten
<1> QED BY <1>1, SpecIInv, PTL

\* heapmgr_malloc asks sbrk for memory only if no free block, on any list, fits.
THEOREM HeapsGrowIfNeeded == Spec => GrowsIfNeeded
<1>1. IInv /\ [Next]_vars =>
        [s_heap_hi' # s_heap_hi =>
           CASE manager = "heapmgr1"    -> Mgr1!NoBlockFits
             [] manager = "heapmgr2"    -> Mgr2!NoBlockFits
             [] manager = "heapmgrbase" -> Base!NoBlockFits
             [] manager = "heapmgrkr"   -> KR!NoBlockFits]_vars
  BY NextIInv DEF NoOtherFits
<1> QED BY <1>1, SpecIInv, PTL DEF Spec, GrowsIfNeeded

\* Each manager gives the program space of its own, and what the program has written
\* there stays until it frees it: they are implementations of the contract.
THEOREM HeapsImplementAllocator == Spec => ImplementsAllocator
<1>1. Init => Contract!Init
  <2> SUFFICES ASSUME Init PROVE Contract!Init
    OBVIOUS
  <2>1. live = {}
    BY DEF Init, Mgr1!Init, Mgr2!Init, Base!Init, KR!Init
  <2>2. Written
    BY InitIInv, IInvWritten
  <2> QED BY <2>1, <2>2 DEF Written, Contract!Init
<1>2. IInv /\ IInv' /\ [Next]_vars => [Contract!Next]_<<live, writtenBar>>
  <2> SUFFICES ASSUME IInv, IInv', [Next]_vars
               PROVE  [Contract!Next]_<<live, writtenBar>>
    OBVIOUS
  <2>1. Written /\ manager \in Managers
    BY IInvWritten DEF IInv
  <2>2. Written' /\ manager' \in Managers
    <3>1. Written'
      BY IInvWritten, PTL
    <3> QED BY <3>1 DEF IInv
  <2>3. Calls(live, live') \/ live' = live
    BY NextIInv DEF vars
  <2>4. CASE live' = live
    BY <2>1, <2>2, <2>4 DEF Written
  <2>5. CASE Calls(live, live')
    <3>1. PICK m : Apart(live, MaxUnits[manager], m)
      BY <2>1 DEF Written
    <3>2. PICK n : Apart(live', MaxUnits[manager'], n)
      BY <2>2 DEF Written
    <3>3. /\ writtenBar = UNION {UnitsOf(a) : a \in live}
          /\ writtenBar' = UNION {UnitsOf(a) : a \in live'}
      BY <2>1, <2>2 DEF Written
    <3> QED BY <2>1, <2>2, <2>5, <3>1, <3>2, <3>3, CallIsStep
  <2> QED BY <2>3, <2>4, <2>5
<1> QED BY <1>1, <1>2, SpecIInv, PTL DEF Spec, ImplementsAllocator, Contract!Spec,
           Contract!vars
=============================================================================
