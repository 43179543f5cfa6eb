--------------------------- MODULE HashTableProofs ---------------------------
(***************************************************************************)
(* Proofs about the hash table, for every set of workers, keys and values, *)
(* every finite memory and every number of buckets.                        *)
(***************************************************************************)
EXTENDS HashTableRefinement, FiniteSetTheorems, WellFoundedInduction, TLAPS

-----------------------------------------------------------------------------
(* Induction, for a set instead of a predicate                             *)

LEMMA LessWellFounded == IsWellFoundedOn({p \in Nat \X Nat : p[1] < p[2]}, Nat)
<1>1. OpToRel(<, Nat) = {p \in Nat \X Nat : p[1] < p[2]}
  BY DEF OpToRel
<1> QED BY <1>1, NatLessThanWellFounded

\* A set with 0 and with the successors of its numbers holds every number.
LEMMA SetInduction ==
  ASSUME NEW S, 0 \in S, \A n \in Nat : n \in S => n + 1 \in S
  PROVE  Nat \subseteq S
<1> DEFINE R == {p \in Nat \X Nat : p[1] < p[2]}
           T == Nat \ S
<1>1. SUFFICES ASSUME T # {} PROVE FALSE
  OBVIOUS
<1>2. T \subseteq Nat
  OBVIOUS
<1>3. IsWellFoundedOn(R, Nat)
  BY LessWellFounded
<1>4. \E x \in T : \A y \in T : ~ (<<y, x>> \in R)
  <2> HIDE DEF T, R
  <2> QED BY <1>1, <1>2, <1>3, WFMin
<1>5. PICK x \in T : \A y \in T : ~ (y < x)
  BY <1>4
<1>6. x # 0 /\ x - 1 \in Nat /\ x - 1 \in S
  BY <1>5
<1> QED BY <1>6

-----------------------------------------------------------------------------
(* hash() returns the number of a bucket for every key, whatever wraps.    *)

Sum(k) ==
  LET h[i \in 0 .. Len(k)] ==
        IF i = 0 THEN 0 ELSE (h[i - 1] * 32 + k[i]) % WordMod
  IN h

\* The sums after each character exist.
LEMMA SumExists ==
  ASSUME NEW k \in Seq(Int)
  PROVE  Sum(k) = [i \in 0 .. Len(k) |->
                     IF i = 0 THEN 0 ELSE (Sum(k)[i - 1] * 32 + k[i]) % WordMod]
<1> DEFINE Good(g, m) == g = [i \in 0 .. m |->
                                IF i = 0 THEN 0 ELSE (g[i - 1] * 32 + k[i]) % WordMod]
           S == {m \in Nat : \E g : Good(g, m)}
<1>1. 0 \in S
  <2>1. Good([i \in 0 .. 0 |-> 0], 0)
    OBVIOUS
  <2> QED BY <2>1
<1>2. ASSUME NEW m \in Nat, m \in S PROVE m + 1 \in S
  <2>1. PICK g : Good(g, m)
    BY <1>2
  <2> DEFINE f == [i \in 0 .. m + 1 |->
                     IF i <= m THEN g[i] ELSE (g[m] * 32 + k[m + 1]) % WordMod]
  <2>2. Good(f, m + 1)
    <3>1. ASSUME NEW i \in 0 .. m + 1
          PROVE  f[i] = IF i = 0 THEN 0 ELSE (f[i - 1] * 32 + k[i]) % WordMod
      <4>1. CASE i = 0
        BY <4>1, <2>1
      <4>2. CASE i \in 1 .. m
        <5>1. f[i] = g[i] /\ f[i - 1] = g[i - 1] /\ i \in 0 .. m /\ i # 0
          BY <4>2
        <5> QED BY <2>1, <5>1
      <4>3. CASE i = m + 1
        <5>1. f[i - 1] = g[m] /\ ~ (i <= m) /\ i # 0
          BY <4>3
        <5> QED BY <4>3, <5>1
      <4> QED BY <4>1, <4>2, <4>3
    <3> QED BY <3>1
  <2> HIDE DEF f
  <2> QED BY <2>2
<1> HIDE DEF S
<1>3. Nat \subseteq S
  BY <1>1, <1>2, SetInduction
<1>4. \E g : Good(g, Len(k))
  BY <1>3 DEF S
<1> QED BY <1>4 DEF Sum

LEMMA HashRange ==
  ASSUME NEW k \in Keys
  PROVE  hash(k) \in Buckets
<1>1. k \in Seq(Int) /\ Len(k) \in Nat
  BY KeysAreStrings
<1> DEFINE S == {m \in Nat : m <= Len(k) => Sum(k)[m] \in Int}
<1>2. 0 \in S
  BY <1>1, SumExists
<1>3. ASSUME NEW m \in Nat, m \in S PROVE m + 1 \in S
  <2>1. SUFFICES ASSUME m + 1 <= Len(k) PROVE Sum(k)[m + 1] \in Int
    OBVIOUS
  <2>2. m + 1 \in 0 .. Len(k) /\ m + 1 # 0 /\ (m + 1) - 1 = m
        /\ Sum(k)[m] \in Int /\ k[m + 1] \in Int
    BY <1>1, <1>3, <2>1
  <2>3. Sum(k)[m + 1] = (Sum(k)[m] * 32 + k[m + 1]) % WordMod
    BY <1>1, <2>2, SumExists
  <2> QED BY <2>2, <2>3, SizesPositive
<1> HIDE DEF S
<1>4. Len(k) \in S
  BY <1>1, <1>2, <1>3, SetInduction
<1>5. Sum(k)[Len(k)] \in Int
  BY <1>1, <1>4 DEF S
<1>6. hash(k) = Sum(k)[Len(k)] % hash_size
  BY DEF hash, Sum
<1> QED BY <1>5, <1>6, SizesPositive DEF Buckets

-----------------------------------------------------------------------------
(* Walks.  Path is Walk for a given head and given next pointers, so that  *)
(* one can speak of the walks before and after a step.                     *)

Size == Cardinality(Nodes)

Path(h, nx) ==
  LET walk[i \in 0 .. Size] ==
        IF i = 0 THEN h
        ELSE IF walk[i - 1] = NULL THEN NULL ELSE nx[walk[i - 1]]
  IN walk

Follows(p, h, nx, m) ==
  p = [i \in 0 .. m |->
         IF i = 0 THEN h ELSE IF p[i - 1] = NULL THEN NULL ELSE nx[p[i - 1]]]

Elems(p) == {p[i] : i \in 0 .. Size} \ {NULL}

LEMMA SizeType == Size \in Nat
  BY MemoryFinite, FS_CardinalityType DEF Size

LEMMA PathFollows ==
  ASSUME NEW h, NEW nx
  PROVE  Follows(Path(h, nx), h, nx, Size)
<1> DEFINE S == {m \in Nat : \E p : Follows(p, h, nx, m)}
<1>1. 0 \in S
  <2>1. Follows([i \in 0 .. 0 |-> h], h, nx, 0)
    BY DEF Follows
  <2> QED BY <2>1
<1>2. ASSUME NEW m \in Nat, m \in S PROVE m + 1 \in S
  <2>1. PICK p : Follows(p, h, nx, m)
    BY <1>2
  <2> DEFINE q == [i \in 0 .. m + 1 |->
                     IF i <= m THEN p[i] ELSE IF p[m] = NULL THEN NULL ELSE nx[p[m]]]
  <2>2. ASSUME NEW i \in 0 .. m + 1
        PROVE  q[i] = IF i = 0 THEN h ELSE IF q[i - 1] = NULL THEN NULL ELSE nx[q[i - 1]]
    <3>1. CASE i = 0
      BY <3>1, <2>1 DEF Follows
    <3>2. CASE i \in 1 .. m
      <4>1. q[i] = p[i] /\ q[i - 1] = p[i - 1] /\ i \in 0 .. m /\ i # 0
        BY <3>2
      <4> QED BY <2>1, <4>1 DEF Follows
    <3>3. CASE i = m + 1
      BY <3>3
    <3> QED BY <3>1, <3>2, <3>3
  <2>3. Follows(q, h, nx, m + 1)
    BY <2>2 DEF Follows
  <2> HIDE DEF q
  <2> QED BY <2>3
<1> HIDE DEF S
<1>3. Nat \subseteq S
  BY <1>1, <1>2, SetInduction
<1>4. \E p : Follows(p, h, nx, Size)
  BY <1>3, SizeType DEF S
<1> QED BY <1>4 DEF Path, Follows

LEMMA PathUnique ==
  ASSUME NEW h, NEW nx, NEW p, Follows(p, h, nx, Size)
  PROVE  Path(h, nx) = p
<1> DEFINE q == Path(h, nx)
           S == {m \in Nat : m <= Size => p[m] = q[m]}
<1>1. Follows(q, h, nx, Size)
  BY PathFollows
<1> HIDE DEF q
<1>2. 0 \in S
  BY <1>1, SizeType DEF Follows
<1>3. ASSUME NEW m \in Nat, m \in S PROVE m + 1 \in S
  <2>1. SUFFICES ASSUME m + 1 <= Size PROVE p[m + 1] = q[m + 1]
    OBVIOUS
  <2>2. m + 1 \in 0 .. Size /\ m + 1 # 0 /\ (m + 1) - 1 = m /\ p[m] = q[m]
    BY <1>3, <2>1, SizeType
  <2>3. p[m + 1] = IF p[m] = NULL THEN NULL ELSE nx[p[m]]
    BY <2>2 DEF Follows
  <2>4. q[m + 1] = IF q[m] = NULL THEN NULL ELSE nx[q[m]]
    BY <1>1, <2>2 DEF Follows
  <2> QED BY <2>2, <2>3, <2>4
<1> HIDE DEF S
<1>4. Nat \subseteq S
  BY <1>2, <1>3, SetInduction
<1>5. \A m \in 0 .. Size : p[m] = q[m]
  BY <1>4, SizeType DEF S
<1> QED BY <1>1, <1>5 DEF Follows, q

\* The same, step by step.
LEMMA PathSteps ==
  ASSUME NEW h, NEW nx
  PROVE  /\ DOMAIN Path(h, nx) = 0 .. Size
         /\ Path(h, nx) = [i \in 0 .. Size |-> Path(h, nx)[i]]
         /\ Path(h, nx)[0] = h
         /\ \A i \in 0 .. Size : i < Size =>
              Path(h, nx)[i + 1] =
                IF Path(h, nx)[i] = NULL THEN NULL ELSE nx[Path(h, nx)[i]]
<1> DEFINE p == Path(h, nx)
<1>1. Follows(p, h, nx, Size)
  BY PathFollows
<1> HIDE DEF p
<1>2. p[0] = h /\ DOMAIN p = 0 .. Size /\ p = [i \in 0 .. Size |-> p[i]]
  BY <1>1, SizeType DEF Follows
<1>3. ASSUME NEW i \in 0 .. Size, i < Size
      PROVE  p[i + 1] = IF p[i] = NULL THEN NULL ELSE nx[p[i]]
  <2>1. i + 1 \in 0 .. Size /\ i + 1 # 0 /\ (i + 1) - 1 = i
    BY <1>3, SizeType
  <2> QED BY <1>1, <2>1 DEF Follows
<1> QED BY <1>2, <1>3 DEF p

LEMMA FollowsIntro ==
  ASSUME NEW h, NEW nx, NEW p, p = [i \in 0 .. Size |-> p[i]], p[0] = h,
         \A i \in 0 .. Size : i < Size =>
           p[i + 1] = IF p[i] = NULL THEN NULL ELSE nx[p[i]]
  PROVE  Follows(p, h, nx, Size)
<1>1. ASSUME NEW i \in 0 .. Size
      PROVE  p[i] = IF i = 0 THEN h ELSE IF p[i - 1] = NULL THEN NULL ELSE nx[p[i - 1]]
  <2>1. CASE i = 0
    BY <2>1
  <2>2. CASE i # 0
    <3>1. i - 1 \in 0 .. Size /\ i - 1 < Size /\ (i - 1) + 1 = i
      BY <2>2, SizeType
    <3> QED BY <2>2, <3>1
  <2> QED BY <2>1, <2>2
<1> QED BY <1>1 DEF Follows

\* The walk p ends after L nodes, all different.
Simple(p, L) ==
  /\ p \in [0 .. Size -> Nodes \cup {NULL}]
  /\ L \in 0 .. Size
  /\ \A i \in 0 .. Size : p[i] = NULL <=> i >= L
  /\ \A i, j \in 0 .. Size : p[i] = p[j] /\ p[i] # NULL => i = j

\* Writing to nodes that are not on a walk leaves it alone.
LEMMA PathFrame ==
  ASSUME NEW h, NEW nx, NEW ny, \A n \in Elems(Path(h, nx)) : ny[n] = nx[n]
  PROVE  Path(h, ny) = Path(h, nx)
<1> DEFINE p == Path(h, nx)
<1>1. /\ p = [i \in 0 .. Size |-> p[i]] /\ p[0] = h
      /\ \A i \in 0 .. Size : i < Size =>
           p[i + 1] = IF p[i] = NULL THEN NULL ELSE nx[p[i]]
  BY PathSteps
<1>2. \A i \in 0 .. Size : p[i] # NULL => ny[p[i]] = nx[p[i]]
  BY DEF Elems
<1> HIDE DEF p
<1>3. Follows(p, h, ny, Size)
  BY <1>1, <1>2, FollowsIntro
<1> QED BY <1>3, PathUnique DEF p

\* A walk of L nodes has L elements.
LEMMA SimpleSize ==
  ASSUME NEW p, NEW L, Simple(p, L)
  PROVE  /\ IsFiniteSet(Elems(p)) /\ Cardinality(Elems(p)) = L
         /\ Elems(p) \subseteq Nodes
         /\ Elems(p) = {p[i] : i \in 0 .. L - 1}
<1>1. L \in Nat /\ L <= Size
  BY SizeType DEF Simple
<1>2. Elems(p) = {p[i] : i \in 0 .. L - 1} /\ Elems(p) \subseteq Nodes
  BY <1>1, SizeType DEF Simple, Elems
<1> DEFINE f == [i \in 1 .. L |-> p[i - 1]]
<1>3. f \in Bijection(1 .. L, Elems(p))
  <2>1. \A i \in 1 .. L : i - 1 \in 0 .. L - 1 /\ i - 1 \in 0 .. Size
    BY <1>1, SizeType
  <2>2. f \in [1 .. L -> Elems(p)]
    BY <1>2, <2>1
  <2>3. \A i, j \in 1 .. L : f[i] = f[j] => i = j
    BY <1>1, <2>1, SizeType DEF Simple
  <2>4. \A n \in Elems(p) : \E i \in 1 .. L : f[i] = n
    <3> SUFFICES ASSUME NEW n \in Elems(p) PROVE \E i \in 1 .. L : f[i] = n
      OBVIOUS
    <3>1. PICK j \in 0 .. L - 1 : n = p[j]
      BY <1>2
    <3>2. j + 1 \in 1 .. L /\ (j + 1) - 1 = j
      BY <1>1
    <3> QED BY <3>1, <3>2
  <2> QED BY <2>2, <2>3, <2>4 DEF Bijection, Injection, Surjection, IsInjective
<1>4. ExistsBijection(1 .. L, Elems(p))
  BY <1>3 DEF ExistsBijection
<1> QED BY <1>1, <1>2, <1>4, FS_CountingElements, FS_NatBijection

\* Publishing a node: the walk from it is the node and then the old walk, for which
\* there is room because the node is not on it.
LEMMA PathPush ==
  ASSUME NEW h, NEW nx, NEW L, NEW n \in Nodes, Simple(Path(h, nx), L),
         n \notin Elems(Path(h, nx)), nx[n] = h
  PROVE  /\ Simple(Path(n, nx), L + 1)
         /\ Elems(Path(n, nx)) = Elems(Path(h, nx)) \cup {n}
<1> DEFINE p == Path(h, nx)
           q == [i \in 0 .. Size |-> IF i = 0 THEN n ELSE p[i - 1]]
<1>1. /\ p[0] = h
      /\ \A i \in 0 .. Size : i < Size =>
           p[i + 1] = IF p[i] = NULL THEN NULL ELSE nx[p[i]]
  BY PathSteps
<1>2. Simple(p, L) /\ n \notin Elems(p)
  OBVIOUS
<1> HIDE DEF p
<1>3. L \in 0 .. Size /\ L + 1 <= Size
  <2>1. /\ IsFiniteSet(Elems(p)) /\ Cardinality(Elems(p)) = L
        /\ Elems(p) \subseteq Nodes
    BY <1>2, SimpleSize
  <2>2. Cardinality(Elems(p) \cup {n}) = L + 1 /\ Elems(p) \cup {n} \subseteq Nodes
    BY <2>1, <1>2, FS_AddElement
  <2>3. Cardinality(Elems(p) \cup {n}) <= Size
    BY <2>2, MemoryFinite, FS_Subset DEF Size
  <2> QED BY <1>2, <2>2, <2>3 DEF Simple
<1>4. n # NULL
  BY Addresses
<1>5. Follows(q, n, nx, Size)
  <2>1. ASSUME NEW i \in 0 .. Size, i < Size
        PROVE  q[i + 1] = IF q[i] = NULL THEN NULL ELSE nx[q[i]]
    <3>1. i + 1 \in 0 .. Size /\ i + 1 # 0 /\ q[i + 1] = p[i]
      BY <2>1, SizeType
    <3>2. CASE i = 0
      BY <3>1, <3>2, <1>1, <1>4
    <3>3. CASE i # 0
      <4>1. i - 1 \in 0 .. Size /\ i - 1 < Size /\ (i - 1) + 1 = i /\ q[i] = p[i - 1]
        BY <2>1, <3>3, SizeType
      <4> QED BY <3>1, <4>1, <1>1
    <3> QED BY <3>2, <3>3
  <2>2. q[0] = n /\ q = [i \in 0 .. Size |-> q[i]]
    BY SizeType
  <2> HIDE DEF q
  <2> QED BY <2>1, <2>2, FollowsIntro
<1>6. Path(n, nx) = q
  BY <1>5, PathUnique
<1>7. p[Size] = NULL
  BY <1>2, SizeType DEF Simple
<1>8. \A i \in 0 .. Size : i # 0 => i - 1 \in 0 .. Size /\ q[i] = p[i - 1]
  BY SizeType
<1>9. q[0] = n
  BY SizeType
<1>10. q \in [0 .. Size -> Nodes \cup {NULL}]
  BY <1>2, <1>8 DEF Simple
<1> HIDE DEF q
<1>11. \A i \in 0 .. Size : q[i] = NULL <=> i >= L + 1
  BY <1>2, <1>3, <1>4, <1>8, <1>9, SizeType DEF Simple
<1>12. \A i \in 0 .. Size : i # 0 => q[i] # n
  BY <1>2, <1>4, <1>8 DEF Elems
<1>13. \A i, j \in 0 .. Size : q[i] = q[j] /\ q[i] # NULL => i = j
  BY <1>2, <1>8, <1>9, <1>12, SizeType DEF Simple
<1>14. Elems(q) = Elems(p) \cup {n}
  <2>1. ASSUME NEW m \in Elems(q) PROVE m \in Elems(p) \cup {n}
    BY <2>1, <1>8, <1>9 DEF Elems
  <2>2. n \in Elems(q)
    BY <1>4, <1>9, SizeType DEF Elems
  <2>3. ASSUME NEW m \in Elems(p) PROVE m \in Elems(q)
    <3>1. PICK i \in 0 .. Size : p[i] = m /\ m # NULL
      BY DEF Elems
    <3>2. i < Size
      BY <3>1, <1>7, SizeType
    <3>3. i + 1 \in 0 .. Size /\ i + 1 # 0 /\ (i + 1) - 1 = i
      BY <3>2, SizeType
    <3> QED BY <3>1, <3>3, <1>8 DEF Elems
  <2> QED BY <2>1, <2>2, <2>3
<1> QED BY <1>3, <1>6, <1>10, <1>11, <1>13, <1>14, SizeType DEF Simple, p

\* Unlinking the k-th node, at the head or behind its predecessor.
LEMMA PathSkip ==
  ASSUME NEW h, NEW nx \in [Nodes -> Nodes \cup {NULL}], NEW L,
         Simple(Path(h, nx), L), NEW k \in 0 .. L - 1,
         NEW g, NEW ny,
         k = 0 => g = nx[h] /\ ny = nx,
         k # 0 => g = h /\ ny = [nx EXCEPT ![Path(h, nx)[k - 1]] = nx[Path(h, nx)[k]]]
  PROVE  /\ Simple(Path(g, ny), L - 1)
         /\ Elems(Path(g, ny)) = Elems(Path(h, nx)) \ {Path(h, nx)[k]}
<1> DEFINE p == Path(h, nx)
           q == [i \in 0 .. Size |->
                   IF i < k THEN p[i] ELSE IF i < Size THEN p[i + 1] ELSE NULL]
<1>1. /\ p[0] = h
      /\ \A i \in 0 .. Size : i < Size =>
           p[i + 1] = IF p[i] = NULL THEN NULL ELSE nx[p[i]]
  BY PathSteps
<1>2. /\ Simple(p, L)
      /\ k = 0 => g = nx[h] /\ ny = nx
      /\ k # 0 => g = h /\ ny = [nx EXCEPT ![p[k - 1]] = nx[p[k]]]
  OBVIOUS
<1> HIDE DEF p
<1>3. /\ L \in Nat /\ L <= Size /\ k \in Nat /\ k < L /\ k < Size
      /\ p \in [0 .. Size -> Nodes \cup {NULL}]
      /\ \A i \in 0 .. Size : p[i] = NULL <=> i >= L
      /\ \A i, j \in 0 .. Size : p[i] = p[j] /\ p[i] # NULL => i = j
  BY <1>2, SizeType DEF Simple
<1>4. \A i \in 0 .. Size : p[i] # NULL /\ i # k - 1 => ny[p[i]] = nx[p[i]]
  <2>1. CASE k = 0
    BY <2>1, <1>2
  <2>2. CASE k # 0
    <3>1. k - 1 \in 0 .. Size /\ p[k - 1] # NULL
      BY <2>2, <1>3, SizeType
    <3> QED BY <2>2, <3>1, <1>2, <1>3
  <2> QED BY <2>1, <2>2
<1>5. k # 0 => k - 1 \in 0 .. Size /\ p[k - 1] # NULL /\ ny[p[k - 1]] = p[k + 1]
  <2>1. SUFFICES ASSUME k # 0
                 PROVE  k - 1 \in 0 .. Size /\ p[k - 1] # NULL /\ ny[p[k - 1]] = p[k + 1]
    OBVIOUS
  <2>2. k - 1 \in 0 .. Size /\ p[k - 1] \in Nodes /\ p[k - 1] # NULL
    BY <2>1, <1>3, SizeType
  <2>3. k \in 0 .. Size /\ p[k] # NULL
    BY <1>3, SizeType
  <2>4. p[k + 1] = nx[p[k]]
    BY <2>3, <1>1, <1>3
  <2> QED BY <2>1, <2>2, <2>4, <1>2
<1>6. /\ \A i \in 0 .. Size : i < k => q[i] = p[i]
      /\ \A i \in 0 .. Size : i >= k /\ i < Size => i + 1 \in 0 .. Size /\ q[i] = p[i + 1]
      /\ q[Size] = NULL
  BY <1>3, SizeType
<1>7. q = [i \in 0 .. Size |-> q[i]] /\ q \in [0 .. Size -> Nodes \cup {NULL}]
  <2>1. \A i \in 0 .. Size : i < Size => i + 1 \in 0 .. Size
    BY SizeType
  <2> QED BY <1>3, <2>1
<1> HIDE DEF q
<1>8. q[0] = g
  <2>1. CASE k = 0
    <3>1. p[0] # NULL /\ 0 \in 0 .. Size
      BY <2>1, <1>3, SizeType
    <3> QED BY <2>1, <3>1, <1>1, <1>2, <1>3, <1>6, SizeType
  <2>2. CASE k # 0
    BY <2>2, <1>1, <1>2, <1>3, <1>6, SizeType
  <2> QED BY <2>1, <2>2
<1>9. ASSUME NEW i \in 0 .. Size, i < Size
      PROVE  q[i + 1] = IF q[i] = NULL THEN NULL ELSE ny[q[i]]
  <2>0. i \in Nat /\ i + 1 \in 0 .. Size
    BY <1>9, SizeType
  <2>1. CASE i + 1 < k
    <3>1. q[i] = p[i] /\ q[i + 1] = p[i + 1] /\ i # k - 1 /\ p[i] # NULL
      BY <2>0, <2>1, <1>3, <1>6
    <3> QED BY <3>1, <1>1, <1>4, <1>9
  <2>2. CASE i + 1 = k
    <3>1. q[i] = p[k - 1] /\ q[i + 1] = p[k + 1] /\ k # 0
      BY <2>0, <2>2, <1>3, <1>6, SizeType
    <3> QED BY <3>1, <1>5
  <2>3. CASE i >= k /\ i + 1 < Size
    <3>1. q[i] = p[i + 1] /\ q[i + 1] = p[(i + 1) + 1] /\ i + 1 # k - 1
      BY <2>0, <2>3, <1>3, <1>6, SizeType
    <3>2. p[(i + 1) + 1] = IF p[i + 1] = NULL THEN NULL ELSE nx[p[i + 1]]
      BY <2>0, <2>3, <1>1
    <3> QED BY <2>0, <3>1, <3>2, <1>4
  <2>4. CASE i >= k /\ i + 1 = Size
    <3>1. q[i] = p[Size] /\ q[i + 1] = NULL
      BY <2>4, <1>6, <1>9
    <3>2. p[Size] = NULL
      BY <1>3, SizeType
    <3> QED BY <3>1, <3>2
  <2> QED BY <2>0, <2>1, <2>2, <2>3, <2>4, <1>3, SizeType
<1>10. Path(g, ny) = q
  <2>1. Follows(q, g, ny, Size)
    BY <1>7, <1>8, <1>9, FollowsIntro
  <2> QED BY <2>1, PathUnique
<1>11. \A i \in 0 .. Size : q[i] = NULL <=> i >= L - 1
  <2> SUFFICES ASSUME NEW i \in 0 .. Size PROVE q[i] = NULL <=> i >= L - 1
    OBVIOUS
  <2>1. CASE i < k
    BY <2>1, <1>3, <1>6
  <2>2. CASE i >= k /\ i < Size
    BY <2>2, <1>3, <1>6
  <2>3. CASE i = Size
    BY <2>3, <1>3, <1>6
  <2> QED BY <2>1, <2>2, <2>3, <1>3, SizeType
<1>12. \A i \in 0 .. Size : q[i] # NULL =>
         \E j \in 0 .. Size : q[i] = p[j] /\ j # k /\ i = IF j < k THEN j ELSE j - 1
  <2> SUFFICES ASSUME NEW i \in 0 .. Size, q[i] # NULL
               PROVE  \E j \in 0 .. Size :
                        q[i] = p[j] /\ j # k /\ i = IF j < k THEN j ELSE j - 1
    OBVIOUS
  <2>1. CASE i < k
    <3>1. q[i] = p[i]
      BY <2>1, <1>6
    <3> QED BY <2>1, <3>1, <1>3
  <2>2. CASE i >= k /\ i < Size
    <3>1. i + 1 \in 0 .. Size /\ q[i] = p[i + 1] /\ ~ (i + 1 < k) /\ i + 1 # k
          /\ (i + 1) - 1 = i
      BY <2>2, <1>3, <1>6
    <3> QED BY <3>1
  <2>3. CASE i = Size
    BY <2>3, <1>6
  <2> QED BY <2>1, <2>2, <2>3, <1>3, SizeType
<1>13. \A i, j \in 0 .. Size : q[i] = q[j] /\ q[i] # NULL => i = j
  BY <1>3, <1>12
<1>14. Elems(q) = Elems(p) \ {p[k]}
  <2>0. k \in 0 .. Size /\ p[k] # NULL
    BY <1>3, SizeType
  <2>1. ASSUME NEW m \in Elems(q) PROVE m \in Elems(p) \ {p[k]}
    <3>1. PICK i \in 0 .. Size : q[i] = m /\ m # NULL
      BY DEF Elems
    <3>2. PICK j \in 0 .. Size : m = p[j] /\ j # k
      BY <3>1, <1>12
    <3> QED BY <3>1, <3>2, <2>0, <1>3 DEF Elems
  <2>2. ASSUME NEW m \in Elems(p) \ {p[k]} PROVE m \in Elems(q)
    <3>1. PICK j \in 0 .. Size : p[j] = m /\ m # NULL
      BY DEF Elems
    <3>2. CASE j < k
      BY <3>1, <3>2, <1>6 DEF Elems
    <3>3. CASE j > k
      <4>1. j - 1 \in 0 .. Size /\ j - 1 >= k /\ j - 1 < Size /\ (j - 1) + 1 = j
        BY <3>3, <1>3, SizeType
      <4>2. q[j - 1] = p[j]
        BY <4>1, <1>6
      <4> QED BY <3>1, <4>1, <4>2 DEF Elems
    <3>4. CASE j = k
      BY <3>1, <3>4
    <3> QED BY <3>2, <3>3, <3>4, <1>3
  <2> QED BY <2>1, <2>2
<1>15. L - 1 \in 0 .. Size
  BY <1>3, SizeType
<1> QED BY <1>7, <1>10, <1>11, <1>13, <1>14, <1>15 DEF Simple, p

-----------------------------------------------------------------------------
(* The inductive invariant                                                 *)

Labels == {"idle", "lock", "search", "undo", "link", "publish", "assign", "free", "unlock"}

Inside(t) == pc[t] \notin {"idle", "lock"}

\* A bucket's lock is held by those inside; one that writes is alone.
LockInv ==
  /\ pc \in [Threads -> Labels]
  /\ \A b \in Buckets :
       /\ readers[b] = {t \in Threads : Inside(t) /\ Idx(t) = b /\ ~ Writes(op[t])}
       /\ writers[b] = {t \in Threads : Inside(t) /\ Idx(t) = b /\ Writes(op[t])}
  /\ \A s, t \in Threads :
       s # t /\ Inside(s) /\ Inside(t) /\ Idx(s) = Idx(t) => ~ Writes(op[s])

ChainAt(b) ==
  /\ Simple(Walk(b), bucket_sizes[b])
  /\ \A n \in Chain(b) : key[n] \in Keys \ {Freed} /\ hash(key[n]) = b
  /\ \A m, n \in Chain(b) : key[m] = key[n] => m = n

ChainInv == \A b \in Buckets : ChainAt(b)

\* A node whose value is freed is in the hands of an update.
ValueAt(b) ==
  \A n \in Chain(b) :
    /\ value[n] # NULL
    /\ value[n] = Freed => \E t \in Threads : pc[t] = "assign" /\ node[t] = n

ValueInv == \A b \in Buckets : ValueAt(b)

Absent(t) == \A n \in Chain(Idx(t)) : key[n] # op[t].key

\* A search has passed other keys only.
Passed(t) ==
  \E i \in 0 .. Size :
    /\ node[t] = Walk(Idx(t))[i]
    /\ \A j \in 0 .. i - 1 : Walk(Idx(t))[j] # NULL => key[Walk(Idx(t))[j]] # op[t].key

InHand(t) == pc[t] \in {"undo", "link", "publish", "free"}

\* What an operation knows at each of its steps.
Knows(t) ==
  /\ op[t].name # "delete" \/ ~ Inside(t) => prev[t] = NULL
  /\ pc[t] = "search" =>
       /\ node[t] # NULL => node[t] \in Chain(Idx(t))
       /\ prev[t] # NULL => prev[t] \in Chain(Idx(t)) /\ next[prev[t]] = node[t]
       /\ op[t].name = "delete" /\ prev[t] = NULL => node[t] = buckets[Idx(t)]
       /\ Passed(t)
  /\ pc[t] \in {"undo", "link", "publish"} => op[t].name = "insert" /\ Absent(t)
  /\ pc[t] \in {"link", "publish"} => /\ key[node[t]] = op[t].key
                                      /\ value[node[t]] = op[t].value
  /\ pc[t] = "publish" => next[node[t]] = buckets[Idx(t)]
  /\ pc[t] = "assign" => op[t].name = "update" /\ node[t] \in Chain(Idx(t))
                         /\ key[node[t]] = op[t].key /\ value[node[t]] = Freed
  /\ pc[t] = "free" => op[t].name = "delete"
  /\ InHand(t) => /\ node[t] \in Nodes /\ key[node[t]] # Freed
                  /\ \A b \in Buckets : node[t] \notin Chain(b)

HandInv ==
  /\ \A n \in Nodes : value[n] # Freed => key[n] # Freed
  /\ \A n \in Nodes : key[n] # Freed =>
       \/ \E b \in Buckets : n \in Chain(b)
       \/ \E t \in Threads : InHand(t) /\ node[t] = n
  /\ \A s, t \in Threads : InHand(s) /\ InHand(t) /\ node[s] = node[t] => s = t

IInv == /\ TypeOK /\ LockInv /\ ChainInv /\ ValueInv /\ HandInv
        /\ \A t \in Threads : Knows(t)

-----------------------------------------------------------------------------
(* Facts about every state that satisfies the invariant                    *)

LEMMA WalkIs ==
  ASSUME NEW b
  PROVE  /\ Walk(b) = Path(buckets[b], next) /\ Chain(b) = Elems(Walk(b))
         /\ Walk(b)' = Path(buckets'[b], next') /\ Chain(b)' = Elems(Walk(b)')
  BY DEF Walk, Path, Chain, Elems, Size

LEMMA IdxType ==
  ASSUME op \in [Threads -> Operations], NEW t \in Threads
  PROVE  /\ Idx(t) \in Buckets /\ op[t].key \in Keys
         /\ op[t].name \in {"insert", "update", "read", "delete"}
         /\ op[t].name \in {"insert", "update"} => op[t].value \in Values
<1>1. /\ op[t].key \in Keys
      /\ op[t].name \in {"insert", "update", "read", "delete"}
      /\ op[t].name \in {"insert", "update"} => op[t].value \in Values
  BY DEF Operations
<1> QED BY <1>1, HashRange DEF Idx

LEMMA ChainTypes ==
  ASSUME ChainInv, NEW b \in Buckets
  PROVE  Chain(b) \subseteq Nodes /\ NULL \notin Chain(b)
<1>1. Chain(b) = Elems(Walk(b)) /\ Simple(Walk(b), bucket_sizes[b])
  BY WalkIs DEF ChainInv, ChainAt
<1>2. Elems(Walk(b)) \subseteq Nodes
  BY <1>1, SimpleSize
<1> QED BY <1>1, <1>2 DEF Elems

\* A node is on one chain at most: its key says on which.
LEMMA ChainsApart ==
  ASSUME ChainInv, NEW b \in Buckets, NEW d \in Buckets, NEW n \in Chain(b), n \in Chain(d)
  PROVE  b = d
  BY DEF ChainInv, ChainAt

\* A walk and the chain: where a node is and what follows it.
LEMMA WalkSteps ==
  ASSUME ChainInv, NEW b \in Buckets
  PROVE  /\ Walk(b)[0] = buckets[b]
         /\ \A n \in Chain(b) : \E i \in 0 .. Size :
              i < Size /\ i < bucket_sizes[b] /\ Walk(b)[i] = n /\ Walk(b)[i + 1] = next[n]
         /\ \A i \in 0 .. Size : Walk(b)[i] # NULL => Walk(b)[i] \in Chain(b)
         /\ \A i, j \in 0 .. Size : Walk(b)[i] = NULL /\ i <= j => Walk(b)[j] = NULL
         /\ \A i, j \in 0 .. Size : Walk(b)[i] = Walk(b)[j] /\ Walk(b)[i] # NULL => i = j
<1>1. /\ Walk(b)[0] = buckets[b]
      /\ \A i \in 0 .. Size : i < Size =>
           Walk(b)[i + 1] = IF Walk(b)[i] = NULL THEN NULL ELSE next[Walk(b)[i]]
  BY WalkIs, PathSteps
<1>2. Simple(Walk(b), bucket_sizes[b]) /\ Chain(b) = Elems(Walk(b))
  BY WalkIs DEF ChainInv, ChainAt
<1> DEFINE p == Walk(b)
           L == bucket_sizes[b]
<1> HIDE DEF p, L
<1>3. /\ L \in Nat /\ L <= Size
      /\ \A i \in 0 .. Size : p[i] = NULL <=> i >= L
      /\ \A i, j \in 0 .. Size : p[i] = p[j] /\ p[i] # NULL => i = j
  BY <1>2, SizeType DEF Simple, p, L
<1>4. ASSUME NEW n \in Elems(p)
      PROVE  \E i \in 0 .. Size : i < Size /\ i < L /\ p[i] = n /\ p[i + 1] = next[n]
  <2>1. PICK i \in 0 .. Size : p[i] = n /\ n # NULL
    BY DEF Elems
  <2>2. i < L /\ i < Size
    BY <2>1, <1>3, SizeType
  <2>3. p[i + 1] = next[n]
    BY <2>1, <2>2, <1>1 DEF p
  <2> QED BY <2>1, <2>2, <2>3
<1>5. \A i \in 0 .. Size : p[i] # NULL => p[i] \in Elems(p)
  BY DEF Elems
<1>6. \A i, j \in 0 .. Size : p[i] = NULL /\ i <= j => p[j] = NULL
  BY <1>3, SizeType
<1> QED BY <1>1, <1>2, <1>3, <1>4, <1>5, <1>6 DEF p, L

LEMMA InitInv == Init => IInv
<1> SUFFICES ASSUME Init PROVE IInv
  OBVIOUS
<1>1. op \in [Threads -> Operations]
  <2>1. PICK k \in Keys : TRUE
    BY KeysAreStrings
  <2>2. [name |-> "read", key |-> k] \in Operations
    BY DEF Operations
  <2>3. (CHOOSE o \in Operations : o.name = "read") \in Operations
    BY <2>2
  <2> QED BY <2>3 DEF Init
<1>2. TypeOK
  BY <1>1 DEF Init, TypeOK
<1>3. LockInv
  BY DEF Init, LockInv, Inside, Labels
<1>4. ASSUME NEW b \in Buckets
      PROVE  Walk(b) = [i \in 0 .. Size |-> NULL] /\ Chain(b) = {}
  <2> DEFINE p == [i \in 0 .. Size |-> NULL]
  <2>1. Follows(p, NULL, next, Size)
    <3>1. \A i \in 0 .. Size : i < Size => i + 1 \in 0 .. Size
      BY SizeType
    <3>2. p[0] = NULL /\ p = [i \in 0 .. Size |-> p[i]]
      BY SizeType
    <3>3. \A i \in 0 .. Size : i < Size =>
            p[i + 1] = IF p[i] = NULL THEN NULL ELSE next[p[i]]
      BY <3>1
    <3> HIDE DEF p
    <3> QED BY <3>2, <3>3, FollowsIntro
  <2>2. Path(NULL, next) = p
    BY <2>1, PathUnique
  <2>3. Walk(b) = p
    BY <2>2, WalkIs DEF Init
  <2>4. Elems(p) = {}
    BY DEF Elems
  <2> QED BY <2>3, <2>4, WalkIs
<1>5. ChainInv
  <2>1. Simple([i \in 0 .. Size |-> NULL], 0)
    BY SizeType DEF Simple
  <2> QED BY <1>4, <2>1 DEF Init, ChainInv, ChainAt
<1>6. ValueInv /\ HandInv /\ \A t \in Threads : Knows(t)
  BY <1>4 DEF Init, ValueInv, ValueAt, HandInv, Knows, InHand, Inside
<1> QED BY <1>2, <1>3, <1>5, <1>6 DEF IInv

-----------------------------------------------------------------------------
(* Steps that do not change the table: they move one thread only.          *)

Mine(s) == \A t \in Threads \ {s} :
             /\ pc'[t] = pc[t] /\ op'[t] = op[t] /\ node'[t] = node[t]
             /\ prev'[t] = prev[t]

TableSame == UNCHANGED <<buckets, bucket_sizes, heap>>

LEMMA SameWalks ==
  TableSame => \A b : /\ Walk(b)' = Walk(b) /\ Chain(b)' = Chain(b)
                      /\ buckets'[b] = buckets[b]
  BY WalkIs DEF TableSame, heap

LEMMA QuietStep ==
  ASSUME IInv, NEW s \in Threads, TableSame, Mine(s),
         pc[s] \notin {"undo", "link", "publish", "assign", "free"},
         pc'[s] \notin {"undo", "link", "publish", "assign", "free"},
         TypeOK', LockInv', Knows(s)'
  PROVE  IInv'
<1>1. \A b : Walk(b)' = Walk(b) /\ Chain(b)' = Chain(b)
  BY SameWalks
<1>2. /\ buckets' = buckets /\ bucket_sizes' = bucket_sizes
      /\ key' = key /\ value' = value /\ next' = next
  BY DEF TableSame, heap
<1>3. ChainInv'
  BY <1>1, <1>2 DEF IInv, ChainInv, ChainAt
<1>4. ValueInv'
  <2>1. \A t \in Threads : pc[t] = "assign" => pc'[t] = "assign" /\ node'[t] = node[t]
    BY DEF Mine
  <2> QED BY <2>1, <1>1, <1>2 DEF IInv, ValueInv, ValueAt
<1>5. \A t \in Threads : (InHand(t)' <=> InHand(t)) /\ (InHand(t) => node'[t] = node[t])
  BY DEF InHand, Mine
<1>6. HandInv'
  BY <1>1, <1>2, <1>5 DEF IInv, HandInv
<1>7. ASSUME NEW t \in Threads \ {s} PROVE Knows(t)'
  <2>1. /\ Idx(t)' = Idx(t) /\ pc'[t] = pc[t] /\ op'[t] = op[t]
        /\ node'[t] = node[t] /\ prev'[t] = prev[t]
    BY DEF Mine, Idx
  <2>2. Passed(t)' <=> Passed(t)
    BY <1>1, <1>2, <2>1 DEF Passed
  <2>3. Absent(t)' <=> Absent(t)
    BY <1>1, <1>2, <2>1 DEF Absent
  <2> QED BY <1>1, <1>2, <1>5, <2>1, <2>2, <2>3 DEF IInv, Knows, Inside
<1> QED BY <1>3, <1>4, <1>6, <1>7 DEF IInv

\* Between lock and unlock the locks and who is inside stay.
LEMMA LockStays ==
  ASSUME IInv, NEW s \in Threads, UNCHANGED <<locks, op>>,
         Inside(s), pc' = [pc EXCEPT ![s] = pc'[s]],
         pc'[s] \in Labels \ {"idle", "lock"}
  PROVE  LockInv'
<1>1. \A t \in Threads : (Inside(t)' <=> Inside(t)) /\ Idx(t)' = Idx(t)
  BY DEF Inside, Idx, IInv, LockInv
<1> QED BY <1>1 DEF IInv, LockInv, locks, Labels

LEMMA CallStep ==
  ASSUME IInv, NEW s \in Threads, NEW o \in Operations, Call(s, o)
  PROVE  IInv'
<1>1. /\ pc[s] = "idle" /\ pc' = [pc EXCEPT ![s] = "lock"] /\ op' = [op EXCEPT ![s] = o]
      /\ TableSame /\ UNCHANGED <<locks, node, prev, ret, dst>>
  BY DEF Call, TableSame
<1>2. pc'[s] = "lock" /\ Mine(s)
  BY <1>1 DEF IInv, LockInv, TypeOK, Mine
<1>3. TypeOK'
  BY <1>1 DEF IInv, TypeOK, TableSame, heap, locks
<1>4. LockInv'
  <2>1. \A t \in Threads : (Inside(t)' <=> Inside(t)) /\ (Inside(t) => t # s)
    BY <1>1, <1>2 DEF Inside, Mine
  <2>2. \A t \in Threads : Inside(t) => Idx(t)' = Idx(t) /\ op'[t] = op[t]
    BY <1>2, <2>1 DEF Mine, Idx
  <2>3. pc' \in [Threads -> Labels]
    BY <1>1 DEF IInv, LockInv, Labels
  <2> QED BY <1>1, <2>1, <2>2, <2>3 DEF IInv, LockInv, locks
<1>5. Knows(s)'
  BY <1>1, <1>2 DEF IInv, Knows, Inside, InHand
<1> QED BY <1>1, <1>2, <1>3, <1>4, <1>5, QuietStep

LEMMA LockStep ==
  ASSUME IInv, NEW s \in Threads, Lock(s)
  PROVE  IInv'
<1> DEFINE b == Idx(s)
<1>1. /\ pc[s] = "lock" /\ pc' = [pc EXCEPT ![s] = "search"]
      /\ node' = [node EXCEPT ![s] = buckets[b]]
      /\ TableSame /\ UNCHANGED <<op, prev, ret, dst>>
      /\ writers[b] = {}
  BY DEF Lock, TableSame
<1>2. b \in Buckets
  <2>1. op \in [Threads -> Operations]
    BY DEF IInv, TypeOK
  <2> QED BY <2>1, IdxType
<1>3. pc'[s] = "search" /\ Mine(s) /\ node'[s] = buckets[b]
  BY <1>1 DEF IInv, LockInv, TypeOK, Mine
<1>4. /\ readers' \in [Buckets -> SUBSET Threads] /\ writers' \in [Buckets -> SUBSET Threads]
      /\ \A d \in Buckets :
           /\ readers'[d] = IF d = b /\ ~ Writes(op[s]) THEN readers[d] \cup {s} ELSE readers[d]
           /\ writers'[d] = IF d = b /\ Writes(op[s]) THEN {s} ELSE writers[d]
  <2>1. readers \in [Buckets -> SUBSET Threads] /\ writers \in [Buckets -> SUBSET Threads]
    BY DEF IInv, TypeOK
  <2>2. CASE Writes(op[s])
    <3>1. writers' = [writers EXCEPT ![b] = {s}] /\ readers' = readers
      BY <2>2 DEF Lock
    <3> QED BY <1>2, <2>1, <2>2, <3>1
  <2>3. CASE ~ Writes(op[s])
    <3>1. readers' = [readers EXCEPT ![b] = @ \cup {s}] /\ writers' = writers
      BY <2>3 DEF Lock
    <3> QED BY <1>2, <2>1, <2>3, <3>1
  <2> QED BY <2>2, <2>3
<1>5. TypeOK'
  BY <1>1, <1>2, <1>4 DEF IInv, TypeOK, TableSame, heap
<1>6. LockInv'
  <2>1. \A t \in Threads \ {s} : Inside(t)' <=> Inside(t)
    BY <1>3 DEF Inside, Mine
  <2>2. Inside(s)' /\ ~ Inside(s) /\ \A t : Idx(t)' = Idx(t)
    BY <1>1, <1>3 DEF Inside, Idx
  <2>3. pc' \in [Threads -> Labels]
    BY <1>1 DEF IInv, LockInv, Labels
  <2>4. \A t \in Threads : Inside(t) /\ Idx(t) = b => ~ Writes(op[t])
    BY <1>1, <1>2 DEF IInv, LockInv
  <2>5. Writes(op[s]) => \A t \in Threads : Inside(t) => Idx(t) # b
    BY <1>1, <1>2, <2>4 DEF Lock, IInv, LockInv
  <2>6. ASSUME NEW d \in Buckets
        PROVE  /\ readers'[d] = {t \in Threads : Inside(t)' /\ Idx(t) = d /\ ~ Writes(op[t])}
               /\ writers'[d] = {t \in Threads : Inside(t)' /\ Idx(t) = d /\ Writes(op[t])}
    BY <1>1, <1>4, <2>1, <2>2 DEF IInv, LockInv
  <2>7. \A t, u \in Threads :
          t # u /\ Inside(t)' /\ Inside(u)' /\ Idx(t) = Idx(u) => ~ Writes(op[t])
    BY <2>1, <2>2, <2>4, <2>5 DEF IInv, LockInv
  <2> QED BY <1>1, <2>2, <2>3, <2>6, <2>7 DEF LockInv
<1>7. Knows(s)'
  <2>1. prev'[s] = NULL /\ Idx(s)' = b /\ buckets'[b] = buckets[b]
        /\ Walk(b)' = Walk(b) /\ Chain(b)' = Chain(b)
    BY <1>1, SameWalks DEF IInv, Knows, Inside, Idx
  <2>2. Walk(b)[0] = buckets[b] /\ 0 \in 0 .. Size
    BY <1>2, WalkSteps, SizeType DEF IInv
  <2>3. buckets[b] # NULL => buckets[b] \in Chain(b)
    BY <1>2, <2>2, WalkSteps DEF IInv
  <2>4. Passed(s)'
    BY <1>3, <2>1, <2>2 DEF Passed
  <2> QED BY <1>3, <2>1, <2>3, <2>4 DEF Knows, InHand
<1> QED BY <1>1, <1>3, <1>5, <1>6, <1>7, QuietStep

LEMMA UnlockStep ==
  ASSUME IInv, NEW s \in Threads, Unlock(s)
  PROVE  IInv'
<1> DEFINE b == Idx(s)
<1>1. /\ pc[s] = "unlock" /\ pc' = [pc EXCEPT ![s] = "idle"]
      /\ readers' = [readers EXCEPT ![b] = @ \ {s}]
      /\ writers' = [writers EXCEPT ![b] = @ \ {s}]
      /\ node' = [node EXCEPT ![s] = NULL] /\ prev' = [prev EXCEPT ![s] = NULL]
      /\ ret' = [ret EXCEPT ![s] = 0] /\ dst' = [dst EXCEPT ![s] = NULL]
      /\ TableSame /\ UNCHANGED op
  BY DEF Unlock, TableSame
<1>2. b \in Buckets
  <2>1. op \in [Threads -> Operations]
    BY DEF IInv, TypeOK
  <2> QED BY <2>1, IdxType
<1>3. pc'[s] = "idle" /\ prev'[s] = NULL /\ Mine(s)
  BY <1>1 DEF IInv, LockInv, TypeOK, Mine
<1>4. TypeOK'
  BY <1>1, <1>2 DEF IInv, TypeOK, TableSame, heap
<1>5. LockInv'
  <2>1. \A t \in Threads \ {s} : Inside(t)' <=> Inside(t)
    BY <1>3 DEF Inside, Mine
  <2>2. ~ Inside(s)' /\ Inside(s) /\ \A t : Idx(t)' = Idx(t)
    BY <1>1, <1>3 DEF Inside, Idx
  <2>3. pc' \in [Threads -> Labels]
    BY <1>1 DEF IInv, LockInv, Labels
  <2>4. \A d \in Buckets :
          /\ readers'[d] = IF d = b THEN readers[d] \ {s} ELSE readers[d]
          /\ writers'[d] = IF d = b THEN writers[d] \ {s} ELSE writers[d]
    BY <1>1, <1>2 DEF IInv, TypeOK
  <2>5. ASSUME NEW d \in Buckets
        PROVE  /\ readers'[d] = {t \in Threads : Inside(t)' /\ Idx(t) = d /\ ~ Writes(op[t])}
               /\ writers'[d] = {t \in Threads : Inside(t)' /\ Idx(t) = d /\ Writes(op[t])}
    <3>1. /\ readers[d] = {t \in Threads : Inside(t) /\ Idx(t) = d /\ ~ Writes(op[t])}
          /\ writers[d] = {t \in Threads : Inside(t) /\ Idx(t) = d /\ Writes(op[t])}
      BY DEF IInv, LockInv
    <3>2. \A t \in Threads : Inside(t)' <=> Inside(t) /\ t # s
      BY <2>1, <2>2
    <3> QED BY <2>4, <3>1, <3>2
  <2>6. \A t, u \in Threads :
          t # u /\ Inside(t)' /\ Inside(u)' /\ Idx(t) = Idx(u) => ~ Writes(op[t])
    BY <2>1, <2>2 DEF IInv, LockInv
  <2> QED BY <1>1, <2>2, <2>3, <2>5, <2>6 DEF LockInv
<1>6. Knows(s)'
  BY <1>3 DEF Knows, Inside, InHand
<1> QED BY <1>1, <1>3, <1>4, <1>5, <1>6, QuietStep

LEMMA AdvanceStep ==
  ASSUME IInv, NEW s \in Threads, Advance(s)
  PROVE  IInv'
<1> DEFINE b == Idx(s)
<1>1. /\ pc[s] = "search" /\ pc' = pc /\ node[s] # NULL /\ ~ AtKey(s)
      /\ node' = [node EXCEPT ![s] = next[node[s]]]
      /\ prev' = IF op[s].name = "delete" THEN [prev EXCEPT ![s] = node[s]] ELSE prev
      /\ TableSame /\ UNCHANGED <<locks, op, ret, dst>>
  BY DEF Advance, AtEnd, TableSame
<1>2. b \in Buckets /\ op[s].name \in {"insert", "update", "read", "delete"}
  <2>1. op \in [Threads -> Operations]
    BY DEF IInv, TypeOK
  <2> QED BY <2>1, IdxType
<1>3. node[s] \in Chain(b) /\ node[s] \in Nodes
  BY <1>1, <1>2, ChainTypes DEF IInv, Knows
<1>4. node'[s] = next[node[s]] /\ Mine(s)
  BY <1>1 DEF IInv, TypeOK, Mine
<1>5. prev'[s] = IF op[s].name = "delete" THEN node[s] ELSE NULL
  BY <1>1 DEF IInv, TypeOK, Knows
<1>6. TypeOK'
  <2>1. node' \in [Threads -> Nodes \cup {NULL}] /\ prev' \in [Threads -> Nodes \cup {NULL}]
    BY <1>1, <1>3 DEF IInv, TypeOK
  <2> QED BY <1>1, <2>1 DEF IInv, TypeOK, TableSame, heap, locks
<1>7. LockInv'
  <2>1. pc' = [pc EXCEPT ![s] = pc'[s]] /\ pc'[s] \in Labels \ {"idle", "lock"} /\ Inside(s)
    BY <1>1 DEF IInv, LockInv, Inside, Labels
  <2> QED BY <1>1, <2>1, LockStays
<1>8. Knows(s)'
  <2>1. /\ Idx(s)' = b /\ pc'[s] = "search" /\ op' = op /\ Inside(s)'
        /\ buckets' = buckets /\ key' = key /\ value' = value /\ next' = next
        /\ Walk(b)' = Walk(b) /\ Chain(b)' = Chain(b)
    BY <1>1, SameWalks DEF Idx, Inside, TableSame, heap
  <2>2. PICK i \in 0 .. Size : i < Size /\ Walk(b)[i] = node[s] /\ Walk(b)[i + 1] = next[node[s]]
    BY <1>2, <1>3, WalkSteps DEF IInv
  <2>3. i + 1 \in 0 .. Size
    BY <2>2, SizeType
  <2>4. next[node[s]] # NULL => next[node[s]] \in Chain(b)
    BY <1>2, <2>2, <2>3, WalkSteps DEF IInv
  <2>5. Passed(s)'
    <3>1. PICK k \in 0 .. Size :
            /\ node[s] = Walk(b)[k]
            /\ \A j \in 0 .. k - 1 : Walk(b)[j] # NULL => key[Walk(b)[j]] # op[s].key
      BY <1>1 DEF IInv, Knows, Passed
    <3>2. k = i
      BY <1>1, <1>2, <2>2, <3>1, WalkSteps DEF IInv
    <3>3. key[Walk(b)[i]] # op[s].key
      BY <1>1, <2>2 DEF AtKey
    <3>4. \A j \in 0 .. (i + 1) - 1 : j = i \/ j \in 0 .. i - 1
      OBVIOUS
    <3>5. \A j \in 0 .. (i + 1) - 1 : Walk(b)[j] # NULL => key[Walk(b)[j]] # op[s].key
      BY <3>1, <3>2, <3>3, <3>4
    <3>6. node'[s] = Walk(b)'[i + 1]
      BY <1>4, <2>1, <2>2
    <3> QED BY <2>1, <2>3, <3>5, <3>6 DEF Passed
  <2>6. prev'[s] # NULL => prev'[s] \in Chain(b) /\ next[prev'[s]] = node'[s]
    BY <1>3, <1>4, <1>5
  <2>7. op[s].name = "delete" => prev'[s] # NULL
    BY <1>1, <1>5
  <2> QED BY <1>4, <1>5, <2>1, <2>4, <2>5, <2>6, <2>7 DEF Knows, InHand
<1> QED BY <1>1, <1>4, <1>6, <1>7, <1>8, QuietStep

\* The steps that only set the return value.
LEMMA ReturnStep ==
  ASSUME IInv, NEW s \in Threads, Refuse(s) \/ OutOfMemory(s) \/ ReadCopy(s)
  PROVE  IInv'
<1>1. /\ pc[s] = "search" /\ pc' = [pc EXCEPT ![s] = "unlock"]
      /\ TableSame /\ UNCHANGED <<locks, op, node, prev>>
  BY DEF Refuse, OutOfMemory, ReadCopy, Return, In, TableSame
<1>2. pc'[s] = "unlock" /\ Mine(s)
  BY <1>1 DEF IInv, LockInv, Mine
<1>3. ret' \in [Threads -> {-1, 0, 1}]
  BY DEF IInv, TypeOK, Refuse, OutOfMemory, ReadCopy, Return
<1>4. dst' \in [Threads -> Values \cup {NULL}]
  <2>1. CASE Refuse(s) \/ OutOfMemory(s)
    BY <2>1 DEF IInv, TypeOK, Refuse, OutOfMemory
  <2>2. CASE ReadCopy(s)
    <3>1. /\ dst' = [dst EXCEPT ![s] = value[node[s]]] /\ node[s] # NULL
          /\ op[s].name = "read"
      BY <2>2 DEF ReadCopy, AtKey, In
    <3>2. op \in [Threads -> Operations]
      BY DEF IInv, TypeOK
    <3>3. node[s] \in Chain(Idx(s)) /\ Idx(s) \in Buckets
      BY <1>1, <3>1, <3>2, IdxType DEF IInv, Knows
    <3>4. node[s] \in Nodes
      BY <3>3, ChainTypes DEF IInv
    <3>5. value[node[s]] \notin {NULL, Freed}
      <4>1. SUFFICES ASSUME value[node[s]] = Freed PROVE FALSE
        BY <3>3 DEF IInv, ValueInv, ValueAt
      <4>2. PICK t \in Threads : pc[t] = "assign" /\ node[t] = node[s]
        BY <3>3, <4>1 DEF IInv, ValueInv, ValueAt
      <4>3. op[t].name = "update" /\ node[t] \in Chain(Idx(t)) /\ Idx(t) \in Buckets
        BY <3>2, <4>2, IdxType DEF IInv, Knows
      <4>4. Idx(t) = Idx(s)
        BY <3>3, <4>2, <4>3, ChainsApart DEF IInv
      <4> QED BY <1>1, <3>1, <4>2, <4>3, <4>4 DEF IInv, LockInv, Inside, Writes
    <3> QED BY <3>1, <3>4, <3>5 DEF IInv, TypeOK
  <2> QED BY <2>1, <2>2
<1>5. TypeOK'
  BY <1>1, <1>3, <1>4 DEF IInv, TypeOK, TableSame, heap, locks
<1>6. LockInv'
  <2>1. pc' = [pc EXCEPT ![s] = pc'[s]] /\ pc'[s] \in Labels \ {"idle", "lock"} /\ Inside(s)
    BY <1>1, <1>2 DEF Inside, Labels
  <2> QED BY <1>1, <2>1, LockStays
<1>7. Knows(s)'
  BY <1>1, <1>2 DEF IInv, Knows, Inside, InHand
<1> QED BY <1>1, <1>2, <1>5, <1>6, <1>7, QuietStep

-----------------------------------------------------------------------------
(* Steps that change the table, inside one bucket and by its only writer.  *)

\* Thread s writes to the nodes of M: nodes of its chain, its own, or free ones.
Writing(s, M) ==
  /\ Inside(s) /\ Writes(op[s]) /\ Mine(s) /\ UNCHANGED <<locks, op>>
  /\ pc' = [pc EXCEPT ![s] = pc'[s]] /\ pc'[s] \in Labels \ {"idle", "lock"}
  /\ M \subseteq Nodes
  /\ \A n \in M : n \in Chain(Idx(s)) \/ key[n] = Freed \/ (InHand(s) /\ node[s] = n)
  /\ \A n \in Nodes \ M : key'[n] = key[n] /\ value'[n] = value[n] /\ next'[n] = next[n]
  /\ \A d \in Buckets \ {Idx(s)} :
       buckets'[d] = buckets[d] /\ bucket_sizes'[d] = bucket_sizes[d]

\* The other buckets and the nodes in the hands of others stay as they were.
LEMMA WritingFrame ==
  ASSUME IInv, NEW s \in Threads, NEW M, Writing(s, M)
  PROVE  /\ \A d \in Buckets \ {Idx(s)} :
              /\ Walk(d)' = Walk(d) /\ Chain(d)' = Chain(d)
              /\ Chain(d) \cap M = {} /\ Chain(d) \subseteq Nodes
         /\ \A t \in Threads \ {s} :
              /\ InHand(t)' <=> InHand(t)
              /\ InHand(t) => node[t] \in Nodes \ M
              /\ Inside(t) => Idx(t) # Idx(s)
<1>1. op \in [Threads -> Operations]
  BY DEF IInv, TypeOK
<1>2. \A t \in Threads : Idx(t) \in Buckets
  BY <1>1, IdxType
<1>3. ASSUME NEW d \in Buckets \ {Idx(s)}
      PROVE  /\ Walk(d)' = Walk(d) /\ Chain(d)' = Chain(d)
             /\ Chain(d) \cap M = {} /\ Chain(d) \subseteq Nodes
  <2>1. Chain(d) \subseteq Nodes
    BY ChainTypes DEF IInv
  <2>2. Chain(d) \cap M = {}
    <3>1. SUFFICES ASSUME NEW n \in Chain(d), n \in M PROVE FALSE
      OBVIOUS
    <3>2. key[n] # Freed
      BY DEF IInv, ChainInv, ChainAt
    <3>3. n \notin Chain(Idx(s))
      BY <1>2, ChainsApart DEF IInv
    <3>4. ~ (InHand(s) /\ node[s] = n)
      BY DEF IInv, Knows
    <3> QED BY <3>1, <3>2, <3>3, <3>4 DEF Writing
  <2>3. \A n \in Elems(Path(buckets[d], next)) : next'[n] = next[n]
    BY <2>1, <2>2, WalkIs DEF Writing
  <2>4. Path(buckets[d], next') = Path(buckets[d], next)
    BY <2>3, PathFrame
  <2>5. Walk(d)' = Walk(d)
    BY <2>4, WalkIs DEF Writing
  <2> QED BY <2>1, <2>2, <2>5, WalkIs
<1>4. ASSUME NEW t \in Threads \ {s}
      PROVE  /\ InHand(t)' <=> InHand(t)
             /\ InHand(t) => node[t] \in Nodes \ M
             /\ Inside(t) => Idx(t) # Idx(s)
  <2>1. InHand(t)' <=> InHand(t)
    BY DEF Writing, Mine, InHand
  <2>2. InHand(t) => node[t] \in Nodes \ M
    BY <1>2 DEF Writing, IInv, Knows, HandInv
  <2>3. Inside(t) => Idx(t) # Idx(s)
    BY DEF Writing, IInv, LockInv
  <2> QED BY <2>1, <2>2, <2>3
<1> QED BY <1>3, <1>4

\* So what the writer itself must keep is little.
LEMMA WritingStep ==
  ASSUME IInv, NEW s \in Threads, NEW M, NEW b, b = Idx(s), Writing(s, M), TypeOK',
         Chain(b)' \subseteq Chain(b) \cup M, ChainAt(b)', ValueAt(b)', Knows(s)',
         \A n \in M : value'[n] # Freed => key'[n] # Freed,
         \A n \in Nodes :
           key'[n] # Freed /\ (n \in M \/ n \in Chain(b) \/ (InHand(s) /\ node[s] = n))
             => n \in Chain(b)' \/ (InHand(s)' /\ node'[s] = n),
         InHand(s)' => \/ node'[s] \in M \/ node'[s] \in Chain(b)
                       \/ (InHand(s) /\ node'[s] = node[s])
  PROVE  IInv'
<1>1. op \in [Threads -> Operations] /\ op' = op
  BY DEF IInv, TypeOK, Writing
<1>2. \A t \in Threads : Idx(t) \in Buckets /\ Idx(t)' = Idx(t)
  BY <1>1, IdxType DEF Idx
<1>3. /\ \A d \in Buckets \ {b} :
           /\ Walk(d)' = Walk(d) /\ Chain(d)' = Chain(d)
           /\ Chain(d) \cap M = {} /\ Chain(d) \subseteq Nodes
      /\ \A t \in Threads \ {s} :
           /\ InHand(t)' <=> InHand(t)
           /\ InHand(t) => node[t] \in Nodes \ M
           /\ Inside(t) => Idx(t) # b
  BY WritingFrame
<1>4. \A n \in Nodes \ M : key'[n] = key[n] /\ value'[n] = value[n] /\ next'[n] = next[n]
  BY DEF Writing
<1>5. \A t \in Threads \ {s} : /\ pc'[t] = pc[t] /\ op'[t] = op[t] /\ node'[t] = node[t]
                               /\ prev'[t] = prev[t]
  BY DEF Writing, Mine
<1>6. LockInv'
  BY LockStays DEF Writing
<1>7. ChainInv'
  <2>1. ASSUME NEW d \in Buckets \ {b} PROVE ChainAt(d)'
    <3>1. bucket_sizes'[d] = bucket_sizes[d]
      BY DEF Writing
    <3> QED BY <1>3, <1>4, <3>1 DEF IInv, ChainInv, ChainAt
  <2> QED BY <1>2, <2>1 DEF ChainInv
<1>8. ValueInv'
  <2>1. ASSUME NEW d \in Buckets \ {b} PROVE ValueAt(d)'
    <3>1. SUFFICES ASSUME NEW n \in Chain(d), value[n] = Freed
                   PROVE  \E t \in Threads : pc'[t] = "assign" /\ node'[t] = n
      BY <1>3, <1>4 DEF ValueAt, IInv, ValueInv
    <3>2. PICK t \in Threads : pc[t] = "assign" /\ node[t] = n
      BY <3>1 DEF IInv, ValueInv, ValueAt
    <3>3. t # s
      BY <1>2, <3>2, ChainsApart DEF IInv, Knows
    <3> QED BY <1>5, <3>2, <3>3
  <2> QED BY <1>2, <2>1 DEF ValueInv
<1>9. HandInv'
  <2>1. ASSUME NEW n \in Nodes, key'[n] # Freed
        PROVE  \/ \E d \in Buckets : n \in Chain(d)'
               \/ \E t \in Threads : InHand(t)' /\ node'[t] = n
    <3>1. CASE n \in M \/ n \in Chain(b) \/ (InHand(s) /\ node[s] = n)
      BY <1>2, <2>1, <3>1
    <3>2. CASE ~ (n \in M \/ n \in Chain(b) \/ (InHand(s) /\ node[s] = n))
      <4>1. \/ \E d \in Buckets : n \in Chain(d)
            \/ \E t \in Threads : InHand(t) /\ node[t] = n
        <5>1. key[n] # Freed
          BY <1>4, <2>1, <3>2
        <5> QED BY <5>1 DEF IInv, HandInv
      <4>2. CASE \E d \in Buckets : n \in Chain(d)
        BY <1>3, <3>2, <4>2
      <4>3. CASE \E t \in Threads : InHand(t) /\ node[t] = n
        BY <1>3, <1>5, <3>2, <4>3
      <4> QED BY <4>1, <4>2, <4>3
    <3> QED BY <3>1, <3>2
  <2>2. ASSUME NEW t \in Threads \ {s}, InHand(t)', InHand(s)' PROVE node'[s] # node'[t]
    <3>1. InHand(t) /\ node'[t] = node[t] /\ node[t] \notin M
      BY <1>3, <1>5, <2>2
    <3>2. node[t] \notin Chain(b)
      BY <1>2, <3>1 DEF IInv, Knows
    <3>3. InHand(s) => node[s] # node[t]
      BY <3>1 DEF IInv, HandInv
    <3> QED BY <2>2, <3>1, <3>2, <3>3
  <2>3. \A t, u \in Threads \ {s} :
          InHand(t)' /\ InHand(u)' /\ node'[t] = node'[u] => t = u
    BY <1>3, <1>5 DEF IInv, HandInv
  <2>4. \A t, u \in Threads : InHand(t)' /\ InHand(u)' /\ node'[t] = node'[u] => t = u
    BY <2>2, <2>3
  <2>5. \A n \in Nodes : value'[n] # Freed => key'[n] # Freed
    BY <1>4 DEF IInv, HandInv
  <2> QED BY <2>1, <2>4, <2>5 DEF HandInv
<1>10. ASSUME NEW t \in Threads \ {s} PROVE Knows(t)'
  <2> DEFINE d == Idx(t)
  <2>1. Knows(t)
    BY DEF IInv
  <2>2. /\ d \in Buckets /\ Idx(t)' = d /\ (Inside(t)' <=> Inside(t))
        /\ (InHand(t)' <=> InHand(t))
    BY <1>2, <1>3, <1>5 DEF Inside
  <2>3. CASE ~ Inside(t)
    BY <1>5, <2>1, <2>2, <2>3 DEF Knows, Inside, InHand
  <2>4. CASE Inside(t)
    <3>1. /\ d \in Buckets \ {b} /\ Walk(d)' = Walk(d) /\ Chain(d)' = Chain(d)
          /\ buckets'[d] = buckets[d]
          /\ \A n \in Chain(d) : key'[n] = key[n] /\ value'[n] = value[n] /\ next'[n] = next[n]
      BY <1>3, <1>4, <2>2, <2>4 DEF Writing
    <3>2. Absent(t) => Absent(t)'
      BY <1>5, <2>2, <3>1 DEF Absent
    <3>3. Passed(t) => Passed(t)'
      <4>1. SUFFICES ASSUME Passed(t) PROVE Passed(t)'
        OBVIOUS
      <4>2. PICK i \in 0 .. Size :
              /\ node[t] = Walk(d)[i]
              /\ \A j \in 0 .. i - 1 : Walk(d)[j] # NULL => key[Walk(d)[j]] # op[t].key
        BY <4>1 DEF Passed
      <4>3. \A j \in 0 .. i - 1 : Walk(d)[j] # NULL => Walk(d)[j] \in Chain(d)
        <5>1. \A j \in 0 .. i - 1 : j \in 0 .. Size
          BY SizeType
        <5> QED BY <3>1, <5>1, WalkSteps DEF IInv
      <4>4. \A j \in 0 .. i - 1 : Walk(d)[j] # NULL => key'[Walk(d)[j]] # op[t].key
        BY <3>1, <4>2, <4>3
      <4> QED BY <1>5, <2>2, <3>1, <4>2, <4>4 DEF Passed
    <3>4. InHand(t) => /\ node[t] \in Nodes /\ key'[node[t]] = key[node[t]]
                       /\ value'[node[t]] = value[node[t]] /\ next'[node[t]] = next[node[t]]
                       /\ node[t] \notin M
      BY <1>3, <1>4
    <3>5. InHand(t) => \A e \in Buckets : node[t] \notin Chain(e)'
      <4>1. SUFFICES ASSUME InHand(t), NEW e \in Buckets PROVE node[t] \notin Chain(e)'
        OBVIOUS
      <4>2. node[t] \notin Chain(e) /\ node[t] \notin M
        BY <2>1, <3>4, <4>1 DEF Knows
      <4>3. CASE e = b
        BY <4>2, <4>3
      <4>4. CASE e # b
        BY <1>3, <4>2, <4>4
      <4> QED BY <4>3, <4>4
    <3> QED BY <1>5, <2>1, <2>2, <2>4, <3>1, <3>2, <3>3, <3>4, <3>5 DEF Knows, InHand
  <2> QED BY <2>3, <2>4
<1> QED BY <1>6, <1>7, <1>8, <1>9, <1>10 DEF IInv

LEMMA WalkStays ==
  ASSUME NEW b, buckets'[b] = buckets[b], \A n \in Chain(b) : next'[n] = next[n]
  PROVE  Walk(b)' = Walk(b) /\ Chain(b)' = Chain(b)
<1>1. \A n \in Elems(Path(buckets[b], next)) : next'[n] = next[n]
  BY WalkIs
<1>2. Path(buckets[b], next') = Path(buckets[b], next)
  BY <1>1, PathFrame
<1> QED BY <1>2, WalkIs

\* What holds of a bucket when one of those inside is about to act.
LEMMA WriterFacts ==
  ASSUME IInv, NEW s \in Threads, Inside(s)
  PROVE  /\ Idx(s) \in Buckets /\ Chain(Idx(s)) \subseteq Nodes
         /\ Knows(s) /\ ChainAt(Idx(s)) /\ ValueAt(Idx(s))
         /\ pc \in [Threads -> Labels]
         /\ op[s].key \in Keys /\ op[s].key # Freed /\ op[s].key # NULL
         /\ op[s].name \in {"insert", "update"} => op[s].value \in Values
                                                   /\ op[s].value # Freed
                                                   /\ op[s].value # NULL
<1>1. op \in [Threads -> Operations]
  BY DEF IInv, TypeOK
<1>2. /\ Idx(s) \in Buckets /\ op[s].key \in Keys
      /\ op[s].name \in {"insert", "update"} => op[s].value \in Values
  BY <1>1, IdxType
<1>3. Chain(Idx(s)) \subseteq Nodes
  BY <1>2, ChainTypes DEF IInv
<1> QED BY <1>2, <1>3, Addresses, NullProper DEF IInv, LockInv, ChainInv, ValueInv

\* At the end of a search the key is not in the bucket.
LEMMA EndAbsent ==
  ASSUME IInv, NEW s \in Threads, pc[s] = "search", AtEnd(s)
  PROVE  Absent(s)
<1>1. PICK b \in Buckets : b = Idx(s)
  BY WriterFacts DEF Inside
<1>2. SUFFICES ASSUME NEW m \in Chain(b) PROVE key[m] # op[s].key
  BY <1>1 DEF Absent
<1>3. PICK i \in 0 .. Size :
        /\ node[s] = Walk(b)[i]
        /\ \A j \in 0 .. i - 1 : Walk(b)[j] # NULL => key[Walk(b)[j]] # op[s].key
  BY <1>1 DEF IInv, Knows, Passed
<1>4. PICK j \in 0 .. Size : Walk(b)[j] = m
  BY WalkSteps DEF IInv
<1>5. m # NULL
  BY ChainTypes DEF IInv
<1>6. ~ (i <= j)
  BY <1>3, <1>4, <1>5, WalkSteps DEF IInv, AtEnd
<1>7. j \in 0 .. i - 1
  BY <1>6, SizeType
<1> QED BY <1>3, <1>4, <1>5, <1>7

LEMMA InsertBuildStep ==
  ASSUME IInv, NEW s \in Threads, InsertBuild(s)
  PROVE  /\ IInv' /\ Writing(s, {node'[s]})
         /\ \A b : b = Idx(s) => Chain(b)' = Chain(b) /\ node'[s] \notin Chain(b)
<1>1. PICK n \in Nodes, k \in {op[s].key, NULL}, v \in {op[s].value, NULL} :
        /\ key[n] = Freed
        /\ key' = [key EXCEPT ![n] = k]
        /\ value' = [value EXCEPT ![n] = v]
        /\ pc' = [pc EXCEPT ![s] = IF NULL \in {k, v} THEN "undo" ELSE "link"]
        /\ next' = [next EXCEPT ![n] = NULL]
        /\ node' = [node EXCEPT ![s] = n]
  BY DEF InsertBuild
<1>2. /\ pc[s] = "search" /\ op[s].name = "insert" /\ node[s] = NULL
      /\ UNCHANGED <<buckets, bucket_sizes, locks, op, prev, ret, dst>>
  BY DEF InsertBuild, In, AtEnd
<1>3. PICK b \in Buckets : b = Idx(s)
  BY <1>2, WriterFacts DEF Inside
<1>4. /\ Chain(b) \subseteq Nodes /\ Knows(s) /\ ChainAt(b) /\ ValueAt(b)
      /\ pc \in [Threads -> Labels]
      /\ op[s].key \in Keys /\ op[s].value \in Values /\ k # Freed
  BY <1>1, <1>2, <1>3, WriterFacts, NullProper DEF Inside
<1>5. TypeOK'
  BY <1>1, <1>2, <1>4 DEF IInv, TypeOK, locks
<1>6. /\ key'[n] = k /\ value'[n] = v /\ node'[s] = n
      /\ pc'[s] = IF NULL \in {k, v} THEN "undo" ELSE "link"
      /\ pc' = [pc EXCEPT ![s] = pc'[s]]
      /\ \A m \in Nodes \ {n} : key'[m] = key[m] /\ value'[m] = value[m] /\ next'[m] = next[m]
  BY <1>1, <1>2, <1>4 DEF IInv, TypeOK
<1>7. Mine(s)
  BY <1>1, <1>2, <1>4 DEF IInv, TypeOK, Mine
<1>8. Writing(s, {n})
  <2>1. pc'[s] \in Labels \ {"idle", "lock"}
    BY <1>6 DEF Labels
  <2> QED BY <1>1, <1>2, <1>6, <1>7, <2>1 DEF Writing, Inside, Writes
<1>9. \A d \in Buckets : n \notin Chain(d)
  BY <1>1 DEF IInv, ChainInv, ChainAt
<1>10. Walk(b)' = Walk(b) /\ Chain(b)' = Chain(b)
  <2>1. \A m \in Chain(b) : next'[m] = next[m]
    BY <1>3, <1>4, <1>6, <1>9
  <2> QED BY <1>2, <2>1, WalkStays
<1>11. \A m \in Chain(b) : key'[m] = key[m] /\ value'[m] = value[m]
  BY <1>3, <1>4, <1>6, <1>9
<1>12. ChainAt(b)'
  BY <1>2, <1>4, <1>10, <1>11 DEF ChainAt
<1>13. ValueAt(b)'
  <2>1. \A t \in Threads : pc[t] = "assign" => pc'[t] = "assign" /\ node'[t] = node[t]
    BY <1>2, <1>7 DEF Mine
  <2> QED BY <1>4, <1>10, <1>11, <2>1 DEF ValueAt
<1>14. Knows(s)'
  <2>1. \A m \in Chain(b) : key[m] # op[s].key
    BY <1>2, <1>3, EndAbsent DEF Absent, AtEnd
  <2>2. Idx(s)' = b /\ op' = op /\ prev' = prev
    BY <1>2, <1>3 DEF Idx
  <2>3. Absent(s)'
    BY <1>10, <1>11, <2>1, <2>2 DEF Absent
  <2>4. \A d \in Buckets : n \notin Chain(d)'
    <3>1. \A d \in Buckets \ {b} : Chain(d)' = Chain(d)
      BY <1>3, <1>8, WritingFrame
    <3> QED BY <1>9, <1>10, <3>1
  <2>5. prev'[s] = NULL
    BY <1>2, <1>4, <2>2 DEF Knows
  <2>6. /\ pc'[s] \in {"undo", "link"}
        /\ pc'[s] = "link" => key'[n] = op[s].key /\ value'[n] = op[s].value
    BY <1>1, <1>6
  <2> QED BY <1>2, <1>4, <1>6, <2>2, <2>3, <2>4, <2>5, <2>6 DEF Knows, InHand
<1>15. InHand(s)' /\ ~ InHand(s) /\ key'[n] # Freed
  BY <1>2, <1>4, <1>6 DEF InHand
<1>16. IInv'
  BY <1>3, <1>5, <1>6, <1>8, <1>10, <1>12, <1>13, <1>14, <1>15, WritingStep
<1> QED BY <1>2, <1>3, <1>4, <1>6, <1>8, <1>9, <1>10, <1>16

LEMMA InsertUndoStep ==
  ASSUME IInv, NEW s \in Threads, InsertUndo(s)
  PROVE  /\ IInv' /\ Writing(s, {node[s]})
         /\ \A b : b = Idx(s) => Chain(b)' = Chain(b)
<1>1. /\ pc[s] = "undo" /\ pc' = [pc EXCEPT ![s] = "unlock"]
      /\ key' = [key EXCEPT ![node[s]] = Freed]
      /\ value' = [value EXCEPT ![node[s]] = Freed]
      /\ ret' = [ret EXCEPT ![s] = -1]
      /\ UNCHANGED <<buckets, bucket_sizes, next, locks, op, node, prev, dst>>
  BY DEF InsertUndo, Return
<1>2. PICK b \in Buckets : b = Idx(s)
  BY <1>1, WriterFacts DEF Inside
<1>3. /\ Chain(b) \subseteq Nodes /\ Knows(s) /\ ChainAt(b) /\ ValueAt(b)
      /\ pc \in [Threads -> Labels]
  BY <1>1, <1>2, WriterFacts DEF Inside
<1>4. /\ node[s] \in Nodes /\ node[s] \notin Chain(b) /\ op[s].name = "insert" /\ InHand(s)
      /\ prev[s] = NULL
  BY <1>1, <1>3 DEF Knows, InHand
<1>5. TypeOK'
  BY <1>1, <1>4 DEF IInv, TypeOK, locks
<1>6. /\ pc'[s] = "unlock" /\ key'[node[s]] = Freed /\ value'[node[s]] = Freed
      /\ \A m \in Nodes \ {node[s]} :
           key'[m] = key[m] /\ value'[m] = value[m] /\ next'[m] = next[m]
  BY <1>1, <1>3, <1>4 DEF IInv, TypeOK
<1>7. Mine(s)
  BY <1>1, <1>3 DEF Mine
<1>8. Writing(s, {node[s]})
  BY <1>1, <1>4, <1>6, <1>7 DEF Writing, Inside, Writes, Labels
<1>9. \A m \in Chain(b) : key'[m] = key[m] /\ value'[m] = value[m] /\ next'[m] = next[m]
  BY <1>3, <1>4, <1>6
<1>10. Walk(b)' = Walk(b) /\ Chain(b)' = Chain(b)
  BY <1>1, <1>9, WalkStays
<1>11. ChainAt(b)'
  BY <1>1, <1>3, <1>9, <1>10 DEF ChainAt
<1>12. ValueAt(b)'
  <2>1. \A t \in Threads : pc[t] = "assign" => pc'[t] = "assign" /\ node'[t] = node[t]
    BY <1>1, <1>7 DEF Mine
  <2> QED BY <1>3, <1>9, <1>10, <2>1 DEF ValueAt
<1>13. Knows(s)'
  BY <1>1, <1>4, <1>6 DEF Knows, InHand, Inside
<1>14. ~ InHand(s)'
  BY <1>6 DEF InHand
<1>15. IInv'
  BY <1>2, <1>5, <1>6, <1>8, <1>10, <1>11, <1>12, <1>13, <1>14, WritingStep
<1> QED BY <1>2, <1>3, <1>4, <1>8, <1>10, <1>15

LEMMA InsertLinkStep ==
  ASSUME IInv, NEW s \in Threads, InsertLink(s)
  PROVE  /\ IInv' /\ Writing(s, {node[s]})
         /\ \A b : b = Idx(s) => Chain(b)' = Chain(b)
<1>1. /\ pc[s] = "link" /\ pc' = [pc EXCEPT ![s] = "publish"]
      /\ next' = [next EXCEPT ![node[s]] = buckets[Idx(s)]]
      /\ UNCHANGED <<buckets, bucket_sizes, key, value, locks, op, node, prev, ret, dst>>
  BY DEF InsertLink
<1>2. PICK b \in Buckets : b = Idx(s)
  BY <1>1, WriterFacts DEF Inside
<1>3. /\ Chain(b) \subseteq Nodes /\ Knows(s) /\ ChainAt(b) /\ ValueAt(b)
      /\ pc \in [Threads -> Labels]
  BY <1>1, <1>2, WriterFacts DEF Inside
<1>4. /\ node[s] \in Nodes /\ key[node[s]] # Freed /\ op[s].name = "insert"
      /\ \A d \in Buckets : node[s] \notin Chain(d)
      /\ InHand(s)
  BY <1>1, <1>3 DEF Knows, InHand
<1>5. TypeOK'
  BY <1>1, <1>2, <1>4 DEF IInv, TypeOK, locks
<1>6. /\ next'[node[s]] = buckets[b] /\ pc'[s] = "publish"
      /\ \A m \in Nodes \ {node[s]} : next'[m] = next[m]
  BY <1>1, <1>2, <1>3, <1>4 DEF IInv, TypeOK
<1>7. Mine(s)
  BY <1>1, <1>3 DEF IInv, TypeOK, Mine
<1>8. Writing(s, {node[s]})
  BY <1>1, <1>4, <1>6, <1>7 DEF Writing, Inside, Writes, Labels
<1>9. Walk(b)' = Walk(b) /\ Chain(b)' = Chain(b)
  <2>1. \A m \in Chain(b) : next'[m] = next[m]
    BY <1>2, <1>3, <1>4, <1>6
  <2> QED BY <1>1, <2>1, WalkStays
<1>10. ChainAt(b)'
  BY <1>1, <1>3, <1>9 DEF ChainAt
<1>11. ValueAt(b)'
  <2>1. \A t \in Threads : pc[t] = "assign" => pc'[t] = "assign" /\ node'[t] = node[t]
    BY <1>1, <1>7 DEF Mine
  <2> QED BY <1>1, <1>3, <1>9, <2>1 DEF ValueAt
<1>12. Knows(s)'
  <2>1. Idx(s)' = b
    BY <1>1, <1>2 DEF Idx
  <2>2. Absent(s)'
    BY <1>1, <1>2, <1>3, <1>9, <2>1 DEF Absent, Knows
  <2>3. \A d \in Buckets : node[s] \notin Chain(d)'
    <3>1. \A d \in Buckets \ {b} : Chain(d)' = Chain(d)
      BY <1>2, <1>8, WritingFrame
    <3> QED BY <1>4, <1>9, <3>1
  <2>4. key[node[s]] = op[s].key /\ value[node[s]] = op[s].value /\ prev[s] = NULL
    BY <1>1, <1>3, <1>4 DEF Knows
  <2> QED BY <1>1, <1>4, <1>6, <2>1, <2>2, <2>3, <2>4 DEF Knows, InHand
<1>13. InHand(s)' /\ key'[node[s]] # Freed
  BY <1>1, <1>4, <1>6 DEF InHand
<1>14. IInv'
  BY <1>1, <1>2, <1>4, <1>5, <1>8, <1>9, <1>10, <1>11, <1>12, <1>13, WritingStep
<1> QED BY <1>2, <1>3, <1>4, <1>8, <1>9, <1>14

LEMMA InsertPublishStep ==
  ASSUME IInv, NEW s \in Threads, InsertPublish(s)
  PROVE  /\ IInv' /\ Writing(s, {node[s]})
         /\ \A b : b = Idx(s) => Chain(b)' = Chain(b) \cup {node[s]}
<1>1. /\ pc[s] = "publish" /\ pc' = [pc EXCEPT ![s] = "unlock"]
      /\ buckets' = [buckets EXCEPT ![Idx(s)] = node[s]]
      /\ bucket_sizes' = [bucket_sizes EXCEPT ![Idx(s)] = @ + 1]
      /\ ret' = [ret EXCEPT ![s] = 1]
      /\ UNCHANGED <<key, value, next, locks, op, node, prev, dst>>
  BY DEF InsertPublish, Return, heap
<1>2. PICK b \in Buckets : b = Idx(s)
  BY <1>1, WriterFacts DEF Inside
<1>3. /\ Chain(b) \subseteq Nodes /\ Knows(s) /\ ChainAt(b) /\ ValueAt(b)
      /\ pc \in [Threads -> Labels]
  BY <1>1, <1>2, WriterFacts DEF Inside
<1>4. /\ node[s] \in Nodes /\ key[node[s]] = op[s].key /\ op[s].name = "insert"
      /\ key[node[s]] # Freed /\ value[node[s]] \notin {NULL, Freed}
      /\ node[s] \notin Chain(b) /\ next[node[s]] = buckets[b]
      /\ \A n \in Chain(b) : key[n] # op[s].key
      /\ InHand(s) /\ prev[s] = NULL
  <2>1. op[s].name = "insert" /\ value[node[s]] = op[s].value
    BY <1>1, <1>3 DEF Knows
  <2>2. op[s].value \notin {NULL, Freed}
    BY <1>1, <2>1, WriterFacts DEF Inside
  <2> QED BY <1>1, <1>2, <1>3, <2>1, <2>2 DEF Knows, InHand, Absent
<1>5. TypeOK'
  <2>1. buckets' \in [Buckets -> Nodes \cup {NULL}]
    BY <1>1, <1>4 DEF IInv, TypeOK
  <2>2. bucket_sizes' \in [Buckets -> Nat]
    <3>1. bucket_sizes \in [Buckets -> Nat] /\ Idx(s) \in Buckets
      BY <1>2 DEF IInv, TypeOK
    <3>2. bucket_sizes[Idx(s)] + 1 \in Nat
      BY <3>1
    <3> QED BY <1>1, <3>1, <3>2
  <2>3. ret' \in [Threads -> {-1, 0, 1}]
    BY <1>1 DEF IInv, TypeOK
  <2> QED BY <1>1, <2>1, <2>2, <2>3 DEF IInv, TypeOK, locks
<1>6. /\ buckets'[b] = node[s] /\ bucket_sizes'[b] = bucket_sizes[b] + 1 /\ pc'[s] = "unlock"
      /\ \A d \in Buckets \ {b} : buckets'[d] = buckets[d] /\ bucket_sizes'[d] = bucket_sizes[d]
  BY <1>1, <1>2, <1>3 DEF IInv, TypeOK
<1>7. Mine(s)
  BY <1>1, <1>3 DEF Mine
<1>8. Writing(s, {node[s]})
  BY <1>1, <1>2, <1>4, <1>6, <1>7 DEF Writing, Inside, Writes, Labels
<1>9. Simple(Walk(b)', bucket_sizes[b] + 1) /\ Chain(b)' = Chain(b) \cup {node[s]}
  <2>1. Walk(b) = Path(buckets[b], next) /\ Chain(b) = Elems(Walk(b))
    BY WalkIs
  <2>2. Walk(b)' = Path(node[s], next) /\ Chain(b)' = Elems(Walk(b)')
    BY <1>1, <1>6, WalkIs
  <2>3. /\ Simple(Path(buckets[b], next), bucket_sizes[b])
        /\ node[s] \notin Elems(Path(buckets[b], next))
    BY <1>3, <1>4, <2>1 DEF ChainAt
  <2>4. /\ Simple(Path(node[s], next), bucket_sizes[b] + 1)
        /\ Elems(Path(node[s], next)) = Elems(Path(buckets[b], next)) \cup {node[s]}
    BY <1>4, <2>3, PathPush
  <2> QED BY <2>1, <2>2, <2>4
<1>10. ChainAt(b)'
  <2>1. hash(key[node[s]]) = b /\ key[node[s]] \in Keys \ {Freed}
    BY <1>1, <1>2, <1>4, WriterFacts DEF Idx, Inside
  <2>2. \A n \in Chain(b) : key[n] # key[node[s]]
    BY <1>4
  <2> QED BY <1>1, <1>3, <1>4, <1>6, <1>9, <2>1, <2>2 DEF ChainAt
<1>11. ValueAt(b)'
  <2>1. \A t \in Threads : pc[t] = "assign" => pc'[t] = "assign" /\ node'[t] = node[t]
    BY <1>1, <1>7 DEF Mine
  <2> QED BY <1>1, <1>3, <1>4, <1>9, <2>1 DEF ValueAt
<1>12. Knows(s)'
  BY <1>1, <1>4, <1>6 DEF Knows, InHand
<1>13. ~ InHand(s)' /\ key'[node[s]] # Freed
  BY <1>1, <1>4, <1>6 DEF InHand
<1>14. IInv'
  BY <1>2, <1>5, <1>8, <1>9, <1>10, <1>11, <1>12, <1>13, WritingStep
<1> QED BY <1>2, <1>3, <1>4, <1>8, <1>9, <1>14

LEMMA UpdateFreeStep ==
  ASSUME IInv, NEW s \in Threads, UpdateFree(s)
  PROVE  /\ IInv' /\ Writing(s, {node[s]})
         /\ \A b : b = Idx(s) => Chain(b)' = Chain(b)
<1>1. /\ pc[s] = "search" /\ pc' = [pc EXCEPT ![s] = "assign"]
      /\ op[s].name = "update" /\ node[s] # NULL /\ key[node[s]] = op[s].key
      /\ value' = [value EXCEPT ![node[s]] = Freed]
      /\ UNCHANGED <<buckets, bucket_sizes, key, next, locks, op, node, prev, ret, dst>>
  BY DEF UpdateFree, In, AtKey
<1>2. PICK b \in Buckets : b = Idx(s)
  BY <1>1, WriterFacts DEF Inside
<1>3. /\ Chain(b) \subseteq Nodes /\ Knows(s) /\ ChainAt(b) /\ ValueAt(b)
      /\ pc \in [Threads -> Labels]
  BY <1>1, <1>2, WriterFacts DEF Inside
<1>4. node[s] \in Chain(b) /\ node[s] \in Nodes /\ prev[s] = NULL
  BY <1>1, <1>2, <1>3 DEF Knows
<1>5. TypeOK'
  BY <1>1, <1>4 DEF IInv, TypeOK, locks
<1>6. /\ pc'[s] = "assign" /\ value'[node[s]] = Freed
      /\ \A m \in Nodes \ {node[s]} : value'[m] = value[m]
  BY <1>1, <1>3, <1>4 DEF IInv, TypeOK
<1>7. Mine(s)
  BY <1>1, <1>3 DEF Mine
<1>8. Writing(s, {node[s]})
  BY <1>1, <1>2, <1>4, <1>6, <1>7 DEF Writing, Inside, Writes, Labels
<1>9. Walk(b)' = Walk(b) /\ Chain(b)' = Chain(b)
  BY <1>1, WalkStays
<1>10. ChainAt(b)'
  BY <1>1, <1>3, <1>9 DEF ChainAt
<1>11. ValueAt(b)'
  <2>1. \A t \in Threads : pc[t] = "assign" => pc'[t] = "assign" /\ node'[t] = node[t]
    BY <1>1, <1>7 DEF Mine
  <2> QED BY <1>1, <1>3, <1>4, <1>6, <1>9, <2>1, NullProper DEF ValueAt
<1>12. Knows(s)'
  <2>1. Idx(s)' = b
    BY <1>1, <1>2 DEF Idx
  <2> QED BY <1>1, <1>4, <1>6, <1>9, <2>1 DEF Knows, InHand
<1>13. ~ InHand(s)' /\ ~ InHand(s)
  BY <1>1, <1>6 DEF InHand
<1>14. IInv'
  BY <1>1, <1>2, <1>4, <1>5, <1>6, <1>8, <1>9, <1>10, <1>11, <1>12, <1>13, WritingStep
<1> QED BY <1>2, <1>3, <1>4, <1>8, <1>9, <1>14

LEMMA UpdateAssignStep ==
  ASSUME IInv, NEW s \in Threads, UpdateAssign(s)
  PROVE  /\ IInv' /\ Writing(s, {node[s]})
         /\ \A b : b = Idx(s) => Chain(b)' = Chain(b)
<1>1. /\ pc[s] = "assign" /\ pc' = [pc EXCEPT ![s] = "unlock"]
      /\ value' = [value EXCEPT ![node[s]] = op[s].value]
      /\ ret' = [ret EXCEPT ![s] = 1]
      /\ UNCHANGED <<buckets, bucket_sizes, key, next, locks, op, node, prev, dst>>
  BY DEF UpdateAssign, Return
<1>2. PICK b \in Buckets : b = Idx(s)
  BY <1>1, WriterFacts DEF Inside
<1>3. /\ Chain(b) \subseteq Nodes /\ Knows(s) /\ ChainAt(b) /\ ValueAt(b)
      /\ pc \in [Threads -> Labels]
  BY <1>1, <1>2, WriterFacts DEF Inside
<1>4. /\ node[s] \in Chain(b) /\ node[s] \in Nodes
      /\ op[s].name = "update"
  BY <1>1, <1>2, <1>3 DEF Knows
<1>5. op[s].value \in Values /\ op[s].value \notin {NULL, Freed} /\ prev[s] = NULL
  BY <1>1, <1>3, <1>4, WriterFacts DEF Inside, Knows
<1>6. TypeOK'
  BY <1>1, <1>4, <1>5 DEF IInv, TypeOK, locks
<1>7. /\ pc'[s] = "unlock" /\ value'[node[s]] = op[s].value
      /\ \A m \in Nodes \ {node[s]} : value'[m] = value[m]
  BY <1>1, <1>3, <1>4 DEF IInv, TypeOK
<1>8. Mine(s)
  BY <1>1, <1>3 DEF Mine
<1>9. Writing(s, {node[s]})
  BY <1>1, <1>2, <1>4, <1>7, <1>8 DEF Writing, Inside, Writes, Labels
<1>10. Walk(b)' = Walk(b) /\ Chain(b)' = Chain(b)
  BY <1>1, WalkStays
<1>11. ChainAt(b)'
  BY <1>1, <1>3, <1>10 DEF ChainAt
<1>12. ValueAt(b)'
  <2>1. SUFFICES ASSUME NEW n \in Chain(b), value'[n] = Freed
                 PROVE  \E t \in Threads : pc'[t] = "assign" /\ node'[t] = n
    BY <1>3, <1>4, <1>5, <1>7, <1>10 DEF ValueAt
  <2>2. n # node[s] /\ value[n] = Freed
    BY <1>3, <1>5, <1>7, <2>1
  <2>3. PICK t \in Threads : pc[t] = "assign" /\ node[t] = n
    BY <1>3, <2>2 DEF ValueAt
  <2> QED BY <1>8, <2>2, <2>3 DEF Mine
<1>13. Knows(s)'
  BY <1>1, <1>5, <1>7 DEF Knows, InHand
<1>14. ~ InHand(s)' /\ ~ InHand(s) /\ key'[node[s]] # Freed
  BY <1>1, <1>3, <1>4, <1>7 DEF InHand, ChainAt
<1>15. IInv'
  BY <1>1, <1>2, <1>4, <1>6, <1>9, <1>10, <1>11, <1>12, <1>13, <1>14, WritingStep
<1> QED BY <1>2, <1>3, <1>4, <1>9, <1>10, <1>15

\* Taking the node out of the chain, at the head or behind prev.
LEMMA UnlinkFacts ==
  ASSUME IInv, NEW s \in Threads, DeleteUnlink(s), NEW b \in Buckets, b = Idx(s)
  PROVE  /\ Simple(Walk(b)', bucket_sizes[b] - 1) /\ bucket_sizes[b] - 1 \in Nat
         /\ Chain(b)' = Chain(b) \ {node[s]} /\ node[s] \in Chain(b)
<1>1. /\ pc[s] = "search" /\ op[s].name = "delete" /\ node[s] # NULL /\ Unlink(s)
  BY DEF DeleteUnlink, In, AtKey
<1>2. Knows(s) /\ ChainAt(b) /\ Chain(b) \subseteq Nodes
  BY <1>1, WriterFacts DEF Inside
<1>3. node[s] \in Chain(b)
  BY <1>1, <1>2 DEF Knows
<1> DEFINE p == Path(buckets[b], next)
           L == bucket_sizes[b]
<1>4. /\ Walk(b) = p /\ Chain(b) = Elems(p)
      /\ Walk(b)' = Path(buckets'[b], next') /\ Chain(b)' = Elems(Path(buckets'[b], next'))
  BY WalkIs
<1>5. Simple(p, L)
  BY <1>2, <1>4 DEF ChainAt
<1>6. PICK k \in 0 .. Size : k < L /\ p[k] = node[s]
  BY <1>3, <1>4, WalkSteps DEF IInv
<1>7. L \in Nat /\ k \in 0 .. L - 1 /\ L - 1 \in Nat
  BY <1>5, <1>6, SizeType DEF Simple
<1>8. /\ next \in [Nodes -> Nodes \cup {NULL}] /\ buckets \in [Buckets -> Nodes \cup {NULL}]
  BY DEF IInv, TypeOK
<1>9. /\ p[0] = buckets[b]
      /\ \A i, j \in 0 .. Size : p[i] = p[j] /\ p[i] # NULL => i = j
  BY <1>4, WalkSteps DEF IInv
<1>10. /\ k = 0 => buckets'[b] = next[buckets[b]] /\ next' = next
       /\ k # 0 => /\ buckets'[b] = buckets[b]
                   /\ next' = [next EXCEPT ![p[k - 1]] = next[p[k]]]
  <2>1. CASE prev[s] = NULL
    <3>1. node[s] = buckets[b] /\ buckets' = [buckets EXCEPT ![b] = next[node[s]]]
          /\ next' = next
      BY <1>1, <1>2, <2>1 DEF Knows, Unlink
    <3>2. k = 0
      BY <1>1, <1>6, <1>9, <3>1, SizeType
    <3> QED BY <1>8, <3>1, <3>2
  <2>2. CASE prev[s] # NULL
    <3>1. /\ prev[s] \in Chain(b) /\ next[prev[s]] = node[s]
          /\ next' = [next EXCEPT ![prev[s]] = next[node[s]]] /\ buckets' = buckets
      BY <1>1, <1>2, <2>2 DEF Knows, Unlink
    <3>2. PICK j \in 0 .. Size : j < Size /\ p[j] = prev[s] /\ p[j + 1] = node[s]
      BY <1>4, <3>1, WalkSteps DEF IInv
    <3>3. j + 1 \in 0 .. Size
      BY <3>2, SizeType
    <3>4. k = j + 1
      BY <1>1, <1>6, <1>9, <3>2, <3>3
    <3>5. k # 0 /\ k - 1 = j
      BY <3>2, <3>4
    <3> QED BY <1>6, <3>1, <3>2, <3>5
  <2> QED BY <2>1, <2>2
<1> HIDE DEF L
<1>11. /\ Simple(Path(buckets'[b], next'), L - 1)
       /\ Elems(Path(buckets'[b], next')) = Elems(p) \ {p[k]}
  BY <1>5, <1>7, <1>8, <1>10, PathSkip
<1> QED BY <1>3, <1>4, <1>6, <1>7, <1>11 DEF L

LEMMA DeleteUnlinkStep ==
  ASSUME IInv, NEW s \in Threads, DeleteUnlink(s)
  PROVE  /\ IInv' /\ Writing(s, {prev[s]} \cap Nodes)
         /\ \A b : b = Idx(s) => Chain(b)' = Chain(b) \ {node[s]}
<1>1. /\ pc[s] = "search" /\ pc' = [pc EXCEPT ![s] = "free"]
      /\ op[s].name = "delete" /\ node[s] # NULL /\ key[node[s]] = op[s].key
      /\ bucket_sizes' = [bucket_sizes EXCEPT ![Idx(s)] = @ - 1]
      /\ UNCHANGED <<key, value, locks, op, node, prev, ret, dst>>
  BY DEF DeleteUnlink, In, AtKey
<1>2. PICK b \in Buckets : b = Idx(s)
  BY <1>1, WriterFacts DEF Inside
<1>3. /\ Chain(b) \subseteq Nodes /\ Knows(s) /\ ChainAt(b) /\ ValueAt(b)
      /\ pc \in [Threads -> Labels]
  BY <1>1, <1>2, WriterFacts DEF Inside
<1>4. /\ Simple(Walk(b)', bucket_sizes[b] - 1) /\ bucket_sizes[b] - 1 \in Nat
      /\ Chain(b)' = Chain(b) \ {node[s]} /\ node[s] \in Chain(b)
  BY <1>2, UnlinkFacts
<1>5. /\ prev[s] # NULL => prev[s] \in Chain(b) /\ prev[s] \in Nodes
      /\ next[node[s]] \in Nodes \cup {NULL}
  BY <1>1, <1>2, <1>3, <1>4 DEF Knows, IInv, TypeOK
<1>6. /\ prev[s] # NULL => /\ next' = [next EXCEPT ![prev[s]] = next[node[s]]]
                           /\ buckets' = buckets
      /\ prev[s] = NULL => /\ buckets' = [buckets EXCEPT ![b] = next[node[s]]]
                           /\ next' = next
  BY <1>2 DEF DeleteUnlink, Unlink
<1>7. TypeOK'
  <2>1. next' \in [Nodes -> Nodes \cup {NULL}] /\ buckets' \in [Buckets -> Nodes \cup {NULL}]
    BY <1>5, <1>6 DEF IInv, TypeOK
  <2>2. bucket_sizes' \in [Buckets -> Nat]
    <3>1. bucket_sizes \in [Buckets -> Nat]
      BY DEF IInv, TypeOK
    <3> QED BY <1>1, <1>2, <1>4, <3>1
  <2> QED BY <1>1, <2>1, <2>2 DEF IInv, TypeOK, locks
<1>8. /\ pc'[s] = "free" /\ bucket_sizes'[b] = bucket_sizes[b] - 1
      /\ \A d \in Buckets \ {b} : buckets'[d] = buckets[d] /\ bucket_sizes'[d] = bucket_sizes[d]
      /\ \A m \in Nodes \ {prev[s]} : next'[m] = next[m]
  BY <1>1, <1>2, <1>3, <1>6 DEF IInv, TypeOK
<1>9. Mine(s)
  BY <1>1, <1>3 DEF Mine
<1>10. Writing(s, {prev[s]} \cap Nodes)
  <2>1. \A m \in {prev[s]} \cap Nodes : m \in Chain(b)
    BY <1>5, Addresses
  <2> QED BY <1>1, <1>2, <1>8, <1>9, <2>1 DEF Writing, Inside, Writes, Labels
<1>11. ChainAt(b)'
  BY <1>1, <1>3, <1>4, <1>8 DEF ChainAt
<1>12. ValueAt(b)'
  <2>1. \A t \in Threads : pc[t] = "assign" => pc'[t] = "assign" /\ node'[t] = node[t]
    BY <1>1, <1>9 DEF Mine
  <2> QED BY <1>1, <1>3, <1>4, <2>1 DEF ValueAt
<1>13. Knows(s)'
  <2>1. node[s] \in Nodes /\ key[node[s]] # Freed
    BY <1>3, <1>4 DEF ChainAt
  <2>2. ASSUME NEW d \in Buckets PROVE node[s] \notin Chain(d)'
    <3>1. CASE d = b
      BY <1>4, <3>1
    <3>2. CASE d # b
      <4>1. Chain(d)' = Chain(d)
        BY <1>2, <1>10, <3>2, WritingFrame
      <4>2. node[s] \notin Chain(d)
        BY <1>4, <3>2, ChainsApart DEF IInv
      <4> QED BY <4>1, <4>2
    <3> QED BY <3>1, <3>2
  <2> QED BY <1>1, <1>8, <2>1, <2>2 DEF Knows, InHand, Inside
<1>14. InHand(s)' /\ ~ InHand(s)
  BY <1>1, <1>8 DEF InHand
<1>15. \A n \in Chain(b) : n \in Chain(b)' \/ node'[s] = n
  BY <1>1, <1>4
<1>16. {prev[s]} \cap Nodes \subseteq Chain(b) /\ Chain(b)' \subseteq Chain(b)
       /\ node'[s] \in Chain(b) /\ \A n \in {prev[s]} \cap Nodes : key'[n] # Freed
  BY <1>1, <1>3, <1>4, <1>5, Addresses DEF ChainAt
<1>17. IInv'
  BY <1>2, <1>7, <1>10, <1>11, <1>12, <1>13, <1>14, <1>15, <1>16, WritingStep
<1> QED BY <1>2, <1>3, <1>4, <1>10, <1>4, <1>17

LEMMA DeleteFreeStep ==
  ASSUME IInv, NEW s \in Threads, DeleteFree(s)
  PROVE  /\ IInv' /\ Writing(s, {node[s]})
         /\ \A b : b = Idx(s) => Chain(b)' = Chain(b)
<1>1. /\ pc[s] = "free" /\ pc' = [pc EXCEPT ![s] = "unlock"]
      /\ key' = [key EXCEPT ![node[s]] = Freed]
      /\ value' = [value EXCEPT ![node[s]] = Freed]
      /\ next' = [next EXCEPT ![node[s]] = NULL]
      /\ ret' = [ret EXCEPT ![s] = 1]
      /\ UNCHANGED <<buckets, bucket_sizes, locks, op, node, prev, dst>>
  BY DEF DeleteFree, Return
<1>2. PICK b \in Buckets : b = Idx(s)
  BY <1>1, WriterFacts DEF Inside
<1>3. /\ Chain(b) \subseteq Nodes /\ Knows(s) /\ ChainAt(b) /\ ValueAt(b)
      /\ pc \in [Threads -> Labels]
  BY <1>1, <1>2, WriterFacts DEF Inside
<1>4. /\ node[s] \in Nodes /\ node[s] \notin Chain(b) /\ op[s].name = "delete" /\ InHand(s)
  BY <1>1, <1>3 DEF Knows, InHand
<1>5. TypeOK'
  BY <1>1, <1>4 DEF IInv, TypeOK, locks
<1>6. /\ pc'[s] = "unlock" /\ key'[node[s]] = Freed /\ value'[node[s]] = Freed
      /\ \A m \in Nodes \ {node[s]} :
           key'[m] = key[m] /\ value'[m] = value[m] /\ next'[m] = next[m]
  BY <1>1, <1>3, <1>4 DEF IInv, TypeOK
<1>7. Mine(s)
  BY <1>1, <1>3 DEF Mine
<1>8. Writing(s, {node[s]})
  BY <1>1, <1>4, <1>6, <1>7 DEF Writing, Inside, Writes, Labels
<1>9. \A m \in Chain(b) : key'[m] = key[m] /\ value'[m] = value[m] /\ next'[m] = next[m]
  BY <1>3, <1>4, <1>6
<1>10. Walk(b)' = Walk(b) /\ Chain(b)' = Chain(b)
  BY <1>1, <1>9, WalkStays
<1>11. ChainAt(b)'
  BY <1>1, <1>3, <1>9, <1>10 DEF ChainAt
<1>12. ValueAt(b)'
  <2>1. \A t \in Threads : pc[t] = "assign" => pc'[t] = "assign" /\ node'[t] = node[t]
    BY <1>1, <1>7 DEF Mine
  <2> QED BY <1>3, <1>9, <1>10, <2>1 DEF ValueAt
<1>13. Knows(s)'
  BY <1>1, <1>4, <1>6 DEF Knows, InHand, Inside
<1>14. ~ InHand(s)'
  BY <1>6 DEF InHand
<1>15. IInv'
  BY <1>2, <1>5, <1>6, <1>8, <1>10, <1>11, <1>12, <1>13, <1>14, WritingStep
<1> QED BY <1>2, <1>3, <1>4, <1>8, <1>10, <1>15

-----------------------------------------------------------------------------
(* The invariant and what it says about the table                          *)

THEOREM Invariance == Spec => []IInv
<1>1. Init => IInv
  BY InitInv
<1>2. ASSUME IInv, NEW s \in Threads, Step(s) PROVE IInv'
  BY <1>2, LockStep, AdvanceStep, ReturnStep, InsertBuildStep, InsertUndoStep,
     InsertLinkStep, InsertPublishStep, UpdateFreeStep, UpdateAssignStep, DeleteUnlinkStep,
     DeleteFreeStep, UnlockStep DEF Step
<1>3. IInv /\ Next => IInv'
  BY <1>2, CallStep DEF Next
<1>4. IInv /\ UNCHANGED vars => IInv'
  <2>1. SUFFICES ASSUME IInv, UNCHANGED vars PROVE IInv'
    OBVIOUS
  <2>2. /\ TableSame /\ UNCHANGED <<locks, pc, op, node, prev, ret, dst>>
        /\ \A b : Walk(b)' = Walk(b) /\ Chain(b)' = Chain(b)
    BY <2>1, SameWalks DEF vars, TableSame
  <2>3. TypeOK' /\ LockInv'
    BY <2>1, <2>2 DEF IInv, TypeOK, LockInv, Inside, Idx, TableSame, heap, locks
  <2>4. ChainInv' /\ ValueInv'
    BY <2>1, <2>2 DEF IInv, ChainInv, ChainAt, ValueInv, ValueAt, TableSame, heap
  <2>5. HandInv'
    BY <2>1, <2>2 DEF IInv, HandInv, InHand, TableSame, heap
  <2>6. ASSUME NEW t \in Threads PROVE Knows(t)'
    <3>1. Knows(t) /\ Idx(t)' = Idx(t)
      BY <2>1, <2>2 DEF IInv, Idx
    <3>2. (Absent(t)' <=> Absent(t)) /\ (Passed(t)' <=> Passed(t))
      BY <2>2, <3>1 DEF Absent, Passed, TableSame, heap
    <3> QED BY <2>2, <3>1, <3>2 DEF Knows, Inside, InHand, TableSame, heap
  <2> QED BY <2>3, <2>4, <2>5, <2>6 DEF IInv
<1> QED BY <1>1, <1>3, <1>4, PTL DEF Spec

\* A chain holds as many nodes as bucket_sizes says and its walk ends in NULL.
LEMMA ChainsCounted ==
  ASSUME ChainInv, NEW b \in Buckets
  PROVE  bucket_sizes[b] = Cardinality(Chain(b)) /\ Walk(b)[Cardinality(Nodes)] = NULL
<1>1. Simple(Walk(b), bucket_sizes[b]) /\ Chain(b) = Elems(Walk(b))
  BY WalkIs DEF ChainInv, ChainAt
<1>2. Cardinality(Elems(Walk(b))) = bucket_sizes[b]
  BY <1>1, SimpleSize
<1>3. Walk(b)[Size] = NULL
  BY <1>1, SizeType DEF Simple
<1> QED BY <1>1, <1>2, <1>3 DEF Size

\* Whatever the workers do at the same time, every chain is finite, holds live nodes
\* of its own bucket, as many as bucket_sizes counts, and no key twice: the search,
\* the two pointer writes of hash_insert and the unlinking of hash_delete are
\* atomic for the other operations on the bucket (hashtable.c).
THEOREM ChainsAreSound == Spec => []ChainsSound
<1>1. IInv => ChainsSound
  BY ChainsCounted DEF IInv, ChainsSound, ChainInv, ChainAt
<1> QED BY <1>1, Invariance, PTL

\* No search stands on a node that another operation unlinked or freed, and none
\* reads the value that hash_update has freed and not yet assigned.
THEOREM NodesStayFresh == Spec => []NoStaleNode
<1>1. IInv => NoStaleNode
  <2>1. SUFFICES ASSUME IInv, NEW t \in Threads, pc[t] = "search"
                 PROVE  /\ node[t] # NULL => node[t] \in Chain(Idx(t))
                        /\ prev[t] # NULL =>
                             prev[t] \in Chain(Idx(t)) /\ next[prev[t]] = node[t]
                        /\ AtKey(t) /\ op[t].name # "insert" => value[node[t]] \in Values
    BY DEF NoStaleNode
  <2>2. /\ node[t] # NULL => node[t] \in Chain(Idx(t))
        /\ prev[t] # NULL => prev[t] \in Chain(Idx(t)) /\ next[prev[t]] = node[t]
    BY <2>1 DEF IInv, Knows
  <2>3. ASSUME AtKey(t), value[node[t]] = Freed PROVE FALSE
    <3>1. op \in [Threads -> Operations]
      BY <2>1 DEF IInv, TypeOK
    <3>2. Idx(t) \in Buckets /\ node[t] \in Chain(Idx(t))
      BY <2>2, <2>3, <3>1, IdxType DEF AtKey
    <3>3. PICK u \in Threads : pc[u] = "assign" /\ node[u] = node[t]
      BY <2>1, <2>3, <3>2 DEF IInv, ValueInv, ValueAt
    <3>4. op[u].name = "update" /\ node[u] \in Chain(Idx(u)) /\ Idx(u) \in Buckets
      BY <2>1, <3>1, <3>3, IdxType DEF IInv, Knows
    <3>5. Idx(u) = Idx(t)
      BY <2>1, <3>2, <3>3, <3>4, ChainsApart DEF IInv
    <3> QED BY <2>1, <3>3, <3>4, <3>5 DEF IInv, LockInv, Inside, Writes
  <2>4. AtKey(t) => value[node[t]] \in Values
    <3>1. op \in [Threads -> Operations] /\ value \in [Nodes -> Values \cup {NULL, Freed}]
      BY <2>1 DEF IInv, TypeOK
    <3>2. AtKey(t) => node[t] \in Chain(Idx(t)) /\ Idx(t) \in Buckets
      BY <2>2, <3>1, IdxType DEF AtKey
    <3>3. AtKey(t) => node[t] \in Nodes /\ value[node[t]] # NULL
      BY <2>1, <3>2, ChainTypes DEF IInv, ValueInv, ValueAt
    <3> QED BY <2>3, <3>1, <3>3
  <2> QED BY <2>2, <2>4
<1> QED BY <1>1, Invariance, PTL

\* Every node that calloc gave out is in one chain or in the hands of the one
\* operation that will publish or free it: no path of hash_insert or hash_delete
\* leaks a node, its key or its value or frees one twice, the undoing of an insert
\* that got a node and not both copies included.
THEOREM NothingLeaks == Spec => []NoLeak
<1>1. IInv => NoLeak
  <2>1. SUFFICES ASSUME IInv PROVE NoLeak
    OBVIOUS
  <2> DEFINE H == {t \in Threads : pc[t] \in {"undo", "link", "publish", "free"}}
  <2>2. H = {t \in Threads : InHand(t)}
    BY DEF InHand
  <2>3. \A b \in Buckets : Chain(b) \subseteq Nodes
    BY <2>1, ChainTypes DEF IInv
  <2>4. {n \in Nodes : key[n] # Freed \/ value[n] # Freed} =
          (UNION {Chain(b) : b \in Buckets}) \cup {node[t] : t \in H}
    <3>1. ASSUME NEW n \in Nodes, key[n] # Freed \/ value[n] # Freed
          PROVE  n \in (UNION {Chain(b) : b \in Buckets}) \cup {node[t] : t \in H}
      BY <2>1, <2>2, <3>1 DEF IInv, HandInv
    <3>2. ASSUME NEW b \in Buckets, NEW n \in Chain(b) PROVE n \in Nodes /\ key[n] # Freed
      BY <2>1, <2>3 DEF IInv, ChainInv, ChainAt
    <3>3. ASSUME NEW t \in H PROVE node[t] \in Nodes /\ key[node[t]] # Freed
      BY <2>1, <2>2 DEF IInv, Knows
    <3> QED BY <3>1, <3>2, <3>3
  <2>5. \A t \in H : \A b \in Buckets : node[t] \notin Chain(b)
    BY <2>1, <2>2 DEF IInv, Knows
  <2>6. \A s, t \in H : node[s] = node[t] => s = t
    BY <2>1, <2>2 DEF IInv, HandInv
  <2> QED BY <2>4, <2>5, <2>6 DEF NoLeak
<1> QED BY <1>1, Invariance, PTL

-----------------------------------------------------------------------------
(* Linearizability: each step of the table is a call, the one instant at   *)
(* which an operation takes effect, or a return of the atomic map KVMap,   *)
(* or changes nothing a caller can see.                                    *)

\* dst is written by the copy of hash_read alone.
DstInv == \A t \in Threads : pc[t] # "unlock" => dst[t] = NULL

\* What the map holds for a key, by the one node that has it.
StoreMeans ==
  \A k \in Keys :
    /\ (\A n \in Chain(hash(k)) : key[n] # k) => storeBar[k] = NULL
    /\ \A n \in Chain(hash(k)) : key[n] = k =>
         /\ value[n] # Freed => storeBar[k] = value[n]
         /\ \A t \in Threads :
              value[n] = Freed /\ pc[t] = "assign" /\ node[t] = n
                => storeBar[k] = op[t].value

LEMMA StoreIs == IInv => StoreMeans
<1> SUFFICES ASSUME IInv PROVE StoreMeans
  OBVIOUS
<1> SUFFICES ASSUME NEW k \in Keys
             PROVE  /\ (\A n \in Chain(hash(k)) : key[n] # k) => storeBar[k] = NULL
                    /\ \A n \in Chain(hash(k)) : key[n] = k =>
                         /\ value[n] # Freed => storeBar[k] = value[n]
                         /\ \A t \in Threads :
                              value[n] = Freed /\ pc[t] = "assign" /\ node[t] = n
                                => storeBar[k] = op[t].value
  BY DEF StoreMeans
<1> DEFINE b == hash(k)
           here == {n \in Chain(b) : key[n] = k}
           val(n) == IF value[n] # Freed THEN value[n]
                     ELSE op[CHOOSE t \in Threads : pc[t] = "assign" /\ node[t] = n].value
<1>1. storeBar[k] = IF here = {} THEN NULL ELSE val(CHOOSE n \in here : TRUE)
  BY DEF storeBar
<1>2. b \in Buckets
  BY HashRange
<1> HIDE DEF val
<1>3. (\A n \in Chain(b) : key[n] # k) => storeBar[k] = NULL
  BY <1>1
<1>4. ASSUME NEW n \in Chain(b), key[n] = k PROVE storeBar[k] = val(n)
  <2>1. \A m \in here : m = n
    BY <1>2, <1>4 DEF IInv, ChainInv, ChainAt
  <2>2. n \in here
    BY <1>4
  <2>3. (CHOOSE m \in here : TRUE) = n
    BY <2>1, <2>2
  <2> QED BY <1>1, <2>2, <2>3
<1>5. ASSUME NEW n \in Chain(b), NEW t \in Threads, pc[t] = "assign", node[t] = n
      PROVE  (CHOOSE u \in Threads : pc[u] = "assign" /\ node[u] = n) = t
  <2> DEFINE u == CHOOSE u \in Threads : pc[u] = "assign" /\ node[u] = n
  <2>1. u \in Threads /\ pc[u] = "assign" /\ node[u] = n
    BY <1>5
  <2> HIDE DEF u
  <2>2. op \in [Threads -> Operations]
    BY DEF IInv, TypeOK
  <2>3. \A w \in Threads : Idx(w) \in Buckets
    BY <2>2, IdxType
  <2>4. n \in Chain(Idx(t)) /\ n \in Chain(Idx(u)) /\ op[t].name = "update"
    BY <1>5, <2>1 DEF IInv, Knows
  <2>5. Idx(t) = Idx(u)
    BY <2>1, <2>3, <2>4, ChainsApart DEF IInv
  <2>6. u = t
    BY <1>5, <2>1, <2>4, <2>5 DEF IInv, LockInv, Inside, Writes
  <2> QED BY <2>6 DEF u
<1>6. ASSUME NEW n \in Chain(b), key[n] = k,
             NEW t \in Threads, value[n] = Freed, pc[t] = "assign", node[t] = n
      PROVE  storeBar[k] = op[t].value
  BY <1>4, <1>5, <1>6 DEF val
<1>7. ASSUME NEW n \in Chain(b), key[n] = k, value[n] # Freed
      PROVE  storeBar[k] = value[n]
  BY <1>4, <1>7 DEF val
<1> QED BY <1>3, <1>6, <1>7

LEMMA StoreIsNext == IInv' => StoreMeans'
  BY StoreIs, PTL

\* The same node with the same value is what the map sees the same.
LEMMA KeyStays ==
  ASSUME IInv, IInv', NEW k \in Keys,
         \A n \in Chain(hash(k)) : key[n] = k =>
           n \in Chain(hash(k))' /\ key'[n] = k /\ value'[n] = value[n],
         \A n \in Chain(hash(k))' : key'[n] = k => n \in Chain(hash(k)) /\ key[n] = k,
         \A t \in Threads :
           pc[t] = "assign" /\ node[t] \in Chain(hash(k)) /\ key[node[t]] = k =>
             pc'[t] = "assign" /\ node'[t] = node[t] /\ op'[t].value = op[t].value
  PROVE  storeBar'[k] = storeBar[k]
<1>1. StoreMeans /\ StoreMeans'
  BY StoreIs, StoreIsNext
<1>2. CASE \A n \in Chain(hash(k)) : key[n] # k
  BY <1>1, <1>2 DEF StoreMeans
<1>3. ASSUME NEW n \in Chain(hash(k)), key[n] = k PROVE storeBar'[k] = storeBar[k]
  <2>1. n \in Chain(hash(k))' /\ key'[n] = k /\ value'[n] = value[n]
    BY <1>3
  <2>2. CASE value[n] # Freed
    BY <1>1, <1>3, <2>1, <2>2 DEF StoreMeans
  <2>3. CASE value[n] = Freed
    <3>1. hash(k) \in Buckets
      BY HashRange
    <3>2. PICK t \in Threads : pc[t] = "assign" /\ node[t] = n
      BY <1>3, <2>3, <3>1 DEF IInv, ValueInv, ValueAt
    <3>3. pc'[t] = "assign" /\ node'[t] = n /\ op'[t].value = op[t].value
      BY <1>3, <3>2
    <3> QED BY <1>1, <1>3, <2>1, <2>3, <3>2, <3>3 DEF StoreMeans
  <2> QED BY <2>2, <2>3
<1> QED BY <1>2, <1>3

\* Steps that leave the table and what an update holds.
LEMMA QuietStore ==
  ASSUME IInv, IInv', NEW s \in Threads, TableSame, Mine(s), pc[s] # "assign"
  PROVE  storeBar' = storeBar
<1>1. ASSUME NEW k \in Keys PROVE storeBar'[k] = storeBar[k]
  <2>1. /\ Chain(hash(k))' = Chain(hash(k)) /\ key' = key /\ value' = value
    BY SameWalks DEF TableSame, heap
  <2>2. \A t \in Threads : pc[t] = "assign" =>
          pc'[t] = "assign" /\ node'[t] = node[t] /\ op'[t].value = op[t].value
    BY DEF Mine
  <2> QED BY <2>1, <2>2, KeyStays
<1>2. storeBar = [k \in Keys |-> storeBar[k]] /\ storeBar' = [k \in Keys |-> storeBar'[k]]
  BY DEF storeBar
<1> QED BY <1>1, <1>2

\* A writer that touches no node but one of its key leaves the other keys alone.
LEMMA WriterStore ==
  ASSUME IInv, IInv', NEW s \in Threads, NEW M, Writing(s, M),
         NEW b, b = Idx(s), NEW m,
         \A n \in Nodes \ {m} : /\ key'[n] = key[n] /\ value'[n] = value[n]
                                /\ n \in Chain(b)' <=> n \in Chain(b),
         m \in Chain(b) => key[m] = op[s].key,
         m \in Chain(b)' => key'[m] = op[s].key,
         pc[s] = "assign" => node[s] = m /\ m \in Chain(b)
  PROVE  storeBar' = [storeBar EXCEPT ![op[s].key] = storeBar'[op[s].key]]
<1>1. op \in [Threads -> Operations] /\ b \in Buckets /\ op' = op
  <2>1. op \in [Threads -> Operations]
    BY DEF IInv, TypeOK
  <2> QED BY <2>1, IdxType DEF Writing
<1>2. Chain(b) \subseteq Nodes /\ Chain(b)' \subseteq Nodes
  <2>1. Chain(b) \subseteq Nodes
    BY <1>1, ChainTypes DEF IInv
  <2>2. Chain(b)' = Elems(Walk(b)') /\ Simple(Walk(b)', bucket_sizes'[b])
    BY <1>1, WalkIs DEF IInv, ChainInv, ChainAt
  <2> QED BY <2>1, <2>2, SimpleSize
<1>3. \A t \in Threads \ {s} : pc'[t] = pc[t] /\ node'[t] = node[t]
  BY DEF Writing, Mine
<1>4. ASSUME NEW k \in Keys \ {op[s].key} PROVE storeBar'[k] = storeBar[k]
  <2> DEFINE d == hash(k)
  <2>1. d \in Buckets
    BY HashRange
  <2>2. \A n \in Chain(d) : key[n] = k =>
           n \in Chain(d)' /\ key'[n] = k /\ value'[n] = value[n]
    <3>1. CASE d = b
      BY <1>2, <3>1
    <3>2. CASE d # b
      <4>1. Chain(d)' = Chain(d) /\ Chain(d) \cap M = {} /\ Chain(d) \subseteq Nodes
        BY <2>1, <3>2, WritingFrame
      <4> QED BY <4>1 DEF Writing
    <3> QED BY <3>1, <3>2
  <2>3. \A n \in Chain(d)' : key'[n] = k => n \in Chain(d) /\ key[n] = k
    <3>1. CASE d = b
      BY <1>2, <3>1
    <3>2. CASE d # b
      <4>1. Chain(d)' = Chain(d) /\ Chain(d) \cap M = {} /\ Chain(d) \subseteq Nodes
        BY <2>1, <3>2, WritingFrame
      <4> QED BY <4>1 DEF Writing
    <3> QED BY <3>1, <3>2
  <2>4. ASSUME NEW t \in Threads, pc[t] = "assign", node[t] \in Chain(d), key[node[t]] = k
        PROVE  pc'[t] = "assign" /\ node'[t] = node[t] /\ op'[t].value = op[t].value
    <3>1. t # s
      BY <2>4
    <3> QED BY <1>1, <1>3, <2>4, <3>1
  <2> HIDE DEF d
  <2>5. \A t \in Threads :
           pc[t] = "assign" /\ node[t] \in Chain(d) /\ key[node[t]] = k =>
             pc'[t] = "assign" /\ node'[t] = node[t] /\ op'[t].value = op[t].value
    BY <2>4
  <2> QED BY <2>2, <2>3, <2>5, KeyStays DEF d
<1>5. storeBar = [k \in Keys |-> storeBar[k]] /\ storeBar' = [k \in Keys |-> storeBar'[k]]
  BY DEF storeBar
<1> QED BY <1>4, <1>5

-----------------------------------------------------------------------------
(* Answers                                                                 *)

OthersWait(s) == \A t \in Threads \ {s} : ret'[t] = ret[t] /\ dst'[t] = dst[t]

LEMMA ReplyStep ==
  ASSUME NEW s \in Threads, Mine(s), OthersWait(s)
  PROVE  replyBar' = [replyBar EXCEPT ![s] = replyBar'[s]]
<1>1. replyBar = [t \in Threads |-> replyBar[t]] /\ replyBar' = [t \in Threads |-> replyBar'[t]]
  BY DEF replyBar
<1>2. \A t \in Threads \ {s} : replyBar'[t] = replyBar[t]
  BY DEF replyBar, Mine, OthersWait
<1> QED BY <1>1, <1>2

LEMMA ReplyIs ==
  ASSUME NEW s \in Threads
  PROVE  /\ pc[s] \in {"idle", "lock", "search", "undo", "link", "publish"} => replyBar[s] = NoReply
         /\ pc'[s] \in {"idle", "lock", "search", "undo", "link", "publish"} => replyBar'[s] = NoReply
         /\ pc[s] \in {"assign", "free"} => replyBar[s] = [ret |-> 1, dst |-> NULL]
         /\ pc'[s] \in {"assign", "free"} => replyBar'[s] = [ret |-> 1, dst |-> NULL]
         /\ pc[s] = "unlock" => replyBar[s] = [ret |-> ret[s], dst |-> dst[s]]
         /\ pc'[s] = "unlock" => replyBar'[s] = [ret |-> ret'[s], dst |-> dst'[s]]
  BY DEF replyBar

\* Inside a call nobody else's call begins or ends.
LEMMA PendingSame ==
  ASSUME NEW s \in Threads, Mine(s), pc[s] # "idle", pc'[s] # "idle"
  PROVE  {t \in Threads : pc'[t] # "idle"} = {t \in Threads : pc[t] # "idle"}
  BY DEF Mine

LEMMA KeysStored == Map!StoreKeys = Keys
<1>1. \A k \in Keys : \E o \in Operations : o.key = k
  <2>1. \A k \in Keys : [name |-> "read", key |-> k] \in Operations
    BY DEF Operations
  <2> QED BY <2>1
<1>2. \A o \in Operations : o.key \in Keys
  BY DEF Operations
<1> QED BY <1>1, <1>2 DEF Map!StoreKeys

LEMMA InitMap == Init => Map!Init
<1> SUFFICES ASSUME Init PROVE Map!Init
  OBVIOUS
<1>1. IInv /\ StoreMeans
  BY InitInv, StoreIs
<1>2. \A b \in Buckets : Chain(b) = {}
  <2>1. \A b \in Buckets : \A n \in Chain(b) : FALSE
    <3>1. \A b \in Buckets : \A n \in Chain(b) : n \in Nodes /\ key[n] # Freed
      BY <1>1, ChainTypes DEF IInv, ChainInv, ChainAt
    <3> QED BY <3>1 DEF Init
  <2> QED BY <2>1
<1>3. \A k \in Keys : storeBar[k] = NULL
  BY <1>1, <1>2, HashRange DEF StoreMeans
<1>4. storeBar = [k \in Map!StoreKeys |-> NULL]
  BY <1>3, KeysStored DEF storeBar
<1>5. op \in [Threads -> Operations]
  BY <1>1 DEF IInv, TypeOK
<1>6. {t \in Threads : pc[t] # "idle"} = {} /\ replyBar = [t \in Threads |-> NoReply]
  BY DEF Init, replyBar
<1> QED BY <1>4, <1>5, <1>6 DEF Map!Init

-----------------------------------------------------------------------------
(* What the map holds when an operation has found its key, or not          *)

LEMMA KeyFound ==
  ASSUME IInv, NEW s \in Threads, pc[s] = "search", AtKey(s)
  PROVE  /\ storeBar[op[s].key] = value[node[s]]
         /\ value[node[s]] \in Values /\ value[node[s]] # NULL
<1>1. op \in [Threads -> Operations] /\ op[s].key \in Keys /\ Idx(s) \in Buckets
  <2>1. op \in [Threads -> Operations]
    BY DEF IInv, TypeOK
  <2> QED BY <2>1, IdxType
<1>2. node[s] \in Chain(Idx(s)) /\ key[node[s]] = op[s].key /\ node[s] \in Nodes
  <2>1. node[s] \in Chain(Idx(s)) /\ key[node[s]] = op[s].key
    BY DEF IInv, Knows, AtKey
  <2> QED BY <1>1, <2>1, ChainTypes DEF IInv
<1>3. value[node[s]] # Freed
  <2>1. SUFFICES ASSUME value[node[s]] = Freed PROVE FALSE
    OBVIOUS
  <2>2. PICK t \in Threads : pc[t] = "assign" /\ node[t] = node[s]
    BY <1>1, <1>2, <2>1 DEF IInv, ValueInv, ValueAt
  <2>3. op[t].name = "update" /\ node[t] \in Chain(Idx(t)) /\ Idx(t) \in Buckets
    BY <1>1, <2>2, IdxType DEF IInv, Knows
  <2>4. Idx(t) = Idx(s)
    BY <1>1, <1>2, <2>2, <2>3, ChainsApart DEF IInv
  <2> QED BY <2>2, <2>3, <2>4 DEF IInv, LockInv, Inside, Writes
<1>4. value[node[s]] \in Values /\ value[node[s]] # NULL
  BY <1>1, <1>2, <1>3 DEF IInv, TypeOK, ValueInv, ValueAt
<1> QED BY <1>1, <1>2, <1>3, <1>4, StoreIs DEF StoreMeans, Idx

LEMMA KeyAbsent ==
  ASSUME IInv, NEW s \in Threads, Inside(s), Absent(s)
  PROVE  storeBar[op[s].key] = NULL
<1>1. op[s].key \in Keys
  BY WriterFacts
<1> QED BY <1>1, StoreIs DEF StoreMeans, Absent, Idx

\* A step that the callers cannot see.
LEMMA Silent ==
  ASSUME NEW s \in Threads, Mine(s), OthersWait(s), op' = op,
         pc[s] # "idle", pc'[s] # "idle",
         storeBar' = storeBar, replyBar'[s] = replyBar[s]
  PROVE  UNCHANGED Map!vars
<1>1. replyBar' = replyBar
  <2>1. replyBar' = [replyBar EXCEPT ![s] = replyBar'[s]]
    BY ReplyStep
  <2>2. replyBar = [t \in Threads |-> replyBar[t]]
    BY DEF replyBar
  <2> QED BY <2>1, <2>2
<1>2. {t \in Threads : pc'[t] # "idle"} = {t \in Threads : pc[t] # "idle"}
  BY PendingSame
<1> QED BY <1>1, <1>2 DEF Map!vars

\* A step at which an operation takes effect.
LEMMA Effect ==
  ASSUME NEW s \in Threads, Mine(s), OthersWait(s), op' = op,
         pc[s] \in {"search", "undo", "publish"}, pc'[s] # "idle",
         NEW r, NEW v, replyBar'[s] = [ret |-> r, dst |-> v]
  PROVE  /\ Map!Answer(s, r, v) /\ replyBar[s] = NoReply
         /\ s \in {t \in Threads : pc[t] # "idle"}
         /\ {t \in Threads : pc'[t] # "idle"} = {t \in Threads : pc[t] # "idle"}
<1>1. replyBar' = [replyBar EXCEPT ![s] = [ret |-> r, dst |-> v]]
  BY ReplyStep
<1>2. {t \in Threads : pc'[t] # "idle"} = {t \in Threads : pc[t] # "idle"}
  BY PendingSame
<1> QED BY <1>1, <1>2, ReplyIs DEF Map!Answer

\* What a writer leaves as it was.
LEMMA HiddenStore ==
  ASSUME IInv, IInv', NEW s \in Threads, NEW M, Writing(s, M),
         NEW b, b = Idx(s), Chain(b)' = Chain(b), M \cap Chain(b) = {},
         pc[s] # "assign"
  PROVE  storeBar' = storeBar
<1>1. op' = op
  BY DEF Writing
<1>2. b \in Buckets /\ Chain(b) \subseteq Nodes
  BY WriterFacts DEF Writing
<1>3. ASSUME NEW k \in Keys PROVE storeBar'[k] = storeBar[k]
  <2>1. hash(k) \in Buckets
    BY HashRange
  <2>2. /\ Chain(hash(k))' = Chain(hash(k)) /\ Chain(hash(k)) \cap M = {}
        /\ Chain(hash(k)) \subseteq Nodes
    <3>1. CASE hash(k) = b
      BY <1>2, <3>1
    <3>2. CASE hash(k) # b
      BY <2>1, <3>2, WritingFrame
    <3> QED BY <3>1, <3>2
  <2>3. \A n \in Chain(hash(k)) : key'[n] = key[n] /\ value'[n] = value[n]
    BY <2>2 DEF Writing
  <2>4. \A t \in Threads : pc[t] = "assign" =>
          pc'[t] = "assign" /\ node'[t] = node[t] /\ op'[t].value = op[t].value
    BY <1>1 DEF Writing, Mine
  <2> QED BY <2>2, <2>3, <2>4, KeyStays
<1>4. storeBar = [k \in Keys |-> storeBar[k]] /\ storeBar' = [k \in Keys |-> storeBar'[k]]
  BY DEF storeBar
<1> QED BY <1>3, <1>4

-----------------------------------------------------------------------------
(* Every step of the table is a step of the map or none.                   *)

LEMMA CallMaps ==
  ASSUME IInv, DstInv, IInv', NEW s \in Threads, NEW o \in Operations, Call(s, o)
  PROVE  Map!Call(s, o)
<1>1. /\ pc[s] = "idle" /\ pc' = [pc EXCEPT ![s] = "lock"] /\ op' = [op EXCEPT ![s] = o]
      /\ TableSame /\ UNCHANGED <<node, prev, ret, dst>>
  BY DEF Call, TableSame
<1>2. pc'[s] = "lock" /\ Mine(s) /\ OthersWait(s)
  BY <1>1 DEF IInv, LockInv, TypeOK, Mine, OthersWait
<1>3. storeBar' = storeBar
  BY <1>1, <1>2, QuietStore
<1>4. replyBar' = replyBar
  <2>1. replyBar' = [replyBar EXCEPT ![s] = replyBar'[s]]
    BY <1>2, ReplyStep
  <2>2. replyBar = [t \in Threads |-> replyBar[t]] /\ replyBar'[s] = replyBar[s]
    BY <1>1, <1>2, ReplyIs DEF replyBar
  <2> QED BY <2>1, <2>2
<1>5. {t \in Threads : pc'[t] # "idle"} = {t \in Threads : pc[t] # "idle"} \cup {s}
  BY <1>2 DEF Mine
<1> QED BY <1>1, <1>3, <1>4, <1>5 DEF Map!Call

LEMMA UnlockMaps ==
  ASSUME IInv, DstInv, IInv', NEW s \in Threads, Unlock(s)
  PROVE  Map!Return(s)
<1>1. /\ pc[s] = "unlock" /\ pc' = [pc EXCEPT ![s] = "idle"]
      /\ ret' = [ret EXCEPT ![s] = 0] /\ dst' = [dst EXCEPT ![s] = NULL]
      /\ node' = [node EXCEPT ![s] = NULL] /\ prev' = [prev EXCEPT ![s] = NULL]
      /\ TableSame /\ op' = op
  BY DEF Unlock, TableSame
<1>2. pc'[s] = "idle" /\ Mine(s) /\ OthersWait(s)
  BY <1>1 DEF IInv, LockInv, TypeOK, Mine, OthersWait
<1>3. storeBar' = storeBar
  BY <1>1, <1>2, QuietStore
<1>4. replyBar' = [replyBar EXCEPT ![s] = NoReply]
  <2>1. replyBar' = [replyBar EXCEPT ![s] = replyBar'[s]]
    BY <1>2, ReplyStep
  <2> QED BY <1>2, <2>1, ReplyIs
<1>5. replyBar[s] # NoReply
  <2>1. ret[s] \in {-1, 0, 1} /\ dst[s] \in Values \cup {NULL}
    BY DEF IInv, TypeOK
  <2>2. [ret |-> ret[s], dst |-> dst[s]] \in [ret : {-1, 0, 1}, dst : Values \cup {NULL}]
    BY <2>1
  <2>3. replyBar[s] = [ret |-> ret[s], dst |-> dst[s]]
    BY <1>1, ReplyIs
  <2> QED BY <2>2, <2>3, RepliesProper
<1>6. {t \in Threads : pc'[t] # "idle"} = {t \in Threads : pc[t] # "idle"} \ {s}
  BY <1>2 DEF Mine
<1> QED BY <1>1, <1>3, <1>4, <1>5, <1>6 DEF Map!Return

LEMMA SearchMaps ==
  ASSUME IInv, DstInv, IInv', NEW s \in Threads, Lock(s) \/ Advance(s)
  PROVE  UNCHANGED Map!vars
<1>1. /\ pc[s] \in {"lock", "search"} /\ pc' = [pc EXCEPT ![s] = "search"]
      /\ TableSame /\ op' = op /\ UNCHANGED <<ret, dst>>
  BY DEF Lock, Advance, TableSame, IInv, LockInv
<1>2. \A t \in Threads \ {s} : node'[t] = node[t] /\ prev'[t] = prev[t]
  BY DEF Lock, Advance, IInv, TypeOK
<1>3. pc'[s] = "search" /\ Mine(s) /\ OthersWait(s)
  BY <1>1, <1>2 DEF IInv, LockInv, Mine, OthersWait
<1>4. storeBar' = storeBar
  BY <1>1, <1>3, QuietStore
<1>5. replyBar'[s] = replyBar[s]
  BY <1>1, <1>3, ReplyIs
<1> QED BY <1>1, <1>3, <1>4, <1>5, Silent

LEMMA ReturnMaps ==
  ASSUME IInv, DstInv, IInv', NEW s \in Threads, Refuse(s) \/ OutOfMemory(s) \/ ReadCopy(s)
  PROVE  Map!Apply(s)
<1>1. /\ pc[s] = "search" /\ pc' = [pc EXCEPT ![s] = "unlock"]
      /\ TableSame /\ op' = op /\ UNCHANGED <<node, prev>>
  BY DEF Refuse, OutOfMemory, ReadCopy, Return, In, TableSame
<1>2. \A t \in Threads \ {s} : ret'[t] = ret[t] /\ dst'[t] = dst[t]
  BY DEF Refuse, OutOfMemory, ReadCopy, Return, IInv, TypeOK
<1>3. pc'[s] = "unlock" /\ Mine(s) /\ OthersWait(s)
  BY <1>1, <1>2 DEF IInv, LockInv, Mine, OthersWait
<1>4. storeBar' = storeBar
  BY <1>1, <1>3, QuietStore
<1>5. dst[s] = NULL
  BY <1>1 DEF DstInv
<1>6. replyBar'[s] = [ret |-> ret'[s], dst |-> dst'[s]]
  BY <1>3, ReplyIs
<1>7. ~ AtEnd(s) /\ ~ AtKey(s) => FALSE
  BY DEF Refuse, OutOfMemory, ReadCopy, In
<1>8. AtKey(s) => Map!Present(op[s])
  BY <1>1, KeyFound DEF Map!Present
<1>9. AtEnd(s) => ~ Map!Present(op[s])
  BY <1>1, EndAbsent, KeyAbsent DEF Map!Present, Inside
<1>10. CASE Refuse(s)
  <2>1. ret'[s] = 0 /\ dst'[s] = NULL
    BY <1>5, <1>10 DEF Refuse, Return, IInv, TypeOK
  <2>2. Map!Refused(op[s])
    BY <1>8, <1>9, <1>10 DEF Refuse, Map!Refused
  <2>3. /\ Map!Answer(s, 0, NULL) /\ replyBar[s] = NoReply
        /\ s \in {t \in Threads : pc[t] # "idle"}
        /\ {t \in Threads : pc'[t] # "idle"} = {t \in Threads : pc[t] # "idle"}
    BY <1>1, <1>3, <1>6, <2>1, Effect
  <2> QED BY <1>1, <1>4, <2>2, <2>3 DEF Map!Apply
<1>11. CASE OutOfMemory(s)
  <2>1. ret'[s] = -1 /\ dst'[s] = NULL
    BY <1>5, <1>11 DEF OutOfMemory, Return, IInv, TypeOK
  <2>2. Map!Stores(op[s])
    BY <1>8, <1>9, <1>11 DEF OutOfMemory, In, Map!Stores
  <2>3. /\ Map!Answer(s, -1, NULL) /\ replyBar[s] = NoReply
        /\ s \in {t \in Threads : pc[t] # "idle"}
        /\ {t \in Threads : pc'[t] # "idle"} = {t \in Threads : pc[t] # "idle"}
    BY <1>1, <1>3, <1>6, <2>1, Effect
  <2> QED BY <1>1, <1>4, <2>2, <2>3 DEF Map!Apply
<1>12. CASE ReadCopy(s)
  <2>1. op[s].name = "read" /\ AtKey(s)
    BY <1>12 DEF ReadCopy, In
  <2>2. ret'[s] = 1 /\ dst'[s] = value[node[s]]
    BY <1>12 DEF ReadCopy, Return, IInv, TypeOK
  <2>3. storeBar[op[s].key] = value[node[s]] /\ Map!Present(op[s])
    BY <1>1, <1>8, <2>1, KeyFound
  <2>4. /\ Map!Answer(s, 1, storeBar[op[s].key]) /\ replyBar[s] = NoReply
        /\ s \in {t \in Threads : pc[t] # "idle"}
        /\ {t \in Threads : pc'[t] # "idle"} = {t \in Threads : pc[t] # "idle"}
    BY <1>1, <1>3, <1>6, <2>2, <2>3, Effect
  <2> QED BY <1>1, <1>4, <2>1, <2>3, <2>4 DEF Map!Apply
<1> QED BY <1>10, <1>11, <1>12

\* Building and linking the node, and freeing it.
LEMMA HiddenMaps ==
  ASSUME IInv, DstInv, IInv', NEW s \in Threads,
         InsertBuild(s) \/ InsertLink(s) \/ DeleteFree(s)
  PROVE  UNCHANGED Map!vars
<1>1. PICK b \in Buckets : b = Idx(s)
  BY WriterFacts DEF InsertBuild, InsertLink, DeleteFree, In, Inside
<1>2. pc[s] # "idle" /\ pc'[s] # "idle" /\ pc[s] # "assign" /\ OthersWait(s)
      /\ replyBar'[s] = replyBar[s]
  <2>1. CASE InsertBuild(s) \/ InsertLink(s)
    <3>1. /\ pc[s] \in {"search", "link"} /\ pc'[s] \in {"undo", "link", "publish"}
          /\ UNCHANGED <<ret, dst>>
      BY <2>1 DEF InsertBuild, InsertLink, In, IInv, LockInv
    <3> QED BY <3>1, ReplyIs DEF OthersWait
  <2>2. CASE DeleteFree(s)
    <3>1. /\ pc[s] = "free" /\ pc'[s] = "unlock" /\ ret'[s] = 1 /\ dst' = dst
          /\ \A t \in Threads \ {s} : ret'[t] = ret[t]
      BY <2>2 DEF DeleteFree, Return, IInv, LockInv, TypeOK
    <3>2. dst[s] = NULL
      BY <3>1 DEF DstInv
    <3> QED BY <3>1, <3>2, ReplyIs DEF OthersWait
  <2> QED BY <2>1, <2>2
<1>3. \E M : Writing(s, M) /\ Chain(b)' = Chain(b) /\ M \cap Chain(b) = {}
  <2>1. CASE InsertBuild(s)
    <3>1. /\ Writing(s, {node'[s]}) /\ Chain(b)' = Chain(b) /\ node'[s] \notin Chain(b)
      BY <1>1, <2>1, InsertBuildStep
    <3>2. {node'[s]} \cap Chain(b) = {}
      BY <3>1
    <3> QED BY <3>1, <3>2
  <2>2. CASE InsertLink(s) \/ DeleteFree(s)
    <3>1. node[s] \notin Chain(b)
      BY <2>2 DEF InsertLink, DeleteFree, IInv, Knows, InHand
    <3>2. Writing(s, {node[s]}) /\ Chain(b)' = Chain(b)
      BY <1>1, <2>2, InsertLinkStep, DeleteFreeStep
    <3>3. {node[s]} \cap Chain(b) = {}
      BY <3>1
    <3> QED BY <3>2, <3>3
  <2> QED BY <2>1, <2>2
<1>4. storeBar' = storeBar
  BY <1>1, <1>2, <1>3, HiddenStore
<1>5. Mine(s) /\ op' = op
  BY <1>3 DEF Writing
<1> QED BY <1>2, <1>4, <1>5, Silent

\* An insert that runs out of memory fails when it has freed what it had.
LEMMA UndoMaps ==
  ASSUME IInv, DstInv, IInv', NEW s \in Threads, InsertUndo(s)
  PROVE  Map!Apply(s)
<1>1. /\ pc[s] = "undo" /\ pc'[s] = "unlock" /\ ret'[s] = -1
      /\ UNCHANGED <<op, node, dst>> /\ OthersWait(s)
  BY DEF InsertUndo, Return, IInv, LockInv, TypeOK, OthersWait
<1>2. PICK b \in Buckets : b = Idx(s)
  BY <1>1, WriterFacts DEF Inside
<1>3. op[s].name = "insert" /\ Absent(s) /\ {node[s]} \cap Chain(b) = {}
  BY <1>1 DEF IInv, Knows, InHand
<1>4. Writing(s, {node[s]}) /\ Chain(b)' = Chain(b)
  BY <1>2, InsertUndoStep
<1>5. storeBar' = storeBar
  BY <1>1, <1>2, <1>3, <1>4, HiddenStore
<1>6. ~ Map!Present(op[s])
  BY <1>1, <1>3, KeyAbsent DEF Map!Present, Inside
<1>7. replyBar'[s] = [ret |-> -1, dst |-> NULL]
  BY <1>1, ReplyIs DEF DstInv
<1>8. Mine(s)
  BY <1>4 DEF Writing
<1>9. /\ Map!Answer(s, -1, NULL) /\ replyBar[s] = NoReply
      /\ s \in {t \in Threads : pc[t] # "idle"}
      /\ {t \in Threads : pc'[t] # "idle"} = {t \in Threads : pc[t] # "idle"}
  BY <1>1, <1>7, <1>8, Effect
<1> QED BY <1>1, <1>3, <1>5, <1>6, <1>9 DEF Map!Apply, Map!Stores

LEMMA PublishMaps ==
  ASSUME IInv, DstInv, IInv', NEW s \in Threads, InsertPublish(s)
  PROVE  Map!Apply(s)
<1> DEFINE k == op[s].key
<1>1. /\ pc[s] = "publish" /\ pc'[s] = "unlock" /\ ret'[s] = 1
      /\ UNCHANGED <<key, value, op, node, dst>> /\ OthersWait(s)
  BY DEF InsertPublish, Return, IInv, LockInv, TypeOK, OthersWait, heap
<1>2. PICK b \in Buckets : b = Idx(s)
  BY <1>1, WriterFacts DEF Inside
<1>3. k \in Keys /\ hash(k) = b
  BY <1>1, <1>2, WriterFacts DEF Inside, Idx
<1>4. /\ op[s].name = "insert" /\ Absent(s) /\ key[node[s]] = k
      /\ value[node[s]] = op[s].value /\ node[s] \notin Chain(b)
  BY <1>1 DEF IInv, Knows, InHand
<1>5. op[s].value # Freed
  BY <1>1, <1>4, WriterFacts DEF Inside
<1>6. Writing(s, {node[s]}) /\ Chain(b)' = Chain(b) \cup {node[s]}
  BY <1>2, InsertPublishStep
<1>7. storeBar' = [storeBar EXCEPT ![k] = storeBar'[k]]
  BY <1>1, <1>2, <1>4, <1>6, WriterStore
<1>8. storeBar'[k] = op[s].value
  <2>1. node[s] \in Chain(b)' /\ key'[node[s]] = k /\ value'[node[s]] = op[s].value
    BY <1>1, <1>4, <1>6
  <2> QED BY <1>3, <1>5, <2>1, StoreIsNext DEF StoreMeans
<1>9. ~ Map!Present(op[s])
  BY <1>1, <1>4, KeyAbsent DEF Map!Present, Inside
<1>10. replyBar'[s] = [ret |-> 1, dst |-> NULL]
  BY <1>1, ReplyIs DEF DstInv
<1>11. Mine(s)
  BY <1>6 DEF Writing
<1>12. /\ Map!Answer(s, 1, NULL) /\ replyBar[s] = NoReply
       /\ s \in {t \in Threads : pc[t] # "idle"}
       /\ {t \in Threads : pc'[t] # "idle"} = {t \in Threads : pc[t] # "idle"}
  BY <1>1, <1>10, <1>11, Effect
<1> QED BY <1>1, <1>4, <1>7, <1>8, <1>9, <1>12 DEF Map!Apply, Map!Stores

LEMMA UpdateFreeMaps ==
  ASSUME IInv, DstInv, IInv', NEW s \in Threads, UpdateFree(s)
  PROVE  Map!Apply(s)
<1> DEFINE k == op[s].key
<1>1. /\ pc[s] = "search" /\ pc'[s] = "assign" /\ op[s].name = "update" /\ AtKey(s)
      /\ UNCHANGED <<key, op, node, ret, dst>> /\ OthersWait(s)
  BY DEF UpdateFree, In, IInv, LockInv, OthersWait
<1>2. PICK b \in Buckets : b = Idx(s)
  BY <1>1, WriterFacts DEF Inside
<1>3. k \in Keys /\ hash(k) = b /\ Chain(b) \subseteq Nodes
  BY <1>1, <1>2, WriterFacts DEF Inside, Idx
<1>4. node[s] \in Chain(b) /\ key[node[s]] = k
  BY <1>1, <1>2 DEF IInv, Knows, AtKey
<1>5. Writing(s, {node[s]}) /\ Chain(b)' = Chain(b)
  BY <1>2, UpdateFreeStep
<1>6. storeBar' = [storeBar EXCEPT ![k] = storeBar'[k]]
  <2>1. \A n \in Nodes \ {node[s]} : key'[n] = key[n] /\ value'[n] = value[n]
    BY <1>5 DEF Writing
  <2> QED BY <1>1, <1>2, <1>4, <1>5, <2>1, WriterStore
<1>7. storeBar'[k] = op[s].value
  <2>1. value'[node[s]] = Freed
    BY <1>3, <1>4 DEF UpdateFree, IInv, TypeOK
  <2> QED BY <1>1, <1>3, <1>4, <1>5, <2>1, StoreIsNext DEF StoreMeans
<1>8. Map!Present(op[s])
  BY <1>1, KeyFound DEF Map!Present
<1>9. replyBar'[s] = [ret |-> 1, dst |-> NULL]
  BY <1>1, ReplyIs
<1>10. Mine(s)
  BY <1>5 DEF Writing
<1>11. /\ Map!Answer(s, 1, NULL) /\ replyBar[s] = NoReply
       /\ s \in {t \in Threads : pc[t] # "idle"}
       /\ {t \in Threads : pc'[t] # "idle"} = {t \in Threads : pc[t] # "idle"}
  BY <1>1, <1>9, <1>10, Effect
<1> QED BY <1>1, <1>6, <1>7, <1>8, <1>11 DEF Map!Apply, Map!Stores

LEMMA UpdateAssignMaps ==
  ASSUME IInv, DstInv, IInv', NEW s \in Threads, UpdateAssign(s)
  PROVE  UNCHANGED Map!vars
<1> DEFINE k == op[s].key
<1>1. /\ pc[s] = "assign" /\ pc'[s] = "unlock" /\ ret'[s] = 1
      /\ UNCHANGED <<key, op, node, dst>> /\ OthersWait(s)
  BY DEF UpdateAssign, Return, IInv, LockInv, TypeOK, OthersWait
<1>2. PICK b \in Buckets : b = Idx(s)
  BY <1>1, WriterFacts DEF Inside
<1>3. k \in Keys /\ hash(k) = b /\ Chain(b) \subseteq Nodes
  BY <1>1, <1>2, WriterFacts DEF Inside, Idx
<1>4. /\ node[s] \in Chain(b) /\ key[node[s]] = k /\ value[node[s]] = Freed
      /\ op[s].name = "update"
  BY <1>1, <1>2 DEF IInv, Knows
<1>5. op[s].value # Freed
  BY <1>1, <1>4, WriterFacts DEF Inside
<1>6. Writing(s, {node[s]}) /\ Chain(b)' = Chain(b)
  BY <1>2, UpdateAssignStep
<1>7. storeBar' = [storeBar EXCEPT ![k] = storeBar'[k]]
  <2>1. \A n \in Nodes \ {node[s]} : key'[n] = key[n] /\ value'[n] = value[n]
    BY <1>6 DEF Writing
  <2> QED BY <1>1, <1>2, <1>4, <1>6, <2>1, WriterStore
<1>8. storeBar'[k] = op[s].value /\ storeBar[k] = op[s].value
  <2>1. value'[node[s]] = op[s].value
    BY <1>3, <1>4 DEF UpdateAssign, IInv, TypeOK
  <2>2. storeBar'[k] = op[s].value
    BY <1>1, <1>3, <1>4, <1>5, <1>6, <2>1, StoreIsNext DEF StoreMeans
  <2> QED BY <1>1, <1>3, <1>4, <2>2, StoreIs DEF StoreMeans
<1>9. storeBar' = storeBar
  <2>1. storeBar = [j \in Keys |-> storeBar[j]]
    BY DEF storeBar
  <2> QED BY <1>7, <1>8, <2>1
<1>10. replyBar'[s] = replyBar[s]
  BY <1>1, ReplyIs DEF DstInv
<1>11. Mine(s)
  BY <1>6 DEF Writing
<1> QED BY <1>1, <1>9, <1>10, <1>11, Silent

LEMMA DeleteUnlinkMaps ==
  ASSUME IInv, DstInv, IInv', NEW s \in Threads, DeleteUnlink(s)
  PROVE  Map!Apply(s)
<1> DEFINE k == op[s].key
<1>1. /\ pc[s] = "search" /\ pc'[s] = "free" /\ op[s].name = "delete" /\ AtKey(s)
      /\ UNCHANGED <<key, value, op, node, ret, dst>> /\ OthersWait(s)
  BY DEF DeleteUnlink, In, IInv, LockInv, OthersWait
<1>2. PICK b \in Buckets : b = Idx(s)
  BY <1>1, WriterFacts DEF Inside
<1>3. k \in Keys /\ hash(k) = b /\ ChainAt(b)
  BY <1>1, <1>2, WriterFacts DEF Inside, Idx
<1>4. node[s] \in Chain(b) /\ key[node[s]] = k
  BY <1>1, <1>2 DEF IInv, Knows, AtKey
<1>5. Writing(s, {prev[s]} \cap Nodes) /\ Chain(b)' = Chain(b) \ {node[s]}
  BY <1>2, DeleteUnlinkStep
<1>6. storeBar' = [storeBar EXCEPT ![k] = storeBar'[k]]
  BY <1>1, <1>2, <1>4, <1>5, WriterStore
<1>7. storeBar'[k] = NULL
  <2>1. \A n \in Chain(b)' : key'[n] # k
    BY <1>1, <1>3, <1>4, <1>5 DEF ChainAt
  <2> QED BY <1>3, <2>1, StoreIsNext DEF StoreMeans
<1>8. Map!Present(op[s])
  BY <1>1, KeyFound DEF Map!Present
<1>9. replyBar'[s] = [ret |-> 1, dst |-> NULL]
  BY <1>1, ReplyIs
<1>10. Mine(s)
  BY <1>5 DEF Writing
<1>11. /\ Map!Answer(s, 1, NULL) /\ replyBar[s] = NoReply
       /\ s \in {t \in Threads : pc[t] # "idle"}
       /\ {t \in Threads : pc'[t] # "idle"} = {t \in Threads : pc[t] # "idle"}
  BY <1>1, <1>9, <1>10, Effect
<1> QED BY <1>1, <1>6, <1>7, <1>8, <1>11 DEF Map!Apply

-----------------------------------------------------------------------------
(* The theorem                                                             *)

LEMMA DstStep == IInv /\ DstInv /\ [Next]_vars => DstInv'
<1> SUFFICES ASSUME IInv, DstInv, [Next]_vars PROVE DstInv'
  OBVIOUS
<1>1. pc \in [Threads -> Labels] /\ dst \in [Threads -> Values \cup {NULL}]
  BY DEF IInv, LockInv, TypeOK
<1>2. ASSUME NEW s \in Threads, Step(s) PROVE DstInv'
  <2>1. CASE ReadCopy(s) \/ Unlock(s)
    BY <1>1, <2>1 DEF DstInv, ReadCopy, Unlock, Return
  <2>2. CASE Lock(s) \/ Advance(s) \/ Refuse(s) \/ OutOfMemory(s) \/ InsertBuild(s)
              \/ InsertUndo(s) \/ InsertLink(s) \/ InsertPublish(s) \/ UpdateFree(s) \/ UpdateAssign(s)
              \/ DeleteUnlink(s) \/ DeleteFree(s)
    <3>1. dst' = dst /\ pc[s] # "unlock" /\ \A t \in Threads \ {s} : pc'[t] = pc[t]
      BY <1>1, <2>2 DEF Lock, Advance, Refuse, OutOfMemory, InsertBuild, InsertUndo,
         InsertLink, InsertPublish, UpdateFree, UpdateAssign, DeleteUnlink, DeleteFree, Return, In
    <3> QED BY <3>1 DEF DstInv
  <2> QED BY <1>2, <2>1, <2>2 DEF Step
<1>3. ASSUME NEW s \in Threads, NEW o \in Operations, Call(s, o) PROVE DstInv'
  BY <1>1, <1>3 DEF DstInv, Call
<1>4. CASE UNCHANGED vars
  BY <1>4 DEF DstInv, vars
<1> QED BY <1>2, <1>3, <1>4 DEF Next

LEMMA StepMaps ==
  IInv /\ IInv' /\ DstInv /\ [Next]_vars => [Map!Next]_(Map!vars)
<1> SUFFICES ASSUME IInv, IInv', DstInv, [Next]_vars PROVE [Map!Next]_(Map!vars)
  OBVIOUS
<1>1. ASSUME NEW s \in Threads, Step(s) PROVE [Map!Next]_(Map!vars)
  BY <1>1, SearchMaps, ReturnMaps, HiddenMaps, UndoMaps, PublishMaps,
     UpdateFreeMaps, UpdateAssignMaps, DeleteUnlinkMaps, UnlockMaps DEF Step, Map!Next
<1>2. ASSUME NEW s \in Threads, NEW o \in Operations, Call(s, o)
      PROVE  [Map!Next]_(Map!vars)
  BY <1>2, CallMaps DEF Map!Next
<1>3. CASE UNCHANGED vars
  <2>1. TableSame /\ UNCHANGED <<pc, op, node, ret, dst>>
    BY <1>3 DEF vars, TableSame
  <2>2. storeBar' = storeBar
    <3>1. ASSUME NEW k \in Keys PROVE storeBar'[k] = storeBar[k]
      <4>1. /\ Chain(hash(k))' = Chain(hash(k)) /\ key' = key /\ value' = value
            /\ pc' = pc /\ node' = node /\ op' = op
        BY <2>1, SameWalks DEF TableSame, heap
      <4> QED BY <4>1, KeyStays
    <3>2. storeBar = [k \in Keys |-> storeBar[k]] /\ storeBar' = [k \in Keys |-> storeBar'[k]]
      BY DEF storeBar
    <3> QED BY <3>1, <3>2
  <2>3. replyBar' = replyBar
    BY <2>1 DEF replyBar
  <2> QED BY <2>1, <2>2, <2>3 DEF Map!vars
<1> QED BY <1>1, <1>2, <1>3 DEF Next

\* For every set of workers, keys and values the table is linearizable: its callers
\* cannot tell it from a map whose operations happen at one instant, whatever the
\* interleaving of the pointer accesses of hashtable.c under the locks of its
\* buckets, with calloc and strdup failing at will.
THEOREM TableLinearizable == Spec => Linearizable
<1>1. Spec => []DstInv
  <2>1. Init => DstInv
    BY DEF Init, DstInv
  <2> QED BY <2>1, DstStep, Invariance, PTL DEF Spec
<1> QED BY <1>1, InitMap, StepMaps, Invariance, PTL DEF Spec, Linearizable, Map!Spec
=============================================================================
