---------------------------- MODULE DirTreeProofs ----------------------------
(***************************************************************************)
(* Proofs about dirtree, for every tree, every depth, every pattern and    *)
(* every failure: PendingSound and CountsExact.                            *)
(***************************************************************************)
EXTENDS DirTree, FiniteSetTheorems, SequenceTheorems, WellFoundedInduction, TLAPS

Frames == [dir : Int, begun : BOOLEAN, left : SUBSET Nat, idx : Int]
Lines  == [kind : {"root", "full", "name", "error"}, node : Int, depth : Int]

-----------------------------------------------------------------------------
(* Sequences                                                               *)

Front(s) == SubSeq(s, 1, Len(s) - 1)

\* All but the last of a sequence.
LEMMA FrontIs ==
  ASSUME NEW S, NEW s \in Seq(S), s # <<>>
  PROVE  /\ Len(s) \in Nat \ {0} /\ s[Len(s)] \in S
         /\ Front(s) \in Seq(S) /\ Len(Front(s)) = Len(s) - 1
         /\ \A i \in 1 .. Len(s) - 1 : Front(s)[i] = s[i]
         /\ Front(s) = <<>> <=> Len(s) = 1
<1>1. Len(s) \in Nat \ {0}
  BY EmptySeq
<1>2. \A i \in 1 .. Len(s) : s[i] \in S
  BY ElementOfSeq
<1>3. \A i \in 1 .. Len(s) - 1 : s[i] \in S
  BY <1>1, <1>2
<1>4. /\ Front(s) \in Seq(S) /\ Len(Front(s)) = IF 1 <= Len(s) - 1 THEN Len(s) - 1 - 1 + 1 ELSE 0
      /\ \A i \in 1 .. Len(s) - 1 - 1 + 1 : Front(s)[i] = s[1 + i - 1]
  BY <1>1, <1>3, SubSeqProperties DEF Front
<1>5. Len(Front(s)) = Len(s) - 1 /\ \A i \in 1 .. Len(s) - 1 : Front(s)[i] = s[i]
  <2> DEFINE f == Front(s)
             n == Len(s)
  <2>1. /\ n \in Nat \ {0} /\ Len(f) = IF 1 <= n - 1 THEN n - 1 - 1 + 1 ELSE 0
        /\ \A i \in 1 .. n - 1 - 1 + 1 : f[i] = s[1 + i - 1]
    BY <1>1, <1>4
  <2> HIDE DEF f, n
  <2>2. Len(f) = n - 1
    BY <2>1
  <2>3. ASSUME NEW i \in 1 .. n - 1 PROVE f[i] = s[i]
    <3>1. i \in 1 .. n - 1 - 1 + 1 /\ 1 + i - 1 = i
      BY <2>1
    <3> QED BY <2>1, <3>1
  <2> QED BY <2>2, <2>3 DEF f, n
<1>6. Front(s) = <<>> <=> Len(s) = 1
  BY <1>1, <1>4, <1>5, EmptySeq
<1> QED BY <1>1, <1>2, <1>4, <1>5, <1>6

\* The last of a sequence is changed.
LEMMA LastChanges ==
  ASSUME NEW S, NEW s \in Seq(S), s # <<>>, NEW e \in S
  PROVE  /\ Append(Front(s), e) \in Seq(S) /\ Append(Front(s), e) # <<>>
         /\ Len(Append(Front(s), e)) = Len(s)
         /\ \A i \in 1 .. Len(s) - 1 : Append(Front(s), e)[i] = s[i]
         /\ Append(Front(s), e)[Len(s)] = e
<1>1. /\ Len(s) \in Nat \ {0} /\ Front(s) \in Seq(S) /\ Len(Front(s)) = Len(s) - 1
      /\ \A i \in 1 .. Len(s) - 1 : Front(s)[i] = s[i]
  BY FrontIs
<1>2. /\ Append(Front(s), e) \in Seq(S) /\ Append(Front(s), e) # <<>>
      /\ Len(Append(Front(s), e)) = Len(Front(s)) + 1
      /\ \A i \in 1 .. Len(Front(s)) : Append(Front(s), e)[i] = Front(s)[i]
      /\ Append(Front(s), e)[Len(Front(s)) + 1] = e
  BY <1>1, AppendProperties
<1> QED BY <1>1, <1>2

\* A line is printed, after those of p.
LEMMA PrintsAfter ==
  ASSUME NEW o \in Seq(Lines), NEW p \in Seq(Lines), NEW x \in Lines,
         NEW q, q = Append(o \o p, x)
  PROVE  /\ q \in Seq(Lines) /\ Len(o) \in Nat /\ Len(p) \in Nat
         /\ Len(q) = Len(o) + Len(p) + 1
         /\ \A i \in 1 .. Len(o) : q[i] = o[i]
         /\ \A i \in 1 .. Len(p) : q[Len(o) + i] = p[i]
         /\ q[Len(q)] = x
         /\ \A i \in 1 .. Len(q) : \/ i \in 1 .. Len(o)
                                   \/ i - Len(o) \in 1 .. Len(p) /\ q[i] = p[i - Len(o)]
                                   \/ i = Len(q)
<1>1. Len(o) \in Nat /\ Len(p) \in Nat
  BY LenProperties
<1>2. /\ o \o p \in Seq(Lines) /\ Len(o \o p) = Len(o) + Len(p)
      /\ \A i \in 1 .. Len(o) + Len(p) : (o \o p)[i] = IF i <= Len(o) THEN o[i] ELSE p[i - Len(o)]
  BY ConcatProperties
<1> DEFINE r == o \o p
<1> HIDE DEF r
<1>3. /\ q \in Seq(Lines) /\ Len(q) = Len(r) + 1 /\ q[Len(r) + 1] = x
      /\ \A i \in 1 .. Len(r) : q[i] = r[i]
  BY <1>2, AppendProperties DEF r
<1>4. /\ Len(r) = Len(o) + Len(p)
      /\ \A i \in 1 .. Len(o) + Len(p) : r[i] = IF i <= Len(o) THEN o[i] ELSE p[i - Len(o)]
  BY <1>2 DEF r
<1>5. \A i \in 1 .. Len(o) : q[i] = o[i]
  BY <1>1, <1>3, <1>4
<1>6. \A i \in 1 .. Len(p) : q[Len(o) + i] = p[i]
  BY <1>1, <1>3, <1>4
<1>7. ASSUME NEW i \in 1 .. Len(q), i \notin 1 .. Len(o), i # Len(q)
      PROVE  i - Len(o) \in 1 .. Len(p) /\ q[i] = p[i - Len(o)]
  <2>1. i \in Nat /\ i > Len(o) /\ i <= Len(o) + Len(p)
    BY <1>1, <1>3, <1>4, <1>7
  <2>2. q[i] = r[i] /\ r[i] = p[i - Len(o)]
    <3>1. i \in 1 .. Len(o) + Len(p) /\ ~ (i <= Len(o))
      BY <1>1, <2>1
    <3> QED BY ONLY <1>3, <1>4, <3>1
  <2> QED BY <1>1, <2>1, <2>2
<1> QED BY <1>1, <1>3, <1>4, <1>5, <1>6, <1>7

-----------------------------------------------------------------------------
(* The pending paths                                                       *)

Printed(o, n) == \E j \in 1 .. Len(o) : o[j].node = n

\* Of the calls k, the first s have their directories printed in o, and the
\* others wait in p, each with its place there for my_pending_idx.
Waiting(k, p, o, s) ==
  /\ s \in 0 .. Len(k) /\ Len(p) = Len(k) - s /\ (k # <<>> => s > 0)
  /\ Len(k) <= in.max_depth
  /\ \A i \in 1 .. Len(p) : p[i] = Line("name", k[s + i].dir, s + i - 1)
  /\ \A i \in 1 .. Len(k) : /\ Printed(o, k[i].dir) <=> i <= s
                            /\ k[i].idx \in {-1} \cup Nat
                            /\ i > s => k[i].idx = i - s - 1

\* Only where the calls are and where their paths are matters.
LEMMA WaitingAlike ==
  ASSUME NEW k \in Seq(Frames), NEW p, NEW o, NEW s, Waiting(k, p, o, s),
         NEW k2 \in Seq(Frames), Len(k2) = Len(k), k # <<>>,
         \A i \in 1 .. Len(k) : k2[i].dir = k[i].dir /\ k2[i].idx = k[i].idx
  PROVE  Waiting(k2, p, o, s)
<1>1. Len(k) \in Nat \ {0}
  BY EmptySeq
<1>2. \A i \in 1 .. Len(p) : s + i \in 1 .. Len(k)
  BY <1>1 DEF Waiting
<1>3. s > 0
  BY DEF Waiting
<1> QED BY <1>1, <1>2, <1>3 DEF Waiting

\* All that waits is printed, and a line after it.
LEMMA AllPrinted ==
  ASSUME NEW k \in Seq(Frames), NEW p \in Seq(Lines), NEW o \in Seq(Lines), NEW s,
         Waiting(k, p, o, s), NEW x \in Lines, NEW q, q = Append(o \o p, x)
  PROVE  Waiting(k, <<>>, q, Len(k))
<1>1. Len(k) \in Nat /\ (k # <<>> => Len(k) > 0) /\ Len(<<>>) = 0
  BY EmptySeq
<1>2. /\ Len(o) \in Nat /\ Len(p) \in Nat /\ Len(q) = Len(o) + Len(p) + 1
      /\ \A i \in 1 .. Len(o) : q[i] = o[i]
      /\ \A i \in 1 .. Len(p) : q[Len(o) + i] = p[i]
  BY PrintsAfter
<1>3. ASSUME NEW i \in 1 .. Len(k) PROVE Printed(q, k[i].dir)
  <2>1. CASE i <= s
    <3>1. PICK j \in 1 .. Len(o) : o[j].node = k[i].dir
      BY <2>1 DEF Waiting, Printed
    <3>2. j \in 1 .. Len(q) /\ q[j].node = k[i].dir
      BY <1>2, <3>1
    <3> QED BY <3>2 DEF Printed
  <2>2. CASE ~ (i <= s)
    <3>1. i - s \in 1 .. Len(p) /\ s + (i - s) = i
      BY <1>1, <2>2 DEF Waiting
    <3>2. PICK d \in 1 .. Len(p) : s + d = i
      BY <3>1
    <3>3. p[d] = Line("name", k[i].dir, s + d - 1)
      BY <3>2 DEF Waiting
    <3>4. Len(o) + d \in 1 .. Len(q) /\ q[Len(o) + d] = p[d]
      BY <1>2
    <3> QED BY <3>3, <3>4 DEF Printed, Line
  <2> QED BY <2>1, <2>2
<1>4. \A i \in 1 .. Len(k) : k[i].idx \in {-1} \cup Nat
  BY DEF Waiting
<1> QED BY <1>1, <1>3, <1>4 DEF Waiting

\* A call for a directory that matches, or for a root: it is printed.
LEMMA CallsPrinted ==
  ASSUME NEW k \in Seq(Frames), NEW o, NEW f \in Frames,
         Waiting(k, <<>>, o, Len(k)), Len(k) < in.max_depth, in.max_depth \in Nat,
         f.idx = -1, Printed(o, f.dir)
  PROVE  Waiting(Append(k, f), <<>>, o, Len(Append(k, f)))
<1>1. Len(k) \in Nat /\ Len(<<>>) = 0
  BY LenProperties
<1> DEFINE a == Append(k, f)
<1>2. /\ a \in Seq(Frames) /\ Len(a) = Len(k) + 1 /\ a[Len(k) + 1] = f
      /\ \A i \in 1 .. Len(k) : a[i] = k[i]
  BY AppendProperties
<1> HIDE DEF a
<1>3. ASSUME NEW i \in 1 .. Len(a)
      PROVE  Printed(o, a[i].dir) /\ a[i].idx \in {-1} \cup Nat
  <2>1. CASE i \in 1 .. Len(k)
    BY <1>1, <1>2, <2>1 DEF Waiting
  <2>2. CASE i = Len(k) + 1
    BY <1>2, <2>2
  <2> QED BY <1>1, <1>2, <2>1, <2>2
<1>4. Waiting(a, <<>>, o, Len(a))
  BY <1>1, <1>2, <1>3 DEF Waiting
<1> QED BY <1>4 DEF a

\* A call for a directory that does not match: its path waits.
LEMMA CallsWaiting ==
  ASSUME NEW k \in Seq(Frames), NEW p \in Seq(Lines), NEW o, NEW s, NEW f \in Frames,
         Waiting(k, p, o, s), k # <<>>, Len(k) < in.max_depth, in.max_depth \in Nat,
         f.idx = Len(p), ~ Printed(o, f.dir), NEW x \in Lines,
         x = Line("name", f.dir, Len(k))
  PROVE  Waiting(Append(k, f), Append(p, x), o, s)
<1>1. Len(k) \in Nat \ {0} /\ Len(p) \in Nat /\ s \in Nat /\ s <= Len(k) /\ s > 0
      /\ Len(p) = Len(k) - s
  BY EmptySeq, LenProperties DEF Waiting
<1> DEFINE a == Append(k, f)
           b == Append(p, x)
<1>2. /\ a \in Seq(Frames) /\ Len(a) = Len(k) + 1 /\ a[Len(k) + 1] = f
      /\ \A i \in 1 .. Len(k) : a[i] = k[i]
  BY AppendProperties
<1>3. /\ Len(b) = Len(p) + 1 /\ b[Len(p) + 1] = x /\ \A i \in 1 .. Len(p) : b[i] = p[i]
  BY AppendProperties
<1> HIDE DEF a, b
<1>4. ASSUME NEW i \in 1 .. Len(b)
      PROVE  b[i] = Line("name", a[s + i].dir, s + i - 1)
  <2>1. CASE i \in 1 .. Len(p)
    <3>1. p[i] = Line("name", k[s + i].dir, s + i - 1)
      BY <2>1 DEF Waiting
    <3>2. s + i \in 1 .. Len(k)
      BY <1>1, <2>1
    <3> QED BY <1>2, <1>3, <2>1, <3>1, <3>2
  <2>2. CASE i = Len(p) + 1
    <3>1. s + i = Len(k) + 1 /\ s + i - 1 = Len(k)
      BY <1>1, <2>2
    <3> QED BY <1>2, <1>3, <2>2, <3>1
  <2>3. i \in 1 .. Len(p) \/ i = Len(p) + 1
    <3>1. i \in 1 .. Len(p) + 1 /\ Len(p) \in Nat
      BY <1>1, <1>3
    <3> QED BY <3>1
  <2> QED BY <2>1, <2>2, <2>3
<1>5. ASSUME NEW i \in 1 .. Len(a)
      PROVE  /\ Printed(o, a[i].dir) <=> i <= s
             /\ a[i].idx \in {-1} \cup Nat
             /\ i > s => a[i].idx = i - s - 1
  <2>1. CASE i \in 1 .. Len(k)
    <3>1. a[i] = k[i]
      BY <1>2, <2>1
    <3> QED BY <2>1, <3>1 DEF Waiting
  <2>2. CASE i = Len(k) + 1
    <3>1. a[i] = f /\ i > s /\ i - s - 1 = Len(p) /\ ~ (i <= s)
      BY <1>1, <1>2, <2>2
    <3> QED BY <1>1, <3>1
  <2>3. i \in 1 .. Len(k) \/ i = Len(k) + 1
    <3>1. i \in 1 .. Len(k) + 1 /\ Len(k) \in Nat
      BY <1>1, <1>2
    <3> QED BY <3>1
  <2> QED BY <2>1, <2>2, <2>3
<1>6. s \in 0 .. Len(a) /\ Len(b) = Len(a) - s /\ Len(a) <= in.max_depth
  BY <1>1, <1>2, <1>3
<1>7. Waiting(a, b, o, s)
  BY <1>1, <1>4, <1>5, <1>6 DEF Waiting
<1> QED BY <1>7 DEF a, b

\* A call returns; its path, if it still waits, is the last that does.
LEMMA ReturnWaits ==
  ASSUME NEW k \in Seq(Frames), NEW p \in Seq(Lines), NEW o, NEW s,
         Waiting(k, p, o, s), k # <<>>, in.max_depth \in Nat
  PROVE  /\ Kept(p, k[Len(k)].idx) \in Seq(Lines)
         /\ \E t : Waiting(Front(k), Kept(p, k[Len(k)].idx), o, t)
<1>1. Len(k) \in Nat \ {0} /\ Len(p) \in Nat /\ s \in Nat /\ s <= Len(k) /\ s > 0
      /\ Len(p) = Len(k) - s /\ Len(k) \in 1 .. Len(k) /\ Len(k) <= in.max_depth
  BY EmptySeq, LenProperties DEF Waiting
<1>2. /\ k[Len(k)].idx \in {-1} \cup Nat
      /\ Len(k) > s => k[Len(k)].idx = Len(k) - s - 1
  BY <1>1 DEF Waiting
<1> DEFINE a == Front(k)
           b == Kept(p, k[Len(k)].idx)
<1>3. /\ Len(a) = Len(k) - 1 /\ \A i \in 1 .. Len(k) - 1 : a[i] = k[i]
      /\ a = <<>> <=> Len(k) = 1
  BY FrontIs
<1> HIDE DEF a
<1>4. CASE Len(k) > s
  <2>1. p # <<>> /\ b = Front(p)
    <3>1. k[Len(k)].idx # -1 /\ Len(p) > k[Len(k)].idx
      BY <1>1, <1>2, <1>4
    <3>2. Len(p) > 0
      BY <1>1, <1>4
    <3> QED BY <3>1, <3>2, EmptySeq DEF Kept, Front
  <2>2. /\ b \in Seq(Lines) /\ Len(b) = Len(p) - 1 /\ \A i \in 1 .. Len(p) - 1 : b[i] = p[i]
    BY <2>1, FrontIs
  <2> HIDE DEF b
  <2>3. ASSUME NEW i \in 1 .. Len(b) PROVE b[i] = Line("name", a[s + i].dir, s + i - 1)
    <3>1. i \in 1 .. Len(p) - 1 /\ i \in 1 .. Len(p) /\ s + i \in 1 .. Len(k) - 1
      BY <1>1, <2>2
    <3>2. p[i] = Line("name", k[s + i].dir, s + i - 1)
      BY <3>1 DEF Waiting
    <3>3. b[i] = p[i] /\ a[s + i] = k[s + i]
      BY <1>3, <2>2, <3>1
    <3> QED BY <3>2, <3>3
  <2>4. ASSUME NEW i \in 1 .. Len(a)
        PROVE  /\ Printed(o, a[i].dir) <=> i <= s
               /\ a[i].idx \in {-1} \cup Nat
               /\ i > s => a[i].idx = i - s - 1
    <3>1. a[i] = k[i] /\ i \in 1 .. Len(k)
      BY <1>1, <1>3
    <3> QED BY <3>1 DEF Waiting
  <2>5. s \in 0 .. Len(a) /\ Len(b) = Len(a) - s /\ Len(a) <= in.max_depth
    BY <1>1, <1>3, <1>4, <2>2
  <2>6. Waiting(a, b, o, s)
    BY <1>1, <2>3, <2>4, <2>5 DEF Waiting
  <2> QED BY <2>2, <2>6 DEF a, b
<1>5. CASE Len(k) = s
  <2>1. Len(p) = 0
    BY <1>1, <1>5
  <2>2. b = p
    <3>1. k[Len(k)].idx # -1 => ~ (Len(p) > k[Len(k)].idx)
      BY <1>2, <2>1
    <3> QED BY <3>1 DEF Kept
  <2> HIDE DEF b
  <2>3. ASSUME NEW i \in 1 .. Len(a)
        PROVE  /\ Printed(o, a[i].dir) /\ i <= s - 1
               /\ a[i].idx \in {-1} \cup Nat
    <3>1. a[i] = k[i] /\ i \in 1 .. Len(k) /\ i <= s /\ i <= s - 1
      BY <1>1, <1>3, <1>5
    <3> QED BY <3>1 DEF Waiting
  <2>4. s - 1 \in 0 .. Len(a) /\ Len(b) = Len(a) - (s - 1) /\ Len(a) <= in.max_depth
        /\ (a # <<>> => s - 1 > 0)
    BY <1>1, <1>3, <1>5, <2>1, <2>2
  <2>5. Waiting(a, b, o, s - 1)
    BY <1>1, <2>1, <2>2, <2>3, <2>4 DEF Waiting
  <2> QED BY <2>2, <2>5 DEF a, b
<1> QED BY <1>1, <1>4, <1>5

-----------------------------------------------------------------------------
(* What the traversal has reached                                          *)

Children(n) == {m \in DOMAIN in.parent : in.parent[m] = n}

\* D holds what has had its turn: what is printed, the open directories and all
\* above it, but nothing that is left to do.
Reached(D, k, o, a) ==
  /\ D \subseteq Int
  /\ \A j \in 1 .. Len(o) : o[j].node \in D
  /\ \A n \in D : n \in DOMAIN in.parent => in.parent[n] \in D
  /\ \A i \in 1 .. Len(k) :
       /\ k[i].dir \in D
       /\ \A j \in 1 .. Len(k) : k[i].dir = k[j].dir => i = j
       /\ k[i].left \subseteq Children(k[i].dir) \ D
       /\ ~ k[i].begun => Children(k[i].dir) \cap D = {}
  /\ \A i \in 1 .. Len(a) :
       /\ a[i] \notin D /\ a[i] \notin DOMAIN in.parent
       /\ \A j \in 1 .. Len(a) : a[i] = a[j] => i = j

\* Lines about what has been reached may be printed.
LEMMA PrintsReached ==
  ASSUME NEW D, NEW k, NEW o \in Seq(Lines), NEW a, Reached(D, k, o, a),
         NEW p \in Seq(Lines), \A i \in 1 .. Len(p) : p[i].node \in D,
         NEW x \in Lines, x.node \in D
  PROVE  Reached(D, k, Append(o \o p, x), a)
<1>0. PICK q : q = Append(o \o p, x)
  OBVIOUS
<1>1. /\ \A i \in 1 .. Len(o) : q[i] = o[i]
      /\ q[Len(q)] = x
      /\ \A i \in 1 .. Len(q) : \/ i \in 1 .. Len(o)
                                \/ i - Len(o) \in 1 .. Len(p) /\ q[i] = p[i - Len(o)]
                                \/ i = Len(q)
  BY <1>0, PrintsAfter
<1>2. ASSUME NEW i \in 1 .. Len(q) PROVE q[i].node \in D
  <2>1. CASE i \in 1 .. Len(o)
    BY <1>1, <2>1 DEF Reached
  <2>2. CASE i - Len(o) \in 1 .. Len(p) /\ q[i] = p[i - Len(o)]
    BY <2>2
  <2>3. CASE i = Len(q)
    BY <1>1, <2>3
  <2> QED BY <1>1, <2>1, <2>2, <2>3
<1>3. Reached(D, k, q, a)
  BY <1>2 DEF Reached
<1> QED BY <1>0, <1>3

\* A call returns.
LEMMA ReturnReached ==
  ASSUME NEW D, NEW k \in Seq(Frames), NEW o, NEW a, Reached(D, k, o, a), k # <<>>
  PROVE  Reached(D, Front(k), o, a)
<1> DEFINE c == Front(k)
<1>1. /\ Len(k) \in Nat \ {0} /\ Len(c) = Len(k) - 1
      /\ \A i \in 1 .. Len(k) - 1 : c[i] = k[i]
  BY FrontIs
<1> HIDE DEF c
<1>2. \A i \in 1 .. Len(c) : i \in 1 .. Len(k) /\ c[i] = k[i]
  BY <1>1
<1>3. Reached(D, c, o, a)
  BY <1>2 DEF Reached
<1> QED BY <1>3 DEF c

\* The top call begins: all entries of its directory are left to do.
LEMMA OpensReached ==
  ASSUME NEW D, NEW k \in Seq(Frames), NEW o, NEW a, Reached(D, k, o, a), k # <<>>,
         NEW f \in Frames, f.dir = k[Len(k)].dir, f.begun, ~ k[Len(k)].begun,
         f.left = Children(f.dir)
  PROVE  Reached(D, Append(Front(k), f), o, a)
<1> DEFINE c == Append(Front(k), f)
<1>1. /\ Len(c) = Len(k) /\ c[Len(k)] = f /\ \A i \in 1 .. Len(k) - 1 : c[i] = k[i]
      /\ Len(k) \in Nat \ {0}
  BY LastChanges, EmptySeq
<1> HIDE DEF c
<1>2. \A i \in 1 .. Len(c) : i \in 1 .. Len(k) /\ c[i].dir = k[i].dir
  BY <1>1
<1>3. ASSUME NEW i \in 1 .. Len(c)
      PROVE  /\ c[i].left \subseteq Children(c[i].dir) \ D
             /\ ~ c[i].begun => Children(c[i].dir) \cap D = {}
  <2>1. CASE i = Len(k)
    <3>1. Children(k[i].dir) \cap D = {}
      BY <1>2, <2>1 DEF Reached
    <3> QED BY <1>1, <2>1, <3>1
  <2>2. CASE i # Len(k)
    <3>1. c[i] = k[i] /\ i \in 1 .. Len(k)
      BY <1>1, <2>2
    <3> QED BY <3>1 DEF Reached
  <2> QED BY <2>1, <2>2
<1>4. Reached(D, c, o, a)
  BY <1>1, <1>2, <1>3 DEF Reached
<1> QED BY <1>4 DEF c

\* An entry of the top call has its turn.
LEMMA TurnReached ==
  ASSUME NEW D, NEW k \in Seq(Frames), NEW o, NEW a, Reached(D, k, o, a), k # <<>>,
         NEW n \in k[Len(k)].left, n \in Int,
         NEW f \in Frames, f.dir = k[Len(k)].dir, f.begun,
         f.left = k[Len(k)].left \ {n}
  PROVE  /\ Reached(D \cup {n}, Append(Front(k), f), o, a)
         /\ n \notin D /\ n \in Children(f.dir)
<1> DEFINE c == Append(Front(k), f)
           E == D \cup {n}
<1>1. /\ Len(c) = Len(k) /\ c[Len(k)] = f /\ \A i \in 1 .. Len(k) - 1 : c[i] = k[i]
      /\ Len(k) \in Nat \ {0}
  BY LastChanges, EmptySeq
<1> HIDE DEF c
<1>2. \A i \in 1 .. Len(c) : i \in 1 .. Len(k) /\ c[i].dir = k[i].dir
  BY <1>1
<1>3. n \notin D /\ n \in Children(f.dir) /\ f.dir \in D
  <2>1. Len(k) \in 1 .. Len(k)
    BY <1>1
  <2> QED BY <2>1 DEF Reached
<1>4. ASSUME NEW i \in 1 .. Len(c)
      PROVE  /\ c[i].left \subseteq Children(c[i].dir) \ E
             /\ ~ c[i].begun => Children(c[i].dir) \cap E = {}
  <2>1. CASE i = Len(k)
    <3>1. k[i].left \subseteq Children(k[i].dir) \ D
      BY <1>2, <2>1 DEF Reached
    <3> QED BY <1>1, <2>1, <3>1
  <2>2. CASE i # Len(k)
    <3>1. c[i] = k[i] /\ i \in 1 .. Len(k) /\ Len(k) \in 1 .. Len(k)
      BY <1>1, <2>2
    <3>2. n \notin Children(k[i].dir)
      <4>1. k[i].dir # f.dir
        BY <2>2, <3>1 DEF Reached
      <4> QED BY <1>3, <4>1 DEF Children
    <3>3. /\ k[i].left \subseteq Children(k[i].dir) \ D
          /\ ~ k[i].begun => Children(k[i].dir) \cap D = {}
      BY <3>1 DEF Reached
    <3> QED BY <3>1, <3>2, <3>3
  <2> QED BY <2>1, <2>2
<1>5. \A i \in 1 .. Len(a) : a[i] # n
  BY <1>3 DEF Reached, Children
<1>6. \A m \in E : m \in DOMAIN in.parent => in.parent[m] \in E
  BY <1>3 DEF Reached, Children
<1>7. \A i \in 1 .. Len(c) : /\ c[i].dir \in E
                             /\ \A j \in 1 .. Len(c) : c[i].dir = c[j].dir => i = j
  BY <1>2 DEF Reached
<1>8. Reached(E, c, o, a)
  <2>1. E \subseteq Int /\ \A j \in 1 .. Len(o) : o[j].node \in E
    BY DEF Reached
  <2>2. \A i \in 1 .. Len(a) : /\ a[i] \notin E /\ a[i] \notin DOMAIN in.parent
                               /\ \A j \in 1 .. Len(a) : a[i] = a[j] => i = j
    BY <1>5 DEF Reached
  <2> HIDE DEF E
  <2> QED BY <1>4, <1>6, <1>7, <2>1, <2>2 DEF Reached
<1> QED BY <1>3, <1>8 DEF c

\* A directory whose turn it was is called for.
LEMMA CallsReached ==
  ASSUME NEW D, NEW k \in Seq(Frames), NEW o, NEW a, Reached(D, k, o, a),
         NEW f \in Frames, f.dir \in D, f.left = {},
         Children(f.dir) \cap D = {}, \A i \in 1 .. Len(k) : k[i].dir # f.dir
  PROVE  Reached(D, Append(k, f), o, a)
<1> DEFINE c == Append(k, f)
<1>1. /\ Len(c) = Len(k) + 1 /\ c[Len(k) + 1] = f /\ \A i \in 1 .. Len(k) : c[i] = k[i]
      /\ Len(k) \in Nat
  BY AppendProperties, LenProperties
<1> HIDE DEF c
<1>2. \A i \in 1 .. Len(c) : \/ i \in 1 .. Len(k) /\ c[i] = k[i]
                             \/ i = Len(k) + 1 /\ c[i] = f
  BY <1>1
<1>3. ASSUME NEW i \in 1 .. Len(c)
      PROVE  /\ c[i].dir \in D
             /\ c[i].left \subseteq Children(c[i].dir) \ D
             /\ ~ c[i].begun => Children(c[i].dir) \cap D = {}
  <2>1. CASE i \in 1 .. Len(k) /\ c[i] = k[i]
    BY <2>1 DEF Reached
  <2>2. CASE i = Len(k) + 1 /\ c[i] = f
    BY <2>2
  <2> QED BY <1>2, <2>1, <2>2
<1>4. ASSUME NEW i \in 1 .. Len(c), NEW j \in 1 .. Len(c), c[i].dir = c[j].dir
      PROVE  i = j
  <2>1. CASE i \in 1 .. Len(k) /\ c[i] = k[i] /\ j \in 1 .. Len(k) /\ c[j] = k[j]
    BY <1>4, <2>1 DEF Reached
  <2> QED BY <1>2, <1>4, <2>1
<1>5. Reached(D, c, o, a)
  BY <1>3, <1>4 DEF Reached
<1> QED BY <1>5 DEF c

-----------------------------------------------------------------------------
(* The order of the entries                                                *)

\* The order of the numbers has no endless descent.
LEMMA LessWellFounded ==
  IsWellFoundedOn({p \in Nat \X Nat : p[1] < p[2]}, Nat)
<1>1. OpToRel(<, Nat) = {p \in Nat \X Nat : p[1] < p[2]}
  BY DEF OpToRel
<1> QED BY <1>1, NatLessThanWellFounded

\* A set of numbers that is not empty has a least one.
LEMMA LeastNumber ==
  ASSUME NEW T, T \subseteq Nat, T # {}
  PROVE  \E x \in T : \A y \in T : x <= y
<1> DEFINE R == {p \in Nat \X Nat : p[1] < p[2]}
<1>1. IsWellFoundedOn(R, Nat)
  BY LessWellFounded
<1>2. \E x \in T : \A y \in T : ~ (<<y, x>> \in R)
  <2> HIDE DEF R
  <2> QED BY <1>1, WFMin
<1>3. PICK x \in T : \A y \in T : ~ (y < x)
  BY <1>2
<1> QED BY <1>3

\* dirent_compare puts one entry of a directory first.
LEMMA FirstEntry ==
  ASSUME NEW S, S \subseteq Nat, S # {}
  PROVE  \E n \in S : \A o \in S \ {n} : dirent_compare(n, o)
<1> DEFINE dirs == {n \in S : d_type(n) = "dir"}
<1>1. CASE dirs # {}
  <2>1. PICK n \in dirs : \A o \in dirs : n <= o
    BY <1>1, LeastNumber
  <2>2. ASSUME NEW o \in S \ {n} PROVE dirent_compare(n, o)
    <3>1. CASE d_type(o) = "dir"
      <4>1. n < o
        BY <2>1, <3>1
      <4> QED BY <2>1, <3>1, <4>1 DEF dirent_compare
    <3>2. CASE d_type(o) # "dir"
      BY <2>1, <3>2 DEF dirent_compare
    <3> QED BY <3>1, <3>2
  <2> QED BY <2>1, <2>2
<1>2. CASE dirs = {}
  <2>1. PICK n \in S : \A o \in S : n <= o
    BY LeastNumber
  <2>2. ASSUME NEW o \in S \ {n} PROVE dirent_compare(n, o)
    <3>1. \A m \in S : d_type(m) # "dir"
      BY <1>2
    <3>2. n < o
      BY <2>1
    <3> QED BY <3>1, <3>2 DEF dirent_compare
  <2> QED BY <2>1, <2>2
<1> QED BY <1>1, <1>2

-----------------------------------------------------------------------------
(* The invariant                                                           *)

TypeOK ==
  /\ InputOK(in) /\ args \in Seq(Int) /\ stack \in Seq(Frames)
  /\ pending_paths \in Seq(Lines) /\ out \in Seq(Lines)
  /\ pc = "walk" <=> stack # <<>>

PathInv  == \E s : Waiting(stack, pending_paths, out, s)
ReachInv == \E D : Reached(D, stack, out, args)
IInv     == TypeOK /\ PathInv /\ ReachInv

\* Without calls nothing waits.
LEMMA NoneWaits ==
  ASSUME NEW o, InputOK(in)
  PROVE  Waiting(<<>>, <<>>, o, 0)
<1>1. Len(<<>>) = 0 /\ in.max_depth \in Nat
  BY InputsOK DEF InputOK
<1> QED BY <1>1 DEF Waiting

\* At first nothing is open, pending or printed.
LEMMA InitInv == Init => IInv
<1> SUFFICES ASSUME Init PROVE IInv
  OBVIOUS
<1>1. InputOK(in)
  BY InputsOK DEF Init
<1>2. TypeOK
  BY <1>1, EmptySeq DEF Init, InputOK, TypeOK
<1>3. PathInv
  BY <1>1, NoneWaits DEF Init, PathInv
<1>4. Reached({}, stack, out, args)
  BY <1>1 DEF Init, InputOK, Reached
<1> QED BY <1>2, <1>3, <1>4 DEF IInv, ReachInv

\* A line about a node.
LEMMA LineIs ==
  ASSUME NEW kind \in {"root", "full", "name", "error"}, NEW n \in Int, NEW d \in Int
  PROVE  Line(kind, n, d) \in Lines /\ Line(kind, n, d).node = n
         /\ Line(kind, n, d).kind = kind
BY DEF Line, Lines

\* Main comes to the next directory that it was given.
LEMMA RootReached ==
  ASSUME NEW D, NEW o, NEW a \in Seq(Int), a # <<>>, Reached(D, <<>>, o, a)
  PROVE  /\ Reached(D \cup {Head(a)}, <<>>, o, Tail(a)) /\ Head(a) \in Int
         /\ Tail(a) \in Seq(Int)
         /\ Children(Head(a)) \cap (D \cup {Head(a)}) = {}
<1> DEFINE r == Head(a)
           b == Tail(a)
           E == D \cup {r}
<1>1. /\ b \in Seq(Int) /\ Len(b) = Len(a) - 1 /\ \A i \in 1 .. Len(b) : b[i] = a[i + 1]
      /\ Len(a) \in Nat \ {0} /\ r \in Int
  BY HeadTailProperties, EmptySeq
<1>2. r = a[1]
  BY <1>1
<1> HIDE DEF r, b
<1>3. r \notin D /\ r \notin DOMAIN in.parent
  BY <1>1, <1>2 DEF Reached
<1>4. ASSUME NEW i \in 1 .. Len(b)
      PROVE  /\ b[i] \notin E /\ b[i] \notin DOMAIN in.parent
             /\ \A j \in 1 .. Len(b) : b[i] = b[j] => i = j
  <2>1. i + 1 \in 1 .. Len(a) /\ i + 1 # 1 /\ 1 \in 1 .. Len(a) /\ b[i] = a[i + 1]
    BY <1>1
  <2>2. b[i] # r /\ b[i] \notin D /\ b[i] \notin DOMAIN in.parent
    BY <1>2, <2>1 DEF Reached
  <2>3. ASSUME NEW j \in 1 .. Len(b), b[i] = b[j] PROVE i = j
    <3>1. j + 1 \in 1 .. Len(a) /\ b[j] = a[j + 1]
      BY <1>1
    <3>2. i + 1 = j + 1
      BY <2>1, <2>3, <3>1 DEF Reached
    <3> QED BY <3>2
  <2> QED BY <2>2, <2>3
<1>5. ASSUME NEW m \in Children(r), m \in E PROVE FALSE
  <2>1. m \in D /\ m \in DOMAIN in.parent /\ in.parent[m] = r
    BY <1>3, <1>5 DEF Children
  <2>2. in.parent[m] \in D
    BY <2>1 DEF Reached
  <2> QED BY <1>3, <2>1, <2>2
<1>6. Len(<<>>) = 0
  OBVIOUS
<1>7. E \subseteq Int /\ (\A j \in 1 .. Len(o) : o[j].node \in E)
      /\ \A n \in E : n \in DOMAIN in.parent => in.parent[n] \in E
  BY <1>1, <1>3 DEF Reached
<1>8. Reached(E, <<>>, o, b)
  <2> HIDE DEF E
  <2> QED BY <1>4, <1>6, <1>7 DEF Reached
<1> QED BY <1>1, <1>5, <1>8 DEF r, b

-----------------------------------------------------------------------------
(* The steps                                                               *)

\* The options and the pattern are read before anything is listed.
LEMMA OptionsStep ==
  ASSUME IInv, Options
  PROVE  IInv'
<1>1. TypeOK' /\ pc # "walk"
  BY DEF IInv, TypeOK, Options
<1>2. in' = in /\ args' = args /\ stack' = stack /\ pending_paths' = pending_paths /\ out' = out
  BY DEF Options
<1>3. PICK s : Waiting(stack, pending_paths, out, s)
  BY DEF IInv, PathInv
<1>4. PICK D : Reached(D, stack, out, args)
  BY DEF IInv, ReachInv
<1>5. Waiting(stack, pending_paths, out, s)'
  BY <1>2, <1>3 DEF Waiting, Printed
<1>6. Reached(D, stack, out, args)'
  BY <1>2, <1>4 DEF Reached, Children
<1> QED BY <1>1, <1>5, <1>6 DEF IInv, PathInv, ReachInv

\* At the end nothing is open.
LEMMA ExitStep ==
  ASSUME IInv, Exit
  PROVE  IInv'
<1>1. TypeOK'
  BY DEF IInv, TypeOK, Exit
<1>2. in' = in /\ args' = args /\ stack' = stack /\ pending_paths' = pending_paths /\ out' = out
  BY DEF Exit
<1>3. PICK s : Waiting(stack, pending_paths, out, s)
  BY DEF IInv, PathInv
<1>4. PICK D : Reached(D, stack, out, args)
  BY DEF IInv, ReachInv
<1>5. Waiting(stack, pending_paths, out, s)'
  BY <1>2, <1>3 DEF Waiting, Printed
<1>6. Reached(D, stack, out, args)'
  BY <1>2, <1>4 DEF Reached, Children
<1> QED BY <1>1, <1>5, <1>6 DEF IInv, PathInv, ReachInv

\* A line without any that wait before it.
LEMMA PrintsAlone ==
  ASSUME NEW o \in Seq(Lines), NEW x \in Lines
  PROVE  Append(o, x) = Append(o \o <<>>, x) /\ Append(o, x) \in Seq(Lines)
         /\ Printed(Append(o, x), x.node)
<1>1. o \o <<>> = o
  BY ConcatEmptySeq
<1>2. /\ Append(o, x) \in Seq(Lines) /\ Append(o, x)[Len(o) + 1] = x
      /\ Len(Append(o, x)) = Len(o) + 1 /\ Len(o) \in Nat
  BY AppendProperties, LenProperties
<1>3. Len(o) + 1 \in 1 .. Len(Append(o, x))
  BY <1>2
<1> QED BY <1>1, <1>2, <1>3 DEF Printed

\* A line of main about a directory that was given.
LEMMA PrintedRoot ==
  ASSUME NEW E, NEW o \in Seq(Lines), NEW a, Reached(E, <<>>, o, a),
         NEW x \in Lines, x.node \in E
  PROVE  /\ Append(o, x) \in Seq(Lines) /\ Printed(Append(o, x), x.node)
         /\ Reached(E, <<>>, Append(o, x), a)
<1>1. <<>> \in Seq(Lines) /\ \A i \in 1 .. Len(<<>>) : FALSE
  BY EmptySeq
<1>2. Reached(E, <<>>, Append(o \o <<>>, x), a)
  BY <1>1, PrintsReached
<1> QED BY <1>2, PrintsAlone

\* A directory that is given is opened, with its line printed, or reported.
LEMMA NextRootStep ==
  ASSUME IInv, NextRoot
  PROVE  IInv'
<1> DEFINE r == Head(args)
           x == Line("root", r, 0)
           y == Line("error", r, 0)
           header == Append(out, x)
<1>1. /\ InputOK(in) /\ args \in Seq(Int) /\ args # <<>> /\ stack = <<>> /\ out \in Seq(Lines)
      /\ pc = "next" /\ pending_paths' = <<>> /\ in' = in /\ args' = Tail(args)
      /\ <<>> \in Seq(Lines) /\ Len(<<>>) = 0 /\ in.max_depth \in Nat \ {0}
  BY InputsOK DEF IInv, TypeOK, NextRoot, InputOK
<1>2. PICK D : Reached(D, <<>>, out, args)
  BY <1>1 DEF IInv, ReachInv
<1>8. PICK E : E = D \cup {r}
  OBVIOUS
<1>3. /\ Reached(E, <<>>, out, args') /\ r \in Int /\ args' \in Seq(Int)
      /\ Children(r) \cap E = {} /\ r \in E
  BY <1>1, <1>2, <1>8, RootReached
<1>4. x \in Lines /\ y \in Lines /\ x.node = r /\ y.node = r
  BY <1>3, LineIs
<1> HIDE DEF x, y
<1>5. /\ header \in Seq(Lines) /\ Printed(header, r) /\ Reached(E, <<>>, header, args')
  BY <1>1, <1>3, <1>4, PrintedRoot
<1> HIDE DEF header
<1>6. CASE r \in in.gone
  <2>1. out' = Append(header, y) /\ stack' = <<>> /\ pc' = "next"
    BY <1>1, <1>6 DEF NextRoot, header, x, y
  <2>2. out' \in Seq(Lines) /\ Reached(E, <<>>, out', args')
    BY <1>3, <1>4, <1>5, <2>1, PrintedRoot
  <2>3. TypeOK'
    BY <1>1, <1>3, <2>1, <2>2 DEF TypeOK
  <2>4. Reached(E, stack, out, args)'
    BY <1>1, <2>1, <2>2 DEF Reached, Children
  <2>5. Waiting(<<>>, <<>>, out', 0)
    BY <1>1, NoneWaits
  <2>6. Waiting(stack, pending_paths, out, 0)'
    BY <1>1, <2>1, <2>5 DEF Waiting, Printed
  <2> QED BY <2>3, <2>4, <2>6 DEF IInv, PathInv, ReachInv
<1>7. CASE r \notin in.gone
  <2> DEFINE f == Call(r, -1)
  <2>1. out' = header /\ stack' = Append(<<>>, f) /\ pc' = "walk"
    BY <1>1, <1>7 DEF NextRoot, header, x
  <2>2. f \in Frames /\ f.dir = r /\ f.idx = -1 /\ f.left = {}
    BY <1>3 DEF Call, Frames
  <2> HIDE DEF f
  <2>3. stack' \in Seq(Frames) /\ stack' # <<>>
    BY <2>1, <2>2, AppendProperties, EmptySeq
  <2>4. TypeOK'
    BY <1>1, <1>3, <1>5, <2>1, <2>3 DEF TypeOK
  <2>5. Reached(E, stack', out', args')
    <3>1. \A i \in 1 .. Len(<<>>) : FALSE
      BY <1>1
    <3> QED BY <1>3, <1>5, <2>1, <2>2, <3>1, CallsReached, EmptySeq
  <2>6. Waiting(stack', <<>>, out', Len(stack'))
    <3>1. Waiting(<<>>, <<>>, header, Len(<<>>))
      BY <1>1, NoneWaits
    <3>2. <<>> \in Seq(Frames) /\ Len(<<>>) < in.max_depth /\ in.max_depth \in Nat
      BY <1>1, EmptySeq
    <3>3. Printed(header, f.dir)
      BY <1>5, <2>2
    <3>4. Waiting(Append(<<>>, f), <<>>, header, Len(Append(<<>>, f)))
      BY <2>2, <3>1, <3>2, <3>3, CallsPrinted
    <3> QED BY <2>1, <3>4
  <2>7. Reached(E, stack, out, args)'
    BY <1>1, <2>5 DEF Reached, Children
  <2>8. \E s : Waiting(stack, pending_paths, out, s)'
    BY <1>1, <2>6 DEF Waiting, Printed
  <2> QED BY <2>4, <2>7, <2>8 DEF IInv, PathInv, ReachInv
<1> QED BY <1>6, <1>7

\* What the invariant says while a call is open.
LEMMA Walking ==
  ASSUME IInv, pc = "walk"
  PROVE  /\ InputOK(in) /\ stack \in Seq(Frames) /\ stack # <<>> /\ args \in Seq(Int)
         /\ Len(stack) \in Nat \ {0} /\ top \in Frames /\ top = stack[Len(stack)]
         /\ Caller = Front(stack) /\ depth \in Nat /\ depth = Len(stack) - 1
         /\ pending_paths \in Seq(Lines) /\ out \in Seq(Lines) /\ in.max_depth \in Nat
         /\ <<>> \in Seq(Lines)
<1>1. /\ InputOK(in) /\ stack \in Seq(Frames) /\ stack # <<>> /\ args \in Seq(Int)
      /\ pending_paths \in Seq(Lines) /\ out \in Seq(Lines) /\ in.max_depth \in Nat
  BY InputsOK DEF IInv, TypeOK, InputOK
<1>2. Len(stack) \in Nat \ {0} /\ stack[Len(stack)] \in Frames
  BY <1>1, FrontIs
<1> QED BY <1>1, <1>2 DEF top, Caller, Front, depth

\* All that waits is about what has been reached.
LEMMA WaitsReached ==
  ASSUME NEW D, NEW k \in Seq(Frames), NEW p \in Seq(Lines), NEW o, NEW a, NEW s,
         Waiting(k, p, o, s), Reached(D, k, o, a)
  PROVE  \A i \in 1 .. Len(p) : p[i].node \in D /\ p[i].kind = "name"
<1> SUFFICES ASSUME NEW i \in 1 .. Len(p)
             PROVE  p[i].node \in D /\ p[i].kind = "name"
  OBVIOUS
<1>1. s + i \in 1 .. Len(k)
  BY LenProperties DEF Waiting
<1>2. p[i] = Line("name", k[s + i].dir, s + i - 1)
  BY DEF Waiting
<1>3. k[s + i].dir \in D
  BY <1>1 DEF Reached
<1> QED BY <1>2, <1>3 DEF Line

\* A directory that opens leaves what is pending and printed as it is.
LEMMA OpendirStep ==
  ASSUME IInv, Opendir
  PROVE  IInv'
<1> DEFINE f == [top EXCEPT !.begun = TRUE, !.left = Children(top.dir)]
<1>1. /\ InputOK(in) /\ stack \in Seq(Frames) /\ stack # <<>> /\ args \in Seq(Int)
      /\ Len(stack) \in Nat \ {0} /\ top \in Frames /\ top = stack[Len(stack)]
      /\ Caller = Front(stack)
  BY Walking DEF Opendir
<1>2. /\ ~ top.begun /\ stack' = Append(Front(stack), f) /\ pc = "walk"
      /\ in' = in /\ args' = args /\ pc' = pc /\ pending_paths' = pending_paths /\ out' = out
  BY <1>1 DEF Opendir, Children
<1>3. /\ f \in Frames /\ f.dir = top.dir /\ f.begun /\ f.left = Children(f.dir)
      /\ f.idx = top.idx
  BY <1>1 DEF Frames, Children, InputOK
<1> HIDE DEF f
<1>4. /\ stack' \in Seq(Frames) /\ stack' # <<>> /\ Len(stack') = Len(stack)
      /\ stack'[Len(stack)] = f
      /\ \A i \in 1 .. Len(stack) - 1 : stack'[i] = stack[i]
  BY <1>1, <1>2, <1>3, LastChanges
<1>5. TypeOK'
  BY <1>2, <1>4 DEF IInv, TypeOK
<1>6. PICK D : Reached(D, stack, out, args)
  BY DEF IInv, ReachInv
<1>7. Reached(D, stack', out, args)
  BY <1>1, <1>2, <1>3, <1>6, OpensReached
<1>8. PICK s : Waiting(stack, pending_paths, out, s)
  BY DEF IInv, PathInv
<1>9. Waiting(stack', pending_paths, out, s)
  <2>1. \A i \in 1 .. Len(stack) : stack'[i].dir = stack[i].dir /\ stack'[i].idx = stack[i].idx
    BY <1>1, <1>3, <1>4
  <2> QED BY <1>1, <1>4, <1>8, <2>1, WaitingAlike
<1>10. Reached(D, stack, out, args)'
  BY <1>2, <1>7 DEF Reached, Children
<1>11. Waiting(stack, pending_paths, out, s)'
  BY <1>2, <1>9 DEF Waiting, Printed
<1> QED BY <1>5, <1>10, <1>11 DEF IInv, PathInv, ReachInv

\* The top call returns, with what waits in p.
LEMMA ReturnStep ==
  ASSUME IInv, pc = "walk", NEW p \in Seq(Lines), Return(p), out' \in Seq(Lines),
         NEW D, Reached(D, stack, out', args),
         NEW s, Waiting(stack, p, out', s)
  PROVE  IInv'
<1>1. /\ stack \in Seq(Frames) /\ stack # <<>> /\ Len(stack) \in Nat \ {0}
      /\ top = stack[Len(stack)] /\ Caller = Front(stack) /\ in.max_depth \in Nat
  BY Walking
<1>2. /\ stack' = Front(stack) /\ pending_paths' = Kept(p, stack[Len(stack)].idx)
      /\ in' = in /\ args' = args /\ pc' = IF Front(stack) = <<>> THEN "next" ELSE "walk"
  BY <1>1 DEF Return
<1>3. Front(stack) \in Seq(Frames)
  BY <1>1, FrontIs
<1>4. /\ pending_paths' \in Seq(Lines)
      /\ \E t : Waiting(stack', pending_paths', out', t)
  BY <1>1, <1>2, ReturnWaits
<1>5. TypeOK'
  BY <1>2, <1>3, <1>4 DEF IInv, TypeOK
<1>6. Reached(D, stack', out', args)
  BY <1>1, <1>2, ReturnReached
<1>7. Reached(D, stack, out, args)'
  BY <1>2, <1>6 DEF Reached, Children
<1>8. \E t : Waiting(stack, pending_paths, out, t)'
  BY <1>2, <1>4 DEF Waiting, Printed
<1> QED BY <1>5, <1>7, <1>8 DEF IInv, PathInv, ReachInv

\* One that does not open is reported, after all the pending lines, and left.
LEMMA OpendirFailsStep ==
  ASSUME IInv, OpendirFails
  PROVE  IInv'
<1> DEFINE x == Line("error", top.dir, depth)
<1>1. /\ stack \in Seq(Frames) /\ stack # <<>> /\ Len(stack) \in Nat \ {0} /\ top \in Frames
      /\ top = stack[Len(stack)] /\ depth \in Nat /\ pc = "walk" /\ <<>> \in Seq(Lines)
      /\ pending_paths \in Seq(Lines) /\ out \in Seq(Lines)
  BY Walking DEF OpendirFails
<1>2. out' = Append(out \o pending_paths, x) /\ Return(<<>>)
  BY DEF OpendirFails, Flushed
<1>3. x \in Lines /\ x.node = top.dir
  <2>1. top.dir \in Int /\ depth \in Int
    BY <1>1 DEF Frames
  <2> QED BY <2>1, LineIs
<1> HIDE DEF x
<1>4. out' \in Seq(Lines)
  BY <1>1, <1>2, <1>3, PrintsAfter
<1>5. PICK D : Reached(D, stack, out, args)
  BY DEF IInv, ReachInv
<1>6. PICK s : Waiting(stack, pending_paths, out, s)
  BY DEF IInv, PathInv
<1>7. \A i \in 1 .. Len(pending_paths) : pending_paths[i].node \in D
  BY <1>1, <1>5, <1>6, WaitsReached
<1>8. top.dir \in D
  <2>1. Len(stack) \in 1 .. Len(stack)
    BY <1>1
  <2> QED BY <1>1, <1>5, <2>1 DEF Reached
<1>9. Reached(D, stack, out', args)
  BY <1>1, <1>2, <1>3, <1>5, <1>7, <1>8, PrintsReached
<1>10. Waiting(stack, <<>>, out', Len(stack))
  BY <1>1, <1>2, <1>3, <1>6, AllPrinted
<1> QED BY <1>1, <1>2, <1>4, <1>9, <1>10, ReturnStep

\* A directory that is done is left, with its pending line if it has one.
LEMMA EntriesDoneStep ==
  ASSUME IInv, EntriesDone
  PROVE  IInv'
<1>1. pending_paths \in Seq(Lines) /\ out \in Seq(Lines) /\ pc = "walk"
      /\ Return(pending_paths) /\ out' = out
  BY Walking DEF EntriesDone
<1>2. PICK D : Reached(D, stack, out, args)
  BY DEF IInv, ReachInv
<1>3. PICK s : Waiting(stack, pending_paths, out, s)
  BY DEF IInv, PathInv
<1> QED BY <1>1, <1>2, <1>3, ReturnStep

\* The entry that has its turn.
TheNext == CHOOSE m \in top.left : \A o \in top.left \ {m} : dirent_compare(m, o)

\* The top call without it.
Less(n) == [top EXCEPT !.left = @ \ {n}]

\* rest are the calls after the loop's turn for n, before which D had been reached.
Turn(D, n, rest) ==
  /\ n \in top.left /\ n \in Nat /\ n \in DOMAIN in.parent /\ n \notin D /\ top.dir \in D
  /\ rest \in Seq(Frames) /\ rest # <<>> /\ Len(rest) = Len(stack)
  /\ \A i \in 1 .. Len(stack) : rest[i].dir = stack[i].dir /\ rest[i].idx = stack[i].idx
  /\ Reached(D \cup {n}, rest, out, args)
  /\ Children(n) \cap (D \cup {n}) = {}
  /\ \A i \in 1 .. Len(rest) : rest[i].dir # n
  /\ ~ Printed(out, n)

\* The entry that has its turn is new.
LEMMA TurnTaken ==
  ASSUME IInv, Entry, NEW D, Reached(D, stack, out, args),
         NEW n, n = TheNext, NEW rest, rest = Append(Front(stack), Less(n))
  PROVE  Turn(D, n, rest)
<1>1. /\ stack \in Seq(Frames) /\ stack # <<>> /\ Len(stack) \in Nat \ {0} /\ top \in Frames
      /\ top = stack[Len(stack)] /\ top.begun /\ top.left # {}
  BY Walking DEF Entry
<1>2. top.left \subseteq Nat
  BY <1>1 DEF Frames
<1>3. n \in top.left
  BY <1>1, <1>2, FirstEntry DEF TheNext
<1>4. n \in Nat /\ n \in Int
  BY <1>2, <1>3
<1> DEFINE f == Less(n)
<1>5. /\ f \in Frames /\ f.dir = top.dir /\ f.begun /\ f.left = top.left \ {n}
      /\ f.idx = top.idx
  BY <1>1 DEF Less, Frames
<1> HIDE DEF f
<1>6. /\ rest \in Seq(Frames) /\ rest # <<>> /\ Len(rest) = Len(stack)
      /\ rest[Len(stack)] = f
      /\ \A i \in 1 .. Len(stack) - 1 : rest[i] = stack[i]
  BY <1>1, <1>5, LastChanges DEF f
<1>7. \A i \in 1 .. Len(stack) : rest[i].dir = stack[i].dir /\ rest[i].idx = stack[i].idx
  BY <1>1, <1>5, <1>6
<1>8. /\ Reached(D \cup {n}, rest, out, args) /\ n \notin D /\ n \in Children(top.dir)
  BY <1>1, <1>3, <1>4, <1>5, TurnReached DEF f
<1>9. top.dir \in D
  <2>1. Len(stack) \in 1 .. Len(stack)
    BY <1>1
  <2> QED BY <1>1, <2>1 DEF Reached
<1>10. ASSUME NEW m \in Children(n), m \in D \cup {n} PROVE FALSE
  <2>1. m # n
    BY <1>8, <1>9, <1>10 DEF Children
  <2>2. m \in D /\ m \in DOMAIN in.parent /\ in.parent[m] = n
    BY <1>10, <2>1 DEF Children
  <2>3. in.parent[m] \in D
    BY <2>2 DEF Reached
  <2> QED BY <1>8, <2>2, <2>3
<1>11. \A i \in 1 .. Len(rest) : rest[i].dir # n
  <2>1. \A i \in 1 .. Len(stack) : stack[i].dir \in D
    BY DEF Reached
  <2> QED BY <1>6, <1>7, <1>8, <2>1
<1>12. ~ Printed(out, n)
  BY <1>8 DEF Printed, Reached
<1>13. n \in DOMAIN in.parent
  BY <1>8 DEF Children
<1> QED BY <1>3, <1>4, <1>6, <1>7, <1>8, <1>9, <1>10, <1>11, <1>12, <1>13 DEF Turn

\* The recursive call for n, or none, once n is printed if it matches.
LEMMA DescendStep ==
  ASSUME IInv, pc = "walk", NEW n \in Nat, NEW rest \in Seq(Frames), rest # <<>>,
         Len(rest) = Len(stack),
         NEW p \in Seq(Lines), Descend(n, rest, p), out' \in Seq(Lines),
         in' = in, args' = args, pc' = pc,
         NEW E, Reached(E, rest, out', args), n \in E, Children(n) \cap E = {},
         \A i \in 1 .. Len(rest) : rest[i].dir # n,
         NEW s, Waiting(rest, p, out', s),
         IF Matches(n) THEN Printed(out', n) /\ p = <<>> /\ s = Len(rest) ELSE ~ Printed(out', n)
  PROVE  IInv'
<1>1. /\ Len(stack) \in Nat \ {0} /\ depth = Len(stack) - 1 /\ in.max_depth \in Nat
  BY Walking
<1>2. SUFFICES /\ stack' \in Seq(Frames) /\ stack' # <<>> /\ pending_paths' \in Seq(Lines)
               /\ Reached(E, stack', out', args)
               /\ \E t : Waiting(stack', pending_paths', out', t)
  <2>1. TypeOK'
    BY <1>2 DEF IInv, TypeOK
  <2>2. Reached(E, stack, out, args)'
    BY <1>2 DEF Reached, Children
  <2>3. \E t : Waiting(stack, pending_paths, out, t)'
    BY <1>2 DEF Waiting, Printed
  <2> QED BY <2>1, <2>2, <2>3 DEF IInv, PathInv, ReachInv
<1>3. CASE stack' = rest /\ pending_paths' = p
  BY <1>3
<1>4. CASE /\ depth + 1 < in.max_depth /\ Matches(n)
           /\ stack' = Append(rest, Call(n, -1)) /\ pending_paths' = p
  <2> DEFINE f == Call(n, -1)
  <2>1. f \in Frames /\ f.dir = n /\ f.idx = -1 /\ f.left = {}
    BY DEF Call, Frames
  <2> HIDE DEF f
  <2>2. stack' = Append(rest, f)
    BY <1>4 DEF f
  <2>3. stack' \in Seq(Frames) /\ stack' # <<>>
    BY <2>1, <2>2, AppendProperties
  <2>4. Reached(E, stack', out', args)
    BY <2>1, <2>2, CallsReached
  <2>5. Waiting(stack', <<>>, out', Len(stack'))
    <3>1. Len(rest) < in.max_depth
      BY <1>1, <1>4
    <3>2. Waiting(rest, <<>>, out', Len(rest)) /\ Printed(out', f.dir)
      BY <1>4, <2>1
    <3> QED BY <1>1, <2>1, <2>2, <3>1, <3>2, CallsPrinted
  <2> QED BY <1>4, <2>3, <2>4, <2>5
<1>5. CASE /\ depth + 1 < in.max_depth /\ ~ Matches(n)
           /\ stack' = Append(rest, Call(n, Len(p)))
           /\ pending_paths' = Append(p, Line("name", n, depth + 1))
  <2> DEFINE f == Call(n, Len(p))
             x == Line("name", n, Len(rest))
  <2>0. Len(p) \in Nat
    BY LenProperties
  <2>1. f \in Frames /\ f.dir = n /\ f.idx = Len(p) /\ f.left = {}
    BY <2>0 DEF Call, Frames
  <2>2. stack' = Append(rest, f) /\ pending_paths' = Append(p, x)
    BY <1>1, <1>5
  <2>3. x \in Lines /\ x = Line("name", f.dir, Len(rest))
    BY <1>1, <2>1, LineIs
  <2> HIDE DEF f, x
  <2>4. stack' \in Seq(Frames) /\ stack' # <<>> /\ pending_paths' \in Seq(Lines)
    BY <2>1, <2>2, <2>3, AppendProperties
  <2>5. Reached(E, stack', out', args)
    BY <2>1, <2>2, CallsReached
  <2>6. Waiting(stack', pending_paths', out', s)
    <3>1. Len(rest) < in.max_depth
      BY <1>1, <1>5
    <3>2. ~ Printed(out', f.dir)
      BY <1>5, <2>1
    <3> QED BY <1>1, <2>1, <2>2, <2>3, <3>1, <3>2, CallsWaiting
  <2> QED BY <2>4, <2>5, <2>6
<1> QED BY <1>3, <1>4, <1>5 DEF Descend

\* An entry is skipped, printed after the pending lines or made pending, and gone
\* into if it is a directory.
LEMMA EntryStep ==
  ASSUME IInv, Entry
  PROVE  IInv'
<1> DEFINE n == TheNext
           rest == Append(Front(stack), Less(n))
           x == Line("full", n, depth + 1)
           skipped == n \in in.gone \/ (~ Matches(n) /\ in.type[n] # "dir")
<1>1. /\ stack \in Seq(Frames) /\ stack # <<>> /\ depth \in Nat /\ pc = "walk"
      /\ pending_paths \in Seq(Lines) /\ out \in Seq(Lines) /\ <<>> \in Seq(Lines)
      /\ Caller = Front(stack)
  BY Walking DEF Entry
<1>2. PICK D : Reached(D, stack, out, args)
  BY DEF IInv, ReachInv
<1>3. PICK s : Waiting(stack, pending_paths, out, s)
  BY DEF IInv, PathInv
<1>4. /\ in' = in /\ args' = args /\ pc' = pc
      /\ IF skipped THEN stack' = rest /\ pending_paths' = pending_paths /\ out' = out
         ELSE /\ out' = IF Matches(n) THEN Append(out \o pending_paths, x) ELSE out
              /\ Descend(n, rest, IF Matches(n) THEN <<>> ELSE pending_paths)
  BY <1>1 DEF Entry, TheNext, Less, Flushed
<1> HIDE DEF n, rest, skipped
<1>5. /\ n \in top.left /\ n \in Nat /\ n \notin D /\ top.dir \in D
      /\ rest \in Seq(Frames) /\ rest # <<>> /\ Len(rest) = Len(stack)
      /\ \A i \in 1 .. Len(stack) : rest[i].dir = stack[i].dir /\ rest[i].idx = stack[i].idx
      /\ Reached(D \cup {n}, rest, out, args)
      /\ Children(n) \cap (D \cup {n}) = {}
      /\ \A i \in 1 .. Len(rest) : rest[i].dir # n
      /\ ~ Printed(out, n)
  <2>1. Turn(D, n, rest)
    BY <1>2, TurnTaken DEF n, rest
  <2> QED BY <2>1 DEF Turn
<1>13. PICK m : m = n
  OBVIOUS
<1>6. PICK E : E = D \cup {m}
  OBVIOUS
<1>7. /\ n \in E /\ Reached(E, rest, out, args) /\ Children(n) \cap E = {}
  BY <1>5, <1>6, <1>13
<1>8. Waiting(rest, pending_paths, out, s)
  BY <1>1, <1>3, <1>5, WaitingAlike
<1>9. x \in Lines /\ x.node = n
  <2>1. n \in Int /\ depth + 1 \in Int
    BY <1>1, <1>5
  <2> QED BY <2>1, LineIs
<1> HIDE DEF x
<1>10. CASE skipped
  <2>1. stack' = rest /\ pending_paths' = pending_paths /\ out' = out
    BY <1>4, <1>10
  <2>2. TypeOK'
    BY <1>1, <1>4, <1>5, <2>1 DEF IInv, TypeOK
  <2>3. Reached(E, stack, out, args)'
    BY <1>4, <1>7, <2>1 DEF Reached, Children
  <2>4. Waiting(stack, pending_paths, out, s)'
    BY <1>4, <1>8, <2>1 DEF Waiting, Printed
  <2> QED BY <2>2, <2>3, <2>4 DEF IInv, PathInv, ReachInv
<1>11. CASE ~ skipped /\ Matches(n)
  <2>1. out' = Append(out \o pending_paths, x) /\ Descend(n, rest, <<>>)
    BY <1>4, <1>11
  <2>2. /\ out' \in Seq(Lines) /\ Len(out') \in Nat \ {0} /\ out'[Len(out')] = x
    <3>1. /\ out' \in Seq(Lines) /\ Len(out) \in Nat /\ Len(pending_paths) \in Nat
          /\ Len(out') = Len(out) + Len(pending_paths) + 1 /\ out'[Len(out')] = x
      BY <1>1, <1>9, <2>1, PrintsAfter
    <3> QED BY <3>1
  <2>3. Printed(out', n)
    <3>1. Len(out') \in 1 .. Len(out')
      BY <2>2
    <3> QED BY <1>9, <2>2, <3>1 DEF Printed
  <2>4. \A i \in 1 .. Len(pending_paths) : pending_paths[i].node \in E
    BY <1>1, <1>5, <1>7, <1>8, WaitsReached
  <2>5. Reached(E, rest, out', args)
    BY <1>1, <1>7, <1>9, <2>1, <2>4, PrintsReached
  <2>6. Waiting(rest, <<>>, out', Len(rest))
    BY <1>1, <1>5, <1>8, <1>9, <2>1, AllPrinted
  <2> QED BY <1>1, <1>4, <1>5, <1>7, <1>11, <2>1, <2>2, <2>3, <2>5, <2>6, DescendStep
<1>12. CASE ~ skipped /\ ~ Matches(n)
  <2>1. out' = out /\ Descend(n, rest, pending_paths)
    BY <1>4, <1>12
  <2> QED BY <1>1, <1>4, <1>5, <1>7, <1>8, <1>12, <2>1, DescendStep
<1> QED BY <1>10, <1>11, <1>12

\* Every step preserves the invariant.
LEMMA NextInv ==
  ASSUME IInv, [Next]_vars
  PROVE  IInv'
<1>1. CASE Next
  BY <1>1, OptionsStep, ExitStep, NextRootStep, OpendirStep, OpendirFailsStep, EntryStep,
     EntriesDoneStep DEF Next
<1>2. CASE UNCHANGED vars
  <2>1. TypeOK'
    BY <1>2 DEF vars, IInv, TypeOK
  <2>2. in' = in /\ args' = args /\ stack' = stack /\ pending_paths' = pending_paths /\ out' = out
    BY <1>2 DEF vars
  <2>3. PICK s : Waiting(stack, pending_paths, out, s)
    BY DEF IInv, PathInv
  <2>4. PICK D : Reached(D, stack, out, args)
    BY DEF IInv, ReachInv
  <2>5. Waiting(stack, pending_paths, out, s)'
    BY <2>2, <2>3 DEF Waiting, Printed
  <2>6. Reached(D, stack, out, args)'
    BY <2>2, <2>4 DEF Reached, Children
  <2> QED BY <2>1, <2>5, <2>6 DEF IInv, PathInv, ReachInv
<1> QED BY <1>1, <1>2

\* At any time the open directories are a way down a tree, of which the first ones are
\* printed and the others pending, and nothing is printed that was not reached, once.
THEOREM Invariance == Spec => []IInv
<1> QED BY InitInv, NextInv, PTL DEF Spec

\* What the invariant says of the pending paths.
LEMMA PendingIs == IInv => PendingSound
<1> SUFFICES ASSUME IInv, pc = "walk" PROVE PendingSound
  BY DEF PendingSound
<1>1. /\ Len(stack) \in Nat \ {0} /\ stack # <<>> /\ in.max_depth <= MAX_DEPTH
      /\ Len(pending_paths) \in Nat /\ in.max_depth \in Nat /\ MAX_DEPTH \in Nat
  BY Walking, LenProperties, InputsOK DEF InputOK
<1>2. PICK s : Waiting(stack, pending_paths, out, s)
  BY DEF IInv, PathInv
<1>3. s = Len(stack) - Len(pending_paths) /\ Len(pending_paths) < MAX_DEPTH
  BY <1>1, <1>2 DEF Waiting
<1> QED BY <1>2, <1>3 DEF Waiting, PendingSound, Printed

\* The pending paths are those of the innermost open directories, which are not
\* printed, and fit into their array: my_pending_idx and flush_pending agree.
THEOREM PendingPathsSound == Spec => []PendingSound
<1> QED BY Invariance, PendingIs, PTL

-----------------------------------------------------------------------------
(* The summaries                                                           *)

Listed(o, from, t) == {i \in from .. Len(o) : o[i].kind = "full" /\ t \in {in.type[o[i].node], "size"}}
RootLines(o)     == {i \in 1 .. Len(o) : o[i].kind = "root"}
LastRoot(o)      == CHOOSE i \in RootLines(o) : \A j \in RootLines(o) : j <= i

\* Line x is printed, and before it the paths that wait.
Prints(o, p, x, q) ==
  /\ o \in Seq(Lines) /\ p \in Seq(Lines) /\ x \in Lines /\ q = Append(o \o p, x)
  /\ \A i \in 1 .. Len(p) : p[i].kind = "name"

\* There is a last of the lines that head a directory's list.
LEMMA LastIs ==
  ASSUME NEW o \in Seq(Lines), RootLines(o) # {}
  PROVE  LastRoot(o) \in RootLines(o) /\ \A j \in RootLines(o) : j <= LastRoot(o)
<1> DEFINE B == {Len(o) - i : i \in RootLines(o)}
<1>1. Len(o) \in Nat /\ RootLines(o) \subseteq 1 .. Len(o)
  BY LenProperties DEF RootLines
<1>2. B \subseteq Nat /\ B # {}
  BY <1>1
<1>3. PICK b \in B : \A c \in B : b <= c
  <2> HIDE DEF B
  <2> QED BY <1>2, LeastNumber
<1>4. PICK i \in RootLines(o) : b = Len(o) - i
  BY <1>3
<1>5. ASSUME NEW j \in RootLines(o) PROVE j <= i
  <2>1. Len(o) - j \in B
    OBVIOUS
  <2>2. Len(o) - i <= Len(o) - j
    BY <1>3, <1>4, <2>1
  <2> QED BY <1>1, <2>2
<1> QED BY <1>5 DEF LastRoot

\* The lines counted are finitely many.
LEMMA FullFinite ==
  ASSUME NEW o \in Seq(Lines), NEW from \in Nat, NEW t
  PROVE  IsFiniteSet(Listed(o, from, t)) /\ Listed(o, from, t) \subseteq from .. Len(o)
<1>1. Len(o) \in Nat
  BY LenProperties
<1>2. IsFiniteSet(from .. Len(o))
  BY <1>1, FS_Interval
<1>3. Listed(o, from, t) \subseteq from .. Len(o)
  BY DEF Listed
<1> QED BY <1>2, <1>3, FS_Subset

\* A line after some that wait adds what it is.
LEMMA FullGrows ==
  ASSUME NEW o, NEW p, NEW x, NEW q, Prints(o, p, x, q),
         NEW from \in Nat, from <= Len(q), from > 0, NEW t
  PROVE  Listed(q, from, t) = Listed(o, from, t) \cup
           (IF x.kind = "full" /\ t \in {in.type[x.node], "size"} THEN {Len(q)} ELSE {})
<1>1. /\ Len(o) \in Nat /\ Len(p) \in Nat
      /\ Len(q) = Len(o) + Len(p) + 1
      /\ \A i \in 1 .. Len(o) : q[i] = o[i]
      /\ q[Len(q)] = x
      /\ \A i \in 1 .. Len(q) : \/ i \in 1 .. Len(o)
                                \/ i - Len(o) \in 1 .. Len(p) /\ q[i] = p[i - Len(o)]
                                \/ i = Len(q)
  BY PrintsAfter DEF Prints
<1> DEFINE new == IF x.kind = "full" /\ t \in {in.type[x.node], "size"} THEN {Len(q)} ELSE {}
<1>2. ASSUME NEW i \in Listed(q, from, t) PROVE i \in Listed(o, from, t) \cup new
  <2>1. i \in from .. Len(q) /\ i \in 1 .. Len(q) /\ q[i].kind = "full" /\ t \in {in.type[q[i].node], "size"}
    BY <1>1 DEF Listed
  <2>2. CASE i \in 1 .. Len(o)
    <3>1. q[i] = o[i] /\ i \in from .. Len(o)
      BY <1>1, <2>1, <2>2
    <3> QED BY <2>1, <3>1 DEF Listed
  <2>3. CASE i - Len(o) \in 1 .. Len(p) /\ q[i] = p[i - Len(o)]
    BY <2>1, <2>3 DEF Prints
  <2>4. CASE i = Len(q)
    BY <1>1, <2>1, <2>4
  <2>5. \/ i \in 1 .. Len(o)
        \/ i - Len(o) \in 1 .. Len(p) /\ q[i] = p[i - Len(o)]
        \/ i = Len(q)
    BY <1>1, <2>1
  <2> QED BY <2>2, <2>3, <2>4, <2>5
<1>3. ASSUME NEW i \in Listed(o, from, t) PROVE i \in Listed(q, from, t)
  <2>1. i \in from .. Len(o) /\ i \in 1 .. Len(o) /\ o[i].kind = "full" /\ t \in {in.type[o[i].node], "size"}
    BY <1>1 DEF Listed
  <2>2. q[i] = o[i] /\ i \in from .. Len(q)
    BY <1>1, <2>1
  <2> QED BY <2>1, <2>2 DEF Listed
<1>4. new \subseteq Listed(q, from, t)
  <2>1. Len(q) \in from .. Len(q)
    BY <1>1
  <2> QED BY <1>1, <2>1 DEF Listed
<1> HIDE DEF new
<1>5. Listed(q, from, t) = Listed(o, from, t) \cup new
  BY <1>2, <1>3, <1>4
<1> QED BY <1>5 DEF new

\* And so do the numbers.
LEMMA CountGrows ==
  ASSUME NEW o, NEW p, NEW x, NEW q, Prints(o, p, x, q),
         NEW from \in Nat, from <= Len(q), from > 0, NEW t
  PROVE  /\ Cardinality(Listed(o, from, t)) \in Nat
         /\ Cardinality(Listed(q, from, t)) = Cardinality(Listed(o, from, t)) +
              (IF x.kind = "full" /\ t \in {in.type[x.node], "size"} THEN 1 ELSE 0)
<1>1. IsFiniteSet(Listed(o, from, t)) /\ Listed(o, from, t) \subseteq from .. Len(o)
  BY FullFinite DEF Prints
<1>2. Cardinality(Listed(o, from, t)) \in Nat
  BY <1>1, FS_CardinalityType
<1>3. Len(q) \notin Listed(o, from, t)
  <2>1. Len(q) > Len(o) /\ Len(o) \in Nat /\ Len(q) \in Nat
    <3>1. Len(o) \in Nat /\ Len(p) \in Nat /\ Len(q) = Len(o) + Len(p) + 1
      BY PrintsAfter DEF Prints
    <3> QED BY <3>1
  <2> QED BY <1>1, <2>1
<1>4. Listed(q, from, t) = Listed(o, from, t) \cup
        (IF x.kind = "full" /\ t \in {in.type[x.node], "size"} THEN {Len(q)} ELSE {})
  BY FullGrows
<1>5. CASE x.kind = "full" /\ t \in {in.type[x.node], "size"}
  <2>1. Listed(q, from, t) = Listed(o, from, t) \cup {Len(q)}
    BY <1>4, <1>5
  <2>2. Cardinality(Listed(o, from, t) \cup {Len(q)}) = Cardinality(Listed(o, from, t)) + 1
    BY <1>1, <1>3, FS_AddElement
  <2> QED BY <1>2, <1>5, <2>1, <2>2
<1>6. CASE ~ (x.kind = "full" /\ t \in {in.type[x.node], "size"})
  <2>1. Listed(q, from, t) = Listed(o, from, t)
    BY <1>4, <1>6
  <2> QED BY <1>2, <1>6, <2>1
<1> QED BY <1>2, <1>5, <1>6

\* A line that heads no list leaves the heads alone.
LEMMA HeadsStay ==
  ASSUME NEW o, NEW p, NEW x, NEW q, Prints(o, p, x, q),
         x.kind # "root"
  PROVE  RootLines(q) = RootLines(o) /\ LastRoot(q) = LastRoot(o)
<1>1. /\ Len(o) \in Nat /\ Len(p) \in Nat
      /\ Len(q) = Len(o) + Len(p) + 1
      /\ \A i \in 1 .. Len(o) : q[i] = o[i]
      /\ q[Len(q)] = x
      /\ \A i \in 1 .. Len(q) : \/ i \in 1 .. Len(o)
                                \/ i - Len(o) \in 1 .. Len(p) /\ q[i] = p[i - Len(o)]
                                \/ i = Len(q)
  BY PrintsAfter DEF Prints
<1>2. ASSUME NEW i \in RootLines(q) PROVE i \in RootLines(o)
  <2>1. i \in 1 .. Len(q) /\ q[i].kind = "root"
    BY DEF RootLines
  <2>2. CASE i \in 1 .. Len(o)
    BY <1>1, <2>1, <2>2 DEF RootLines
  <2>3. CASE i - Len(o) \in 1 .. Len(p) /\ q[i] = p[i - Len(o)]
    BY <2>1, <2>3 DEF Prints
  <2>4. CASE i = Len(q)
    BY <1>1, <2>1, <2>4
  <2>5. \/ i \in 1 .. Len(o)
        \/ i - Len(o) \in 1 .. Len(p) /\ q[i] = p[i - Len(o)]
        \/ i = Len(q)
    BY <1>1, <2>1
  <2> QED BY <2>2, <2>3, <2>4, <2>5
<1>3. ASSUME NEW i \in RootLines(o) PROVE i \in RootLines(q)
  <2>1. i \in 1 .. Len(o) /\ o[i].kind = "root"
    BY DEF RootLines
  <2>2. q[i] = o[i] /\ i \in 1 .. Len(q)
    BY <1>1, <2>1
  <2> QED BY <2>1, <2>2 DEF RootLines
<1>4. RootLines(q) = RootLines(o)
  BY <1>2, <1>3
<1> QED BY <1>4 DEF LastRoot

\* A directory's list begins, with nothing in it.
LEMMA ListBegins ==
  ASSUME NEW o \in Seq(Lines), NEW x \in Lines, NEW q, q = Append(o, x), x.kind = "root"
  PROVE  /\ RootLines(q) # {} /\ LastRoot(q) = Len(q)
         /\ \A t : Listed(q, LastRoot(q), t) = {}
<1>1. /\ q \in Seq(Lines) /\ Len(q) = Len(o) + 1 /\ q[Len(q)] = x /\ Len(o) \in Nat
  BY AppendProperties, LenProperties
<1>2. Len(q) \in RootLines(q) /\ \A j \in RootLines(q) : j \in Nat /\ j <= Len(q)
  BY <1>1 DEF RootLines
<1>3. LastRoot(q) \in RootLines(q) /\ \A j \in RootLines(q) : j <= LastRoot(q)
  BY <1>1, <1>2, LastIs
<1>4. LastRoot(q) = Len(q)
  <2>1. LastRoot(q) <= Len(q) /\ Len(q) <= LastRoot(q) /\ LastRoot(q) \in Nat
    BY <1>2, <1>3
  <2> QED BY <1>1, <2>1
<1>5. ASSUME NEW t, NEW i \in Listed(q, Len(q), t) PROVE FALSE
  <2>1. i \in Len(q) .. Len(q) /\ q[i].kind = "full"
    BY DEF Listed
  <2>2. i = Len(q)
    BY <1>1, <2>1
  <2> QED BY <1>1, <2>1, <2>2
<1> QED BY <1>2, <1>4, <1>5

-----------------------------------------------------------------------------
(* They count the lines                                                    *)

Counting(o, all, this) ==
  /\ all \in [Counters -> Nat] /\ this \in [Counters -> Nat]
  /\ \A t \in Counters : /\ all[t] = Cardinality(Listed(o, 1, t))
                         /\ RootLines(o) # {} => this[t] = Cardinality(Listed(o, LastRoot(o), t))

CountInv == IInv /\ Counting(out, tstat, dstat)

\* Where the count of the last list begins.
LEMMA CountsFrom ==
  ASSUME NEW o, NEW p, NEW x, NEW q, Prints(o, p, x, q)
  PROVE  /\ 1 <= Len(q) /\ Len(q) \in Nat
         /\ RootLines(o) # {} => LastRoot(o) \in Nat /\ LastRoot(o) > 0 /\ LastRoot(o) <= Len(q)
<1>1. Len(o) \in Nat /\ Len(p) \in Nat /\ Len(q) = Len(o) + Len(p) + 1
  BY PrintsAfter DEF Prints
<1>2. RootLines(o) # {} => LastRoot(o) \in 1 .. Len(o)
  BY LastIs DEF RootLines, Prints
<1> QED BY <1>1, <1>2

\* A line that is not counted.
LEMMA NotCounted ==
  ASSUME NEW o, NEW p, NEW x, NEW q, Prints(o, p, x, q),
         x.kind = "error", NEW all, NEW this, Counting(o, all, this)
  PROVE  Counting(q, all, this)
<1>1. RootLines(q) = RootLines(o) /\ LastRoot(q) = LastRoot(o)
  BY HeadsStay
<1>2. ASSUME NEW from \in Nat, from <= Len(q), from > 0, NEW t
      PROVE  Cardinality(Listed(q, from, t)) = Cardinality(Listed(o, from, t))
  <2>1. /\ Cardinality(Listed(o, from, t)) \in Nat
        /\ Cardinality(Listed(q, from, t)) = Cardinality(Listed(o, from, t)) +
             (IF x.kind = "full" /\ t \in {in.type[x.node], "size"} THEN 1 ELSE 0)
    BY <1>2, CountGrows
  <2> QED BY <2>1
<1>3. /\ 1 <= Len(q) /\ Len(q) \in Nat
      /\ RootLines(o) # {} => LastRoot(o) \in Nat /\ LastRoot(o) > 0 /\ LastRoot(o) <= Len(q)
  BY CountsFrom
<1>4. \A t \in Counters : all[t] = Cardinality(Listed(q, 1, t))
  BY <1>2, <1>3 DEF Counting
<1>5. ASSUME RootLines(q) # {}, NEW t \in Counters
      PROVE  this[t] = Cardinality(Listed(q, LastRoot(q), t))
  <2>1. this[t] = Cardinality(Listed(o, LastRoot(o), t))
    BY <1>1, <1>5 DEF Counting
  <2>2. LastRoot(o) \in Nat /\ LastRoot(o) > 0 /\ LastRoot(o) <= Len(q)
    BY <1>1, <1>3, <1>5
  <2> QED BY <1>1, <1>2, <2>1, <2>2
<1> QED BY <1>4, <1>5 DEF Counting

\* A line in full is counted, in both.
LEMMA IsCounted ==
  ASSUME NEW o, NEW p, NEW x, NEW q, Prints(o, p, x, q),
         x.kind = "full", NEW all, NEW this, Counting(o, all, this),
         NEW all2, all2 = Counted(all, x.node), NEW this2, this2 = Counted(this, x.node)
  PROVE  Counting(q, all2, this2)
<1> DEFINE u == in.type[x.node]
           one(t) == IF t \in {u, "size"} THEN 1 ELSE 0
<1>1. RootLines(q) = RootLines(o) /\ LastRoot(q) = LastRoot(o)
  BY HeadsStay
<1>2. ASSUME NEW from \in Nat, from <= Len(q), from > 0, NEW t
      PROVE  Cardinality(Listed(q, from, t)) = Cardinality(Listed(o, from, t)) + one(t)
  <2>1. Cardinality(Listed(q, from, t)) = Cardinality(Listed(o, from, t)) +
          (IF x.kind = "full" /\ t \in {in.type[x.node], "size"} THEN 1 ELSE 0)
    BY <1>2, CountGrows
  <2> QED BY <2>1
<1>3. /\ 1 <= Len(q) /\ Len(q) \in Nat
      /\ RootLines(o) # {} => LastRoot(o) \in Nat /\ LastRoot(o) > 0 /\ LastRoot(o) <= Len(q)
  BY CountsFrom
<1>4. /\ all2 \in [Counters -> Nat] /\ this2 \in [Counters -> Nat]
      /\ \A t \in Counters : all2[t] = all[t] + one(t) /\ this2[t] = this[t] + one(t)
  BY DEF Counting, Counted
<1> HIDE DEF one, u
<1>5. ASSUME NEW t \in Counters PROVE all2[t] = Cardinality(Listed(q, 1, t))
  <2>1. all[t] = Cardinality(Listed(o, 1, t))
    BY DEF Counting
  <2>2. Cardinality(Listed(q, 1, t)) = Cardinality(Listed(o, 1, t)) + one(t)
    BY <1>2, <1>3
  <2>3. all2[t] = all[t] + one(t)
    BY <1>4
  <2> QED BY ONLY <2>1, <2>2, <2>3
<1>6. ASSUME RootLines(q) # {}, NEW t \in Counters
      PROVE  this2[t] = Cardinality(Listed(q, LastRoot(q), t))
  <2>1. this[t] = Cardinality(Listed(o, LastRoot(o), t))
    BY <1>1, <1>6 DEF Counting
  <2>2. LastRoot(o) \in Nat /\ LastRoot(o) > 0 /\ LastRoot(o) <= Len(q)
    BY <1>1, <1>3, <1>6
  <2> QED BY <1>1, <1>2, <1>4, <2>1, <2>2
<1> QED BY <1>4, <1>5, <1>6 DEF Counting

\* What the lines and counts say is said of the same input.
LEMMA CountingPrimed ==
  ASSUME in' = in, Counting(out', tstat', dstat')
  PROVE  Counting(out, tstat, dstat)'
<1>1. RootLines(out)' = RootLines(out') /\ LastRoot(out)' = LastRoot(out')
  BY DEF RootLines, LastRoot
<1>2. \A t : Listed(out, 1, t)' = Listed(out', 1, t)
  BY DEF Listed
<1>3. \A t : Listed(out, LastRoot(out), t)' = Listed(out', LastRoot(out'), t)
  BY <1>1 DEF Listed
<1>4. /\ tstat' \in [Counters -> Nat] /\ dstat' \in [Counters -> Nat]
      /\ \A t \in Counters :
           /\ tstat'[t] = Cardinality(Listed(out', 1, t))
           /\ RootLines(out') # {} => dstat'[t] = Cardinality(Listed(out', LastRoot(out'), t))
  BY DEF Counting
<1> HIDE DEF Listed, RootLines, LastRoot
<1> QED BY <1>1, <1>2, <1>3, <1>4 DEF Counting

\* Nothing is printed or counted.
LEMMA NothingPrinted ==
  ASSUME CountInv, in' = in, out' = out, tstat' = tstat, dstat' = dstat
  PROVE  Counting(out, tstat, dstat)'
<1>1. Counting(out, tstat, dstat)
  BY DEF CountInv
<1>2. Counting(out', tstat', dstat')
  BY <1>1
<1> QED BY <1>2, CountingPrimed

\* Before anything is printed nothing is counted.
LEMMA CountsAtFirst == Init => Counting(out, tstat, dstat)
<1> SUFFICES ASSUME Init PROVE Counting(out, tstat, dstat)
  OBVIOUS
<1>1. out = <<>> /\ tstat = NoEntries /\ dstat = NoEntries /\ Len(<<>>) = 0
  BY DEF Init
<1>2. RootLines(out) = {} /\ \A t : Listed(out, 1, t) = {}
  BY <1>1 DEF RootLines, Listed
<1>3. Cardinality({}) = 0
  BY FS_EmptySet
<1> QED BY <1>1, <1>2, <1>3 DEF Counting, NoEntries

\* A directory's list begins: its count does too.
LEMMA ListCounts ==
  ASSUME NEW o \in Seq(Lines), NEW x \in Lines, x.kind = "root",
         NEW all, NEW this, Counting(o, all, this)
  PROVE  Counting(Append(o, x), all, NoEntries)
<1> DEFINE q == Append(o, x)
<1>1. RootLines(q) # {} /\ \A t : Listed(q, LastRoot(q), t) = {}
  BY ListBegins
<1>2. Prints(o, <<>>, x, q)
  <2>1. <<>> \in Seq(Lines) /\ (\A i \in 1 .. Len(<<>>) : FALSE) /\ q = Append(o \o <<>>, x)
    BY EmptySeq, PrintsAlone
  <2> QED BY <2>1 DEF Prints
<1> HIDE DEF q
<1>3. 1 <= Len(q)
  BY <1>2, CountsFrom
<1>4. ASSUME NEW t \in Counters PROVE all[t] = Cardinality(Listed(q, 1, t))
  <2>1. /\ Cardinality(Listed(o, 1, t)) \in Nat
        /\ Cardinality(Listed(q, 1, t)) = Cardinality(Listed(o, 1, t)) +
             (IF x.kind = "full" /\ t \in {in.type[x.node], "size"} THEN 1 ELSE 0)
    BY <1>2, <1>3, CountGrows
  <2>2. all[t] = Cardinality(Listed(o, 1, t))
    BY DEF Counting
  <2> QED BY <2>1, <2>2
<1>5. \A t \in Counters : NoEntries[t] = Cardinality(Listed(q, LastRoot(q), t))
  BY <1>1, FS_EmptySet DEF NoEntries
<1>6. all \in [Counters -> Nat] /\ NoEntries \in [Counters -> Nat]
  BY DEF Counting, NoEntries
<1>7. Counting(q, all, NoEntries)
  BY <1>4, <1>5, <1>6 DEF Counting
<1> QED BY <1>7 DEF q

\* What is printed while a call is open is printed after what waits.
LEMMA WalkPrints ==
  ASSUME IInv, pc = "walk", NEW x \in Lines, NEW q, q = Append(out \o pending_paths, x)
  PROVE  Prints(out, pending_paths, x, q)
<1>1. stack \in Seq(Frames) /\ pending_paths \in Seq(Lines) /\ out \in Seq(Lines)
  BY Walking
<1>2. PICK D : Reached(D, stack, out, args)
  BY DEF IInv, ReachInv
<1>3. PICK s : Waiting(stack, pending_paths, out, s)
  BY DEF IInv, PathInv
<1>4. \A i \in 1 .. Len(pending_paths) : pending_paths[i].kind = "name"
  BY <1>1, <1>2, <1>3, WaitsReached
<1> QED BY <1>1, <1>4 DEF Prints

\* A directory that is given starts the count of its own.
LEMMA NextRootCounts ==
  ASSUME CountInv, NextRoot
  PROVE  Counting(out, tstat, dstat)'
<1> DEFINE r == Head(args)
           x == Line("root", r, 0)
           y == Line("error", r, 0)
           header == Append(out, x)
<1>1. /\ args \in Seq(Int) /\ args # <<>> /\ out \in Seq(Lines) /\ Counting(out, tstat, dstat)
  BY DEF CountInv, IInv, TypeOK, NextRoot
<1>2. /\ in' = in /\ tstat' = tstat /\ dstat' = NoEntries
      /\ out' = header \/ out' = Append(header, y)
  BY DEF NextRoot
<1>3. r \in Int
  BY <1>1, HeadTailProperties
<1> HIDE DEF r
<1>4. x \in Lines /\ y \in Lines /\ x.kind = "root" /\ y.kind = "error"
  BY <1>3, LineIs
<1> HIDE DEF x, y
<1>5. header \in Seq(Lines) /\ Counting(header, tstat, NoEntries)
  BY <1>1, <1>4, AppendProperties, ListCounts
<1> HIDE DEF header
<1>6. Counting(Append(header, y), tstat, NoEntries)
  <2>1. Prints(header, <<>>, y, Append(header, y))
    <3>1. <<>> \in Seq(Lines) /\ (\A i \in 1 .. Len(<<>>) : FALSE)
          /\ Append(header, y) = Append(header \o <<>>, y)
      BY <1>4, <1>5, EmptySeq, PrintsAlone
    <3> QED BY <1>4, <1>5, <3>1 DEF Prints
  <2> QED BY <1>4, <1>5, <2>1, NotCounted
<1>7. Counting(out', tstat', dstat')
  BY <1>2, <1>5, <1>6
<1> QED BY <1>2, <1>7, CountingPrimed

\* Neither the lines on the way nor an error are counted.
LEMMA OpendirFailsCounts ==
  ASSUME CountInv, OpendirFails
  PROVE  Counting(out, tstat, dstat)'
<1> DEFINE x == Line("error", top.dir, depth)
<1>1. IInv /\ pc = "walk" /\ Counting(out, tstat, dstat)
  BY DEF CountInv, OpendirFails
<1>2. /\ out' = Append(out \o pending_paths, x)
      /\ in' = in /\ tstat' = tstat /\ dstat' = dstat
  BY DEF OpendirFails, Flushed, Return
<1>3. x \in Lines /\ x.kind = "error"
  <2>1. top.dir \in Int /\ depth \in Int
    BY <1>1, Walking DEF Frames
  <2> QED BY <2>1, LineIs
<1> HIDE DEF x
<1>4. Prints(out, pending_paths, x, out')
  BY <1>1, <1>2, <1>3, WalkPrints
<1>5. Counting(out', tstat', dstat')
  BY <1>1, <1>2, <1>3, <1>4, NotCounted
<1> QED BY <1>2, <1>5, CountingPrimed

\* An entry that is printed for itself is counted once, by its type.
LEMMA EntryCounts ==
  ASSUME CountInv, Entry
  PROVE  Counting(out, tstat, dstat)'
<1> DEFINE n == TheNext
           x == Line("full", n, depth + 1)
<1>1. IInv /\ pc = "walk" /\ Counting(out, tstat, dstat)
  BY DEF CountInv, Entry
<1>2. /\ in' = in
      /\ \/ out' = out /\ tstat' = tstat /\ dstat' = dstat
         \/ /\ out' = Append(out \o pending_paths, x)
            /\ tstat' = Counted(tstat, n) /\ dstat' = Counted(dstat, n)
  <2> DEFINE skipped == n \in in.gone \/ (~ Matches(n) /\ in.type[n] # "dir")
  <2>1. /\ in' = in
        /\ IF skipped THEN out' = out /\ tstat' = tstat /\ dstat' = dstat
           ELSE /\ out' = IF Matches(n) THEN Append(out \o pending_paths, x) ELSE out
                /\ dstat' = IF Counts(n) THEN Counted(dstat, n) ELSE dstat
                /\ tstat' = IF Counts(n) THEN Counted(tstat, n) ELSE tstat
    BY DEF Entry, TheNext, Flushed
  <2> HIDE DEF n, x, skipped
  <2> QED BY <2>1 DEF Counts
<1>3. n \in Nat /\ n \in DOMAIN in.parent
  <2>1. PICK D : Reached(D, stack, out, args)
    BY <1>1 DEF IInv, ReachInv
  <2>2. Turn(D, n, Append(Front(stack), Less(n)))
    BY <1>1, <2>1, TurnTaken DEF CountInv
  <2> QED BY <2>2 DEF Turn
<1> HIDE DEF n
<1>4. x \in Lines /\ x.kind = "full" /\ x.node = n
  <2>1. depth + 1 \in Int /\ n \in Int
    BY <1>1, <1>3, Walking
  <2> QED BY <2>1, LineIs
<1> HIDE DEF x
<1>5. CASE out' = out /\ tstat' = tstat /\ dstat' = dstat
  BY <1>2, <1>5, NothingPrinted
<1>6. CASE /\ out' = Append(out \o pending_paths, x)
           /\ tstat' = Counted(tstat, n) /\ dstat' = Counted(dstat, n)
  <2>1. Prints(out, pending_paths, x, out')
    BY <1>1, <1>4, <1>6, WalkPrints
  <2>2. Counting(out', tstat', dstat')
    BY <1>1, <1>4, <1>6, <2>1, IsCounted
  <2> QED BY <1>2, <2>2, CountingPrimed
<1> QED BY <1>2, <1>5, <1>6

\* Every step keeps the counts those of the lines.
LEMMA CountStep ==
  ASSUME CountInv, [Next]_vars
  PROVE  CountInv'
<1>1. IInv'
  BY NextInv DEF CountInv
<1>2. CASE Options \/ Exit \/ Opendir \/ EntriesDone \/ UNCHANGED vars
  <2>1. in' = in /\ out' = out /\ tstat' = tstat /\ dstat' = dstat
    BY <1>2 DEF Options, Exit, Opendir, EntriesDone, Return, vars
  <2> QED BY <1>1, <2>1, NothingPrinted DEF CountInv
<1>3. CASE NextRoot
  BY <1>1, <1>3, NextRootCounts DEF CountInv
<1>4. CASE OpendirFails
  BY <1>1, <1>4, OpendirFailsCounts DEF CountInv
<1>5. CASE Entry
  BY <1>1, <1>5, EntryCounts DEF CountInv
<1> QED BY <1>2, <1>3, <1>4, <1>5 DEF Next

\* The summary of each directory, and that of all, counts the entries that are
\* listed in full, each by its type and with its size, whatever of the traversal
\* fails; a device, which the program counts under no type, is in the sizes only.
THEOREM SummariesCount == Spec => []CountsExact
<1>1. Init => CountInv
  BY InitInv, CountsAtFirst DEF CountInv
<1>2. CountInv /\ [Next]_vars => CountInv'
  BY CountStep
<1>3. CountInv => CountsExact
  BY DEF CountInv, Counting, CountsExact, Listed, RootLines, LastRoot
<1> QED BY <1>1, <1>2, <1>3, PTL DEF Spec
=============================================================================
