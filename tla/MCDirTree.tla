------------------------------ MODULE MCDirTree ------------------------------
(* TLC instance of DirTree: all trees of four entries with every choice of     *)
(* matching names, two directories given, and every short pattern on one       *)
(* directory that holds every short name; two small trees of all types.        *)
EXTENDS DirTree

MCLetters == {"a", "b"}

\* Names in the order of their numbers; the pattern ??b fits those of IN.
Code == << <<"a", "a">>, <<"a", "b">>, <<"b", "a">>, <<"b", "b">> >>
NamesWith(fit, N) == [n \in N |-> Append(Code[n], IF n \in fit THEN "b" ELSE "a")]

\* A directory is numbered before what is in it: only the order of the names
\* in one directory matters.
Forests(N, roots) == {f \in [N -> N \cup roots] : \A n \in N : f[n] < n}

Typings(N, f, types) == {t \in [N -> types] :
                           \A n \in N : (\E m \in N : f[m] = n) => t[n] = "dir"}

\* Nothing fails, or one lstat, or one opendir; or readdir tells no types, or not one
\* directory's.
Faults(N, t, roots) ==
  LET dirs == {n \in N : t[n] = "dir"} IN
  {<<{}, {}, {}>>, <<{}, {}, N>>}
    \cup {<<{n}, {}, {}>> : n \in N \cup roots}
    \cup {<<{}, {n}, {}>> : n \in dirs \cup roots}
    \cup {<<{}, {}, {n}>> : n \in dirs}

TreesOf(N, roots, given, f, t) ==
  {[roots |-> given, parent |-> f, type |-> t, name |-> NamesWith(fit, N),
    gone |-> fault[1], closed |-> fault[2], untyped |-> fault[3],
    pattern |-> <<"?", "?", "b">>, max_depth |-> d] :
      fit \in SUBSET N, fault \in Faults(N, t, roots), d \in 1 .. 3}

Trees(N, roots, given, types) ==
  UNION {{TreesOf(N, roots, given, f, t) : t \in Typings(N, f, types)} :
           f \in Forests(N, roots)}

AllNames == << <<"a">>, <<"a", "a">>, <<"a", "a", "a">>, <<"a", "a", "b">>,
               <<"a", "b">>, <<"a", "b", "a">>, <<"a", "b", "b">>,
               <<"b">>, <<"b", "a">>, <<"b", "a", "a">>, <<"b", "a", "b">>,
               <<"b", "b">>, <<"b", "b", "a">>, <<"b", "b", "b">> >>

Typed == UNION {[1 .. k -> MCLetters \cup {"?", "*", "(", ")"}] : k \in 0 .. MaxPattern}

FlatDirectory(p) ==
  [roots |-> <<0>>, parent |-> [n \in 1 .. 14 |-> 0],
   type |-> [n \in 1 .. 14 |-> <<"file", "dev", "link", "fifo", "sock">>[(n % 5) + 1]],
   name |-> AllNames, gone |-> {}, closed |-> {}, untyped |-> {}, pattern |-> p,
   max_depth |-> 1]

MCInputs ==
  Trees(1 .. 4, {0}, <<0>>, {"file", "dir"})
    \cup Trees(1 .. 2, {0, -1}, <<0, -1>>, Types)
    \cup {{FlatDirectory(p)} : p \in Typed \cup {NoPattern}}
=============================================================================
