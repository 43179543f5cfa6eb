------------------------------- MODULE DirTree -------------------------------
(***************************************************************************)
(* dirtree of lab 2 (dirtree.c): main goes through the directories it is    *)
(* given and process_dir_rec through each tree, listing what the pattern    *)
(* matches and the directories that lead to it.  The calls of               *)
(* process_dir_rec are an explicit stack; the file system and the command   *)
(* line are one input, chosen at the start.                                 *)
(***************************************************************************)
EXTENDS Pattern, FiniteSets

CONSTANTS Inputs,      \* the inputs considered, a set of sets
          MAX_DEPTH,
          NoPattern    \* option -f is not given

\* dev is a character or a block device.
Types == {"file", "dir", "link", "fifo", "sock", "dev"}

\* struct summary: how many entries of each type, and size, which stands for the
\* bytes and blocks, as the number of entries whose st_size and st_blocks are in it.
Counters == {"file", "dir", "link", "fifo", "sock", "size"}

\* An input: the directories given; the tree below them, parent[n] being the
\* directory of entry n; type and name of an entry; the nodes that lstat (gone)
\* and opendir (closed) fail for, and those whose type readdir does not tell
\* (untyped); the arguments of -f and -d.  Entries are numbered in the order of
\* their names.
\* Each way to a directory is a node of its own: a directory that is given twice,
\* or inside of another, is two nodes.  main refuses other depths.
InputOK(x) ==
  /\ DOMAIN x.parent \subseteq Nat
  /\ x.type \in [DOMAIN x.parent -> Types]
  /\ x.roots \in Seq(Int)
  /\ \A i \in 1 .. Len(x.roots) :
       /\ x.roots[i] \notin DOMAIN x.parent
       /\ \A j \in 1 .. Len(x.roots) : x.roots[i] = x.roots[j] => i = j
  /\ x.max_depth \in 1 .. MAX_DEPTH

ASSUME InputsOK == MAX_DEPTH \in Nat /\ \A inputs \in Inputs : \A x \in inputs : InputOK(x)

VARIABLES in,
          args,           \* directories that main has not come to
          pc,             \* where main is
          stack,          \* the calls of process_dir_rec, the innermost last
          pending_paths,  \* the first pending_count of them
          out,            \* the lines printed
          dstat, tstat

vars == <<in, args, pc, stack, pending_paths, out, dstat, tstat>>

NoEntries == [c \in Counters |-> 0]

Line(kind, n, depth) == [kind |-> kind, node |-> n, depth |-> depth]

Init ==
  /\ \E inputs \in Inputs : in \in inputs
  /\ args = in.roots /\ pc = "options"
  /\ stack = <<>> /\ pending_paths = <<>> /\ out = <<>>
  /\ dstat = NoEntries /\ tstat = NoEntries

\* main reads the options; validate_pattern panics before anything is printed.
Options ==
  /\ pc = "options"
  /\ pc' = IF in.pattern = NoPattern \/ validate_pattern(in.pattern) THEN "next" ELSE "panic"
  /\ UNCHANGED <<in, args, stack, pending_paths, out, dstat, tstat>>

\* A call of process_dir_rec for n that has not begun, with the caller's
\* my_pending_idx.
Call(n, idx) == [dir |-> n, begun |-> FALSE, left |-> {}, idx |-> idx]

NextRoot ==
  /\ pc = "next" /\ args # <<>>
  /\ args' = Tail(args)
  /\ dstat' = NoEntries /\ pending_paths' = <<>>
  /\ LET r == Head(args)
         header == Append(out, Line("root", r, 0))
     IN IF r \in in.gone
        THEN out' = Append(header, Line("error", r, 0)) /\ UNCHANGED <<pc, stack>>
        ELSE /\ out' = header
             /\ stack' = <<Call(r, -1)>> /\ pc' = "walk"
  /\ UNCHANGED <<in, tstat>>

Exit ==
  /\ pc = "next" /\ args = <<>> /\ pc' = "exit"
  /\ UNCHANGED <<in, args, stack, pending_paths, out, dstat, tstat>>

-----------------------------------------------------------------------------
(* process_dir_rec *)

top == stack[Len(stack)]
depth == Len(stack) - 1
Caller == SubSeq(stack, 1, Len(stack) - 1)

\* MUTANT of Flushed: the line alone.
FlushedNot(line) == Append(out, line)

\* flush_pending, then the line.
Flushed(line) == Append(out \o pending_paths, line)

\* MUTANT of Kept: the path of a directory without a match stays pending.
KeptAlways(paths, idx) == paths

\* The pending paths after a call that was made with my_pending_idx = idx.
Kept(paths, idx) ==
  IF idx # -1 /\ Len(paths) > idx THEN SubSeq(paths, 1, Len(paths) - 1) ELSE paths

Return(paths) ==
  /\ stack' = Caller
  /\ pending_paths' = Kept(paths, top.idx)
  /\ pc' = IF Caller = <<>> THEN "next" ELSE pc
  /\ UNCHANGED <<in, args, dstat, tstat>>

Opendir ==
  /\ pc = "walk" /\ ~ top.begun /\ top.dir \notin in.closed
  /\ stack' = Append(Caller, [top EXCEPT !.begun = TRUE,
                       !.left = {n \in DOMAIN in.parent : in.parent[n] = top.dir}])
  /\ UNCHANGED <<in, args, pc, pending_paths, out, dstat, tstat>>

OpendirFails ==
  /\ pc = "walk" /\ ~ top.begun /\ top.dir \in in.closed
  /\ out' = Flushed(Line("error", top.dir, depth))
  /\ Return(<<>>)

\* readdir's type of an entry, DT_UNKNOWN on a file system that does not keep it.
d_type(n) == IF n \in in.untyped THEN "unknown" ELSE in.type[n]

\* m comes before n: what readdir calls a directory first, then by name.
dirent_compare(m, n) ==
  IF d_type(m) # d_type(n) /\ "dir" \in {d_type(m), d_type(n)} THEN d_type(m) = "dir"
  ELSE m < n

Matches(n) == in.pattern = NoPattern \/ is_match(in.name[n], in.pattern)

\* Entry n counts as one of its type, which a device is not, and with its size.
Counted(stat, n) ==
  [c \in Counters |-> stat[c] + IF c \in {in.type[n], "size"} THEN 1 ELSE 0]

\* Whether the summaries count entry n, which was not skipped.
Counts(n) == Matches(n)

\* The rest of the turn for entry n: the recursive call, unless -d forbids it.
Descend(n, rest, paths) ==
  IF in.type[n] = "dir" /\ depth + 1 < in.max_depth
  THEN IF Matches(n)
       THEN stack' = Append(rest, Call(n, -1)) /\ pending_paths' = paths
       ELSE /\ stack' = Append(rest, Call(n, Len(paths)))
            /\ pending_paths' = Append(paths, Line("name", n, depth + 1))
  ELSE stack' = rest /\ pending_paths' = paths

\* One turn of the loop over the sorted entries.
Entry ==
  /\ pc = "walk" /\ top.begun /\ top.left # {}
  /\ LET n == CHOOSE m \in top.left : \A o \in top.left \ {m} : dirent_compare(m, o)
         rest == Append(Caller, [top EXCEPT !.left = @ \ {n}])
         skipped == n \in in.gone \/ (~ Matches(n) /\ in.type[n] # "dir")
     IN IF skipped
        THEN stack' = rest /\ UNCHANGED <<pending_paths, out, dstat, tstat>>
        ELSE /\ out' = IF Matches(n) THEN Flushed(Line("full", n, depth + 1)) ELSE out
             /\ dstat' = IF Counts(n) THEN Counted(dstat, n) ELSE dstat
             /\ tstat' = IF Counts(n) THEN Counted(tstat, n) ELSE tstat
             /\ Descend(n, rest, IF Matches(n) THEN <<>> ELSE pending_paths)
  /\ UNCHANGED <<in, args, pc>>

EntriesDone ==
  /\ pc = "walk" /\ top.begun /\ top.left = {}
  /\ Return(pending_paths)
  /\ UNCHANGED out

Next == Options \/ NextRoot \/ Exit \/ Opendir \/ OpendirFails \/ Entry \/ EntriesDone

Spec == Init /\ [][Next]_vars

-----------------------------------------------------------------------------
(* Properties *)

\* README.md leaves a star inside of a group open.
LeftOpen ==
  in.pattern # NoPattern /\ \E i, j \in 1 .. Len(in.pattern) :
    /\ i < j /\ in.pattern[i] = "(" /\ in.pattern[j] = "*"
    /\ \A k \in i .. j : in.pattern[k] # ")"

\* The nodes from a root to n.
Path(n) ==
  LET path[m \in 0 .. Cardinality(DOMAIN in.parent)] ==
        IF m = 0 THEN <<n>>
        ELSE LET p == path[m - 1]
             IN IF p[1] \in DOMAIN in.parent THEN <<in.parent[p[1]]>> \o p ELSE p
  IN path[Cardinality(DOMAIN in.parent)]

Fits(n) == in.pattern = NoPattern \/ Contains(in.name[n], Meaning[in.pattern])

\* README.md: what the traversal comes to, and the directories it opens.
Sees(n) ==
  LET p == Path(n) IN
  /\ Len(p) - 1 <= in.max_depth
  /\ \A i \in 1 .. Len(p) : p[i] \notin in.gone
  /\ \A i \in 1 .. Len(p) - 1 : p[i] \notin in.closed
IsDir(n) == n \in DOMAIN in.parent => in.type[n] = "dir"
ListedAsDir(n) == IsDir(n) /\ n \notin in.untyped
Opens(n) == Sees(n) /\ IsDir(n) /\ Len(Path(n)) - 1 < in.max_depth

\* The nodes with a line of each kind.
Roots  == {in.roots[i] : i \in 1 .. Len(in.roots)}
Full   == {n \in DOMAIN in.parent : Sees(n) /\ Fits(n)}
Errors == {n \in DOMAIN in.parent \cup Roots : Opens(n) /\ n \in in.closed}
            \cup (Roots \cap in.gone)
Names  == {n \in DOMAIN in.parent :
            /\ Opens(n) /\ ~ Fits(n)
            /\ \E m \in Full \cup Errors : \E i \in 1 .. Len(Path(m)) : Path(m)[i] = n}

Expected ==
  LET lines(kind, nodes) == {Line(kind, n, Len(Path(n)) - 1) : n \in nodes}
  IN lines("root", Roots) \cup lines("full", Full) \cup lines("name", Names)
       \cup lines("error", Errors)

\* Directories, as far as readdir tells them, before other entries, each in the
\* order of their names, and a directory before what is in it.
Earlier(x, y) ==
  LET p == Path(x.node)
      q == Path(y.node)
      differ == {i \in 1 .. Len(p) : i <= Len(q) /\ p[i] # q[i]}
      i == CHOOSE k \in differ : \A l \in differ : k <= l
  IN CASE x.node = y.node -> x.kind # "error" /\ y.kind = "error"
       [] x.node # y.node /\ differ = {} -> Len(p) < Len(q)
       [] OTHER -> IF i = 1 THEN \E k, l \in 1 .. Len(in.roots) :
                                  k < l /\ in.roots[k] = p[1] /\ in.roots[l] = q[1]
                   ELSE IF ListedAsDir(p[i]) = ListedAsDir(q[i]) THEN p[i] < q[i]
                   ELSE ListedAsDir(p[i])

\* The summaries of this directory and of all count the entries listed in full: each
\* by its type, and with its size; a device with its size only, although README.md:171
\* says that devices are just treated as regular files.
CountsExact ==
  LET full(from, c) == {i \in from .. Len(out) :
                          out[i].kind = "full" /\ c \in {in.type[out[i].node], "size"}}
      roots == {i \in 1 .. Len(out) : out[i].kind = "root"}
      last == CHOOSE i \in roots : \A j \in roots : j <= i
  IN \A c \in Counters :
       /\ tstat[c] = Cardinality(full(1, c))
       /\ roots # {} => dstat[c] = Cardinality(full(last, c))

\* What is printed at the end: each matching entry up to the given depth, each
\* directory on the way to one or to an error once, and nothing else, in order;
\* and the summaries count what is printed (CountsExact).
ListingExact ==
  /\ CountsExact
  /\ pc = "exit" /\ ~ LeftOpen => /\ {out[i] : i \in 1 .. Len(out)} = Expected
                                  /\ \A i, j \in 1 .. Len(out) : i < j => Earlier(out[i], out[j])

\* The pending paths are the lines of the innermost open directories: those that
\* are not printed yet, from the first that is not to where the traversal is; the
\* array holds them.
PendingSound ==
  LET printed(n) == \E j \in 1 .. Len(out) : out[j].node = n
      shown == Len(stack) - Len(pending_paths)
  IN pc = "walk" =>
       /\ Len(pending_paths) < MAX_DEPTH
       /\ \A i \in 1 .. Len(stack) : printed(stack[i].dir) <=> i <= shown
       /\ \A i \in 1 .. Len(pending_paths) :
            pending_paths[i] = Line("name", stack[shown + i].dir, shown + i - 1)

\* Exactly the patterns outside of README.md's syntax are refused.
PatternsExact ==
  pc # "options" /\ ~ LeftOpen =>
    ((pc = "panic") <=> (in.pattern # NoPattern /\ in.pattern \notin Valid))
=============================================================================
