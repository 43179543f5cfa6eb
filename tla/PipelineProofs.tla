--------------------------- MODULE PipelineProofs ---------------------------
(***************************************************************************)
(* The descriptors of a pipeline, for every number of stages, every size   *)
(* of the pipes and every failure: FdsExact and StartTogether.             *)
(***************************************************************************)
EXTENDS Pipeline, TLAPS

-----------------------------------------------------------------------------
(* A process's table of descriptors, and what dup2 and close make of it    *)

Table(in, out, p0, p1, c0, c1, s0, s1) ==
  [x \in Names |->
     CASE x = "stdin" -> in [] x = "stdout" -> out
       [] x = "prev0" -> p0 [] x = "prev1" -> p1
       [] x = "cur0" -> c0  [] x = "cur1" -> c1
       [] x = "sync0" -> s0 [] x = "sync1" -> s1]

\* Standard input and output and nothing else.
Plain(in, out) == Table(in, out, Shut, Shut, Shut, Shut, Shut, Shut)

Prev0(k) == IF k \in 2 .. n_cmd THEN R(k - 1) ELSE Shut
Prev1(k) == IF k \in 2 .. n_cmd THEN W(k - 1) ELSE Shut
Cur0(k)  == IF k < n_cmd THEN R(k) ELSE Shut
Cur1(k)  == IF k < n_cmd THEN W(k) ELSE Shut

\* What a stage reads and writes when nothing is redirected.
From(s) == IF s = 1 THEN Tty ELSE R(s - 1)
To(s)   == IF s = n_cmd THEN Tty ELSE W(s)

-----------------------------------------------------------------------------
(* The inductive invariant                                                 *)

Descriptors == Int \X {"tty", "closed", "file", "read", "write"}

TypeInv ==
  /\ n_cmd \in 1 .. MAX_PROC_PER_JOB + 1
  /\ redir \in SUBSET {"stdin", "stdout"}
  /\ i \in Nat
  /\ fds \in [Stages \cup {Shell} -> [Names -> Descriptors]]
  /\ stage \in [Stages -> {"none", "stdin", "stdout", "sync", "await", "builtin",
                           "build", "running", "ended"}]
  /\ pc \in {"start", "pipe", "fork", "parent", "register", "release", "returned"}
  /\ registered \in BOOLEAN

\* The shell holds the pipe behind the last stage, the one before the next stage, and
\* sync_pipe from the first fork to the release.
ShellInv ==
  /\ pc \notin {"start", "returned"} => n_cmd <= MAX_PROC_PER_JOB
  /\ pc = "start" => i = 1
  /\ pc \in {"start", "returned"} => fds[Shell] = Plain(Tty, Tty)
  /\ pc = "pipe" =>
       /\ i \in 1 .. n_cmd
       /\ fds[Shell] = Table(Tty, Tty, Prev0(i), Prev1(i), Shut, Shut, R(Sync), W(Sync))
  /\ pc \in {"fork", "parent"} =>
       /\ i \in 1 .. n_cmd
       /\ fds[Shell] = Table(Tty, Tty, Prev0(i), Prev1(i), Cur0(i), Cur1(i),
                             R(Sync), W(Sync))
  /\ pc \in {"register", "release"} =>
       fds[Shell] = Table(Tty, Tty, Shut, Shut, Shut, Shut, R(Sync), W(Sync))
  /\ pc = "release" => registered

\* What a stage holds on its way to its program.
StageInv(s) ==
  /\ stage[s] # "none" => s \in 1 .. n_cmd
  /\ stage[s] = "stdin" =>
       fds[s] = Table(Tty, Tty, Prev0(s), Prev1(s), Cur0(s), Cur1(s), R(Sync), W(Sync))
  /\ stage[s] = "stdout" =>
       fds[s] = Table(From(s), Tty, Shut, Shut, Cur0(s), Cur1(s), R(Sync), W(Sync))
  /\ stage[s] = "sync" =>
       fds[s] = Table(From(s), To(s), Shut, Shut, Shut, Shut, R(Sync), W(Sync))
  /\ stage[s] = "await" =>
       fds[s] = Table(From(s), To(s), Shut, Shut, Shut, Shut, R(Sync), Shut)
  /\ stage[s] \in {"build", "running"} =>
       \E in \in {From(s), File}, out \in {To(s), File} :
         /\ fds[s] = Plain(in, out)
         /\ in = File => "stdin" \in Redirects(s)
         /\ out = File => "stdout" \in Redirects(s)
  /\ stage[s] = "running" => ToOpen(s) = {}

\* While the shell holds the write end of sync_pipe no stage goes on.
HoldInv ==
  /\ pc = "start" => \A s \in Stages : stage[s] = "none"
  /\ pc # "returned" =>
       \A s \in Stages : stage[s] \in {"none", "stdin", "stdout", "sync", "await"}

IInv == TypeInv /\ ShellInv /\ (\A s \in Stages : StageInv(s)) /\ HoldInv

-----------------------------------------------------------------------------
(* Tables                                                                  *)

LEMMA TableType ==
  ASSUME NEW in \in Descriptors, NEW out \in Descriptors,
         NEW p0 \in Descriptors, NEW p1 \in Descriptors,
         NEW c0 \in Descriptors, NEW c1 \in Descriptors,
         NEW s0 \in Descriptors, NEW s1 \in Descriptors
  PROVE  Table(in, out, p0, p1, c0, c1, s0, s1) \in [Names -> Descriptors]
  BY DEF Table, Names

LEMMA EndTypes ==
  /\ Tty \in Descriptors /\ Shut \in Descriptors /\ File \in Descriptors
  /\ R(Sync) \in Descriptors /\ W(Sync) \in Descriptors
  /\ \A k \in Int : R(k) \in Descriptors /\ W(k) \in Descriptors
  BY DEF Tty, Shut, File, R, W, Sync, Descriptors

LEMMA EndsApart ==
  /\ Tty # File /\ Tty # Shut /\ File # Shut
  /\ \A k \in Int : /\ R(k) # Tty /\ R(k) # File /\ R(k) # Shut
                    /\ W(k) # Tty /\ W(k) # File /\ W(k) # Shut
  BY DEF Tty, Shut, File, R, W

LEMMA TableIs ==
  ASSUME NEW in, NEW out, NEW p0, NEW p1, NEW c0, NEW c1, NEW s0, NEW s1
  PROVE  LET f == Table(in, out, p0, p1, c0, c1, s0, s1) IN
         /\ f.stdin = in /\ f.stdout = out /\ f.prev0 = p0 /\ f.prev1 = p1
         /\ f.cur0 = c0 /\ f.cur1 = c1 /\ f.sync0 = s0 /\ f.sync1 = s1
  BY DEF Table, Names

LEMMA TableSet ==
  ASSUME NEW in, NEW out, NEW p0, NEW p1, NEW c0, NEW c1, NEW s0, NEW s1, NEW v, NEW w
  PROVE  LET f == Table(in, out, p0, p1, c0, c1, s0, s1) IN
         /\ [f EXCEPT !.stdin = v] = Table(v, out, p0, p1, c0, c1, s0, s1)
         /\ [f EXCEPT !.stdout = v] = Table(in, v, p0, p1, c0, c1, s0, s1)
         /\ [f EXCEPT !.sync0 = v] = Table(in, out, p0, p1, c0, c1, v, s1)
         /\ [f EXCEPT !.sync1 = v] = Table(in, out, p0, p1, c0, c1, s0, v)
         /\ [f EXCEPT !.sync0 = v, !.sync1 = w] = Table(in, out, p0, p1, c0, c1, v, w)
         /\ [f EXCEPT !.cur0 = v, !.cur1 = w] = Table(in, out, p0, p1, v, w, s0, s1)
         /\ FromPrev(f) = Table(p0, out, Shut, Shut, c0, c1, s0, s1)
         /\ ToCur(f) = Table(in, c1, p0, p1, Shut, Shut, s0, s1)
         /\ Promoted(f) = Table(in, out, c0, c1, Shut, Shut, s0, s1)
<1> DEFINE f == Table(in, out, p0, p1, c0, c1, s0, s1)
<1>1. /\ [f EXCEPT !.stdin = v] = Table(v, out, p0, p1, c0, c1, s0, s1)
      /\ [f EXCEPT !.stdout = v] = Table(in, v, p0, p1, c0, c1, s0, s1)
      /\ [f EXCEPT !.sync0 = v] = Table(in, out, p0, p1, c0, c1, v, s1)
      /\ [f EXCEPT !.sync1 = v] = Table(in, out, p0, p1, c0, c1, s0, v)
  BY DEF Table, Names
<1>2. /\ [f EXCEPT !.sync0 = v, !.sync1 = w] = Table(in, out, p0, p1, c0, c1, v, w)
      /\ [f EXCEPT !.cur0 = v, !.cur1 = w] = Table(in, out, p0, p1, v, w, s0, s1)
  BY DEF Table, Names
<1>3. FromPrev(f) = Table(p0, out, Shut, Shut, c0, c1, s0, s1)
  BY DEF Table, Names, FromPrev
<1>4. ToCur(f) = Table(in, c1, p0, p1, Shut, Shut, s0, s1)
  BY DEF Table, Names, ToCur
<1>5. Promoted(f) = Table(in, out, c0, c1, Shut, Shut, s0, s1)
  BY DEF Table, Names, Promoted
<1> QED BY <1>1, <1>2, <1>3, <1>4, <1>5

LEMMA StdIs == Std = Plain(Tty, Tty)
  BY DEF Std, Plain, Table, Names

LEMMA InitInv == Init => IInv
<1> SUFFICES ASSUME Init PROVE IInv
  OBVIOUS
<1>1. Plain(Tty, Tty) \in [Names -> Descriptors]
  BY TableType, EndTypes DEF Plain
<1>2. [x \in Names |-> Shut] \in [Names -> Descriptors]
  BY EndTypes
<1>3. fds = [p \in Stages \cup {Shell} |->
               IF p = Shell THEN Plain(Tty, Tty) ELSE [x \in Names |-> Shut]]
  BY StdIs DEF Init
<1>4. TypeInv
  BY <1>1, <1>2, <1>3 DEF Init, TypeInv
<1>5. ShellInv
  BY <1>3 DEF Init, ShellInv
<1>6. \A s \in Stages : StageInv(s)
  BY DEF Init, StageInv
<1>7. HoldInv
  BY DEF Init, HoldInv
<1> QED BY <1>4, <1>5, <1>6, <1>7 DEF IInv

-----------------------------------------------------------------------------
(* The steps of the shell                                                  *)

LEMMA Bounds ==
  ASSUME IInv
  PROVE  /\ MAX_PROC_PER_JOB \in Nat \ {0} /\ n_cmd \in Nat /\ n_cmd >= 1
         /\ Stages = 1 .. MAX_PROC_PER_JOB /\ Shell = 0 /\ Shell \notin Stages
         /\ Stages \subseteq Int
  BY AtLeastOne DEF IInv, TypeInv, Stages, Shell

LEMMA EndsType ==
  ASSUME NEW k \in Int
  PROVE  Prev0(k) \in Descriptors /\ Prev1(k) \in Descriptors
         /\ Cur0(k) \in Descriptors /\ Cur1(k) \in Descriptors
         /\ From(k) \in Descriptors /\ To(k) \in Descriptors
  BY EndTypes DEF Prev0, Prev1, Cur0, Cur1, From, To

\* The shell touches no stage.
LEMMA ShellMoves ==
  ASSUME IInv, UNCHANGED <<line, stage>>, fds' = [fds EXCEPT ![Shell] = fds'[Shell]],
         fds'[Shell] \in [Names -> Descriptors], i' \in Nat, registered' \in BOOLEAN,
         pc' \in {"pipe", "fork", "parent", "register", "release", "returned"},
         pc # "returned", ShellInv'
  PROVE  IInv'
<1>1. fds \in [Stages \cup {Shell} -> [Names -> Descriptors]] /\ Shell \notin Stages
  BY Bounds DEF IInv, TypeInv
<1>2. \A s \in Stages : fds'[s] = fds[s]
  BY <1>1
<1>3. TypeInv'
  <2>1. fds' \in [Stages \cup {Shell} -> [Names -> Descriptors]]
    BY <1>1
  <2> QED BY <2>1 DEF IInv, TypeInv, line
<1>4. \A s \in Stages : StageInv(s)'
  BY <1>2 DEF IInv, StageInv, line, Prev0, Prev1, Cur0, Cur1, From, To, Redirects, ToOpen
<1>5. HoldInv'
  BY DEF IInv, HoldInv
<1> QED BY <1>3, <1>4, <1>5 DEF IInv

LEMMA ShellFdsMove ==
  ASSUME IInv, NEW f, fds' = [fds EXCEPT ![Shell] = f]
  PROVE  fds'[Shell] = f /\ fds' = [fds EXCEPT ![Shell] = fds'[Shell]]
<1>1. fds \in [Stages \cup {Shell} -> [Names -> Descriptors]] /\ Shell \in Stages \cup {Shell}
  BY DEF IInv, TypeInv
<1> QED BY <1>1

LEMMA LineKept ==
  ASSUME UNCHANGED line, NEW k
  PROVE  /\ n_cmd' = n_cmd /\ redir' = redir
         /\ Prev0(k)' = Prev0(k) /\ Prev1(k)' = Prev1(k)
         /\ Cur0(k)' = Cur0(k) /\ Cur1(k)' = Cur1(k)
         /\ From(k)' = From(k) /\ To(k)' = To(k)
         /\ Redirects(k)' = Redirects(k)
  BY DEF line, Prev0, Prev1, Cur0, Cur1, From, To, Redirects

LEMMA ShellStays ==
  ASSUME IInv, fds' = fds
  PROVE  /\ fds' = [fds EXCEPT ![Shell] = fds'[Shell]]
         /\ fds'[Shell] = fds[Shell] /\ fds[Shell] \in [Names -> Descriptors]
  BY DEF IInv, TypeInv

LEMMA MakeSyncStep == ASSUME IInv, MakeSync PROVE IInv'
<1>1. /\ pc = "start" /\ n_cmd <= MAX_PROC_PER_JOB /\ i = 1 /\ fds[Shell] = Plain(Tty, Tty)
      /\ UNCHANGED <<line, i, stage, registered>>
  BY DEF MakeSync, IInv, ShellInv
<1>2. CASE fds' = fds /\ pc' = "returned"
  <2>1. ShellInv'
    BY <1>1, <1>2 DEF ShellInv
  <2> QED BY <1>1, <1>2, <2>1, ShellStays, ShellMoves DEF IInv, TypeInv
<1>3. CASE /\ fds' = [fds EXCEPT ![Shell].sync0 = R(Sync), ![Shell].sync1 = W(Sync)]
           /\ pc' = "pipe"
  <2> DEFINE f == Table(Tty, Tty, Shut, Shut, Shut, Shut, R(Sync), W(Sync))
  <2>1. fds' = [fds EXCEPT ![Shell] = [fds[Shell] EXCEPT !.sync0 = R(Sync), !.sync1 = W(Sync)]]
    BY <1>3 DEF IInv, TypeInv
  <2>2. [Plain(Tty, Tty) EXCEPT !.sync0 = R(Sync), !.sync1 = W(Sync)] = f
    BY DEF Plain, Table, Names
  <2>3. fds' = [fds EXCEPT ![Shell] = f]
    BY <1>1, <2>1, <2>2
  <2>4. f \in [Names -> Descriptors]
    BY EndTypes, TableType
  <2>5. Prev0(1)' = Shut /\ Prev1(1)' = Shut /\ 1 \in 1 .. n_cmd'
    <3>1. n_cmd' \in Nat /\ n_cmd' >= 1 /\ ~ (1 \in 2 .. n_cmd')
      BY <1>1, Bounds DEF line
    <3> QED BY <3>1 DEF Prev0, Prev1
  <2> HIDE DEF f
  <2>6. fds'[Shell] = f /\ fds' = [fds EXCEPT ![Shell] = fds'[Shell]]
    BY <2>3, ShellFdsMove
  <2>7. ShellInv'
    <3>1. n_cmd' <= MAX_PROC_PER_JOB /\ i' = 1
      BY <1>1 DEF line
    <3> QED BY <1>3, <2>5, <2>6, <3>1 DEF ShellInv, f
  <2> QED BY <1>1, <1>3, <2>4, <2>6, <2>7, ShellMoves DEF IInv, TypeInv
<1> QED BY <1>2, <1>3 DEF MakeSync

LEMMA StartFailsStep == ASSUME IInv, StartFails PROVE IInv'
<1>1. /\ pc \in {"pipe", "fork"} /\ pc' = "returned"
      /\ fds' = [fds EXCEPT ![Shell] =
                   [x \in Names |-> IF x \in ToClose THEN Shut ELSE fds[Shell][x]]]
      /\ UNCHANGED <<line, i, stage, registered>>
  BY DEF StartFails, IInv, TypeInv
<1>2. n_cmd <= MAX_PROC_PER_JOB /\ i \in 1 .. n_cmd
  BY <1>1 DEF IInv, ShellInv
<1>3. [x \in Names |-> IF x \in ToClose THEN Shut ELSE fds[Shell][x]] = Plain(Tty, Tty)
  <2>1. CASE pc = "pipe"
    <3>1. fds[Shell] = Table(Tty, Tty, Prev0(i), Prev1(i), Shut, Shut, R(Sync), W(Sync))
      BY <2>1 DEF IInv, ShellInv
    <3>2. i = 1 => Prev0(i) = Shut /\ Prev1(i) = Shut
      BY DEF Prev0, Prev1
    <3>3. ToClose = {"sync0", "sync1"} \cup IF i > 1 THEN {"prev0", "prev1"} ELSE {}
      BY <2>1 DEF ToClose
    <3>4. i = 1 \/ i > 1
      BY <1>2, Bounds
    <3> QED BY <3>1, <3>2, <3>3, <3>4 DEF Plain, Table, Names
  <2>2. CASE pc = "fork"
    <3>1. fds[Shell] = Table(Tty, Tty, Prev0(i), Prev1(i), Cur0(i), Cur1(i), R(Sync), W(Sync))
      BY <2>2 DEF IInv, ShellInv
    <3>2. i = 1 => Prev0(i) = Shut /\ Prev1(i) = Shut
      BY DEF Prev0, Prev1
    <3>3. ToClose = {"sync0", "sync1"} \cup (IF i > 1 THEN {"prev0", "prev1"} ELSE {})
                      \cup IF i < n_cmd THEN {"cur0", "cur1"} ELSE {}
      BY <2>2 DEF ToClose
    <3>4. i = 1 \/ i > 1
      BY <1>2, Bounds
    <3>5. ~ (i < n_cmd) => Cur0(i) = Shut /\ Cur1(i) = Shut
      BY DEF Cur0, Cur1
    <3> QED BY <3>1, <3>2, <3>3, <3>4, <3>5 DEF Plain, Table, Names
  <2> QED BY <1>1, <2>1, <2>2
<1>4. fds' = [fds EXCEPT ![Shell] = Plain(Tty, Tty)]
  BY <1>1, <1>3
<1>5. fds'[Shell] = Plain(Tty, Tty) /\ fds' = [fds EXCEPT ![Shell] = fds'[Shell]]
  BY <1>4, ShellFdsMove
<1>6. Plain(Tty, Tty) \in [Names -> Descriptors]
  BY EndTypes, TableType DEF Plain
<1>7. ShellInv'
  BY <1>1, <1>5 DEF ShellInv
<1> QED BY <1>1, <1>5, <1>6, <1>7, ShellMoves DEF IInv, TypeInv

LEMMA MakePipeStep == ASSUME IInv, MakePipe PROVE IInv'
<1>1. /\ pc = "pipe" /\ pc' = "fork" /\ UNCHANGED <<line, i, stage, registered>>
  BY DEF MakePipe
<1>2. /\ n_cmd <= MAX_PROC_PER_JOB /\ i \in 1 .. n_cmd /\ i \in Int
      /\ fds[Shell] = Table(Tty, Tty, Prev0(i), Prev1(i), Shut, Shut, R(Sync), W(Sync))
  BY <1>1 DEF IInv, ShellInv, TypeInv
<1> DEFINE f == Table(Tty, Tty, Prev0(i), Prev1(i), Cur0(i), Cur1(i), R(Sync), W(Sync))
<1>3. fds' = [fds EXCEPT ![Shell] = f]
  <2>1. CASE i < n_cmd
    <3>1. fds' = [fds EXCEPT ![Shell] = [fds[Shell] EXCEPT !.cur0 = R(i), !.cur1 = W(i)]]
      BY <2>1 DEF MakePipe, IInv, TypeInv
    <3>2. [fds[Shell] EXCEPT !.cur0 = R(i), !.cur1 = W(i)] = f
      BY <1>2, <2>1 DEF Table, Names, Cur0, Cur1
    <3> QED BY <3>1, <3>2
  <2>2. CASE ~ (i < n_cmd)
    <3>1. fds' = fds /\ fds[Shell] = f
      BY <1>2, <2>2 DEF MakePipe, Cur0, Cur1
    <3> QED BY <3>1 DEF IInv, TypeInv
  <2> QED BY <2>1, <2>2
<1>4. f \in [Names -> Descriptors]
  BY <1>2, EndTypes, EndsType, TableType
<1> HIDE DEF f
<1>5. fds'[Shell] = f /\ fds' = [fds EXCEPT ![Shell] = fds'[Shell]]
  BY <1>3, ShellFdsMove
<1>6. ShellInv'
  <2>1. /\ n_cmd' = n_cmd /\ i' = i /\ Prev0(i)' = Prev0(i) /\ Prev1(i)' = Prev1(i)
        /\ Cur0(i)' = Cur0(i) /\ Cur1(i)' = Cur1(i)
    BY <1>1 DEF line, Prev0, Prev1, Cur0, Cur1
  <2> QED BY <1>1, <1>2, <1>5, <2>1 DEF ShellInv, f
<1> QED BY <1>1, <1>4, <1>5, <1>6, ShellMoves DEF IInv, TypeInv

LEMMA ParentStep == ASSUME IInv, Parent PROVE IInv'
<1>1. /\ pc = "parent" /\ i' = i + 1 /\ pc' = IF i = n_cmd THEN "register" ELSE "pipe"
      /\ fds' = [fds EXCEPT ![Shell] = Promoted(fds[Shell])]
      /\ UNCHANGED <<line, stage, registered>>
  BY DEF Parent, IInv, TypeInv
<1>2. /\ n_cmd <= MAX_PROC_PER_JOB /\ i \in 1 .. n_cmd /\ i \in Int
      /\ fds[Shell] = Table(Tty, Tty, Prev0(i), Prev1(i), Cur0(i), Cur1(i), R(Sync), W(Sync))
  BY <1>1 DEF IInv, ShellInv, TypeInv
<1> DEFINE f == Table(Tty, Tty, Cur0(i), Cur1(i), Shut, Shut, R(Sync), W(Sync))
<1>3. Promoted(fds[Shell]) = f
  BY <1>2 DEF Promoted, Table, Names
<1>4. f \in [Names -> Descriptors]
  BY <1>2, EndTypes, EndsType, TableType
<1>5. n_cmd' = n_cmd /\ n_cmd \in Nat
  BY <1>1, Bounds DEF line
<1>6. i # n_cmd => /\ i' \in 1 .. n_cmd
                   /\ Prev0(i)' = Cur0(i) /\ Prev1(i)' = Cur1(i)
  <2>1. SUFFICES ASSUME i # n_cmd
                 PROVE  i' \in 1 .. n_cmd /\ Prev0(i)' = Cur0(i) /\ Prev1(i)' = Cur1(i)
    OBVIOUS
  <2>2. i' \in 2 .. n_cmd /\ i' - 1 = i /\ i < n_cmd
    BY <1>1, <1>2, <1>5, <2>1
  <2> QED BY <1>5, <2>2 DEF Prev0, Prev1, Cur0, Cur1
<1>7. i = n_cmd => Cur0(i) = Shut /\ Cur1(i) = Shut
  BY <1>5 DEF Cur0, Cur1
<1> HIDE DEF f
<1>8. fds'[Shell] = f /\ fds' = [fds EXCEPT ![Shell] = fds'[Shell]]
  BY <1>1, <1>3, ShellFdsMove
<1>9. ShellInv'
  BY <1>1, <1>2, <1>5, <1>6, <1>7, <1>8 DEF ShellInv, f
<1> QED BY <1>1, <1>4, <1>8, <1>9, ShellMoves DEF IInv, TypeInv

LEMMA RegisterStep == ASSUME IInv, Register PROVE IInv'
<1>1. /\ pc = "register" /\ pc' = "release" /\ registered' = TRUE
      /\ UNCHANGED <<line, i, fds, stage>>
  BY DEF Register
<1>2. ShellInv'
  BY <1>1 DEF IInv, ShellInv, line
<1> QED BY <1>1, <1>2, ShellStays, ShellMoves DEF IInv, TypeInv

LEMMA ReleaseStep == ASSUME IInv, Release PROVE IInv'
<1>1. /\ pc = "release" /\ pc' = "returned" /\ UNCHANGED <<line, i, stage, registered>>
      /\ fds' = [fds EXCEPT ![Shell] = [fds[Shell] EXCEPT !.sync0 = Shut, !.sync1 = Shut]]
  BY DEF Release, IInv, TypeInv
<1>2. fds[Shell] = Table(Tty, Tty, Shut, Shut, Shut, Shut, R(Sync), W(Sync))
  BY <1>1 DEF IInv, ShellInv
<1>3. [fds[Shell] EXCEPT !.sync0 = Shut, !.sync1 = Shut] = Plain(Tty, Tty)
  BY <1>2 DEF Plain, Table, Names
<1>4. fds'[Shell] = Plain(Tty, Tty) /\ fds' = [fds EXCEPT ![Shell] = fds'[Shell]]
  BY <1>1, <1>3, ShellFdsMove
<1>5. Plain(Tty, Tty) \in [Names -> Descriptors]
  BY EndTypes, TableType DEF Plain
<1>6. ShellInv'
  BY <1>1, <1>4 DEF ShellInv
<1> QED BY <1>1, <1>4, <1>5, <1>6, ShellMoves DEF IInv, TypeInv

LEMMA TooManyStep == ASSUME IInv, TooManyStages PROVE IInv'
<1>1. /\ pc = "start" /\ pc' = "returned" /\ UNCHANGED <<line, i, fds, stage, registered>>
  BY DEF TooManyStages
<1>2. ShellInv'
  BY <1>1 DEF IInv, ShellInv, line
<1> QED BY <1>1, <1>2, ShellStays, ShellMoves DEF IInv, TypeInv

\* What a stage is worth depends on the line and on the stage alone.
LEMMA StageKept ==
  ASSUME UNCHANGED line, NEW s \in Stages, StageInv(s), fds'[s] = fds[s], stage'[s] = stage[s]
  PROVE  StageInv(s)'
  BY DEF StageInv, line, Prev0, Prev1, Cur0, Cur1, From, To, Redirects, ToOpen

LEMMA ForkStep == ASSUME IInv, Fork PROVE IInv'
<1>1. /\ pc = "fork" /\ pc' = "parent" /\ UNCHANGED <<line, i, registered>>
      /\ fds' = [fds EXCEPT ![i] = fds[Shell]]
      /\ stage' = [stage EXCEPT ![i] = "stdin"]
  BY DEF Fork
<1>2. PICK k \in Int : k = i
  BY DEF IInv, TypeInv
<1>3. /\ n_cmd <= MAX_PROC_PER_JOB /\ k \in 1 .. n_cmd
      /\ fds[Shell] = Table(Tty, Tty, Prev0(k), Prev1(k), Cur0(k), Cur1(k), R(Sync), W(Sync))
  BY <1>1, <1>2 DEF IInv, ShellInv
<1>4. k \in Stages /\ k # Shell /\ Shell \notin Stages
  BY <1>3, Bounds
<1>5. /\ fds'[k] = fds[Shell] /\ fds'[Shell] = fds[Shell] /\ stage'[k] = "stdin"
      /\ \A s \in Stages \ {k} : fds'[s] = fds[s] /\ stage'[s] = stage[s]
  BY <1>1, <1>2, <1>4 DEF IInv, TypeInv
<1>6. TypeInv'
  <2>1. fds' \in [Stages \cup {Shell} -> [Names -> Descriptors]]
    BY <1>1 DEF IInv, TypeInv
  <2>2. stage' \in [Stages -> {"none", "stdin", "stdout", "sync", "await", "builtin",
                               "build", "running", "ended"}]
    BY <1>1 DEF IInv, TypeInv
  <2> QED BY <1>1, <2>1, <2>2 DEF IInv, TypeInv, line
<1>7. ShellInv'
  BY <1>1, <1>2, <1>3, <1>5, LineKept DEF ShellInv
<1>8. StageInv(k)'
  <2>1. k \in 1 .. n_cmd'
    BY <1>1, <1>3 DEF line
  <2>2. fds'[k] = Table(Tty, Tty, Prev0(k)', Prev1(k)', Cur0(k)', Cur1(k)', R(Sync), W(Sync))
    BY <1>1, <1>3, <1>5, LineKept
  <2> QED BY <1>5, <2>1, <2>2 DEF StageInv
<1>9. \A s \in Stages \ {k} : StageInv(s)'
  BY <1>1, <1>5, StageKept DEF IInv
<1>10. HoldInv'
  BY <1>1, <1>5 DEF IInv, HoldInv
<1> QED BY <1>6, <1>7, <1>8, <1>9, <1>10 DEF IInv

-----------------------------------------------------------------------------
(* The steps of a stage                                                    *)

LEMMA StageMoves ==
  ASSUME IInv, NEW s \in Stages, UNCHANGED <<line, pc, i, registered>>,
         NEW f \in [Names -> Descriptors], fds' = [fds EXCEPT ![s] = f],
         NEW p, stage' = [stage EXCEPT ![s] = p],
         p \in {"stdin", "stdout", "sync", "await", "builtin", "build", "running", "ended"},
         pc # "returned" => p \in {"stdin", "stdout", "sync", "await"},
         stage[s] # "none",
         fds'[s] = f /\ stage'[s] = p => StageInv(s)'
  PROVE  IInv'
<1>1. /\ fds'[s] = f /\ stage'[s] = p /\ fds'[Shell] = fds[Shell]
      /\ \A t \in Stages \ {s} : fds'[t] = fds[t] /\ stage'[t] = stage[t]
  BY Bounds DEF IInv, TypeInv
<1>2. TypeInv'
  <2>1. fds' \in [Stages \cup {Shell} -> [Names -> Descriptors]]
    BY DEF IInv, TypeInv
  <2>2. stage' \in [Stages -> {"none", "stdin", "stdout", "sync", "await", "builtin",
                               "build", "running", "ended"}]
    BY DEF IInv, TypeInv
  <2> QED BY <2>1, <2>2 DEF IInv, TypeInv, line
<1>3. ShellInv'
  BY <1>1 DEF IInv, ShellInv, line, Prev0, Prev1, Cur0, Cur1
<1>4. \A t \in Stages : StageInv(t)'
  BY <1>1, StageKept DEF IInv
<1>5. HoldInv'
  BY <1>1 DEF IInv, HoldInv
<1> QED BY <1>2, <1>3, <1>4, <1>5 DEF IInv

LEMMA SetStdinStep == ASSUME IInv, NEW s \in Stages, SetStdin(s) PROVE IInv'
<1>1. /\ stage[s] = "stdin" /\ stage' = [stage EXCEPT ![s] = "stdout"]
      /\ UNCHANGED <<line, pc, i, registered>>
      /\ fds' = [fds EXCEPT ![s] = IF s > 1 THEN FromPrev(fds[s]) ELSE fds[s]]
  BY DEF SetStdin, IInv, TypeInv
<1>2. /\ s \in 1 .. n_cmd /\ s \in Int
      /\ fds[s] = Table(Tty, Tty, Prev0(s), Prev1(s), Cur0(s), Cur1(s), R(Sync), W(Sync))
  BY <1>1, Bounds DEF IInv, StageInv
<1> DEFINE f == Table(From(s), Tty, Shut, Shut, Cur0(s), Cur1(s), R(Sync), W(Sync))
<1>3. (IF s > 1 THEN FromPrev(fds[s]) ELSE fds[s]) = f
  <2>1. CASE s > 1
    <3>1. Prev0(s) = From(s)
      BY <1>2, <2>1, Bounds DEF Prev0, From
    <3>2. FromPrev(fds[s]) = f
      BY <1>2, <3>1 DEF FromPrev, Table, Names
    <3> QED BY <2>1, <3>2
  <2>2. CASE s = 1
    <3>1. Prev0(s) = Shut /\ Prev1(s) = Shut /\ From(s) = Tty
      BY <2>2 DEF Prev0, Prev1, From
    <3> QED BY <1>2, <2>2, <3>1
  <2> QED BY <1>2, <2>1, <2>2, Bounds
<1>4. f \in [Names -> Descriptors]
  BY <1>2, EndTypes, EndsType, TableType
<1>5. fds'[s] = f /\ stage'[s] = "stdout" => StageInv(s)'
  <2>1. f = Table(From(s)', Tty, Shut, Shut, Cur0(s)', Cur1(s)', R(Sync), W(Sync))
        /\ n_cmd' = n_cmd
    BY <1>1, LineKept
  <2> HIDE DEF f
  <2> QED BY <1>2, <2>1 DEF StageInv
<1> HIDE DEF f
<1> QED BY <1>1, <1>3, <1>4, <1>5, StageMoves

LEMMA SetStdoutStep == ASSUME IInv, NEW s \in Stages, SetStdout(s) PROVE IInv'
<1>1. /\ stage[s] = "stdout" /\ stage' = [stage EXCEPT ![s] = "sync"]
      /\ UNCHANGED <<line, pc, i, registered>>
      /\ fds' = [fds EXCEPT ![s] = IF s < n_cmd THEN ToCur(fds[s]) ELSE fds[s]]
  BY DEF SetStdout, IInv, TypeInv
<1>2. /\ s \in 1 .. n_cmd /\ s \in Int
      /\ fds[s] = Table(From(s), Tty, Shut, Shut, Cur0(s), Cur1(s), R(Sync), W(Sync))
  BY <1>1, Bounds DEF IInv, StageInv
<1> DEFINE f == Table(From(s), To(s), Shut, Shut, Shut, Shut, R(Sync), W(Sync))
<1>3. (IF s < n_cmd THEN ToCur(fds[s]) ELSE fds[s]) = f
  <2>1. CASE s < n_cmd
    <3>1. Cur1(s) = To(s)
      BY <1>2, <2>1, Bounds DEF Cur1, To
    <3>2. ToCur(fds[s]) = f
      BY <1>2, <3>1 DEF ToCur, Table, Names
    <3> QED BY <2>1, <3>2
  <2>2. CASE s = n_cmd
    <3>1. Cur0(s) = Shut /\ Cur1(s) = Shut /\ To(s) = Tty /\ ~ (s < n_cmd)
      BY <2>2, Bounds DEF Cur0, Cur1, To
    <3> QED BY <1>2, <3>1
  <2> QED BY <1>2, <2>1, <2>2, Bounds
<1>4. f \in [Names -> Descriptors]
  BY <1>2, EndTypes, EndsType, TableType
<1>5. fds'[s] = f /\ stage'[s] = "sync" => StageInv(s)'
  <2>1. f = Table(From(s)', To(s)', Shut, Shut, Shut, Shut, R(Sync), W(Sync))
        /\ n_cmd' = n_cmd
    BY <1>1, LineKept
  <2> HIDE DEF f
  <2> QED BY <1>2, <2>1 DEF StageInv
<1> HIDE DEF f
<1> QED BY <1>1, <1>3, <1>4, <1>5, StageMoves

LEMMA CloseSyncStep == ASSUME IInv, NEW s \in Stages, CloseSync(s) PROVE IInv'
<1>1. /\ stage[s] = "sync" /\ stage' = [stage EXCEPT ![s] = "await"]
      /\ UNCHANGED <<line, pc, i, registered>>
      /\ fds' = [fds EXCEPT ![s] = [fds[s] EXCEPT !.sync1 = Shut]]
  BY DEF CloseSync, IInv, TypeInv
<1>2. /\ s \in 1 .. n_cmd /\ s \in Int
      /\ fds[s] = Table(From(s), To(s), Shut, Shut, Shut, Shut, R(Sync), W(Sync))
  BY <1>1, Bounds DEF IInv, StageInv
<1> DEFINE f == Table(From(s), To(s), Shut, Shut, Shut, Shut, R(Sync), Shut)
<1>3. [fds[s] EXCEPT !.sync1 = Shut] = f
  BY <1>2 DEF Table, Names
<1>4. f \in [Names -> Descriptors]
  BY <1>2, EndTypes, EndsType, TableType
<1>5. fds'[s] = f /\ stage'[s] = "await" => StageInv(s)'
  <2>1. f = Table(From(s)', To(s)', Shut, Shut, Shut, Shut, R(Sync), Shut)
        /\ n_cmd' = n_cmd
    BY <1>1, LineKept
  <2> HIDE DEF f
  <2> QED BY <1>2, <2>1 DEF StageInv
<1> HIDE DEF f
<1> QED BY <1>1, <1>3, <1>4, <1>5, StageMoves

\* A stage goes on only when the shell has come back, having closed sync_pipe.
LEMMA StartStep == ASSUME IInv, NEW s \in Stages, Start(s) PROVE IInv'
<1>1. PICK p \in {"build", "builtin"} : stage' = [stage EXCEPT ![s] = p]
  BY DEF Start
<1>2. /\ stage[s] = "await" /\ Eof(Sync)
      /\ UNCHANGED <<line, pc, i, registered>>
      /\ fds' = [fds EXCEPT ![s] = [fds[s] EXCEPT !.sync0 = Shut]]
  BY DEF Start, IInv, TypeInv
<1>3. /\ s \in 1 .. n_cmd /\ s \in Int
      /\ fds[s] = Table(From(s), To(s), Shut, Shut, Shut, Shut, R(Sync), Shut)
  BY <1>2, Bounds DEF IInv, StageInv
<1>4. pc = "returned"
  <2>1. fds[Shell].sync1 # W(Sync)
    BY <1>2 DEF Eof, Holders, Names
  <2>2. pc # "start"
    BY <1>2 DEF IInv, HoldInv
  <2>3. pc \in {"pipe", "fork", "parent", "register", "release"} => fds[Shell].sync1 = W(Sync)
    BY TableIs DEF IInv, ShellInv
  <2> QED BY <2>1, <2>2, <2>3 DEF IInv, TypeInv
<1> DEFINE f == Plain(From(s), To(s))
<1>5. [fds[s] EXCEPT !.sync0 = Shut] = f
  BY <1>3 DEF Plain, Table, Names
<1>6. f \in [Names -> Descriptors]
  BY <1>3, EndTypes, EndsType, TableType DEF Plain
<1>7. fds'[s] = f /\ stage'[s] = p => StageInv(s)'
  <2>1. From(s)' = From(s) /\ To(s)' = To(s) /\ n_cmd' = n_cmd
    BY <1>2, LineKept
  <2>2. From(s) # File /\ To(s) # File
    BY <1>3, EndsApart DEF From, To
  <2>3. f = Plain(From(s)', To(s)') /\ From(s)' # File /\ To(s)' # File
    BY <2>1, <2>2
  <2> HIDE DEF f
  <2> QED BY <1>1, <1>3, <2>1, <2>3 DEF StageInv
<1> HIDE DEF f
<1> QED BY <1>1, <1>2, <1>4, <1>5, <1>6, <1>7, StageMoves

LEMMA EndStep ==
  ASSUME IInv, NEW s \in Stages, Ends(s), UNCHANGED <<line, pc, i, registered>>,
         stage[s] \in {"build", "builtin", "running"}
  PROVE  IInv'
<1>1. /\ fds' = [fds EXCEPT ![s] = [x \in Names |-> Shut]]
      /\ stage' = [stage EXCEPT ![s] = "ended"]
  BY DEF Ends
<1>2. [x \in Names |-> Shut] \in [Names -> Descriptors]
  BY EndTypes
<1>3. s \in 1 .. n_cmd /\ n_cmd' = n_cmd
  BY DEF IInv, StageInv, line
<1>4. fds'[s] = [x \in Names |-> Shut] /\ stage'[s] = "ended" => StageInv(s)'
  BY <1>3 DEF StageInv
<1>5. pc = "returned"
  BY DEF IInv, HoldInv
<1> QED BY <1>1, <1>2, <1>4, <1>5, StageMoves

LEMMA RedirectStep == ASSUME IInv, NEW s \in Stages, Redirect(s) PROVE IInv'
<1>1. PICK x \in ToOpen(s) : \/ fds' = [fds EXCEPT ![s][x] = File] /\ UNCHANGED stage
                             \/ CanFail /\ Ends(s)
  BY DEF Redirect
<1>2. stage[s] = "build" /\ UNCHANGED <<line, pc, i, registered>>
  BY DEF Redirect
<1>3. CASE Ends(s)
  BY <1>2, <1>3, EndStep
<1>4. CASE fds' = [fds EXCEPT ![s][x] = File] /\ UNCHANGED stage
  <2>1. PICK in \in {From(s), File}, out \in {To(s), File} :
          /\ fds[s] = Plain(in, out)
          /\ in = File => "stdin" \in Redirects(s)
          /\ out = File => "stdout" \in Redirects(s)
    BY <1>2 DEF IInv, StageInv
  <2>2. s \in 1 .. n_cmd /\ s \in Int /\ pc = "returned"
    BY <1>2, Bounds DEF IInv, StageInv, HoldInv
  <2>3. x \in {"stdin", "stdout"} /\ x \in Redirects(s)
    BY DEF ToOpen, Redirects
  <2> DEFINE a == IF x = "stdin" THEN File ELSE in
             b == IF x = "stdout" THEN File ELSE out
  <2>4. /\ a \in {From(s), File} /\ b \in {To(s), File}
        /\ a = File => "stdin" \in Redirects(s)
        /\ b = File => "stdout" \in Redirects(s)
        /\ a \in Descriptors /\ b \in Descriptors
    BY <2>1, <2>2, <2>3, EndTypes, EndsType
  <2>5. fds' = [fds EXCEPT ![s] = [fds[s] EXCEPT ![x] = File]]
    BY <1>4 DEF IInv, TypeInv
  <2>6. [fds[s] EXCEPT ![x] = File] = Plain(a, b)
    BY <2>1, <2>3 DEF Plain, Table, Names
  <2>7. Plain(a, b) \in [Names -> Descriptors]
    BY <2>4, EndTypes, TableType DEF Plain
  <2>8. stage' = [stage EXCEPT ![s] = "build"]
    BY <1>2, <1>4 DEF IInv, TypeInv
  <2> HIDE DEF a, b
  <2>9. fds'[s] = Plain(a, b) /\ stage'[s] = "build" => StageInv(s)'
    <3>1. From(s)' = From(s) /\ To(s)' = To(s) /\ n_cmd' = n_cmd /\ Redirects(s)' = Redirects(s)
      BY <1>2, LineKept
    <3> QED BY <2>2, <2>4, <3>1 DEF StageInv
  <2> QED BY <1>2, <2>2, <2>5, <2>6, <2>7, <2>8, <2>9, StageMoves
<1> QED BY <1>1, <1>3, <1>4

LEMMA ExecuteStep == ASSUME IInv, NEW s \in Stages, Execute(s) PROVE IInv'
<1>1. /\ stage[s] = "build" /\ ToOpen(s) = {} /\ UNCHANGED <<line, pc, i, registered>>
      /\ \/ stage' = [stage EXCEPT ![s] = "running"] /\ UNCHANGED fds
         \/ Ends(s)
  BY DEF Execute
<1>2. CASE Ends(s)
  BY <1>1, <1>2, EndStep
<1>3. CASE stage' = [stage EXCEPT ![s] = "running"] /\ UNCHANGED fds
  <2>1. pc = "returned" /\ fds[s] \in [Names -> Descriptors]
        /\ fds' = [fds EXCEPT ![s] = fds[s]]
    BY <1>1, <1>3 DEF IInv, HoldInv, TypeInv
  <2>2. stage'[s] = "running" => StageInv(s)'
    <3>1. /\ From(s)' = From(s) /\ To(s)' = To(s) /\ n_cmd' = n_cmd
          /\ Redirects(s)' = Redirects(s)
      BY <1>1, LineKept
    <3>2. ToOpen(s)' = ToOpen(s)
      BY <1>3, <3>1 DEF ToOpen
    <3> QED BY <1>1, <1>3, <3>1, <3>2 DEF IInv, StageInv
  <2> QED BY <1>1, <1>3, <2>1, <2>2, StageMoves
<1> QED BY <1>1, <1>2, <1>3

\* A running program changes no descriptor, its own or another's, until it ends.
LEMMA ProgramStep ==
  ASSUME IInv, NEW s \in Stages, Write(s) \/ Read(s) \/ ReadEof(s) \/ Quit(s)
  PROVE  IInv'
<1>1. stage[s] = "running" /\ UNCHANGED <<line, pc, i, registered>>
      /\ (UNCHANGED <<fds, stage>> \/ Ends(s))
  BY DEF Write, Read, ReadEof, Quit
<1>2. CASE UNCHANGED <<fds, stage>>
  <2>1. TypeInv' /\ ShellInv' /\ HoldInv'
    BY <1>1, <1>2 DEF IInv, TypeInv, ShellInv, HoldInv, line, Prev0, Prev1, Cur0, Cur1
  <2>2. \A t \in Stages : StageInv(t)'
    BY <1>1, <1>2, StageKept DEF IInv
  <2> QED BY <2>1, <2>2 DEF IInv
<1>3. CASE Ends(s)
  BY <1>1, <1>3, EndStep
<1> QED BY <1>1, <1>2, <1>3

-----------------------------------------------------------------------------
(* The theorems                                                            *)

THEOREM Invariance == Spec => []IInv
<1>1. ASSUME IInv, NEW s \in Stages, Child(s) \/ Quit(s) PROVE IInv'
  <2>1. CASE RunBuiltin(s)
    BY <1>1, <2>1, EndStep DEF RunBuiltin
  <2> QED BY <1>1, <2>1, SetStdinStep, SetStdoutStep, CloseSyncStep, StartStep,
          RedirectStep, ExecuteStep, ProgramStep DEF Child
<1>2. ASSUME IInv, ShellStep PROVE IInv'
  BY <1>2, TooManyStep, MakeSyncStep, StartFailsStep, MakePipeStep, ForkStep, ParentStep,
     RegisterStep, ReleaseStep DEF ShellStep
<1>3. ASSUME IInv, UNCHANGED vars PROVE IInv'
  <2>1. TypeInv' /\ ShellInv' /\ HoldInv'
    BY <1>3 DEF vars, IInv, TypeInv, ShellInv, HoldInv, line, Prev0, Prev1, Cur0, Cur1
  <2>2. \A t \in Stages : StageInv(t)'
    BY <1>3, StageKept DEF IInv, vars
  <2> QED BY <2>1, <2>2 DEF IInv
<1>4. IInv /\ [Next]_vars => IInv'
  BY <1>1, <1>2, <1>3 DEF Next
<1> QED BY <1>4, InitInv, PTL DEF Spec

\* Whatever the number of stages and whichever pipe, fork or open fails: a program of
\* iter_pipe_fork_exec starts with its neighbours' pipes or the files of the line as
\* its input and output and holds no other pipe end, and the shell comes back with
\* every descriptor it opened closed.
THEOREM DescriptorsExact == Spec => []FdsExact
<1>1. IInv => FdsExact
  <2> DEFINE Outer(x) == IF x \in redir THEN File ELSE Tty
  <2>1. SUFFICES ASSUME IInv
                 PROVE  /\ \A s \in Stages :
                             stage[s] = "running" =>
                               fds[s] = [Std EXCEPT
                                  !.stdin  = IF s = 1 THEN Outer("stdin") ELSE R(s - 1),
                                  !.stdout = IF s = n_cmd THEN Outer("stdout") ELSE W(s)]
                        /\ pc = "returned" => fds[Shell] = Std
    BY DEF FdsExact
  <2>2. pc = "returned" => fds[Shell] = Std
    BY <2>1, StdIs DEF IInv, ShellInv
  <2>3. ASSUME NEW s \in Stages, stage[s] = "running"
        PROVE  fds[s] = [Std EXCEPT
                           !.stdin  = IF s = 1 THEN Outer("stdin") ELSE R(s - 1),
                           !.stdout = IF s = n_cmd THEN Outer("stdout") ELSE W(s)]
    <3>1. PICK in \in {From(s), File}, out \in {To(s), File} :
            /\ fds[s] = Plain(in, out)
            /\ in = File => "stdin" \in Redirects(s)
            /\ out = File => "stdout" \in Redirects(s)
      BY <2>1, <2>3 DEF IInv, StageInv
    <3>2. ToOpen(s) = {} /\ redir \subseteq {"stdin", "stdout"}
      BY <2>1, <2>3 DEF IInv, StageInv, TypeInv
    <3>3. fds[s].stdin = in /\ fds[s].stdout = out
      BY <3>1, TableIs DEF Plain
    <3>4. /\ "stdin" \in Redirects(s) => in = File
          /\ "stdout" \in Redirects(s) => out = File
      BY <3>2, <3>3 DEF ToOpen
    <3>5. /\ "stdin" \in Redirects(s) <=> s = 1 /\ "stdin" \in redir
          /\ "stdout" \in Redirects(s) <=> s = n_cmd /\ "stdout" \in redir
      BY <3>2 DEF Redirects
    <3>6. in = IF s = 1 THEN Outer("stdin") ELSE R(s - 1)
      BY <3>1, <3>4, <3>5 DEF From
    <3>7. out = IF s = n_cmd THEN Outer("stdout") ELSE W(s)
      BY <3>1, <3>4, <3>5 DEF To
    <3>8. Plain(in, out) = [Std EXCEPT !.stdin = in, !.stdout = out]
      BY DEF Plain, Table, Names, Std
    <3> QED BY <3>1, <3>6, <3>7, <3>8
  <2> QED BY <2>2, <2>3
<1> QED BY <1>1, Invariance, PTL

\* No stage opens a file, runs a built-in or starts its program before the shell has
\* given up sync_pipe, that is, before the line is a job or its start has failed.
THEOREM NoHeadStart == Spec => []StartTogether
<1>1. IInv => StartTogether
  BY DEF IInv, HoldInv, StartTogether
<1> QED BY <1>1, Invariance, PTL
=============================================================================
