------------------------------ MODULE Pipeline ------------------------------
(***************************************************************************)
(* iter_pipe_fork_exec and, for one command, fork_exec (execute.c) at the  *)
(* level of file descriptors: the shell makes the pipes and forks the      *)
(* stages, each of which starts with a copy of the shell's descriptors,    *)
(* moves two of them to its standard input and output, closes the others,  *)
(* waits for the shell, and opens the files of < and >.  A pipe end is     *)
(* closed when no process holds it, which is what ends the read of         *)
(* sync_pipe, ends a reader (EOF) and kills a writer (SIGPIPE).            *)
(*                                                                         *)
(* The programs are filters: a stage writes something for all it reads and *)
(* ends with its input; it may also end at any time, as head does.         *)
(***************************************************************************)
EXTENDS Integers

CONSTANTS MAX_PROC_PER_JOB,
          Items,    \* what the first stage writes before it ends
          Cap,      \* what a pipe holds
          CanFail   \* whether pipe, fork and open may fail

ASSUME AtLeastOne == MAX_PROC_PER_JOB \in Nat \ {0}
ASSUME SizesOK == Items \in Nat /\ Cap \in Nat \ {0}

VARIABLES n_cmd,        \* commands of the line
          redir,        \* which of < and > it has
          pc,           \* where the shell is
          i,            \* the stage it starts
          fds,          \* for each process, what its descriptors refer to
          stage,        \* where each stage is
          registered,   \* add_job has been called
          content,      \* how much is in each pipe
          todo          \* what a stage has read and not written yet

line == <<n_cmd, redir>>
vars == <<line, pc, i, fds, stage, registered, content, todo>>

Shell  == 0
Stages == 1 .. MAX_PROC_PER_JOB
Pipes  == 1 .. MAX_PROC_PER_JOB - 1    \* pipe k leads from stage k to stage k + 1
Sync   == 0                  \* sync_pipe

R(k) == <<k, "read">>
W(k) == <<k, "write">>
Tty  == <<-1, "tty">>        \* what the shell has for input and output
Shut == <<-1, "closed">>
File == <<-1, "file">>
Names == {"stdin", "stdout", "prev0", "prev1", "cur0", "cur1", "sync0", "sync1"}
Std   == [x \in Names |-> IF x \in {"stdin", "stdout"} THEN Tty ELSE Shut]

Holders(e) == {p \in Stages \cup {Shell} : \E x \in Names : fds[p][x] = e}

\* A line that syntax_check accepts: < in the first command, > in the last one.
Init ==
  /\ n_cmd \in 1 .. MAX_PROC_PER_JOB + 1
  /\ redir \in SUBSET {"stdin", "stdout"}
  /\ pc = "start" /\ i = 1
  /\ fds = [p \in Stages \cup {Shell} |->
              IF p = Shell THEN Std ELSE [x \in Names |-> Shut]]
  /\ stage = [s \in Stages |-> "none"]
  /\ registered = FALSE
  /\ content = [k \in Pipes |-> 0]
  /\ todo = [s \in Stages |-> IF s = 1 THEN Items ELSE 0]

-----------------------------------------------------------------------------
(* The shell *)

TooManyStages ==
  /\ pc = "start" /\ n_cmd > MAX_PROC_PER_JOB
  /\ pc' = "returned"
  /\ UNCHANGED <<line, i, fds, stage, registered, content, todo>>

MakeSync ==
  /\ pc = "start" /\ n_cmd <= MAX_PROC_PER_JOB
  /\ \/ /\ fds' = [fds EXCEPT ![Shell].sync0 = R(Sync), ![Shell].sync1 = W(Sync)]
        /\ pc' = "pipe"
     \/ /\ CanFail
        /\ pc' = "returned"
        /\ UNCHANGED fds
  /\ UNCHANGED <<line, i, stage, registered, content, todo>>

\* What the two error paths close: cur_pipe only if it was made in this turn.
ToClose ==
  {"sync0", "sync1"} \cup (IF i > 1 THEN {"prev0", "prev1"} ELSE {})
    \cup IF pc = "fork" /\ i < n_cmd THEN {"cur0", "cur1"} ELSE {}

\* pipe(cur_pipe) or fork fails: the function returns -1.
StartFails ==
  /\ CanFail /\ pc \in {"pipe", "fork"}
  /\ pc = "pipe" => i < n_cmd
  /\ fds' = [fds EXCEPT ![Shell] = [x \in Names |-> IF x \in ToClose THEN Shut ELSE @[x]]]
  /\ pc' = "returned"
  /\ UNCHANGED <<line, i, stage, registered, content, todo>>

MakePipe ==
  /\ pc = "pipe"
  /\ fds' = IF i < n_cmd THEN [fds EXCEPT ![Shell].cur0 = R(i), ![Shell].cur1 = W(i)]
            ELSE fds
  /\ pc' = "fork"
  /\ UNCHANGED <<line, i, stage, registered, content, todo>>

Fork ==
  /\ pc = "fork"
  /\ fds' = [fds EXCEPT ![i] = fds[Shell]]
  /\ stage' = [stage EXCEPT ![i] = "stdin"]
  /\ pc' = "parent"
  /\ UNCHANGED <<line, i, registered, content, todo>>

\* Close prev_pipe, which becomes cur_pipe.
Promoted(f) == [f EXCEPT !.prev0 = f.cur0, !.prev1 = f.cur1,
                         !.cur0 = Shut, !.cur1 = Shut]

Parent ==
  /\ pc = "parent"
  /\ fds' = [fds EXCEPT ![Shell] = Promoted(@)]
  /\ i' = i + 1
  /\ pc' = IF i = n_cmd THEN "register" ELSE "pipe"
  /\ UNCHANGED <<line, stage, registered, content, todo>>

Register ==
  /\ pc = "register"
  /\ registered' = TRUE
  /\ pc' = "release"
  /\ UNCHANGED <<line, i, fds, stage, content, todo>>

Release ==
  /\ pc = "release"
  /\ fds' = [fds EXCEPT ![Shell].sync0 = Shut, ![Shell].sync1 = Shut]
  /\ pc' = "returned"
  /\ UNCHANGED <<line, i, stage, registered, content, todo>>

-----------------------------------------------------------------------------
(* A child before its program starts *)

\* MUTANT of FromPrev: the write end of the pipe it reads stays open.
FromPrevLeak(f) == [f EXCEPT !.stdin = f.prev0, !.prev0 = Shut]

\* dup2(prev_pipe[0], STDIN_FILENO) and the two closes.
FromPrev(f) == [f EXCEPT !.stdin = f.prev0, !.prev0 = Shut, !.prev1 = Shut]

\* MUTANT of ToCur: the read end of the pipe it writes stays open.
ToCurLeak(f) == [f EXCEPT !.stdout = f.cur1, !.cur1 = Shut]

\* dup2(cur_pipe[1], STDOUT_FILENO) and the two closes.
ToCur(f) == [f EXCEPT !.stdout = f.cur1, !.cur0 = Shut, !.cur1 = Shut]

SetStdin(s) ==
  /\ stage[s] = "stdin"
  /\ fds' = IF s > 1 THEN [fds EXCEPT ![s] = FromPrev(@)] ELSE fds
  /\ stage' = [stage EXCEPT ![s] = "stdout"]
  /\ UNCHANGED <<line, pc, i, registered, content, todo>>

SetStdout(s) ==
  /\ stage[s] = "stdout"
  /\ fds' = IF s < n_cmd THEN [fds EXCEPT ![s] = ToCur(@)] ELSE fds
  /\ stage' = [stage EXCEPT ![s] = "sync"]
  /\ UNCHANGED <<line, pc, i, registered, content, todo>>

CloseSync(s) ==
  /\ stage[s] = "sync"
  /\ fds' = [fds EXCEPT ![s].sync1 = Shut]
  /\ stage' = [stage EXCEPT ![s] = "await"]
  /\ UNCHANGED <<line, pc, i, registered, content, todo>>

\* MUTANT of Eof: a read that does not wait.
EofAtOnce(k) == TRUE

\* read returns 0: nobody holds the write end.
Eof(k) == Holders(W(k)) = {}

\* A built-in of a pipeline runs in the child, which then ends.
Start(s) ==
  /\ stage[s] = "await"
  /\ Eof(Sync)
  /\ fds' = [fds EXCEPT ![s].sync0 = Shut]
  /\ \E next \in {"build"} \cup IF n_cmd > 1 THEN {"builtin"} ELSE {} :
       stage' = [stage EXCEPT ![s] = next]
  /\ UNCHANGED <<line, pc, i, registered, content, todo>>

\* MUTANT of Redirects: every stage goes through the tokens of the whole line.
RedirectsAll(s) == redir

\* The < and > between seg_start and seg_end.
Redirects(s) ==
  redir \cap ((IF s = 1 THEN {"stdin"} ELSE {}) \cup IF s = n_cmd THEN {"stdout"} ELSE {})

ToOpen(s) == {x \in Redirects(s) : fds[s][x] # File}

Ends(s) ==
  /\ fds' = [fds EXCEPT ![s] = [x \in Names |-> Shut]]
  /\ stage' = [stage EXCEPT ![s] = "ended"]

\* redin_handler or redout_handler: open, dup2 and close, or _exit(127).
Redirect(s) ==
  /\ stage[s] = "build"
  /\ \E x \in ToOpen(s) :
       \/ fds' = [fds EXCEPT ![s][x] = File] /\ UNCHANGED stage
       \/ CanFail /\ Ends(s)
  /\ UNCHANGED <<line, pc, i, registered, content, todo>>

Execute(s) ==
  /\ stage[s] = "build" /\ ToOpen(s) = {}
  /\ \/ stage' = [stage EXCEPT ![s] = "running"] /\ UNCHANGED fds
     \/ Ends(s)
  /\ UNCHANGED <<line, pc, i, registered, content, todo>>

RunBuiltin(s) ==
  /\ stage[s] = "builtin"
  /\ Ends(s)
  /\ UNCHANGED <<line, pc, i, registered, content, todo>>

-----------------------------------------------------------------------------
(* The programs *)

Input(s)  == fds[s].stdin[1]     \* the pipe a stage reads
Output(s) == fds[s].stdout[1]

Write(s) ==
  /\ stage[s] = "running" /\ todo[s] > 0
  /\ \/ /\ Output(s) \in Pipes /\ Holders(R(Output(s))) = {}      \* SIGPIPE
        /\ Ends(s)
        /\ UNCHANGED <<content, todo>>
     \/ /\ IF Output(s) \notin Pipes THEN UNCHANGED content
           ELSE /\ Holders(R(Output(s))) # {} /\ content[Output(s)] < Cap
                /\ content' = [content EXCEPT ![Output(s)] = @ + 1]
        /\ todo' = [todo EXCEPT ![s] = @ - 1]
        /\ UNCHANGED <<fds, stage>>
  /\ UNCHANGED <<line, pc, i, registered>>

Read(s) ==
  /\ stage[s] = "running" /\ todo[s] = 0 /\ Input(s) \in Pipes
  /\ content[Input(s)] > 0
  /\ content' = [content EXCEPT ![Input(s)] = @ - 1]
  /\ todo' = [todo EXCEPT ![s] = 1]
  /\ UNCHANGED <<line, pc, i, fds, stage, registered>>

ReadEof(s) ==
  /\ stage[s] = "running" /\ todo[s] = 0
  /\ Input(s) \in Pipes => content[Input(s)] = 0 /\ Holders(W(Input(s))) = {}
  /\ Ends(s)
  /\ UNCHANGED <<line, pc, i, registered, content, todo>>

Quit(s) ==
  /\ stage[s] = "running"
  /\ Ends(s)
  /\ UNCHANGED <<line, pc, i, registered, content, todo>>

ShellStep == TooManyStages \/ MakeSync \/ StartFails \/ MakePipe \/ Fork \/ Parent
               \/ Register \/ Release

Child(s) == SetStdin(s) \/ SetStdout(s) \/ CloseSync(s) \/ Start(s)
              \/ Redirect(s) \/ Execute(s) \/ RunBuiltin(s)
              \/ Write(s) \/ Read(s) \/ ReadEof(s)

Next == ShellStep \/ \E s \in Stages : Child(s) \/ Quit(s)

Spec == Init /\ [][Next]_vars

\* The shell and the stages run; no stage has to quit early.
FairSpec == Spec /\ WF_vars(ShellStep) /\ \A s \in Stages : WF_vars(Child(s))

-----------------------------------------------------------------------------
(* Properties *)

\* A program starts with its standard input and output connected to its
\* neighbours, or to the files of < and > at the two ends of the line, and with no
\* other pipe end, which would keep somebody from seeing an end of file or a broken
\* pipe; the shell comes back, from a failure at any stage too, with every
\* descriptor it opened closed.
FdsExact ==
  LET Outer(x) == IF x \in redir THEN File ELSE Tty IN
  /\ \A s \in Stages :
       stage[s] = "running" =>
         fds[s] = [Std EXCEPT
                     !.stdin  = IF s = 1 THEN Outer("stdin") ELSE R(s - 1),
                     !.stdout = IF s = n_cmd THEN Outer("stdout") ELSE W(s)]
  /\ pc = "returned" => fds[Shell] = Std

\* No child opens a file, runs a built-in or starts a program before the whole
\* line is a job, if starting it succeeds.
StartTogether ==
  \A s \in Stages :
    stage[s] \in {"build", "builtin", "running", "ended"} => registered \/ pc = "returned"

\* Whatever fails, fills up, ends early or runs dry: every stage that was forked
\* ends, and the shell returns.
AllEnd == <>[](pc = "returned" /\ \A s \in Stages : stage[s] \in {"none", "ended"})
=============================================================================
