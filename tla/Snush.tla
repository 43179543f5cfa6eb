------------------------------- MODULE Snush -------------------------------
(***************************************************************************)
(* The shell of lab 4: its main loop (snush.c), how it starts pipelines    *)
(* and waits for them (execute.c), its job table (job.c), the processes it *)
(* forks, and the signals SIGCHLD and SIGINT.                              *)
(*                                                                         *)
(* A command is the number of its stages and whether it ends in &; a       *)
(* simple command is a pipeline of one stage, which fork_exec starts the   *)
(* way iter_pipe_fork_exec starts several.  The handlers only set a flag,  *)
(* and nobody reads the flags while the signals are blocked, so a signal   *)
(* that arrives then is modelled by the flag it sets later.                *)
(***************************************************************************)
EXTENDS Integers, Sequences, FiniteSets, FiniteSetsExt, SequencesExt

CONSTANTS Pids, NoPid,
          MAX_JOBS, MAX_PROC_PER_JOB,
          MaxJid,      \* bound: job ids can drift upwards for ever
          CanFail,     \* whether pipe and fork may fail
          Terminal     \* whether processes read the terminal

ASSUME PidsFinite == IsFiniteSet(Pids) /\ NoPid \notin Pids
ASSUME LimitsOK == /\ MAX_JOBS \in Nat \ {0}
                   /\ MAX_PROC_PER_JOB \in Nat \ {0}
                   /\ MaxJid \in Nat

VARIABLES pc,                       \* where the shell is
          cmd,                      \* the command being started
          forked,                   \* the pids of its stages so far
          fg,                       \* the job id given to wait_fg
          jobs, n_jobs, done,       \* struct job_manager
          sigchld_flag, sigint_flag,
          errno,                    \* EINTR or any other value
          eof,                      \* standard input has ended
          proc, pgrp,               \* what the kernel knows of each pid
          sigint,                   \* processes that got a SIGINT of the shell
          sigterm,                  \* those that the exiting shell has terminated
          promised                  \* history: background groups to report

shell == <<pc, cmd, forked, fg>>
table == <<jobs, n_jobs, done>>
flags == <<sigchld_flag, sigint_flag, errno>>
procs == <<proc, pgrp, sigint>>
vars == <<shell, table, flags, eof, procs, sigterm, promised>>

Slots == 1 .. MAX_JOBS
Commands == [n : 1 .. MAX_PROC_PER_JOB, bg : BOOLEAN]

NoCmd    == [n |-> 0, bg |-> FALSE]
NoJob    == [in_use |-> FALSE]
InUse == {s \in Slots : jobs[s].in_use}

\* A child is new until it has left the shell's group and unblocked its signals,
\* and doomed if the terminal's SIGINT waits for that; then it is in sync until
\* the write ends of sync_pipe are closed.
Alive(p) == proc[p] \in {"new", "doomed", "sync", "run", "stopped"}
Group(g) == {p \in Pids : proc[p] # "free" /\ pgrp[p] = g}

Init ==
  /\ pc = "sigchld"
  /\ cmd = NoCmd
  /\ forked = <<>>
  /\ fg = -1
  /\ jobs = [s \in Slots |-> NoJob]
  /\ n_jobs = 0
  /\ done = <<>>
  /\ sigchld_flag = FALSE /\ sigint_flag = FALSE /\ errno = "other"
  /\ eof = FALSE
  /\ proc = [p \in Pids |-> "free"]
  /\ pgrp = [p \in Pids |-> NoPid]
  /\ sigint = {} /\ sigterm = {}
  /\ promised = {}

-----------------------------------------------------------------------------
(* The job table *)

\* MUTANT of allocate_jid: the number of jobs.
allocate_jidCount == n_jobs

allocate_jid ==
  IF InUse = {} THEN 0 ELSE 1 + Max({jobs[s].job_id : s \in InUse})

\* add_job; it returns the job id, which is allocate_jid, or -1.
CanAdd == n_jobs < MAX_JOBS /\ Cardinality(InUse) < MAX_JOBS
            /\ Len(forked) <= MAX_PROC_PER_JOB

AddJob(pgid, pids, state) ==
  LET slot == Min(Slots \ InUse) IN
  /\ jobs' = [jobs EXCEPT ![slot] =
                [in_use |-> TRUE, job_id |-> allocate_jid, pgid |-> pgid,
                 pids |-> pids, remaining |-> Cardinality(pids), state |-> state]]
  /\ n_jobs' = n_jobs + 1

find_job_by_jid(j) == {s \in InUse : jobs[s].job_id = j}

\* MUTANT of Removed: remaining_processes is not counted down.
RemovedKept(job, gone) == [job EXCEPT !.pids = @ \ gone]

\* remove_pid_from_job for each of the pids in gone.
Removed(job, gone) ==
  [job EXCEPT !.pids = @ \ gone,
              !.remaining = @ - Cardinality(gone \cap job.pids)]

\* waitpid returned these children.
Reap(gone) ==
  /\ proc' = [p \in Pids |-> IF p \in gone THEN "free" ELSE proc[p]]
  /\ pgrp' = [p \in Pids |-> IF p \in gone THEN NoPid ELSE pgrp[p]]
  /\ sigint' = sigint \ gone

-----------------------------------------------------------------------------
(* The main loop: check_signals, check_bg_status, fgets *)

Background == {s \in InUse : jobs[s].state = "BACKGROUND"}

\* MUTANT of Reaped: one waitpid for each job.
ReapedOne(s) ==
  LET z == {p \in Group(jobs[s].pgid) : proc[p] = "zombie"} IN
  IF z = {} THEN {} ELSE {CHOOSE p \in z : TRUE}

\* What waitpid(-pgid, WNOHANG) returns until there is nothing to return.
Reaped(s) == {p \in Group(jobs[s].pgid) : proc[p] = "zombie"}

Report(s) == [jid |-> jobs[s].job_id, pgid |-> jobs[s].pgid]

\* The reports of the jobs that have ended, in the order of their slots.
Reports(ended) ==
  [i \in 1 .. Cardinality(ended) |->
     Report(CHOOSE s \in ended : Cardinality({r \in ended : r <= s}) = i)]

\* MUTANT of Enqueued: the queue is taken to be full one entry early.
EnqueuedShort(ended) ==
  LET q == done \o Reports(ended) IN SubSeq(q, 1, Min({Len(q), MAX_JOBS - 1}))

\* enqueue_done for each of them; what does not fit is dropped.
Enqueued(ended) ==
  LET q == done \o Reports(ended) IN SubSeq(q, 1, Min({Len(q), MAX_JOBS}))

HandleSigchld ==
  /\ pc = "sigchld"
  /\ pc' = "sigint"
  /\ IF ~ sigchld_flag
     THEN UNCHANGED <<table, flags, procs>>
     ELSE LET after == [s \in Slots |-> IF s \in Background
                                        THEN Removed(jobs[s], Reaped(s)) ELSE jobs[s]]
              ended == {s \in Background : after[s].remaining = 0}
          IN /\ jobs' = [s \in Slots |-> IF s \in ended THEN NoJob ELSE after[s]]
             /\ n_jobs' = n_jobs - Cardinality(ended)
             /\ done' = Enqueued(ended)
             /\ sigchld_flag' = FALSE
             /\ errno' = IF ended # {} THEN "other" ELSE errno
             /\ Reap(UNION {Reaped(s) : s \in Background})
             /\ UNCHANGED sigint_flag
  /\ UNCHANGED <<cmd, forked, fg, eof, sigterm, promised>>

Interrupted == {s \in InUse : jobs[s].state = "FOREGROUND"}

\* handle_sigint, with the flag set.
ForwardSigint ==
  /\ sigint_flag' = FALSE
  /\ sigint' = sigint \cup {p \in UNION {Group(jobs[s].pgid) : s \in Interrupted} : Alive(p)}
  /\ UNCHANGED <<proc, pgrp, sigchld_flag>>

HandleSigint ==
  /\ pc = "sigint"
  /\ pc' = "status"
  /\ IF sigint_flag THEN ForwardSigint ELSE UNCHANGED <<procs, sigint_flag, sigchld_flag>>
  /\ UNCHANGED <<cmd, forked, fg, table, errno, eof, sigterm, promised>>

CheckBgStatus ==
  /\ pc = "status"
  /\ pc' = "prompt"
  /\ promised' = promised \ {done[i].pgid : i \in 1 .. Len(done)}
  /\ done' = <<>>
  /\ UNCHANGED <<cmd, forked, fg, jobs, n_jobs, flags, eof, procs, sigterm>>

\* fgets has entered read.
EnterRead ==
  /\ pc = "prompt"
  /\ pc' = "reading"
  /\ UNCHANGED <<cmd, forked, fg, table, flags, eof, procs, sigterm, promised>>

\* shell_helper refuses every line, built-ins included, when the table is full.
Full == n_jobs + 1 > MAX_JOBS

\* A line that runs nothing in a child: empty, wrong, refused or cd.
ReadOther ==
  /\ pc = "reading" /\ ~ eof
  /\ pc' = "sigchld"
  /\ errno' \in {errno, "other"}        \* chdir may fail
  /\ UNCHANGED <<cmd, forked, fg, table, sigchld_flag, sigint_flag, eof, procs,
                 sigterm, promised>>

\* MUTANT of Terminated: only as many slots as there are jobs.
TerminatedCount == UNION {Group(jobs[s].pgid) : s \in InUse \cap 1 .. n_jobs}

\* terminate_jobs, called by exit.
Terminated == UNION {Group(jobs[s].pgid) : s \in InUse}

Exits == pc' = "exit" /\ sigterm' = Terminated

GoesOn == pc' = "sigchld" /\ UNCHANGED sigterm

ReadExit ==
  /\ pc = "reading" /\ ~ eof
  /\ IF Full THEN GoesOn ELSE Exits
  /\ UNCHANGED <<cmd, forked, fg, table, flags, eof, procs, promised>>

ReadCommand ==
  /\ pc = "reading" /\ ~ eof /\ ~ Full
  /\ allocate_jid <= MaxJid
  /\ cmd' \in Commands
  /\ forked' = <<>>
  /\ pc' = "fork"
  /\ UNCHANGED <<fg, table, flags, eof, procs, sigterm, promised>>

\* fgets returns NULL at the end of the input, and errno is what it was.
ReadEof ==
  /\ pc = "reading" /\ eof
  /\ IF errno = "EINTR" THEN GoesOn ELSE Exits
  /\ UNCHANGED <<cmd, forked, fg, table, flags, eof, procs, promised>>

-----------------------------------------------------------------------------
(* fork_exec and iter_pipe_fork_exec *)

Stages == {forked[i] : i \in 1 .. Len(forked)}

\* MUTANT of GroupFor: every stage leads a group of its own.
GroupForEach(p) == p

\* The first stage leads the group of the pipeline.
GroupFor(p) == IF p \in Stages THEN forked[1] ELSE pgrp[p]

\* The kernel gives no pid that a process or a group still has.
Fork ==
  /\ pc = "fork" /\ Len(forked) < cmd.n
  /\ \E p \in Pids :
       /\ proc[p] = "free" /\ Group(p) = {}
       /\ proc' = [proc EXCEPT ![p] = "new"]
       /\ forked' = Append(forked, p)
  /\ pc' = "setpgid"
  /\ UNCHANGED <<cmd, fg, table, flags, eof, pgrp, sigint, sigterm, promised>>

\* MUTANT of SetPgid: it is left to the child.
SetPgidNot == pc = "setpgid" /\ pc' = "fork" /\ UNCHANGED pgrp

SetPgid ==
  /\ pc = "setpgid"
  /\ pc' = "fork"
  /\ pgrp' = [pgrp EXCEPT ![Last(forked)] = GroupFor(Last(forked))]

ParentSetsGroup ==
  /\ SetPgid
  /\ UNCHANGED <<cmd, forked, fg, table, flags, eof, proc, sigint, sigterm, promised>>

\* The children wait until the write ends of sync_pipe are closed.
Release == [p \in Pids |-> IF proc[p] = "sync" THEN "run" ELSE proc[p]]

\* pipe or fork fails: the stages forked so far are released, and left alone.
ForkFails ==
  /\ CanFail
  /\ pc = "fork" /\ Len(forked) < cmd.n
  /\ proc' = Release
  /\ pc' = "sigchld"
  /\ errno' = "other"
  /\ cmd' = NoCmd /\ forked' = <<>>
  /\ UNCHANGED <<fg, table, sigchld_flag, sigint_flag, eof, pgrp, sigint, sigterm, promised>>

Register ==
  /\ pc = "fork" /\ Len(forked) = cmd.n
  /\ IF CanAdd
     THEN /\ AddJob(forked[1], Stages, IF cmd.bg THEN "BACKGROUND" ELSE "FOREGROUND")
     ELSE UNCHANGED <<jobs, n_jobs>>
  /\ proc' = Release
  /\ IF cmd.bg
     THEN /\ promised' = promised \cup {forked[1]}      \* print_job
          /\ pc' = "sigchld"
          /\ UNCHANGED fg
     ELSE /\ fg' = IF CanAdd THEN allocate_jid ELSE -1
          /\ pc' = "wait"
          /\ UNCHANGED promised
  /\ cmd' = NoCmd /\ forked' = <<>>
  /\ UNCHANGED <<done, flags, eof, pgrp, sigint, sigterm>>

-----------------------------------------------------------------------------
(* wait_fg *)

\* The job wait_fg waits for, found by its id.
Waited == CHOOSE s \in InUse : jobs[s].job_id = fg

Return == pc' = "sigchld" /\ fg' = -1

\* wait_fg returns if there is no such job or no child of its group is left, and
\* blocks in waitpid if there is one and none has ended.
WaitBlocks ==
  LET children == Group(jobs[Waited].pgid) IN
  /\ pc = "wait"
  /\ IF find_job_by_jid(fg) = {} THEN Return /\ UNCHANGED errno
     ELSE IF children = {} THEN Return /\ errno' = "other"
     ELSE /\ \A p \in children : proc[p] # "zombie"
          /\ pc' = "waiting" /\ UNCHANGED <<fg, errno>>
  /\ UNCHANGED <<cmd, forked, table, sigchld_flag, sigint_flag, eof, procs,
                 sigterm, promised>>

\* waitpid returns a child; the loop ends when the job has none left.
WaitReaps ==
  /\ pc \in {"wait", "waiting"} /\ find_job_by_jid(fg) # {}
  /\ \E p \in Group(jobs[Waited].pgid) :
       LET job == Removed(jobs[Waited], {p}) IN
       /\ proc[p] = "zombie"
       /\ Reap({p})
       /\ IF job.remaining = 0
          THEN /\ jobs' = [jobs EXCEPT ![Waited] = NoJob]
               /\ n_jobs' = n_jobs - 1
               /\ Return
          ELSE /\ jobs' = [jobs EXCEPT ![Waited] = job]
               /\ UNCHANGED <<fg, n_jobs>>
               /\ pc' = "wait"
  /\ UNCHANGED <<cmd, forked, done, flags, eof, sigterm, promised>>

\* MUTANT of AfterEintr: wait_fg returns when it is interrupted.
AfterEintrReturn == "sigchld"

AfterEintr == "wait"

\* waitpid has returned EINTR.
WaitInterrupted ==
  /\ pc = "interrupted"
  /\ IF sigint_flag THEN ForwardSigint ELSE UNCHANGED <<procs, sigint_flag, sigchld_flag>>
  /\ pc' = AfterEintr
  /\ UNCHANGED <<cmd, forked, fg, table, errno, eof, sigterm, promised>>

-----------------------------------------------------------------------------
(* The user and the processes *)

\* A forked child in the state of its start: setpgid, and child_reset_signals,
\* which lets a pending SIGINT in.
ChildReady(p) ==
  /\ pc # "exit" /\ proc[p] \in {"new", "doomed"}
  /\ pgrp' = [pgrp EXCEPT ![p] = GroupFor(p)]
  /\ proc' = [proc EXCEPT ![p] = IF @ = "doomed" THEN "zombie"
                                 ELSE IF p \in Stages THEN "sync" ELSE "run"]
  /\ sigchld_flag' = (sigchld_flag \/ proc[p] = "doomed")
  /\ UNCHANGED <<shell, table, sigint_flag, errno, eof, sigint, sigterm, promised>>

\* Ctrl-C: the terminal's foreground group is the shell and the children that are
\* still in its group.  SIGINT has no SA_RESTART, so a blocked read or waitpid
\* returns EINTR.
CtrlC ==
  /\ pc # "exit"
  /\ sigint_flag' = TRUE
  /\ proc' = [p \in Pids |-> IF proc[p] = "new" /\ pgrp[p] = NoPid THEN "doomed"
                             ELSE proc[p]]
  /\ CASE pc = "reading" -> pc' = "sigchld" /\ errno' = "EINTR"
       [] pc = "waiting" -> pc' = "interrupted" /\ errno' = "EINTR"
       [] OTHER -> UNCHANGED <<pc, errno>>
  /\ UNCHANGED <<cmd, forked, fg, table, sigchld_flag, eof, pgrp, sigint, sigterm,
                 promised>>

\* The input ends; that it has ended, only a read can tell.
CtrlD ==
  /\ pc = "reading" /\ ~ eof
  /\ eof' = TRUE
  /\ UNCHANGED <<shell, table, flags, procs, sigterm, promised>>

\* A process ends, by itself or by a signal; what becomes of the processes after
\* the shell has gone is no part of the model.
End(p) ==
  /\ pc # "exit" /\ Alive(p)
  /\ proc' = [proc EXCEPT ![p] = "zombie"]
  /\ sigchld_flag' = TRUE
  /\ UNCHANGED <<shell, table, sigint_flag, errno, eof, pgrp, sigint, sigterm, promised>>

\* A process reads the terminal from a group that is not its foreground group:
\* SIGTTIN, which the child has reset to its default, stops it.
StopOnRead(p) ==
  /\ Terminal /\ pc # "exit"
  /\ proc[p] = "run" /\ p \notin sigint
  /\ proc' = [proc EXCEPT ![p] = "stopped"]
  /\ sigchld_flag' = TRUE
  /\ UNCHANGED <<shell, table, sigint_flag, errno, eof, pgrp, sigint, sigterm, promised>>

\* kill -CONT, from elsewhere.
Resume(p) ==
  /\ pc # "exit" /\ proc[p] = "stopped"
  /\ proc' = [proc EXCEPT ![p] = "run"]
  /\ UNCHANGED <<shell, table, flags, eof, pgrp, sigint, sigterm, promised>>

Shell ==
  \/ HandleSigchld \/ HandleSigint \/ CheckBgStatus \/ EnterRead \/ ReadEof
  \/ Fork \/ ParentSetsGroup \/ ForkFails \/ Register
  \/ WaitBlocks \/ WaitReaps \/ WaitInterrupted

User == CtrlC \/ CtrlD \/ ReadOther \/ ReadExit \/ ReadCommand

Next == \/ Shell
        \/ User
        \/ \E p \in Pids : ChildReady(p) \/ End(p) \/ StopOnRead(p) \/ Resume(p)

Spec == Init /\ [][Next]_vars

\* The shell and the children it forks run; a process that got a SIGINT and runs
\* ends of it.
FairSpec == /\ Spec
            /\ WF_vars(Shell)
            /\ \A p \in Pids : /\ WF_vars(ChildReady(p))
                              /\ WF_vars(p \in sigint /\ proc[p] = "run" /\ End(p))

-----------------------------------------------------------------------------
(* Properties *)

TypeOK ==
  /\ pc \in {"sigchld", "sigint", "status", "prompt", "reading", "fork", "setpgid",
             "wait", "waiting", "interrupted", "exit"}
  /\ cmd \in Commands \cup {NoCmd}
  /\ forked \in Seq(Pids) /\ Len(forked) <= MAX_PROC_PER_JOB
  /\ \A s \in Slots :
       \/ jobs[s] = NoJob
       \/ jobs[s] \in [in_use : {TRUE}, job_id : 0 .. MaxJid, pgid : Pids,
                       pids : SUBSET Pids, remaining : 0 .. MAX_PROC_PER_JOB,
                       state : {"FOREGROUND", "BACKGROUND"}]
  /\ n_jobs \in 0 .. MAX_JOBS
  /\ done \in Seq([jid : 0 .. MaxJid, pgid : Pids]) /\ Len(done) <= MAX_JOBS
  /\ sigchld_flag \in BOOLEAN /\ sigint_flag \in BOOLEAN
  /\ errno \in {"EINTR", "other"}
  /\ proc \in [Pids -> {"free", "new", "doomed", "sync", "run", "stopped", "zombie"}]
  /\ pgrp \in [Pids -> Pids \cup {NoPid}]
  /\ sigint \subseteq Pids /\ sigterm \subseteq Pids

\* The job table after any sequence of starts, ends, failures and signals:
\* n_jobs counts the jobs, their ids are unique, remaining_processes counts
\* their processes and none is kept without one.
JobTableSound ==
  /\ TypeOK
  /\ n_jobs = Cardinality(InUse)
  /\ \A r, s \in InUse : jobs[r].job_id = jobs[s].job_id => r = s
  /\ \A s \in InUse : jobs[s].remaining = Cardinality(jobs[s].pids)
                      /\ jobs[s].remaining > 0

\* The process group of a job is exactly the processes the job has left, so
\* kill(-pgid) and waitpid(-pgid) never reach a stranger that was given the pid
\* of a process that is gone, and the shell forwards no Ctrl-C to a background job.
GroupsOwned ==
  /\ \A s \in InUse : Group(jobs[s].pgid) = jobs[s].pids
  /\ \A s \in Background : jobs[s].pids \cap sigint = {}

\* At the prompt no foreground job is left behind, and wait_fg waits for the
\* one there is.
OneForeground ==
  LET Fg == {s \in InUse : jobs[s].state = "FOREGROUND"} IN
  IF pc \in {"wait", "waiting", "interrupted"}
  THEN Fg = {Waited} /\ Cardinality(find_job_by_jid(fg)) = 1
  ELSE Fg = {}

\* Each background job that was announced is in the table or in the queue of
\* ended jobs until it is reported: no report is lost to a full queue, to a
\* missed SIGCHLD or to a reused pid, and none is made twice.
NoReportLost ==
  LET queued == {done[i].pgid : i \in 1 .. Len(done)}
      known  == {jobs[s].pgid : s \in Background}
  IN /\ promised = known \cup queued /\ known \cap queued = {}
     /\ Cardinality(queued) = Len(done)
     /\ Cardinality(known) = Cardinality(Background)

\* A background job whose processes have all ended is reported, if the shell
\* gets back to its prompt again and again.
ReportsArrive ==
  []<>(pc = "prompt") =>
    \A p \in Pids :
      (p \in promised /\ \A q \in Group(p) : proc[q] = "zombie") ~> p \notin promised

\* The shell does not wait for a foreground job that has ended, and forgets it.
ForegroundLeaves ==
  (/\ Interrupted # {}
   /\ \A s \in Interrupted : \A p \in jobs[s].pids : proc[p] = "zombie")
     ~> Interrupted = {}

\* The shell that exits leaves no process of a job running that it has announced
\* and not reported, whichever slots the jobs have come to lie in.
ExitTerminates ==
  pc = "exit" => {p \in Pids : Alive(p) /\ pgrp[p] \in promised} \subseteq sigterm

\* "Your program should terminate when the user types Ctrl-d."
EofEnds == (eof /\ pc = "reading") ~> pc = "exit"

\* "It should interrupt the foreground job and sends signals to all processes."
CtrlCInterrupts ==
  (sigint_flag /\ pc \in {"wait", "waiting", "interrupted"})
     ~> \A s \in Interrupted : jobs[s].pids \subseteq sigint
=============================================================================
