----------------------------- MODULE SnushProofs -----------------------------
(***************************************************************************)
(* Proofs about the shell, for every finite set of pids and every limit on *)
(* the jobs and the stages of a pipeline.                                  *)
(***************************************************************************)
EXTENDS Snush, FiniteSetTheorems, FunctionTheorems, SequenceTheorems,
        WellFoundedInduction, TLAPS

-----------------------------------------------------------------------------
(* Least and greatest numbers                                              *)

LEMMA MinExists ==
  ASSUME NEW S \in SUBSET Nat, S # {}
  PROVE  Min(S) \in S /\ \A y \in S : Min(S) <= y
<1> DEFINE R == {p \in Nat \X Nat : p[1] < p[2]}
<1>1. OpToRel(<, Nat) = R
  BY DEF OpToRel
<1>2. IsWellFoundedOn(R, Nat)
  BY <1>1, NatLessThanWellFounded
<1>3. \E x \in S : \A y \in S : ~ (<<y, x>> \in R)
  <2> HIDE DEF R
  <2> QED BY <1>2, WFMin
<1>4. PICK x \in S : \A y \in S : ~ (y < x)
  BY <1>3
<1>5. \A y \in S : x <= y
  BY <1>4
<1> QED BY <1>5 DEF Min

LEMMA MaxExists ==
  ASSUME NEW m \in Nat, NEW S \in SUBSET (0 .. m), S # {}
  PROVE  Max(S) \in S /\ \A y \in S : Max(S) >= y
<1> DEFINE T == {m - x : x \in S}
<1>1. T \in SUBSET Nat /\ T # {}
  <2>1. \A x \in S : m - x \in Nat
    OBVIOUS
  <2> QED BY <2>1
<1>2. Min(T) \in T /\ \A y \in T : Min(T) <= y
  <2> HIDE DEF T
  <2> QED BY <1>1, MinExists
<1>3. PICK x \in S : Min(T) = m - x
  BY <1>2
<1>4. ASSUME NEW y \in S PROVE x >= y
  <2>1. m - y \in T
    OBVIOUS
  <2>2. m - x <= m - y
    BY <1>2, <1>3, <2>1
  <2> QED BY <2>2
<1> QED BY <1>4 DEF Max

-----------------------------------------------------------------------------
(* The place of a slot among others, from which Reports takes its order    *)

Place(S, s) == Cardinality({r \in S : r <= s})

LEMMA SlotsFinite ==
  /\ Slots \subseteq Nat
  /\ IsFiniteSet(Slots) /\ Cardinality(Slots) = MAX_JOBS
  /\ \A S \in SUBSET Slots : IsFiniteSet(S) /\ Cardinality(S) \in 0 .. MAX_JOBS
<1>1. IsFiniteSet(Slots) /\ Cardinality(Slots) = MAX_JOBS
  BY LimitsOK, FS_Interval DEF Slots
<1>2. ASSUME NEW S \in SUBSET Slots
      PROVE  IsFiniteSet(S) /\ Cardinality(S) \in 0 .. MAX_JOBS
  BY <1>1, FS_Subset, FS_CardinalityType, LimitsOK
<1> QED BY <1>1, <1>2, LimitsOK DEF Slots

\* Two slots of a set have different places, and one that is greater a greater one.
LEMMA PlacesGrow ==
  ASSUME NEW S \in SUBSET Slots, NEW r \in S, NEW s \in S, r < s
  PROVE  Place(S, r) < Place(S, s)
<1> DEFINE A == {x \in S : x <= r}
           B == {x \in S : x <= s}
<1>1. A \subseteq B /\ s \in B /\ s \notin A
  <2>1. r \in Nat /\ s \in Nat /\ S \subseteq Nat
    BY SlotsFinite
  <2>2. \A x \in S : x <= r => x <= s
    BY <2>1
  <2>3. ~ (s <= r) /\ s <= s
    BY <2>1
  <2>4. A \subseteq B
    BY <2>2
  <2> QED BY <2>3, <2>4
<1>2. IsFiniteSet(B) /\ Cardinality(B) \in Nat
  BY SlotsFinite
<1>3. Cardinality(A) \in Nat /\ Cardinality(A) <= Cardinality(B)
      /\ Cardinality(A) # Cardinality(B)
  <2> HIDE DEF A, B
  <2> QED BY <1>1, <1>2, FS_Subset, FS_CardinalityType
<1> QED BY <1>2, <1>3 DEF Place

LEMMA PlaceOnce ==
  ASSUME NEW S \in SUBSET Slots, NEW r \in S, NEW s \in S, Place(S, r) = Place(S, s)
  PROVE  r = s
<1>1. r \in Nat /\ s \in Nat /\ Place(S, r) \in Nat /\ Place(S, s) \in Nat
  BY SlotsFinite DEF Place
<1>2. CASE r < s
  BY <1>1, <1>2, PlacesGrow
<1>3. CASE s < r
  BY <1>1, <1>3, PlacesGrow
<1> QED BY <1>1, <1>2, <1>3

LEMMA PlaceRange ==
  ASSUME NEW S \in SUBSET Slots, NEW s \in S
  PROVE  Place(S, s) \in 1 .. Cardinality(S)
<1> DEFINE A == {x \in S : x <= s}
<1>1. A \subseteq S /\ s \in A
  BY SlotsFinite
<1>2. IsFiniteSet(S) /\ IsFiniteSet(A) /\ Cardinality(A) \in Nat /\ Cardinality(S) \in Nat
  BY SlotsFinite
<1>3. Cardinality(A) <= Cardinality(S) /\ Cardinality(A) # 0
  <2> HIDE DEF A
  <2> QED BY <1>1, <1>2, FS_Subset, FS_EmptySet
<1> QED BY <1>2, <1>3 DEF Place

\* Every place up to their number is that of one of them.
LEMMA PlacesFilled ==
  ASSUME NEW S \in SUBSET Slots, NEW i \in 1 .. Cardinality(S)
  PROVE  \E s \in S : Place(S, s) = i
<1> DEFINE f == [s \in S |-> Place(S, s)]
           n == Cardinality(S)
<1>1. IsFiniteSet(S) /\ n \in Nat
  BY SlotsFinite
<1>2. f \in Injection(S, 1 .. n)
  <2>1. f \in [S -> 1 .. n]
    BY PlaceRange
  <2>2. \A r, s \in S : f[r] = f[s] => r = s
    BY PlaceOnce
  <2> QED BY <2>1, <2>2 DEF Injection, IsInjective
<1>3. IsFiniteSet(1 .. n) /\ Cardinality(1 .. n) = n
  BY <1>1, FS_Interval
<1>4. f \in Surjection(S, 1 .. n)
  <2> HIDE DEF f, n
  <2>1. n = Cardinality(S)
    BY DEF n
  <2> QED BY <1>2, <1>3, <2>1, FS_Injection
<1> QED BY <1>4 DEF Surjection

-----------------------------------------------------------------------------
(* The inductive invariant                                                 *)

Job == [in_use : {TRUE}, job_id : 0 .. MaxJid, pgid : Pids, pids : SUBSET Pids,
        remaining : 0 .. MAX_PROC_PER_JOB, state : {"FOREGROUND", "BACKGROUND"}]

TypeInv == TypeOK /\ jobs \in [Slots -> Job \cup {NoJob}]

\* Ids and groups name a job, and remaining_processes counts its processes.
TableInv ==
  /\ n_jobs = Cardinality(InUse)
  /\ \A r, s \in InUse : jobs[r].job_id = jobs[s].job_id => r = s
  /\ \A r, s \in InUse : jobs[r].pgid = jobs[s].pgid => r = s
  /\ \A s \in InUse : /\ jobs[s].remaining = Cardinality(jobs[s].pids)
                      /\ jobs[s].pids # {}

\* While a command is started there is room for its job and its id, and the
\* processes forked for it exist.
Starting == pc \in {"fork", "setpgid"}

StartInv ==
  /\ ~ Starting => forked = <<>>
  /\ Starting => cmd \in Commands /\ n_jobs < MAX_JOBS /\ allocate_jid <= MaxJid
                  /\ Len(forked) <= cmd.n
  /\ pc = "setpgid" => forked # <<>>
  /\ \A p \in Stages : proc[p] # "free" /\ p \notin sigint

\* They make up the group of the first one, which no job has; the last one may not
\* have joined yet.
LeaderInv ==
  forked # <<>> =>
    /\ \A p \in Stages : \/ pgrp[p] = forked[1]
                         \/ pc = "setpgid" /\ p = Last(forked) /\ pgrp[p] = NoPid
    /\ Group(forked[1]) \subseteq Stages
    /\ \A s \in InUse : jobs[s].pgid # forked[1]

\* A pid that is free has neither group nor signal.
ProcInv == \A p \in Pids : proc[p] = "free" => pgrp[p] = NoPid /\ p \notin sigint

Waits == pc \in {"wait", "waiting", "interrupted"}

\* The one job in the foreground is the one that wait_fg was given.
ForegroundInv ==
  IF Waits THEN \E s \in InUse : Interrupted = {s} /\ jobs[s].job_id = fg
  ELSE Interrupted = {}

Known  == {jobs[s].pgid : s \in Background}
Queued == {done[i].pgid : i \in 1 .. Len(done)}

\* The queue of ended jobs is empty but between the two steps that fill and empty it,
\* and what has been promised is what is known or queued.
ReportInv ==
  /\ pc \notin {"sigint", "status"} => done = <<>>
  /\ promised = Known \cup Queued
  /\ Known \cap Queued = {}
  /\ Cardinality(Queued) = Len(done)

CoreInv ==
  /\ TypeInv
  /\ TableInv
  /\ StartInv
  /\ LeaderInv
  /\ ProcInv
  /\ GroupsOwned
  /\ ForegroundInv
  /\ ReportInv

IInv == CoreInv /\ ExitTerminates

-----------------------------------------------------------------------------
(* Steps that leave the table and the groups as they are                   *)

SameLife == \A p \in Pids : proc'[p] = "free" <=> proc[p] = "free"

LEMMA SameTable ==
  ASSUME TableInv, UNCHANGED <<jobs, n_jobs>>
  PROVE  TableInv'
  BY DEF TableInv, InUse

LEMMA SameGroups ==
  ASSUME SameLife, UNCHANGED <<jobs, pgrp, sigint>>
  PROVE  /\ \A g : Group(g)' = Group(g)
         /\ GroupsOwned => GroupsOwned'
         /\ ProcInv => ProcInv'
<1>1. ASSUME NEW g PROVE Group(g)' = Group(g)
  BY DEF SameLife, Group
<1>2. ASSUME GroupsOwned PROVE GroupsOwned'
  <2>1. \A s \in InUse : Group(jobs[s].pgid)' = jobs[s].pids
    BY <1>2 DEF GroupsOwned, Group, SameLife
  <2> QED BY <1>2, <2>1 DEF GroupsOwned, InUse, Background
<1>3. ProcInv => ProcInv'
  BY DEF ProcInv, SameLife
<1> QED BY <1>1, <1>2, <1>3

\* The program counter moves inside of a part of the shell, or not at all.
SamePart ==
  \/ pc' = pc
  \/ /\ ~ Starting /\ pc' \notin {"fork", "setpgid"}
     /\ Waits <=> pc' \in {"wait", "waiting", "interrupted"}
     /\ pc \in {"sigint", "status"} => pc' \in {"sigint", "status"}

LEMMA SameStart ==
  ASSUME StartInv, LeaderInv, SameLife, SamePart,
         UNCHANGED <<jobs, n_jobs, cmd, forked, pgrp, sigint>>, 
         forked \in Seq(Pids)
  PROVE  StartInv' /\ LeaderInv'
<1>1. \A g : Group(g)' = Group(g)
  BY SameGroups
<1>2. Stages' = Stages /\ Stages \subseteq Pids /\ allocate_jid' = allocate_jid
      /\ InUse' = InUse /\ Last(forked)' = Last(forked)
  BY DEF Stages, allocate_jid, InUse, Last
<1>3. StartInv'
  <2>1. CASE pc' = pc
    BY <1>2, <2>1 DEF StartInv, SameLife, Starting
  <2>2. CASE pc' # pc
    BY <1>2, <2>2 DEF StartInv, SameLife, SamePart, Starting
  <2> QED BY <2>1, <2>2
<1>4. LeaderInv'
  <2>1. SUFFICES ASSUME forked # <<>> PROVE LeaderInv'
    BY DEF LeaderInv
  <2>2. pc' = pc
    BY <2>1 DEF SamePart, StartInv, Starting
  <2>3. Group(forked[1])' = Group(forked[1])
    BY <1>1 DEF Group, SameLife
  <2> QED BY <2>1, <2>2, <2>3, <1>2 DEF LeaderInv
<1> QED BY <1>3, <1>4

LEMMA SameForeground ==
  ASSUME ForegroundInv, SamePart, UNCHANGED <<jobs, fg>>
  PROVE  ForegroundInv'
<1>1. Interrupted' = Interrupted /\ InUse' = InUse /\ (Waits' <=> Waits)
  BY DEF Interrupted, InUse, SamePart, Waits
<1> QED BY <1>1 DEF ForegroundInv

LEMMA SameReports ==
  ASSUME ReportInv, SamePart, UNCHANGED <<jobs, done, promised>>
  PROVE  ReportInv'
<1>1. Known' = Known /\ Queued' = Queued
  BY DEF Known, Queued, Background, InUse
<1> QED BY <1>1 DEF ReportInv, SamePart

LEMMA QuietStep ==
  ASSUME CoreInv, TypeInv', SameLife, SamePart,
         UNCHANGED <<jobs, n_jobs, done, cmd, forked, fg, pgrp, sigint, promised>>
  PROVE  CoreInv'
<1> forked \in Seq(Pids)
  BY DEF CoreInv, TypeInv, TypeOK
<1> QED BY SameTable, SameGroups, SameStart, SameForeground, SameReports DEF CoreInv

\* A stutter, in a shell that has exited or not.
LEMMA StutterStep ==
  ASSUME IInv, UNCHANGED vars
  PROVE  IInv'
<1> USE DEF IInv, CoreInv, vars, shell, table, flags, procs
<1>1. TypeInv'
  BY DEF TypeInv, TypeOK
<1>2. CoreInv'
  <2> SameLife /\ SamePart
    BY DEF SameLife, SamePart
  <2> HIDE DEF CoreInv
  <2> QED BY <1>1, QuietStep
<1>3. ExitTerminates'
  BY DEF ExitTerminates, Alive
<1> QED BY <1>2, <1>3

-----------------------------------------------------------------------------
(* What wait_fg waits for                                                  *)

LEMMA WaitedIs ==
  ASSUME TableInv, ForegroundInv, Waits
  PROVE  /\ Waited \in InUse
         /\ Interrupted = {Waited}
         /\ find_job_by_jid(fg) = {Waited}
<1>1. PICK s \in InUse : Interrupted = {s} /\ jobs[s].job_id = fg
  BY DEF ForegroundInv
<1>2. \A r \in InUse : jobs[r].job_id = fg => r = s
  BY <1>1 DEF TableInv
<1>3. Waited = s
  BY <1>1, <1>2 DEF Waited
<1> QED BY <1>1, <1>2, <1>3 DEF find_job_by_jid

-----------------------------------------------------------------------------
(* The steps that move the shell on, and those of the user and the         *)
(* processes                                                               *)

LEMMA MoveStep ==
  ASSUME CoreInv, EnterRead \/ ReadOther
  PROVE  CoreInv' /\ ExitTerminates'
<1> USE DEF EnterRead, ReadOther, table, flags, procs
<1>1. TypeInv'
  BY DEF CoreInv, TypeInv, TypeOK
<1>2. SameLife /\ SamePart
  BY DEF SameLife, SamePart, Starting, Waits
<1>3. ExitTerminates'
  BY DEF ExitTerminates
<1> QED BY <1>1, <1>2, <1>3, QuietStep

LEMMA WaitBlocksStep ==
  ASSUME CoreInv, WaitBlocks
  PROVE  CoreInv' /\ ExitTerminates'
<1>1. Waited \in InUse /\ find_job_by_jid(fg) = {Waited} /\ Waits
  BY WaitedIs DEF CoreInv, WaitBlocks, Waits
<1>2. Group(jobs[Waited].pgid) # {}
  BY <1>1 DEF CoreInv, GroupsOwned, TableInv
<1>3. pc = "wait" /\ pc' = "waiting" /\ UNCHANGED <<fg, errno>>
  BY <1>1, <1>2 DEF WaitBlocks
<1>4. TypeInv'
  BY <1>3 DEF WaitBlocks, CoreInv, TypeInv, TypeOK, table, procs
<1>5. SameLife /\ SamePart
  BY <1>3 DEF SameLife, SamePart, WaitBlocks, procs, Starting, Waits
<1>6. ExitTerminates'
  BY <1>3 DEF ExitTerminates
<1> QED BY <1>3, <1>4, <1>5, <1>6, QuietStep DEF WaitBlocks, table, procs

LEMMA UserStep ==
  ASSUME CoreInv, CtrlC \/ CtrlD
  PROVE  CoreInv' /\ ExitTerminates'
<1>1. CASE CtrlC
  <2>1. \/ pc = "reading" /\ pc' = "sigchld" /\ errno' = "EINTR"
        \/ pc = "waiting" /\ pc' = "interrupted" /\ errno' = "EINTR"
        \/ pc' = pc /\ errno' = errno
    BY <1>1 DEF CtrlC
  <2>2. TypeInv'
    BY <1>1, <2>1 DEF CtrlC, CoreInv, TypeInv, TypeOK, table
  <2>3. SameLife
    BY <1>1 DEF SameLife, CtrlC
  <2>4. SamePart
    BY <2>1 DEF SamePart, Starting, Waits
  <2>5. ExitTerminates'
    BY <1>1, <2>1 DEF ExitTerminates, CtrlC
  <2> QED BY <1>1, <2>2, <2>3, <2>4, <2>5, QuietStep DEF CtrlC, table
<1>2. CASE CtrlD
  <2> USE <1>2 DEF CtrlD, shell, table, flags, procs
  <2>1. TypeInv'
    BY DEF CoreInv, TypeInv, TypeOK
  <2>2. SameLife /\ SamePart /\ ExitTerminates'
    BY DEF SameLife, SamePart, ExitTerminates
  <2> QED BY <2>1, <2>2, QuietStep
<1> QED BY <1>1, <1>2

LEMMA ProcessStep ==
  ASSUME CoreInv, NEW p \in Pids, End(p) \/ StopOnRead(p) \/ Resume(p)
  PROVE  CoreInv' /\ ExitTerminates'
<1> USE DEF End, StopOnRead, Resume, shell, table, flags
<1>1. TypeInv'
  BY DEF CoreInv, TypeInv, TypeOK
<1>2. SameLife
  BY DEF SameLife, Alive, CoreInv, TypeInv, TypeOK
<1>3. SamePart /\ ExitTerminates'
  BY DEF SamePart, ExitTerminates
<1> QED BY <1>1, <1>2, <1>3, QuietStep

-----------------------------------------------------------------------------
(* handle_sigint: the signal is passed on to the foreground job only        *)

LEMMA ForwardStep ==
  ASSUME CoreInv, ForwardSigint, SamePart, ~ Starting, TypeInv',
         UNCHANGED <<jobs, n_jobs, done, cmd, forked, fg, promised>>
  PROVE  CoreInv'
<1> DEFINE reached == {p \in UNION {Group(jobs[s].pgid) : s \in Interrupted} : Alive(p)}
<1>1. sigint' = sigint \cup reached /\ UNCHANGED <<proc, pgrp>>
  BY DEF ForwardSigint
<1>2. \A p \in reached : p \in Pids /\ proc[p] # "free"
                         /\ \E s \in Interrupted : pgrp[p] = jobs[s].pgid
  BY DEF Group, Alive
<1> HIDE DEF reached
<1>3. TableInv'
  BY SameTable DEF CoreInv
<1>4. ProcInv'
  BY <1>1, <1>2 DEF CoreInv, ProcInv
<1>5. GroupsOwned'
  <2>1. InUse' = InUse /\ Background' = Background
    BY DEF InUse, Background
  <2>2. \A s \in InUse : Group(jobs[s].pgid)' = Group(jobs[s].pgid)
    BY <1>1 DEF Group
  <2>3. ASSUME NEW s \in Background PROVE jobs[s].pids \cap reached = {}
    <3>1. SUFFICES ASSUME NEW p \in jobs[s].pids, p \in reached PROVE FALSE
      OBVIOUS
    <3>2. PICK r \in Interrupted : pgrp[p] = jobs[r].pgid
      BY <1>2, <3>1
    <3>3. pgrp[p] = jobs[s].pgid /\ s \in InUse /\ r \in InUse
      BY <3>1 DEF CoreInv, GroupsOwned, Background, Group, Interrupted
    <3>4. r = s
      BY <3>2, <3>3 DEF CoreInv, TableInv
    <3> QED BY <3>4 DEF Interrupted, Background
  <2> QED BY <1>1, <2>1, <2>2, <2>3 DEF CoreInv, GroupsOwned
<1>6. StartInv' /\ LeaderInv'
  <2>1. forked = <<>> /\ Stages' = {} /\ pc' \notin {"fork", "setpgid"}
    <3>1. forked = <<>>
      BY DEF CoreInv, StartInv
    <3> QED BY <3>1 DEF Stages, SamePart, Starting
  <2> QED BY <2>1 DEF StartInv, LeaderInv, Starting
<1>7. ForegroundInv' /\ ReportInv'
  BY SameForeground, SameReports DEF CoreInv
<1> QED BY <1>3, <1>4, <1>5, <1>6, <1>7 DEF CoreInv

LEMMA HandleSigintStep ==
  ASSUME CoreInv, HandleSigint \/ WaitInterrupted
  PROVE  CoreInv' /\ ExitTerminates'
<1>1. /\ SamePart /\ ~ Starting /\ ExitTerminates'
      /\ UNCHANGED <<jobs, n_jobs, done, cmd, forked, fg, promised>>
  BY DEF HandleSigint, WaitInterrupted, SamePart, Starting, Waits, table, ExitTerminates,
         AfterEintr
<1>2. CASE sigint_flag
  <2>1. ForwardSigint
    BY <1>2 DEF HandleSigint, WaitInterrupted
  <2>2. sigint' \subseteq Pids
    BY <2>1 DEF ForwardSigint, Group, CoreInv, TypeInv, TypeOK
  <2>3. TypeInv'
    BY <2>1, <2>2 DEF ForwardSigint, CoreInv, TypeInv, TypeOK, HandleSigint,
       WaitInterrupted, table, AfterEintr
  <2> QED BY <1>1, <2>1, <2>3, ForwardStep
<1>3. CASE ~ sigint_flag
  <2>1. UNCHANGED <<procs, sigint_flag, sigchld_flag>>
    BY <1>3 DEF HandleSigint, WaitInterrupted
  <2>2. TypeInv'
    BY <2>1 DEF CoreInv, TypeInv, TypeOK, HandleSigint,
       WaitInterrupted, table, procs, AfterEintr
  <2>3. SameLife
    BY <2>1 DEF SameLife, procs
  <2> QED BY <1>1, <2>1, <2>2, <2>3, QuietStep DEF procs
<1> QED BY <1>2, <1>3

-----------------------------------------------------------------------------
(* check_bg_status, exit and the start of a command                        *)

LEMMA CheckBgStatusStep ==
  ASSUME CoreInv, CheckBgStatus
  PROVE  CoreInv' /\ ExitTerminates'
<1> USE DEF CheckBgStatus, flags, procs
<1>1. TypeInv'
  <2>1. done' \in Seq([jid : 0 .. MaxJid, pgid : Pids]) /\ Len(done') <= MAX_JOBS
    BY LimitsOK
  <2> QED BY <2>1 DEF CoreInv, TypeInv, TypeOK
<1>2. SameLife /\ ExitTerminates'
  BY DEF SameLife, ExitTerminates
<1>3. TableInv' /\ GroupsOwned' /\ ProcInv'
  BY <1>2, SameTable, SameGroups DEF CoreInv
<1>4. forked = <<>>
  BY DEF CoreInv, StartInv, Starting
<1>5. StartInv' /\ LeaderInv'
  BY <1>4 DEF StartInv, LeaderInv, Starting, Stages
<1>6. ForegroundInv'
  <2>1. Interrupted' = Interrupted /\ Interrupted = {} /\ ~ Waits'
    BY DEF Interrupted, InUse, Waits, CoreInv, ForegroundInv
  <2> QED BY <2>1 DEF ForegroundInv
<1>7. ReportInv'
  <2>1. Known' = Known
    BY DEF Known, Background, InUse
  <2>2. Queued' = {}
    BY DEF Queued
  <2>3. promised' = Known
    BY DEF CoreInv, ReportInv, Queued
  <2> QED BY <2>1, <2>2, <2>3, FS_EmptySet DEF ReportInv
<1> QED BY <1>1, <1>2, <1>3, <1>5, <1>6, <1>7 DEF CoreInv

LEMMA ExitStep ==
  ASSUME CoreInv, ReadExit \/ ReadEof
  PROVE  CoreInv' /\ ExitTerminates'
<1> USE DEF ReadExit, ReadEof, GoesOn, Exits, table, flags, procs
<1>1. Terminated \subseteq Pids
  BY DEF Terminated, Group
<1>2. pc = "reading" /\ \/ pc' = "sigchld" /\ sigterm' = sigterm
                        \/ pc' = "exit" /\ sigterm' = Terminated
  OBVIOUS
<1>3. TypeInv'
  BY <1>1, <1>2 DEF CoreInv, TypeInv, TypeOK
<1>4. SameLife /\ SamePart
  BY <1>2 DEF SameLife, SamePart, Starting, Waits
<1>5. ExitTerminates'
  <2>1. promised = Known
    BY <1>2 DEF CoreInv, ReportInv, Queued
  <2>2. SUFFICES ASSUME pc' = "exit", NEW p \in Pids, Alive(p), pgrp[p] \in Known
                 PROVE  p \in Terminated
    BY <1>2, <2>1 DEF ExitTerminates, Alive
  <2>3. PICK s \in Background : pgrp[p] = jobs[s].pgid
    BY <2>2 DEF Known
  <2> QED BY <2>2, <2>3 DEF Terminated, Background, Group, Alive
<1> QED BY <1>3, <1>4, <1>5, QuietStep

LEMMA ReadCommandStep ==
  ASSUME CoreInv, ReadCommand
  PROVE  CoreInv' /\ ExitTerminates'
<1> USE DEF ReadCommand, table, flags, procs
<1>1. TypeInv'
  <2>1. forked' \in Seq(Pids) /\ Len(forked') <= MAX_PROC_PER_JOB
    BY LimitsOK
  <2> QED BY <2>1 DEF CoreInv, TypeInv, TypeOK
<1>2. SameLife /\ ExitTerminates'
  BY DEF SameLife, ExitTerminates
<1>3. TableInv' /\ GroupsOwned' /\ ProcInv'
  BY <1>2, SameTable, SameGroups DEF CoreInv
<1>4. StartInv'
  <2>1. n_jobs < MAX_JOBS
    BY LimitsOK DEF Full, CoreInv, TypeInv, TypeOK
  <2>2. Len(forked') <= cmd'.n
    BY LimitsOK DEF Commands
  <2>3. allocate_jid' = allocate_jid
    BY DEF allocate_jid, InUse
  <2>4. Stages' = {}
    BY DEF Stages
  <2> QED BY <2>1, <2>2, <2>3, <2>4 DEF StartInv, Starting
<1>5. LeaderInv'
  BY DEF LeaderInv
<1>6. ForegroundInv'
  <2>1. Interrupted' = Interrupted /\ Interrupted = {} /\ ~ Waits'
    BY DEF Interrupted, InUse, Waits, CoreInv, ForegroundInv
  <2> QED BY <2>1 DEF ForegroundInv
<1>7. ReportInv'
  <2>1. Known' = Known /\ Queued' = Queued /\ done = <<>>
    BY DEF Known, Background, InUse, Queued, CoreInv, ReportInv
  <2> QED BY <2>1 DEF CoreInv, ReportInv
<1> QED BY <1>1, <1>2, <1>3, <1>4, <1>5, <1>6, <1>7 DEF CoreInv

-----------------------------------------------------------------------------
(* A child is forked and joins the group of its pipeline                   *)

LEMMA JobTypes ==
  ASSUME TypeInv, NEW s \in InUse
  PROVE  /\ s \in Slots /\ jobs[s] \in Job
         /\ jobs[s].pgid \in Pids /\ jobs[s].pids \subseteq Pids
         /\ jobs[s].job_id \in 0 .. MaxJid /\ jobs[s].in_use
<1>1. s \in Slots /\ jobs[s].in_use
  BY DEF InUse
<1>2. jobs[s] \in Job
  <2>1. jobs[s] # NoJob
    BY <1>1 DEF NoJob
  <2> QED BY <1>1, <2>1 DEF TypeInv
<1> QED BY <1>1, <1>2 DEF Job

\* Appending a pid to the stages.
LEMMA AppendStage ==
  ASSUME NEW f \in Seq(Pids), NEW p \in Pids
  PROVE  /\ Append(f, p) \in Seq(Pids) /\ Append(f, p) # <<>>
         /\ Len(Append(f, p)) = Len(f) + 1
         /\ Last(Append(f, p)) = p
         /\ {Append(f, p)[i] : i \in 1 .. Len(Append(f, p))}
              = {f[i] : i \in 1 .. Len(f)} \cup {p}
         /\ f # <<>> => Append(f, p)[1] = f[1]
         /\ f = <<>> => Append(f, p)[1] = p
<1>1. Append(f, p) \in Seq(Pids) /\ Len(Append(f, p)) = Len(f) + 1 /\ Len(f) \in Nat
      /\ Append(f, p)[Len(f) + 1] = p
      /\ \A i \in 1 .. Len(f) : Append(f, p)[i] = f[i]
  BY AppendProperties
<1> DEFINE g == Append(f, p)
<1> HIDE DEF g
<1>2. /\ g \in Seq(Pids) /\ Len(g) = Len(f) + 1 /\ Len(f) \in Nat
      /\ g[Len(f) + 1] = p
      /\ \A i \in 1 .. Len(f) : g[i] = f[i]
  BY <1>1 DEF g
<1>3. {g[i] : i \in 1 .. Len(g)} = {f[i] : i \in 1 .. Len(f)} \cup {p}
  BY <1>2
<1>4. g # <<>> /\ Last(g) = p
  BY <1>2 DEF Last
<1>5. f # <<>> => g[1] = f[1]
  BY <1>2
<1>6. f = <<>> => g[1] = p
  BY <1>2
<1> QED BY <1>2, <1>3, <1>4, <1>5, <1>6 DEF g

LEMMA StagesType ==
  ASSUME TypeInv
  PROVE  /\ Stages \subseteq Pids
         /\ forked # <<>> => forked[1] \in Stages /\ Last(forked) \in Stages
<1>1. forked \in Seq(Pids) /\ Len(forked) \in Nat
  BY DEF TypeInv, TypeOK
<1>2. \A i \in 1 .. Len(forked) : forked[i] \in Pids
  BY <1>1
<1>3. ASSUME forked # <<>> PROVE forked[1] \in Stages /\ Last(forked) \in Stages
  <2>1. Len(forked) # 0
    BY <1>1, <1>3
  <2> QED BY <1>1, <2>1 DEF Stages, Last
<1> QED BY <1>2, <1>3 DEF Stages

LEMMA ForkStep ==
  ASSUME CoreInv, Fork
  PROVE  CoreInv' /\ ExitTerminates'
<1>1. PICK p \in Pids : /\ proc[p] = "free" /\ Group(p) = {}
                        /\ proc' = [proc EXCEPT ![p] = "new"]
                        /\ forked' = Append(forked, p)
  BY DEF Fork
<1>2. /\ pc = "fork" /\ pc' = "setpgid" /\ Len(forked) < cmd.n
      /\ UNCHANGED <<cmd, fg, jobs, n_jobs, done, sigchld_flag, sigint_flag, errno,
                     eof, pgrp, sigint, sigterm, promised>>
  BY DEF Fork, table, flags
<1>3. /\ forked \in Seq(Pids) /\ proc \in [Pids -> {"free", "new", "doomed", "sync",
                                                   "run", "stopped", "zombie"}]
      /\ cmd \in Commands /\ cmd.n \in 1 .. MAX_PROC_PER_JOB /\ Len(forked) \in Nat
  BY <1>2 DEF CoreInv, TypeInv, TypeOK, StartInv, Starting, Commands
<1>4. /\ forked' \in Seq(Pids) /\ forked' # <<>> /\ Last(forked)' = p
      /\ Len(forked') = Len(forked) + 1
      /\ Stages' = Stages \cup {p}
      /\ forked # <<>> => forked'[1] = forked[1]
      /\ forked = <<>> => forked'[1] = p
  BY <1>1, <1>3, AppendStage DEF Stages, Last
<1>5. pgrp[p] = NoPid /\ p \notin sigint
  BY <1>1 DEF CoreInv, ProcInv
<1>6. \A g \in Pids : Group(g)' = Group(g)
  <2>1. \A q \in Pids \ {p} : proc'[q] = proc[q]
    BY <1>1, <1>3
  <2> QED BY <1>2, <1>5, <2>1, PidsFinite DEF Group
<1>7. TypeInv'
  <2>1. Len(forked') <= MAX_PROC_PER_JOB
    BY <1>2, <1>3, <1>4, LimitsOK
  <2> QED BY <1>1, <1>2, <1>4, <2>1 DEF CoreInv, TypeInv, TypeOK
<1>8. TableInv'
  BY <1>2, SameTable DEF CoreInv
<1>9. InUse' = InUse /\ Background' = Background /\ Interrupted' = Interrupted
      /\ \A s \in InUse : jobs[s].pgid \in Pids
  BY <1>2, JobTypes DEF InUse, Background, Interrupted, CoreInv
<1>10. GroupsOwned'
  <2>1. \A s \in InUse : Group(jobs[s].pgid)' = Group(jobs[s].pgid)
    BY <1>2, <1>6, <1>9 DEF Group
  <2> QED BY <1>2, <1>9, <2>1 DEF CoreInv, GroupsOwned
<1>11. ProcInv'
  BY <1>1, <1>2, <1>3 DEF CoreInv, ProcInv
<1>12. StartInv'
  <2>1. allocate_jid' = allocate_jid
    BY <1>2 DEF allocate_jid, InUse
  <2>2. \A q \in Stages' : proc'[q] # "free" /\ q \notin sigint'
    BY <1>1, <1>2, <1>3, <1>4, <1>5 DEF CoreInv, StartInv
  <2>3. Len(forked') <= cmd.n
    BY <1>2, <1>3, <1>4, LimitsOK
  <2> QED BY <1>2, <1>4, <2>1, <2>2, <2>3 DEF CoreInv, StartInv, Starting
<1>13. LeaderInv'
  <2>1. ASSUME NEW s \in InUse PROVE jobs[s].pgid # p
    BY <1>1 DEF CoreInv, GroupsOwned, TableInv
  <2>2. CASE forked = <<>>
    <3>1. forked'[1] = p /\ Stages' = {p}
      BY <1>3, <1>4, <2>2 DEF Stages
    <3>2. Group(forked[1])' = {}
      BY <1>1, <1>6, <3>1 DEF Group
    <3> QED BY <1>2, <1>4, <1>5, <1>9, <2>1, <3>1, <3>2 DEF LeaderInv
  <2>3. CASE forked # <<>>
    <3>1. forked'[1] = forked[1] /\ forked[1] \in Pids
      BY <1>4, <2>3, StagesType DEF CoreInv
    <3>2. Group(forked[1])' = Group(forked[1])
      BY <1>6, <3>1 DEF Group
    <3> QED BY <1>2, <1>4, <1>5, <1>9, <2>3, <3>1, <3>2 DEF CoreInv, LeaderInv
  <2> QED BY <2>2, <2>3
<1>14. ForegroundInv'
  BY <1>2, <1>9 DEF CoreInv, ForegroundInv, Waits
<1>15. ReportInv'
  BY <1>2, <1>9 DEF CoreInv, ReportInv, Known, Queued
<1>16. ExitTerminates'
  BY <1>2 DEF ExitTerminates
<1> QED BY <1>7, <1>8, <1>10, <1>11, <1>12, <1>13, <1>14, <1>15, <1>16 DEF CoreInv

\* One of the stages joins the group, by the parent's setpgid or by its own.
LEMMA JoinGroup ==
  ASSUME CoreInv, NEW p \in Stages, pgrp' = [pgrp EXCEPT ![p] = forked[1]], SameLife,
         UNCHANGED <<jobs, forked, sigint>>
  PROVE  /\ GroupsOwned' /\ ProcInv'
         /\ pgrp' \in [Pids -> Pids \cup {NoPid}]
         /\ Group(forked[1])' \subseteq Stages
         /\ \A q \in Stages : pgrp'[q] = IF q = p THEN forked[1] ELSE pgrp[q]
<1>1. forked # <<>> /\ Stages \subseteq Pids /\ forked[1] \in Pids
  <2>1. forked # <<>>
    BY DEF Stages
  <2> QED BY <2>1, StagesType DEF CoreInv
<1>2. /\ pgrp[p] \in {NoPid, forked[1]} /\ proc[p] # "free"
      /\ \A s \in InUse : jobs[s].pgid # forked[1]
      /\ Group(forked[1]) \subseteq Stages
  BY <1>1 DEF CoreInv, LeaderInv, StartInv
<1>3. pgrp \in [Pids -> Pids \cup {NoPid}]
  BY DEF CoreInv, TypeInv, TypeOK
<1>4. \A q \in Pids : pgrp'[q] = IF q = p THEN forked[1] ELSE pgrp[q]
  BY <1>1, <1>3
<1>5. \A g \in Pids \ {forked[1]} : Group(g)' = Group(g)
  BY <1>1, <1>2, <1>4, PidsFinite DEF Group, SameLife
<1>6. Group(forked[1])' \subseteq Stages
  <2>1. SUFFICES ASSUME NEW q \in Pids, proc'[q] # "free", pgrp'[q] = forked[1], q # p
                 PROVE  q \in Stages
    BY DEF Group
  <2>2. q \in Group(forked[1])
    BY <1>4, <2>1 DEF Group, SameLife
  <2> QED BY <1>2, <2>2
<1>7. GroupsOwned'
  <2>1. InUse' = InUse /\ Background' = Background
        /\ \A s \in InUse : jobs[s].pgid \in Pids
    BY JobTypes DEF InUse, Background, CoreInv
  <2>2. \A s \in InUse : Group(jobs[s].pgid)' = Group(jobs[s].pgid)
    BY <1>2, <1>5, <2>1 DEF Group
  <2> QED BY <2>1, <2>2 DEF CoreInv, GroupsOwned
<1>8. ProcInv'
  BY <1>2, <1>4 DEF CoreInv, ProcInv, SameLife
<1> QED BY <1>1, <1>3, <1>4, <1>6, <1>7, <1>8

LEMMA ParentStep ==
  ASSUME CoreInv, ParentSetsGroup
  PROVE  CoreInv' /\ ExitTerminates'
<1> DEFINE p == Last(forked)
<1>1. /\ pc = "setpgid" /\ pc' = "fork" /\ pgrp' = [pgrp EXCEPT ![p] = GroupFor(p)]
      /\ UNCHANGED <<cmd, forked, fg, jobs, n_jobs, done, sigchld_flag, sigint_flag,
                     errno, eof, proc, sigint, sigterm, promised>>
  BY DEF ParentSetsGroup, SetPgid, table, flags
<1>2. forked # <<>> /\ p \in Stages
  BY <1>1, StagesType DEF CoreInv, StartInv
<1> HIDE DEF p
<1>3. pgrp' = [pgrp EXCEPT ![p] = forked[1]]
  BY <1>1, <1>2 DEF GroupFor
<1>4. SameLife
  BY <1>1 DEF SameLife
<1>5. /\ GroupsOwned' /\ ProcInv'
      /\ pgrp' \in [Pids -> Pids \cup {NoPid}]
      /\ Group(forked[1])' \subseteq Stages
      /\ \A q \in Stages : pgrp'[q] = IF q = p THEN forked[1] ELSE pgrp[q]
  BY <1>1, <1>2, <1>3, <1>4, JoinGroup
<1>6. TypeInv'
  BY <1>1, <1>5 DEF CoreInv, TypeInv, TypeOK
<1>7. TableInv' /\ InUse' = InUse /\ Interrupted' = Interrupted /\ Stages' = Stages
      /\ Known' = Known /\ Queued' = Queued /\ allocate_jid' = allocate_jid
  BY <1>1, SameTable
  DEF CoreInv, InUse, Interrupted, Stages, Known, Queued, Background, allocate_jid
<1>8. StartInv'
  BY <1>1, <1>7 DEF CoreInv, StartInv, Starting
<1>9. LeaderInv'
  <2>1. \A q \in Stages : pgrp'[q] = forked[1]
    BY <1>2, <1>5 DEF CoreInv, LeaderInv, p
  <2>2. \A s \in InUse : jobs[s].pgid # forked[1]
    BY <1>2 DEF CoreInv, LeaderInv
  <2>3. Group(forked[1])' \subseteq Stages'
    BY <1>5, <1>7
  <2> QED BY <1>1, <1>7, <2>1, <2>2, <2>3 DEF LeaderInv
<1>10. ForegroundInv' /\ ReportInv'
  BY <1>1, <1>7 DEF CoreInv, ForegroundInv, ReportInv, Waits
<1>11. ExitTerminates'
  BY <1>1 DEF ExitTerminates
<1> QED BY <1>5, <1>6, <1>7, <1>8, <1>9, <1>10, <1>11 DEF CoreInv

LEMMA ChildStep ==
  ASSUME CoreInv, NEW p \in Pids, ChildReady(p)
  PROVE  CoreInv' /\ ExitTerminates'
<1>1. /\ pc # "exit" /\ proc[p] \in {"new", "doomed"}
      /\ pgrp' = [pgrp EXCEPT ![p] = GroupFor(p)]
      /\ proc' = [proc EXCEPT ![p] = IF proc[p] = "doomed" THEN "zombie"
                                     ELSE IF p \in Stages THEN "sync" ELSE "run"]
      /\ sigchld_flag' = (sigchld_flag \/ proc[p] = "doomed")
      /\ UNCHANGED <<pc, cmd, forked, fg, jobs, n_jobs, done, sigint_flag, errno, eof,
                     sigint, sigterm, promised>>
  BY DEF ChildReady, shell, table
<1>2. SameLife /\ SamePart /\ ExitTerminates'
  BY <1>1 DEF SameLife, SamePart, ExitTerminates, CoreInv, TypeInv, TypeOK
<1>3. CASE p \notin Stages
  <2>1. pgrp' = pgrp
    BY <1>1, <1>3 DEF GroupFor, CoreInv, TypeInv, TypeOK
  <2>2. TypeInv'
    BY <1>1, <2>1 DEF CoreInv, TypeInv, TypeOK
  <2> QED BY <1>1, <1>2, <2>1, <2>2, QuietStep
<1>4. CASE p \in Stages
  <2>1. pgrp' = [pgrp EXCEPT ![p] = forked[1]]
    BY <1>1, <1>4 DEF GroupFor
  <2>2. /\ GroupsOwned' /\ ProcInv'
        /\ pgrp' \in [Pids -> Pids \cup {NoPid}]
        /\ Group(forked[1])' \subseteq Stages
        /\ \A q \in Stages : pgrp'[q] = IF q = p THEN forked[1] ELSE pgrp[q]
    BY <1>1, <1>2, <1>4, <2>1, JoinGroup
  <2>3. TypeInv'
    BY <1>1, <2>2 DEF CoreInv, TypeInv, TypeOK
  <2>4. TableInv' /\ InUse' = InUse /\ Stages' = Stages /\ Last(forked)' = Last(forked)
        /\ allocate_jid' = allocate_jid
    BY <1>1, SameTable DEF CoreInv, InUse, Stages, Last, allocate_jid
  <2>5. StartInv'
    BY <1>1, <1>2, <2>4, StagesType DEF CoreInv, StartInv, Starting, SameLife
  <2>6. LeaderInv'
    <3>1. Group(forked[1])' \subseteq Stages'
      BY <2>2, <2>4
    <3> QED BY <1>1, <2>2, <2>4, <3>1 DEF CoreInv, LeaderInv
  <2>7. ForegroundInv' /\ ReportInv'
    BY <1>1, <1>2, SameForeground, SameReports DEF CoreInv
  <2> QED BY <1>2, <2>2, <2>3, <2>4, <2>5, <2>6, <2>7 DEF CoreInv
<1> QED BY <1>3, <1>4

LEMMA ReleaseType ==
  ASSUME TypeInv
  PROVE  /\ Release \in [Pids -> {"free", "new", "doomed", "sync", "run", "stopped",
                                  "zombie"}]
         /\ \A p \in Pids : Release[p] = "free" <=> proc[p] = "free"
  BY DEF Release, TypeInv, TypeOK

LEMMA ForkFailsStep ==
  ASSUME CoreInv, ForkFails
  PROVE  CoreInv' /\ ExitTerminates'
<1>1. /\ pc = "fork" /\ pc' = "sigchld" /\ proc' = Release /\ errno' = "other"
      /\ cmd' = NoCmd /\ forked' = <<>>
      /\ UNCHANGED <<fg, jobs, n_jobs, done, sigchld_flag, sigint_flag, eof, pgrp,
                     sigint, sigterm, promised>>
  BY DEF ForkFails, table
<1>2. SameLife
  BY <1>1, ReleaseType DEF SameLife, CoreInv
<1>3. TypeInv'
  <2>1. forked' \in Seq(Pids) /\ Len(forked') <= MAX_PROC_PER_JOB
    BY <1>1, LimitsOK
  <2>2. proc' \in [Pids -> {"free", "new", "doomed", "sync", "run", "stopped", "zombie"}]
    BY <1>1, ReleaseType DEF CoreInv
  <2> QED BY <1>1, <2>1, <2>2 DEF CoreInv, TypeInv, TypeOK
<1>4. TableInv' /\ GroupsOwned' /\ ProcInv'
  BY <1>1, <1>2, SameTable, SameGroups DEF CoreInv
<1>5. StartInv' /\ LeaderInv'
  BY <1>1 DEF StartInv, LeaderInv, Starting, Stages
<1>6. ForegroundInv' /\ ReportInv'
  BY <1>1 DEF CoreInv, ForegroundInv, ReportInv, Waits, Interrupted, Known, Queued,
     Background, InUse
<1>7. ExitTerminates'
  BY <1>1 DEF ExitTerminates
<1> QED BY <1>3, <1>4, <1>5, <1>6, <1>7 DEF CoreInv

-----------------------------------------------------------------------------
(* add_job                                                                 *)

LEMMA FreeSlot ==
  ASSUME TableInv, n_jobs < MAX_JOBS
  PROVE  Min(Slots \ InUse) \in Slots \ InUse
<1>1. InUse \subseteq Slots
  BY DEF InUse
<1>2. InUse # Slots
  BY SlotsFinite, LimitsOK DEF TableInv
<1>3. Slots \ InUse # {} /\ Slots \ InUse \in SUBSET Nat
  BY <1>1, <1>2, SlotsFinite
<1> QED BY <1>3, MinExists

\* A new id is greater than every id in use.
LEMMA NewId ==
  ASSUME TypeInv
  PROVE  allocate_jid \in Nat /\ \A s \in InUse : jobs[s].job_id # allocate_jid
<1>1. CASE InUse = {}
  BY <1>1 DEF allocate_jid
<1>2. CASE InUse # {}
  <2> DEFINE Ids == {jobs[s].job_id : s \in InUse}
  <2>1. Ids \in SUBSET (0 .. MaxJid) /\ Ids # {}
    BY <1>2, JobTypes
  <2>2. Max(Ids) \in Ids /\ \A y \in Ids : Max(Ids) >= y
    <3> HIDE DEF Ids
    <3> QED BY <2>1, MaxExists, LimitsOK
  <2>3. allocate_jid = 1 + Max(Ids)
    BY <1>2 DEF allocate_jid
  <2> DEFINE m == Max(Ids)
  <2>4. m \in Ids /\ \A y \in Ids : m >= y
    BY <2>2
  <2>5. allocate_jid = 1 + m
    BY <2>3
  <2> HIDE DEF m
  <2>6. m \in Nat
    BY <2>1, <2>4, LimitsOK
  <2>7. ASSUME NEW s \in InUse PROVE jobs[s].job_id \in Nat /\ jobs[s].job_id <= m
    <3>1. jobs[s].job_id \in Ids
      OBVIOUS
    <3> HIDE DEF Ids
    <3>2. jobs[s].job_id \in Nat
      BY JobTypes, LimitsOK
    <3> QED BY <2>4, <2>6, <3>1, <3>2
  <2> QED BY <2>5, <2>6, <2>7
<1> QED BY <1>1, <1>2

LEMMA StagesNumber ==
  ASSUME TypeInv
  PROVE  /\ IsFiniteSet(Stages)
         /\ Cardinality(Stages) \in Nat /\ Cardinality(Stages) <= Len(forked)
<1> DEFINE n == Len(forked)
           f == [i \in 1 .. n |-> forked[i]]
<1>1. n \in Nat
  BY DEF TypeInv, TypeOK
<1>2. f \in Surjection(1 .. n, Stages)
  BY DEF Surjection, Stages
<1> HIDE DEF f, n
<1>3. IsFiniteSet(1 .. n)
  BY <1>1, FS_Interval
<1>4. Cardinality(1 .. n) = n
  <2>1. Cardinality(1 .. n) = IF 1 > n THEN 0 ELSE n - 1 + 1
    BY <1>1, FS_Interval
  <2> QED BY <1>1, <2>1
<1>5. IsFiniteSet(Stages) /\ Cardinality(Stages) <= n
  BY <1>2, <1>3, <1>4, FS_Surjection
<1> QED BY <1>5, FS_CardinalityType DEF n

LEMMA RegisterStep ==
  ASSUME CoreInv, Register
  PROVE  CoreInv' /\ ExitTerminates'
<1>1. /\ pc = "fork" /\ Len(forked) = cmd.n /\ cmd \in Commands
      /\ cmd.n \in 1 .. MAX_PROC_PER_JOB /\ cmd.bg \in BOOLEAN
      /\ n_jobs < MAX_JOBS /\ allocate_jid <= MaxJid
  BY DEF Register, CoreInv, StartInv, Starting, Commands
<1>2. forked # <<>> /\ forked[1] \in Stages /\ Stages \subseteq Pids /\ Stages # {}
  BY <1>1, StagesType DEF CoreInv
<1>3. n_jobs = Cardinality(InUse) /\ n_jobs \in Nat /\ MAX_JOBS \in Nat
  BY LimitsOK DEF CoreInv, TableInv, TypeInv, TypeOK
<1>4. CanAdd
  BY <1>1, <1>3, LimitsOK DEF CanAdd
<1> DEFINE slot == Min(Slots \ InUse)
           state == IF cmd.bg THEN "BACKGROUND" ELSE "FOREGROUND"
           job == [in_use |-> TRUE, job_id |-> allocate_jid, pgid |-> forked[1],
                   pids |-> Stages, remaining |-> Cardinality(Stages), state |-> state]
<1>5. /\ jobs' = [jobs EXCEPT ![slot] = job] /\ n_jobs' = n_jobs + 1
      /\ proc' = Release /\ cmd' = NoCmd /\ forked' = <<>>
      /\ UNCHANGED <<done, sigchld_flag, sigint_flag, errno, eof, pgrp, sigint, sigterm>>
      /\ cmd.bg => promised' = promised \cup {forked[1]} /\ pc' = "sigchld" /\ fg' = fg
      /\ ~ cmd.bg => fg' = allocate_jid /\ pc' = "wait" /\ promised' = promised
  BY <1>4 DEF Register, AddJob, flags
<1>6. slot \in Slots \ InUse
  BY <1>1, FreeSlot DEF CoreInv
<1>7. allocate_jid \in 0 .. MaxJid /\ \A s \in InUse : jobs[s].job_id # allocate_jid
  BY <1>1, NewId, LimitsOK DEF CoreInv
<1>8. Cardinality(Stages) \in 0 .. MAX_PROC_PER_JOB
  BY <1>1, StagesNumber, LimitsOK DEF CoreInv
<1>9. job \in Job
  BY <1>2, <1>7, <1>8 DEF Job
<1>10. /\ job.in_use /\ job.job_id = allocate_jid /\ job.pgid = forked[1]
       /\ job.pids = Stages /\ job.remaining = Cardinality(Stages) /\ job.state = state
  OBVIOUS
<1> HIDE DEF job, slot
<1>11. /\ jobs \in [Slots -> Job \cup {NoJob}]
       /\ jobs' \in [Slots -> Job \cup {NoJob}]
       /\ jobs'[slot] = job
       /\ \A s \in Slots : s # slot => jobs'[s] = jobs[s]
  BY <1>5, <1>6, <1>9 DEF CoreInv, TypeInv
<1>12. InUse' = InUse \cup {slot}
  BY <1>6, <1>10, <1>11 DEF InUse
<1>13. /\ cmd.bg => Background' = Background \cup {slot} /\ Interrupted' = Interrupted
       /\ ~ cmd.bg => Background' = Background /\ Interrupted' = Interrupted \cup {slot}
  <2>1. InUse \subseteq Slots
    BY DEF InUse
  <2> QED BY <1>6, <1>10, <1>11, <1>12, <2>1 DEF Background, Interrupted
<1>14. SameLife
  BY <1>5, ReleaseType DEF SameLife, CoreInv
<1>15. TypeInv'
  <2>1. proc' \in [Pids -> {"free", "new", "doomed", "sync", "run", "stopped", "zombie"}]
    BY <1>5, ReleaseType DEF CoreInv
  <2>2. forked' \in Seq(Pids) /\ Len(forked') <= MAX_PROC_PER_JOB
    BY <1>5, LimitsOK
  <2>3. n_jobs' \in 0 .. MAX_JOBS
    BY <1>1, <1>3, <1>5
  <2>4. pc' \in {"sigchld", "wait"}
    BY <1>1, <1>5
  <2>5. \A s \in Slots : jobs'[s] = NoJob \/ jobs'[s] \in Job
    BY <1>11
  <2> QED BY <1>5, <1>11, <2>1, <2>2, <2>3, <2>4, <2>5
          DEF CoreInv, TypeInv, TypeOK, Job
<1>16. TableInv'
  <2>1. n_jobs' = Cardinality(InUse')
    <3>1. IsFiniteSet(InUse)
      BY SlotsFinite DEF InUse
    <3> QED BY <1>3, <1>5, <1>6, <1>12, <3>1, FS_AddElement
  <2>2. \A s \in InUse : s # slot /\ jobs'[s] = jobs[s] /\ jobs[s].pgid # forked[1]
    BY <1>2, <1>6, <1>11 DEF InUse, CoreInv, LeaderInv
  <2>3. \A r, s \in InUse' : jobs'[r].job_id = jobs'[s].job_id => r = s
    BY <1>7, <1>10, <1>11, <1>12, <2>2 DEF CoreInv, TableInv
  <2>4. \A r, s \in InUse' : jobs'[r].pgid = jobs'[s].pgid => r = s
    BY <1>10, <1>11, <1>12, <2>2 DEF CoreInv, TableInv
  <2>5. \A s \in InUse' : /\ jobs'[s].remaining = Cardinality(jobs'[s].pids)
                          /\ jobs'[s].pids # {}
    BY <1>2, <1>10, <1>11, <1>12, <2>2 DEF CoreInv, TableInv
  <2> QED BY <2>1, <2>3, <2>4, <2>5 DEF TableInv
<1>17. GroupsOwned'
  <2>1. \A g : {p \in Pids : proc'[p] # "free" /\ pgrp'[p] = g} = Group(g)
    BY <1>5, <1>14 DEF Group, SameLife
  <2>2. Group(forked[1]) = Stages
    <3>1. Group(forked[1]) \subseteq Stages
      BY <1>2 DEF CoreInv, LeaderInv
    <3>2. \A p \in Stages : proc[p] # "free" /\ pgrp[p] = forked[1]
      BY <1>1, <1>2 DEF CoreInv, LeaderInv, StartInv
    <3> QED BY <1>2, <3>1, <3>2 DEF Group
  <2>3. \A s \in InUse' : Group(jobs'[s].pgid) = jobs'[s].pids
    <3>1. \A s \in InUse : jobs'[s] = jobs[s]
      BY <1>6, <1>11 DEF InUse
    <3> QED BY <1>10, <1>11, <1>12, <2>2, <3>1 DEF CoreInv, GroupsOwned
  <2>4. \A s \in InUse' : Group(jobs[s].pgid)' = jobs'[s].pids
    BY <2>1, <2>3 DEF Group
  <2>5. \A s \in Background' : jobs'[s].pids \cap sigint = {}
    <3>1. \A p \in Stages : p \notin sigint
      BY DEF CoreInv, StartInv
    <3>2. \A s \in Background : jobs'[s] = jobs[s] /\ jobs[s].pids \cap sigint = {}
      BY <1>6, <1>11 DEF Background, InUse, CoreInv, GroupsOwned
    <3> QED BY <1>1, <1>10, <1>11, <1>13, <3>1, <3>2
  <2> QED BY <1>5, <2>4, <2>5 DEF GroupsOwned
<1>18. ProcInv'
  BY <1>5, <1>14 DEF CoreInv, ProcInv, SameLife
<1>19. StartInv' /\ LeaderInv'
  BY <1>1, <1>5 DEF StartInv, LeaderInv, Starting, Stages
<1>20. ForegroundInv'
  <2>1. Interrupted = {}
    BY <1>1 DEF CoreInv, ForegroundInv, Waits
  <2>2. CASE cmd.bg
    BY <1>5, <1>13, <2>1, <2>2 DEF ForegroundInv, Waits
  <2>3. CASE ~ cmd.bg
    BY <1>5, <1>10, <1>11, <1>12, <1>13, <2>1, <2>3 DEF ForegroundInv, Waits
  <2> QED BY <2>2, <2>3
<1>21. ReportInv'
  <2>1. \A s \in Background : jobs'[s] = jobs[s]
    BY <1>6, <1>11 DEF Background, InUse
  <2>2. Known' = IF cmd.bg THEN Known \cup {forked[1]} ELSE Known
    BY <1>1, <1>10, <1>11, <1>13, <2>1 DEF Known
  <2>3. done = <<>> /\ done' = <<>> /\ Queued = {} /\ Queued' = {} /\ promised = Known
    BY <1>1, <1>5 DEF CoreInv, ReportInv, Queued
  <2>4. promised' = Known'
    BY <1>1, <1>5, <2>2, <2>3
  <2> QED BY <2>3, <2>4, FS_EmptySet DEF ReportInv
<1>22. ExitTerminates'
  BY <1>1, <1>5 DEF ExitTerminates
<1> QED BY <1>15, <1>16, <1>17, <1>18, <1>19, <1>20, <1>21, <1>22 DEF CoreInv

-----------------------------------------------------------------------------
(* remove_pid_from_job, for any children that waitpid returns              *)

\* What Removed leaves of a job, and that it leaves alone what has lost nothing.
LEMMA RemovedJob ==
  ASSUME NEW job \in Job, job.remaining = Cardinality(job.pids), NEW gone
  PROVE  /\ Removed(job, gone).in_use
         /\ Removed(job, gone).job_id = job.job_id
         /\ Removed(job, gone).pgid = job.pgid
         /\ Removed(job, gone).state = job.state
         /\ Removed(job, gone).pids = job.pids \ gone
         /\ Removed(job, gone).remaining = Cardinality(job.pids \ gone)
         /\ Removed(job, gone) \in Job
         /\ Removed(job, gone).remaining = 0 <=> job.pids \subseteq gone
         /\ gone \cap job.pids = {} => Removed(job, gone) = job
<1>1. job.pids \subseteq Pids /\ job.remaining \in 0 .. MAX_PROC_PER_JOB
  BY DEF Job
<1>2. IsFiniteSet(job.pids) /\ IsFiniteSet(job.pids \ gone)
  BY <1>1, PidsFinite, FS_Subset, FS_Difference
<1>3. Cardinality(job.pids \ gone)
        = Cardinality(job.pids) - Cardinality(job.pids \cap gone)
  BY <1>2, FS_Difference
<1>4. Cardinality(job.pids \cap gone) \in Nat /\ Cardinality(job.pids \ gone) \in Nat
  BY <1>2, FS_Intersection, FS_CardinalityType
<1>5. gone \cap job.pids = job.pids \cap gone
  OBVIOUS
<1> DEFINE n == Cardinality(job.pids \ gone)
           k == Cardinality(job.pids \cap gone)
<1>6. job.remaining - Cardinality(gone \cap job.pids) = n
  BY <1>3, <1>5
<1>7. n \in 0 .. MAX_PROC_PER_JOB
  BY <1>1, <1>3, <1>4, LimitsOK
<1>8. n = 0 <=> job.pids \subseteq gone
  <2>1. n = 0 <=> job.pids \ gone = {}
    BY <1>2, FS_EmptySet
  <2> QED BY <2>1
<1>9. gone \cap job.pids = {} => n = job.remaining /\ job.pids \ gone = job.pids
  OBVIOUS
<1> HIDE DEF n
<1>10. Removed(job, gone) = [job EXCEPT !.pids = job.pids \ gone, !.remaining = n]
  BY <1>6 DEF Removed, Job
<1>11. Removed(job, gone) \in Job
  BY <1>7, <1>10 DEF Job
<1>12. gone \cap job.pids = {} => Removed(job, gone) = job
  BY <1>9, <1>10 DEF Job
<1>13. /\ Removed(job, gone).in_use
       /\ Removed(job, gone).job_id = job.job_id
       /\ Removed(job, gone).pgid = job.pgid
       /\ Removed(job, gone).state = job.state
       /\ Removed(job, gone).pids = job.pids \ gone
       /\ Removed(job, gone).remaining = n
  BY <1>10 DEF Job
<1> QED BY <1>8, <1>11, <1>12, <1>13 DEF n

\* The children in gone are taken from the jobs they belong to, and jobs that have
\* none left are deleted.
Reaping(gone) ==
  /\ Reap(gone)
  /\ jobs' = [s \in Slots |-> IF s \notin InUse THEN jobs[s]
                              ELSE IF jobs[s].pids \subseteq gone THEN NoJob
                              ELSE Removed(jobs[s], gone)]
  /\ n_jobs' = n_jobs - Cardinality({s \in InUse : jobs[s].pids \subseteq gone})

LEMMA ReapingStep ==
  ASSUME CoreInv, NEW gone \in SUBSET Pids, Reaping(gone)
  PROVE  /\ jobs' \in [Slots -> Job \cup {NoJob}]
         /\ proc' \in [Pids -> {"free", "new", "doomed", "sync", "run", "stopped", "zombie"}]
         /\ pgrp' \in [Pids -> Pids \cup {NoPid}]
         /\ sigint' \subseteq Pids
         /\ n_jobs' \in 0 .. MAX_JOBS
         /\ InUse' = {s \in InUse : ~ (jobs[s].pids \subseteq gone)}
         /\ \A s \in InUse' : /\ jobs'[s].job_id = jobs[s].job_id
                              /\ jobs'[s].pgid = jobs[s].pgid
                              /\ jobs'[s].state = jobs[s].state
         /\ TableInv' /\ GroupsOwned' /\ ProcInv'
<1> DEFINE Ended == {s \in InUse : jobs[s].pids \subseteq gone}
<1>1. \A s \in InUse : s \in Slots /\ jobs[s] \in Job
                       /\ jobs[s].remaining = Cardinality(jobs[s].pids)
  BY JobTypes DEF CoreInv, TableInv
<1>2. \A s \in Slots : jobs'[s] = IF s \notin InUse THEN jobs[s]
                                  ELSE IF s \in Ended THEN NoJob
                                  ELSE Removed(jobs[s], gone)
  BY DEF Reaping
<1>3. ASSUME NEW s \in InUse
      PROVE  /\ Removed(jobs[s], gone) \in Job
             /\ Removed(jobs[s], gone).in_use
             /\ Removed(jobs[s], gone).job_id = jobs[s].job_id
             /\ Removed(jobs[s], gone).pgid = jobs[s].pgid
             /\ Removed(jobs[s], gone).state = jobs[s].state
             /\ Removed(jobs[s], gone).pids = jobs[s].pids \ gone
             /\ Removed(jobs[s], gone).remaining = Cardinality(jobs[s].pids \ gone)
  <2>1. jobs[s] \in Job /\ jobs[s].remaining = Cardinality(jobs[s].pids)
    BY <1>1
  <2> QED BY <2>1, RemovedJob
<1>4. InUse' = InUse \ Ended
  <2>1. \A s \in Slots : jobs'[s].in_use <=> s \in InUse \ Ended
    <3>1. SUFFICES ASSUME NEW s \in Slots
                   PROVE  jobs'[s].in_use <=> s \in InUse \ Ended
      OBVIOUS
    <3>2. CASE s \notin InUse
      <4>1. ~ jobs[s].in_use /\ jobs'[s] = jobs[s]
        BY <1>2, <3>2 DEF InUse
      <4> QED BY <3>2, <4>1
    <3>3. CASE s \in Ended
      <4>1. jobs'[s] = NoJob
        BY <1>2, <3>3
      <4> QED BY <3>3, <4>1 DEF NoJob
    <3>4. CASE s \in InUse \ Ended
      <4>1. jobs'[s] = Removed(jobs[s], gone)
        BY <1>2, <3>4
      <4> QED BY <1>3, <3>4, <4>1
    <3> QED BY <3>2, <3>3, <3>4
  <2> QED BY <1>1, <2>1 DEF InUse
<1>5. \A s \in InUse' : s \in InUse /\ jobs'[s] = Removed(jobs[s], gone)
  BY <1>1, <1>2, <1>4
<1>6. jobs' \in [Slots -> Job \cup {NoJob}]
  <2>1. \A s \in Slots : jobs'[s] \in Job \cup {NoJob}
    BY <1>2, <1>3 DEF CoreInv, TypeInv
  <2>2. jobs' = [s \in Slots |-> jobs'[s]]
    BY DEF Reaping
  <2> QED BY <2>1, <2>2
<1>7. /\ \A p \in Pids : /\ proc'[p] = IF p \in gone THEN "free" ELSE proc[p]
                         /\ pgrp'[p] = IF p \in gone THEN NoPid ELSE pgrp[p]
      /\ proc' \in [Pids -> {"free", "new", "doomed", "sync", "run", "stopped", "zombie"}]
      /\ pgrp' \in [Pids -> Pids \cup {NoPid}]
      /\ sigint' = sigint \ gone /\ sigint' \subseteq Pids
  BY DEF Reaping, Reap, CoreInv, TypeInv, TypeOK
<1>8. n_jobs' = Cardinality(InUse') /\ n_jobs' \in 0 .. MAX_JOBS
  <2>1. IsFiniteSet(InUse) /\ InUse' \in SUBSET Slots
    BY SlotsFinite DEF InUse
  <2>2. InUse \cap Ended = Ended
    OBVIOUS
  <2>3. n_jobs' = Cardinality(InUse) - Cardinality(Ended)
    BY DEF Reaping, CoreInv, TableInv
  <2> HIDE DEF Ended
  <2>4. n_jobs' = Cardinality(InUse')
    <3>1. Cardinality(InUse \ Ended) = Cardinality(InUse) - Cardinality(InUse \cap Ended)
      BY <2>1, FS_Difference
    <3> QED BY <1>4, <2>2, <2>3, <3>1
  <2> QED BY <2>1, <2>4, SlotsFinite
<1> HIDE DEF Ended
<1>9. TableInv'
  <2>1. \A s \in InUse' : /\ jobs'[s].remaining = Cardinality(jobs'[s].pids)
                          /\ jobs'[s].pids # {}
    <3>1. SUFFICES ASSUME NEW s \in InUse'
                   PROVE  /\ jobs'[s].remaining = Cardinality(jobs'[s].pids)
                          /\ jobs'[s].pids # {}
      OBVIOUS
    <3>2. s \in InUse /\ jobs[s].pids \ gone # {} /\ jobs'[s] = Removed(jobs[s], gone)
      BY <1>4, <1>5 DEF Ended
    <3> QED BY <1>3, <3>2
  <2>2. \A s \in InUse' : /\ s \in InUse /\ jobs'[s].job_id = jobs[s].job_id
                          /\ jobs'[s].pgid = jobs[s].pgid
    BY <1>3, <1>5
  <2>3. /\ \A r, s \in InUse' : jobs'[r].job_id = jobs'[s].job_id => r = s
        /\ \A r, s \in InUse' : jobs'[r].pgid = jobs'[s].pgid => r = s
    BY <2>2 DEF CoreInv, TableInv
  <2> QED BY <1>8, <2>1, <2>3 DEF TableInv
<1>10. GroupsOwned'
  <2>1. \A g \in Pids :
          {p \in Pids : proc'[p] # "free" /\ pgrp'[p] = g} = Group(g) \ gone
    BY <1>7, PidsFinite DEF Group
  <2>2. \A s \in InUse' : /\ jobs'[s].pgid = jobs[s].pgid /\ jobs[s].pgid \in Pids
                          /\ jobs'[s].pids = Group(jobs[s].pgid) \ gone
    BY <1>3, <1>5, JobTypes DEF CoreInv, GroupsOwned
  <2>3. \A s \in InUse' : Group(jobs[s].pgid)' = jobs'[s].pids
    BY <2>1, <2>2 DEF Group
  <2>4. \A s \in Background' : s \in Background /\ jobs'[s].pids \subseteq jobs[s].pids
    BY <1>3, <1>5 DEF Background
  <2>5. \A s \in Background' : jobs'[s].pids \cap sigint' = {}
    BY <1>7, <2>4 DEF CoreInv, GroupsOwned
  <2> QED BY <2>3, <2>5 DEF GroupsOwned
<1>11. ProcInv'
  BY <1>7 DEF CoreInv, ProcInv
<1>12. InUse' = {s \in InUse : ~ (jobs[s].pids \subseteq gone)}
  BY <1>4 DEF Ended
<1>13. \A s \in InUse' : /\ jobs'[s].job_id = jobs[s].job_id
                         /\ jobs'[s].pgid = jobs[s].pgid
                         /\ jobs'[s].state = jobs[s].state
  BY <1>3, <1>5
<1> QED BY <1>6, <1>7, <1>8, <1>9, <1>10, <1>11, <1>12, <1>13

LEMMA WaitReapsStep ==
  ASSUME CoreInv, WaitReaps
  PROVE  CoreInv' /\ ExitTerminates'
<1>1. Waited \in InUse /\ Interrupted = {Waited} /\ find_job_by_jid(fg) = {Waited} /\ Waits
  BY WaitedIs DEF CoreInv, WaitReaps, Waits
<1>2. PICK p \in Group(jobs[Waited].pgid) :
         LET job == Removed(jobs[Waited], {p}) IN
         /\ proc[p] = "zombie"
         /\ Reap({p})
         /\ IF job.remaining = 0
            THEN /\ jobs' = [jobs EXCEPT ![Waited] = NoJob]
                 /\ n_jobs' = n_jobs - 1
                 /\ Return
            ELSE /\ jobs' = [jobs EXCEPT ![Waited] = job]
                 /\ UNCHANGED <<fg, n_jobs>>
                 /\ pc' = "wait"
  BY DEF WaitReaps
<1>3. UNCHANGED <<cmd, forked, done, sigchld_flag, sigint_flag, errno, eof, sigterm,
                  promised>>
  BY DEF WaitReaps, flags
<1>4. PICK w : w = Waited
  OBVIOUS
<1>5. /\ w \in InUse /\ w \in Slots /\ jobs[w] \in Job /\ jobs[w].pids \subseteq Pids
      /\ jobs[w].remaining = Cardinality(jobs[w].pids)
      /\ p \in jobs[w].pids /\ p \in Pids
      /\ jobs \in [Slots -> Job \cup {NoJob}]
  BY <1>1, <1>2, <1>4, JobTypes DEF CoreInv, TypeInv, TableInv, GroupsOwned
<1> DEFINE job == Removed(jobs[w], {p})
<1>6. job.remaining = 0 <=> jobs[w].pids \subseteq {p}
  BY <1>5, RemovedJob
<1>7. ASSUME NEW s \in InUse, s # w
      PROVE  p \notin jobs[s].pids /\ ~ (jobs[s].pids \subseteq {p})
             /\ Removed(jobs[s], {p}) = jobs[s]
  <2>1. jobs[s].pgid # jobs[w].pgid
    BY <1>5, <1>7 DEF CoreInv, TableInv
  <2>2. p \notin jobs[s].pids
    BY <1>5, <2>1 DEF CoreInv, GroupsOwned, Group
  <2>3. jobs[s] \in Job /\ jobs[s].remaining = Cardinality(jobs[s].pids)
        /\ jobs[s].pids # {}
    BY JobTypes DEF CoreInv, TableInv
  <2> QED BY <2>2, <2>3, RemovedJob
<1> HIDE DEF job
<1>8. \/ /\ job.remaining = 0
         /\ jobs' = [jobs EXCEPT ![w] = NoJob] /\ n_jobs' = n_jobs - 1
         /\ pc' = "sigchld" /\ fg' = -1
      \/ /\ job.remaining # 0
         /\ jobs' = [jobs EXCEPT ![w] = job] /\ n_jobs' = n_jobs
         /\ pc' = "wait" /\ fg' = fg
  BY <1>2, <1>4 DEF job, Return
<1>9. Reaping({p})
  <2> DEFINE Ended == {s \in InUse : jobs[s].pids \subseteq {p}}
  <2>1. Ended = IF job.remaining = 0 THEN {w} ELSE {}
    BY <1>5, <1>6, <1>7
  <2>2. n_jobs' = n_jobs - Cardinality(Ended)
    <3>1. n_jobs \in Nat
      BY DEF CoreInv, TypeInv, TypeOK
    <3>2. Cardinality(Ended) = IF job.remaining = 0 THEN 1 ELSE 0
      <4>1. Cardinality({w}) = 1 /\ Cardinality({}) = 0
        BY FS_EmptySet, FS_Singleton
      <4> HIDE DEF Ended
      <4> QED BY <2>1, <4>1
    <3> HIDE DEF Ended
    <3> QED BY <1>8, <3>1, <3>2
  <2>3. ASSUME NEW s \in Slots
        PROVE  jobs'[s] = IF s \notin InUse THEN jobs[s]
                          ELSE IF jobs[s].pids \subseteq {p} THEN NoJob
                          ELSE Removed(jobs[s], {p})
    <3>1. CASE s = w
      BY <1>5, <1>6, <1>8, <3>1 DEF job
    <3>2. CASE s # w
      <4>1. jobs'[s] = jobs[s]
        BY <1>5, <1>8, <3>2
      <4> QED BY <1>7, <3>2, <4>1
    <3> QED BY <3>1, <3>2
  <2>4. jobs' = [s \in Slots |-> jobs'[s]]
    BY <1>5, <1>8
  <2> QED BY <1>2, <2>2, <2>3, <2>4 DEF Reaping
<1>10. /\ jobs' \in [Slots -> Job \cup {NoJob}]
       /\ proc' \in [Pids -> {"free", "new", "doomed", "sync", "run", "stopped", "zombie"}]
       /\ pgrp' \in [Pids -> Pids \cup {NoPid}]
       /\ sigint' \subseteq Pids
       /\ n_jobs' \in 0 .. MAX_JOBS
       /\ InUse' = {s \in InUse : ~ (jobs[s].pids \subseteq {p})}
       /\ \A s \in InUse' : /\ jobs'[s].job_id = jobs[s].job_id
                            /\ jobs'[s].pgid = jobs[s].pgid
                            /\ jobs'[s].state = jobs[s].state
       /\ TableInv' /\ GroupsOwned' /\ ProcInv'
  BY <1>5, <1>9, ReapingStep
<1>11. TypeInv'
  <2>1. \A s \in Slots : jobs'[s] = NoJob \/ jobs'[s] \in Job
    BY <1>10
  <2> QED BY <1>3, <1>8, <1>10, <2>1 DEF CoreInv, TypeInv, TypeOK, Job
<1>12. forked = <<>>
  BY <1>1 DEF CoreInv, StartInv, Starting, Waits
<1>13. StartInv' /\ LeaderInv'
  BY <1>3, <1>8, <1>12 DEF StartInv, LeaderInv, Starting, Stages
<1>14. InUse' = IF job.remaining = 0 THEN InUse \ {w} ELSE InUse
  BY <1>6, <1>7, <1>10
<1>15. ForegroundInv'
  <2>1. Interrupted' = {s \in InUse' : jobs[s].state = "FOREGROUND"}
    BY <1>10 DEF Interrupted
  <2>2. Interrupted' = IF job.remaining = 0 THEN {} ELSE {w}
    BY <1>1, <1>4, <1>14, <2>1 DEF Interrupted
  <2>3. jobs[w].job_id = fg
    BY <1>1, <1>4 DEF find_job_by_jid
  <2> QED BY <1>5, <1>8, <1>10, <1>14, <2>2, <2>3 DEF ForegroundInv, Waits
<1>16. ReportInv'
  <2>1. w \notin Background
    <3>1. jobs[w].state = "FOREGROUND"
      BY <1>1, <1>4 DEF Interrupted
    <3> QED BY <3>1 DEF Background
  <2>2. Background' = {s \in InUse' : jobs[s].state = "BACKGROUND"}
    BY <1>10 DEF Background
  <2>3. Background' = Background
    BY <1>14, <2>1, <2>2 DEF Background
  <2>4. Known' = Known
    <3>1. \A s \in Background' : jobs'[s].pgid = jobs[s].pgid
      BY <1>10 DEF Background
    <3> QED BY <2>3, <3>1 DEF Known
  <2>5. Queued' = Queued /\ done' = <<>>
    BY <1>1, <1>3 DEF Queued, CoreInv, ReportInv, Waits
  <2> QED BY <1>3, <2>4, <2>5 DEF CoreInv, ReportInv
<1>17. ExitTerminates'
  BY <1>8 DEF ExitTerminates
<1> QED BY <1>10, <1>11, <1>13, <1>15, <1>16, <1>17 DEF CoreInv

-----------------------------------------------------------------------------
(* handle_sigchld                                                          *)

\* The queue takes a report of each job that has ended, once.
LEMMA Reporting ==
  ASSUME TypeInv, TableInv, done = <<>>, NEW ended \in SUBSET InUse
  PROVE  /\ Enqueued(ended) \in Seq([jid : 0 .. MaxJid, pgid : Pids])
         /\ Len(Enqueued(ended)) <= MAX_JOBS
         /\ Len(Enqueued(ended)) = Cardinality(ended)
         /\ {Enqueued(ended)[i].pgid : i \in 1 .. Len(Enqueued(ended))}
              = {jobs[s].pgid : s \in ended}
         /\ Cardinality({jobs[s].pgid : s \in ended}) = Cardinality(ended)
<1> DEFINE n == Cardinality(ended)
           R == Reports(ended)
           At(i) == CHOOSE s \in ended : Place(ended, s) = i
           Rec == [jid : 0 .. MaxJid, pgid : Pids]
<1>1. ended \in SUBSET Slots /\ IsFiniteSet(ended) /\ n \in 0 .. MAX_JOBS
  BY SlotsFinite DEF InUse
<1>2. \A s \in ended : Report(s) \in Rec /\ Report(s).pgid = jobs[s].pgid
  BY JobTypes DEF Report
<1>3. \A i \in 1 .. n : At(i) \in ended /\ Place(ended, At(i)) = i
  BY <1>1, PlacesFilled
<1>4. \A s \in ended : Place(ended, s) \in 1 .. n /\ At(Place(ended, s)) = s
  BY <1>1, <1>3, PlaceRange, PlaceOnce
<1>5. R = [i \in 1 .. n |-> Report(At(i))]
  BY DEF Reports, Place
<1> HIDE DEF R, n, At
<1>6. R \in Seq(Rec) /\ Len(R) = n /\ \A i \in 1 .. n : R[i] = Report(At(i))
  <2>1. \A i \in 1 .. n : Report(At(i)) \in Rec
    BY <1>2, <1>3
  <2>2. n \in Nat
    BY <1>1, LimitsOK
  <2> HIDE DEF Rec
  <2> QED BY <1>5, <2>1, <2>2
<1>7. {R[i].pgid : i \in 1 .. n} = {jobs[s].pgid : s \in ended}
  <2>1. \A i \in 1 .. n : R[i].pgid = jobs[At(i)].pgid
    BY <1>2, <1>3, <1>6
  <2> QED BY <1>3, <1>4, <2>1
<1>8. Enqueued(ended) = R
  <2>1. done \o R = R
    BY <1>6, ConcatEmptySeq
  <2>2. Min({Len(R), MAX_JOBS}) = Len(R)
    <3>1. {n, MAX_JOBS} \in SUBSET Nat /\ {n, MAX_JOBS} # {} /\ n <= MAX_JOBS
      BY <1>1, LimitsOK
    <3>2. Min({n, MAX_JOBS}) \in {n, MAX_JOBS} /\ Min({n, MAX_JOBS}) <= n
      BY <3>1, MinExists
    <3> QED BY <1>6, <3>1, <3>2
  <2>3. SubSeq(R, 1, Len(R)) = R
    BY <1>6, SubSeqFull
  <2> QED BY <2>1, <2>2, <2>3 DEF Enqueued, R
<1>9. Cardinality({jobs[s].pgid : s \in ended}) = n
  <2> DEFINE f == [s \in ended |-> jobs[s].pgid]
             T == {jobs[s].pgid : s \in ended}
  <2>1. f \in Surjection(ended, T)
    BY DEF Surjection
  <2>2. f \in Injection(ended, T)
    <3>1. \A r, s \in ended : f[r] = f[s] => r = s
      BY DEF TableInv
    <3> QED BY <3>1 DEF Injection, IsInjective
  <2> HIDE DEF f, T
  <2>3. Cardinality(T) = Cardinality(ended)
    BY <1>1, <2>1, <2>2, FS_Surjection
  <2> QED BY <2>3 DEF T, n
<1>10. n <= MAX_JOBS
  BY <1>1, LimitsOK
<1>11. /\ Enqueued(ended) \in Seq(Rec) /\ Len(Enqueued(ended)) = n
       /\ {Enqueued(ended)[i].pgid : i \in 1 .. Len(Enqueued(ended))}
            = {jobs[s].pgid : s \in ended}
  BY <1>6, <1>7, <1>8
<1> QED BY <1>9, <1>10, <1>11 DEF n

LEMMA HandleSigchldStep ==
  ASSUME CoreInv, HandleSigchld
  PROVE  CoreInv' /\ ExitTerminates'
<1>1. /\ pc = "sigchld" /\ pc' = "sigint"
      /\ UNCHANGED <<cmd, forked, fg, eof, sigterm, promised>>
  BY DEF HandleSigchld
<1>2. SamePart /\ ExitTerminates'
  BY <1>1 DEF SamePart, Starting, Waits, ExitTerminates
<1>3. CASE ~ sigchld_flag
  <2>1. UNCHANGED <<table, flags, procs>>
    BY <1>3 DEF HandleSigchld
  <2>2. TypeInv'
    BY <1>1, <2>1 DEF CoreInv, TypeInv, TypeOK, table, flags, procs
  <2>3. SameLife
    BY <2>1 DEF SameLife, procs
  <2> QED BY <1>1, <1>2, <2>1, <2>2, <2>3, QuietStep DEF table, procs
<1>4. CASE sigchld_flag
  <2> DEFINE after == [s \in Slots |-> IF s \in Background
                                       THEN Removed(jobs[s], Reaped(s)) ELSE jobs[s]]
             over == {s \in Background : after[s].remaining = 0}
  <2>1. /\ jobs' = [s \in Slots |-> IF s \in over THEN NoJob ELSE after[s]]
        /\ n_jobs' = n_jobs - Cardinality(over)
        /\ done' = Enqueued(over)
        /\ sigchld_flag' = FALSE
        /\ errno' = IF over # {} THEN "other" ELSE errno
        /\ Reap(UNION {Reaped(s) : s \in Background})
        /\ UNCHANGED sigint_flag
    BY <1>4 DEF HandleSigchld
  <2>2. PICK gone : gone = UNION {Reaped(s) : s \in Background}
    OBVIOUS
  <2>3. gone \in SUBSET Pids
    BY <2>2 DEF Reaped, Group
  <2>4. ASSUME NEW s \in InUse
        PROVE  /\ s \in Slots /\ jobs[s] \in Job /\ jobs[s].pids # {}
               /\ jobs[s].remaining = Cardinality(jobs[s].pids)
               /\ Group(jobs[s].pgid) = jobs[s].pids
    BY JobTypes DEF CoreInv, TableInv, GroupsOwned
  <2>5. ASSUME NEW s \in InUse
        PROVE  gone \cap jobs[s].pids = IF s \in Background THEN Reaped(s) ELSE {}
    <3>1. ASSUME NEW r \in Background, r # s PROVE Reaped(r) \cap jobs[s].pids = {}
      <4>1. r \in InUse /\ jobs[r].pgid # jobs[s].pgid
        BY <3>1 DEF Background, CoreInv, TableInv
      <4> QED BY <2>4, <4>1 DEF Reaped, Group
    <3>2. s \in Background => Reaped(s) \subseteq jobs[s].pids
      BY <2>4 DEF Reaped
    <3> QED BY <2>2, <3>1, <3>2
  <2>6. ASSUME NEW s \in InUse
        PROVE  /\ after[s] = Removed(jobs[s], gone)
               /\ s \in over <=> jobs[s].pids \subseteq gone
    <3>1. Removed(jobs[s], gone).remaining = 0 <=> jobs[s].pids \subseteq gone
      BY <2>4, RemovedJob
    <3>2. CASE s \in Background
      <4>1. /\ jobs[s].pids \ gone = jobs[s].pids \ Reaped(s)
            /\ gone \cap jobs[s].pids = Reaped(s) \cap jobs[s].pids
        BY <2>5, <3>2
      <4>2. Removed(jobs[s], Reaped(s)) = Removed(jobs[s], gone)
        BY <4>1 DEF Removed
      <4>3. after[s] = Removed(jobs[s], gone)
        BY <2>4, <3>2, <4>2
      <4> QED BY <3>1, <3>2, <4>3
    <3>3. CASE s \notin Background
      <4>1. gone \cap jobs[s].pids = {}
        BY <2>5, <3>3
      <4>2. Removed(jobs[s], gone) = jobs[s]
        BY <2>4, <4>1, RemovedJob
      <4>3. ~ (jobs[s].pids \subseteq gone)
        BY <2>4, <4>1
      <4> QED BY <2>4, <3>3, <4>2, <4>3
    <3> QED BY <3>2, <3>3
  <2>7. Background \subseteq InUse
    BY DEF Background
  <2>8. over = {s \in InUse : jobs[s].pids \subseteq gone}
    BY <2>6, <2>7
  <2>9. \A s \in Slots \ InUse : after[s] = jobs[s] /\ s \notin over
    BY <2>7
  <2> HIDE DEF over, after
  <2>10. Reaping(gone)
    <3>1. ASSUME NEW s \in Slots
          PROVE  jobs'[s] = IF s \notin InUse THEN jobs[s]
                            ELSE IF jobs[s].pids \subseteq gone THEN NoJob
                            ELSE Removed(jobs[s], gone)
      <4>1. jobs'[s] = IF s \in over THEN NoJob ELSE after[s]
        BY <2>1
      <4> QED BY <2>6, <2>9, <4>1
    <3>2. jobs' = [s \in Slots |-> jobs'[s]]
      BY <2>1
    <3> QED BY <2>1, <2>2, <2>8, <3>1, <3>2 DEF Reaping
  <2>11. /\ jobs' \in [Slots -> Job \cup {NoJob}]
         /\ proc' \in [Pids -> {"free", "new", "doomed", "sync", "run", "stopped", "zombie"}]
         /\ pgrp' \in [Pids -> Pids \cup {NoPid}]
         /\ sigint' \subseteq Pids
         /\ n_jobs' \in 0 .. MAX_JOBS
         /\ InUse' = {s \in InUse : ~ (jobs[s].pids \subseteq gone)}
         /\ \A s \in InUse' : /\ jobs'[s].job_id = jobs[s].job_id
                              /\ jobs'[s].pgid = jobs[s].pgid
                              /\ jobs'[s].state = jobs[s].state
         /\ TableInv' /\ GroupsOwned' /\ ProcInv'
    BY <2>3, <2>10, ReapingStep
  <2>12. InUse' = InUse \ over
    BY <2>8, <2>11
  <2>13. over \subseteq Background /\ over \in SUBSET InUse
    BY <2>7 DEF over
  <2>14. done = <<>> /\ forked = <<>> /\ Interrupted = {}
    BY <1>1 DEF CoreInv, ReportInv, StartInv, Starting, ForegroundInv, Waits
  <2>15. /\ done' \in Seq([jid : 0 .. MaxJid, pgid : Pids]) /\ Len(done') <= MAX_JOBS
         /\ Len(done') = Cardinality(over)
         /\ {done'[i].pgid : i \in 1 .. Len(done')} = {jobs[s].pgid : s \in over}
         /\ Cardinality({jobs[s].pgid : s \in over}) = Cardinality(over)
    BY <2>1, <2>13, <2>14, Reporting DEF CoreInv
  <2>16. TypeInv'
    <3>1. \A s \in Slots : jobs'[s] = NoJob \/ jobs'[s] \in Job
      BY <2>11
    <3>2. errno' \in {"EINTR", "other"}
      BY <2>1 DEF CoreInv, TypeInv, TypeOK
    <3> QED BY <1>1, <2>1, <2>11, <2>15, <3>1, <3>2 DEF CoreInv, TypeInv, TypeOK, Job
  <2>17. StartInv' /\ LeaderInv'
    BY <1>1, <2>14 DEF StartInv, LeaderInv, Starting, Stages
  <2>18. ForegroundInv'
    <3>1. Interrupted' \subseteq Interrupted
      BY <2>11, <2>12 DEF Interrupted
    <3> QED BY <1>1, <2>14, <3>1 DEF ForegroundInv, Waits
  <2>19. ReportInv'
    <3>1. Background' = Background \ over
      <4>1. Background' = {s \in InUse' : jobs[s].state = "BACKGROUND"}
        BY <2>11 DEF Background
      <4> QED BY <2>12, <4>1 DEF Background
    <3>2. Known' = {jobs[s].pgid : s \in Background \ over}
      <4>1. \A s \in Background' : jobs'[s].pgid = jobs[s].pgid
        BY <2>11 DEF Background
      <4> QED BY <3>1, <4>1 DEF Known
    <3>3. Queued' = {jobs[s].pgid : s \in over}
      BY <2>15 DEF Queued
    <3>4. promised' = {jobs[s].pgid : s \in Background}
      BY <1>1, <2>14 DEF CoreInv, ReportInv, Known, Queued
    <3>5. promised' = Known' \cup Queued'
      BY <2>13, <3>2, <3>3, <3>4
    <3>6. Known' \cap Queued' = {}
      BY <2>7, <2>13, <3>2, <3>3 DEF CoreInv, TableInv
    <3>7. Cardinality(Queued') = Len(done')
      BY <2>15, <3>3
    <3> QED BY <1>1, <3>5, <3>6, <3>7 DEF ReportInv
  <2> QED BY <1>2, <2>11, <2>16, <2>17, <2>18, <2>19 DEF CoreInv
<1> QED BY <1>3, <1>4

-----------------------------------------------------------------------------
(* The theorems                                                            *)

LEMMA InitInv == Init => IInv
<1> SUFFICES ASSUME Init PROVE IInv
  OBVIOUS
<1>1. jobs = [s \in Slots |-> NoJob] /\ InUse = {}
  BY DEF Init, InUse, NoJob
<1>2. /\ pc = "sigchld" /\ forked = <<>> /\ done = <<>> /\ n_jobs = 0
      /\ promised = {} /\ sigint = {} /\ sigterm = {}
      /\ proc = [p \in Pids |-> "free"] /\ pgrp = [p \in Pids |-> NoPid]
  BY DEF Init
<1>3. Background = {} /\ Interrupted = {} /\ Known = {} /\ Queued = {} /\ Stages = {}
  BY <1>1, <1>2 DEF Background, Interrupted, Known, Queued, Stages
<1>4. TypeInv
  <2>1. forked \in Seq(Pids) /\ Len(forked) <= MAX_PROC_PER_JOB
    BY <1>2, LimitsOK
  <2>2. done \in Seq([jid : 0 .. MaxJid, pgid : Pids]) /\ Len(done) <= MAX_JOBS
    BY <1>2, LimitsOK
  <2>3. n_jobs \in 0 .. MAX_JOBS
    BY <1>2, LimitsOK
  <2> QED BY <1>1, <1>2, <2>1, <2>2, <2>3 DEF Init, TypeInv, TypeOK
<1>5. TableInv /\ GroupsOwned
  BY <1>1, <1>2, <1>3, FS_EmptySet DEF TableInv, GroupsOwned
<1>6. StartInv /\ LeaderInv /\ ProcInv
  BY <1>2, <1>3 DEF StartInv, LeaderInv, ProcInv, Starting
<1>7. ForegroundInv /\ ReportInv /\ ExitTerminates
  BY <1>2, <1>3, FS_EmptySet DEF ForegroundInv, ReportInv, Waits, ExitTerminates
<1> QED BY <1>4, <1>5, <1>6, <1>7 DEF IInv, CoreInv

THEOREM Invariance == Spec => []IInv
<1>1. ASSUME IInv, Shell PROVE IInv'
  BY <1>1, HandleSigchldStep, HandleSigintStep, CheckBgStatusStep, MoveStep, ExitStep,
     ForkStep, ParentStep, ForkFailsStep, RegisterStep, WaitBlocksStep, WaitReapsStep
  DEF IInv, Shell
<1>2. ASSUME IInv, User PROVE IInv'
  BY <1>2, UserStep, MoveStep, ExitStep, ReadCommandStep DEF IInv, User
<1>3. ASSUME IInv, NEW p \in Pids,
             ChildReady(p) \/ End(p) \/ StopOnRead(p) \/ Resume(p)
      PROVE  IInv'
  BY <1>3, ChildStep, ProcessStep DEF IInv
<1>4. IInv /\ [Next]_vars => IInv'
  BY <1>1, <1>2, <1>3, StutterStep DEF Next
<1> QED BY <1>4, InitInv, PTL DEF Spec

\* After any sequence of starts, ends, failures and signals n_jobs counts the jobs,
\* ids name them, and remaining_processes counts the processes each has left.
THEOREM TableSound == Spec => []JobTableSound
<1>1. IInv => JobTableSound
  <2> SUFFICES ASSUME IInv PROVE JobTableSound
    OBVIOUS
  <2>1. ASSUME NEW s \in InUse PROVE jobs[s].remaining > 0
    <3>1. IsFiniteSet(jobs[s].pids) /\ jobs[s].pids # {}
      BY JobTypes, PidsFinite, FS_Subset DEF IInv, CoreInv, TableInv
    <3>2. Cardinality(jobs[s].pids) \in Nat /\ Cardinality(jobs[s].pids) # 0
      BY <3>1, FS_CardinalityType, FS_EmptySet
    <3> QED BY <3>2 DEF IInv, CoreInv, TableInv
  <2> QED BY <2>1 DEF IInv, CoreInv, TypeInv, TableInv, JobTableSound
<1> QED BY <1>1, Invariance, PTL

\* kill(-pgid) and waitpid(-pgid) reach the processes of the job and no stranger that
\* was given a pid again, and no Ctrl-C is passed on to a background job.
THEOREM GroupsAreJobs == Spec => []GroupsOwned
  BY Invariance, PTL DEF IInv, CoreInv

\* wait_fg waits for the foreground job, and at the prompt there is none.
THEOREM ForegroundAlone == Spec => []OneForeground
<1>1. IInv => OneForeground
  <2> SUFFICES ASSUME IInv PROVE OneForeground
    OBVIOUS
  <2>1. CASE Waits
    <3>1. Interrupted = {Waited} /\ find_job_by_jid(fg) = {Waited}
      BY <2>1, WaitedIs DEF IInv, CoreInv
    <3>2. Cardinality({Waited}) = 1
      BY FS_Singleton
    <3> QED BY <2>1, <3>1, <3>2 DEF OneForeground, Waits, Interrupted
  <2>2. CASE ~ Waits
    BY <2>2 DEF IInv, CoreInv, ForegroundInv, OneForeground, Waits, Interrupted
  <2> QED BY <2>1, <2>2
<1> QED BY <1>1, Invariance, PTL

\* A background job that was announced is in the table or in the queue of ended jobs
\* until it is reported; the queue never drops one, however many end at once.
THEOREM ReportsKept == Spec => []NoReportLost
<1>1. IInv => NoReportLost
  <2> SUFFICES ASSUME IInv PROVE NoReportLost
    OBVIOUS
  <2>1. IsFiniteSet(Background)
    BY SlotsFinite DEF Background, InUse
  <2> DEFINE f == [s \in Background |-> jobs[s].pgid]
  <2>2. f \in Surjection(Background, Known)
    BY DEF Surjection, Known
  <2>3. f \in Injection(Background, Known)
    <3>1. \A r, s \in Background : f[r] = f[s] => r = s
      BY DEF IInv, CoreInv, TableInv, Background
    <3> QED BY <3>1 DEF Injection, IsInjective, Known
  <2> HIDE DEF f
  <2>4. Cardinality(Known) = Cardinality(Background)
    BY <2>1, <2>2, <2>3, FS_Surjection
  <2> QED BY <2>4 DEF IInv, CoreInv, ReportInv, NoReportLost, Known, Queued
<1> QED BY <1>1, Invariance, PTL

\* The shell that exits has signalled every process of a job that it announced and
\* has not reported, whichever slots the jobs have come to lie in.
THEOREM ExitLeavesNothing == Spec => []ExitTerminates
  BY Invariance, PTL DEF IInv
=============================================================================
