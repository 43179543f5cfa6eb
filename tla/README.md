# A verification project for the systems-programming labs

The repository holds five C programs, one per lab: a comment stripper (lab 1), a
directory lister (lab 2), two heap managers with two more to compare them with (lab 3),
a shell (lab 4) and a multi-threaded key-value server (lab 5). This directory holds TLA+
modules that model them, TLC configurations that check the models on small instances,
and TLAPS proofs, for every value of the constants, about the key-value server (its
lock, its table, its workers) and the shell (its jobs, its pipelines). Paths below are
relative to `src/` of the repository; lab 5's sources are in `lab-5-simple-kvs/src/`,
lab 3's in `lab-3-memory/src/` and, the two others, `lab-3-memory/reference/`.

Contents: [inventory](#1-inventory), [modules](#2-the-modules),
[runs](#3-what-is-checked), [fairness](#4-fairness), [proofs](#5-what-is-proved),
[divergences](#6-where-the-code-and-its-documents-differ),
[not modelled](#7-what-is-not-modelled), [plan](#8-plan).

To check: `tlc -workers 2 -config MCRWLock.cfg MCRWLock` (likewise for each other
`.cfg`, named like its module; those with a longer name belong to the module whose name
they begin with: `MCSnushCtrlC.cfg`, `MCSnushCtrlD.cfg`), and `tlapm RWLockProofs.tla`
(likewise for each other module whose name ends in `Proofs`; from some seconds to a few
minutes each).

## 1. Inventory

### Lab 5, the key-value server

| Component | State | Operations | What makes it correct |
|---|---|---|---|
| `rwlock.c` | reader and writer counts, `next_ticket`, `now_serving`; one mutex, one condition variable | init, destroy, read lock (queued or quick), write lock, the two unlocks | exclusion, FIFO order of queued requests, no lost wakeup, no request starved by queued ones, ticket wrap-around |
| `hashtable.c` | buckets of linked nodes, bucket sizes, one lock per bucket | init, destroy, insert, read, update, delete, dump | linearizable, keys unique, no freed node reached, no leak, exact sizes, every call returns |
| `skvslib.c` | the table in a context; nothing between calls | init, destroy, parse, serve | accepts exactly the grammar; a response tells what the operation did |
| `server.c` | `g_shutdown`, the pool, per worker a connection and `off` bytes of a request | start-up, worker loop, shutdown | the table outlives the workers, a failed start-up leaves nothing, a connection has one owner, requests are cut right, SIGINT ends the server |

`main` starts a pool of workers, each of which accepts a connection and serves it to
its end: `recv` into a buffer, `skvs_serve`, `send_all`. `skvs_serve` parses and
calls the table, which takes its bucket's lock. All workers share the listening
socket, the table and `g_shutdown`, which the SIGINT handler sets; workers look at it
between socket timeouts. Hard behaviour: the interleavings of the lock and of node
pointers, replies composed after the lock is released, requests in pieces, shutdown
in the middle of anything, peers that stop.

### Lab 4, the shell

| Component | State | Operations | What makes it correct |
|---|---|---|---|
| `snush.c` | the signal flags | main loop, `shell_helper`, `check_bg_status`, `terminate_jobs`, handlers | reads lines until Ctrl-D, reports ended background jobs, refuses what it has no room for, leaves no job behind |
| `execute.c` | processes, groups, pipes | `fork_exec`, `iter_pipe_fork_exec`, `wait_fg`, `handle_sigchld`, `handle_sigint`, built-ins, redirection | every job owns its processes; stages start together with the right descriptors; the foreground job is waited for, and only it; no end is lost |
| `job.c` | `jobs`, `n_jobs`, the queue of ended jobs | allocate, add, find, remove a pid, delete, enqueue | ids and slots agree with the processes |
| `lexsyn.c`, `token.c`, `util.c` | the lexer's state and value | `lex_line`, `syntax_check`, `check_bg`, `count_pipe` | tokens and accepted lines are those of `lab-4-shell/README.md` |
| `dynarray.c` | an array | | the handout's |

The shell forks children that run concurrently with it and with each other. They
meet in pipes, in `sync_pipe` (children wait for its end before they execute), in
process groups, in `waitpid`, and in the signals SIGCHLD and SIGINT, whose handlers
only set flags. Hard behaviour: signals at any instruction, reuse of pids, descriptors
left open in some process, failing `pipe` and `fork` half-way, stopped processes, and
children that are not yet in the group that a signal is sent to.

### Lab 3, the heap managers

| Component | State | Operations | What makes it correct |
|---|---|---|---|
| `chunk.c` | header and footer in the units of the heap | getters, setters, neighbours, validity | tags at both ends agree |
| `heapmgr1.c` | the heap, one free list | `heapmgr_malloc`, `heapmgr_free` | blocks tile the heap, free neighbours are joined, the list is exactly the free blocks, objects are disjoint and kept |
| `heapmgr2.c` | the heap, bins of free lists | the same | and each block is in its bin, a fitting block is always found |
| `heapmgrbase.c`, `chunkbase.c` | the heap, one list in the order of addresses, blocks without footers | the same | the list is in order and joined |
| `heapmgrkr.c` | the heap, a circular list from `freep` on | the same | the list is in order, round, and joined |

The four are alternatives behind one interface, `heapmgr.h`; a program is linked with
one. (`heapmgrgnu.c` passes calls on to the C library.) Sequential; hard because state is overlaid (a block's links lie where the program's
data was and where the footer moves) and errors need long sequences of calls.

### Labs 1 and 2

| Component | State | Operations | What makes it correct |
|---|---|---|---|
| `decomment.c` | automaton state, line counters | one turn per character, end of file | comments and nothing else replaced, line numbers kept, the right line in the error |
| `dirtree.c` | recursion, `pending_paths`, two summaries | walk, print, flush, pattern engine | exactly the right lines, once, in order; counts; the pattern language |

## 2. The modules

| Module | Models | Extends or instantiates |
|---|---|---|
| `RWLock` | `rwlock.c`, one action per critical section | |
| `FifoLock` | what a FIFO read-write lock promises: an abstract specification | |
| `RWLockRefinement` | the mapping of `RWLock` to `FifoLock` | both |
| `RWLockProofs` | proofs: the lock's invariants, its order, its refinement | `RWLockRefinement`, TLAPS |
| `LockedTable` | `hashtable.c` with a lock for each bucket in place of an assumption | `HashTable`, `FifoLock` |
| `LockedTableProofs` | proofs: the table under its locks implements the table, and the map | `LockedTable`, `HashTableProofs`, TLAPS |
| `KVMap` | an atomic map with calls and returns: the abstract specification of the table | |
| `HashTable` | `hashtable.c`, one action per pointer access | |
| `HashTableRefinement` | the mapping of `HashTable` to `KVMap` | both |
| `HashTableProofs` | proofs: chains and memory; linearizability | `HashTableRefinement`, TLAPS |
| `SKVSLib` | `skvslib.c`: `skvs_parse`, `skvs_serve` | instantiates `KVMap` for the table |
| `SKVSServer` | `server.c` with sockets and clients; init and destroy of the library, the table and the locks | |
| `SKVSProofs` | proofs about both | `SKVSLib`, `SKVSServer`, TLAPS |
| `Snush` | `snush.c`, `execute.c`, `job.c`: processes, jobs, signals | |
| `SnushProofs` | proofs | `Snush`, TLAPS |
| `Pipeline` | `iter_pipe_fork_exec`, `fork_exec`: descriptors, the barrier, redirections, the stages | |
| `PipelineProofs` | proofs | `Pipeline`, TLAPS |
| `LexSyn` | `lexsyn.c`, `util.c`, `build_command_partial` | |
| `Decomment` | `decomment.c` | |
| `Scanners` | a behaviour of `LexSyn` or of `Decomment` | both |
| `Chunk` | `chunk.c` | |
| `HeapMgr1`, `HeapMgr2` | `heapmgr1.c`, `heapmgr2.c` | `Chunk` |
| `HeapMgrBase` | `heapmgrbase.c`, `chunkbase.c` | `Chunk` |
| `HeapMgrKR` | `heapmgrkr.c` | |
| `Allocator` | what `heapmgr.h` promises: an abstract specification | |
| `HeapMgrs` | a program linked with one of the four | the four, `Allocator` |
| `HeapMgrsProofs` | proofs: the heaps are valid, grow only if needed, and implement `Allocator` | `HeapMgrs`, TLAPS |
| `Pattern` | `validate_pattern`, `submatch`, `is_match`, and the language of patterns | |
| `DirTree` | `process_dir_rec`, `flush_pending`, main's loop | `Pattern` |
| `DirTreeProofs` | proofs: the pending paths, the summaries | `DirTree`, TLAPS |
| `MC...` | instances for TLC | the module they are named for |

Definitions carry the names of the functions and variables they stand for, and
`PROJECT.json` (`map`) gives the lines of each. A definition whose name extends
another's, with the comment "MUTANT of", is a plausible mistake in that one; it is
not used by the specification and serves to show that a property can fail.

### How the models correspond to the code

**RWLock.** The mutex is not a variable: each operation holds it from its first
access to `pthread_cond_wait` or to its return, so one such stretch is one action.
`QuickReadLock`, `ReadLock` and `WriteLock` are the calls up to the first wait or the
grant; `Recheck` is what a waiter does when it has been woken; `SpuriousWakeup` is
the freedom POSIX gives `pthread_cond_wait`. `asleep` is the set of threads on the
condition variable and `Broadcast` empties it. Tickets count modulo `TicketMod`. The
`delay` sleeps while holding the lock only prolong steps.

**HashTable.** A bucket's lock is held by one writer or any readers, which is what
the theorems about RWLock say of it; its FIFO order plays no part here. The walk
along a chain, the frees and assignments of `hash_update`, the three steps that link
a node and the unlinking are separate actions, so that any reader or writer that the
lock wrongly let in would see them half-done. A freed node, key or value stays as `Freed`
until it is allocated again. Allocations may fail: `OutOfMemory` is a `calloc` or the
`strdup` of `hash_update` that returns NULL, where nothing is held yet; `InsertBuild` gives
a new node a key, a value, both or neither, and `InsertUndo` frees what there is of a node
that did not get both. `HashTableRefinement` maps a table in
which an update is under way to the map that has the new value already.

**LockedTable.** The steps of `HashTable` between lock and unlock, as they are, and in
place of its two lock steps those of a `FifoLock` per bucket: a request that queues, a
request that is granted, an unlock. `HashTable`'s `readers` and `writers` are read off the
locks' states, and the composition is shown to implement it; so what `RWLock` promises is
what `HashTable` assumes. That calls return is said here, where the lock's queue and the
table's early returns meet.

**SKVSLib.** `ParseLine` works on tokens (a text and a length) of a buffer (a length,
and whether a line feed was found); `Receive`, `Execute` and `Respond` are separate, so
another worker may run between a table operation and the response that describes it.

**SKVSServer.** Bytes have no content: a request is `reqlen` bytes, the last of which
is its line feed, of which the worker has `off` and the connection still has `left`. A
received piece is any size the buffer has room for. `accept` may time out when nobody
waits, and `recv` at any time, since what a client has sent may still be on its way. SIGINT may come at any state. `Gone` lets a
client's place be used by the next connection. The start-up and the end run alone, so
that `skvs_init` is one step, whose outcomes are success and, for each allocation, lock
or condition variable it makes, the failure of that one; `held` counts for every resource
its allocations less its frees, and the operators `..._undo` are the error paths. A failing
`pthread_create` comes after the `malloc` of its arguments and frees them. Of the table's
content there are the entries on each bucket's chain (`buckets`): a request may add one,
with its node, key and value (`hash_insert`), or free one (`hash_delete`), and
`hash_destroy` frees those that are left. How the steps of these meet in one bucket is
`HashTable`'s.

**Snush.** One shell process with a program counter for the points between which a
signal or a child can interfere. `proc` and `pgrp` are the kernel's tables; pids are
reused after they are reaped. A blocked signal is modelled by the flag that it sets
when it is unblocked, since nothing reads the flag before. A fork, the parent's setpgid
and the child's own (with its reset of signals) are three steps; until one of the setpgids
a child is in the shell's group, where a Ctrl-C of the terminal reaches it ("new", and
"doomed" once it has) and a signal to the job does not. `fork_exec` is a pipeline of one
stage. `promised` records the groups of background jobs the shell has yet to report,
`sigterm` whom `terminate_jobs` signalled as the shell went; exit is a final state.

**Pipeline.** Each process has descriptors that refer to pipe ends, the terminal or a
file; `fork` copies the shell's. A line of one command is `fork_exec`, of more
`iter_pipe_fork_exec`; < and > stand where `syntax_check` lets them. A child whose open or
exec fails ends, as does one whose command is a built-in. The programs are the worst ones: a stage reads all of its input, writes `Items` items, or
quits early, and a write to a pipe without reader ends it.

**LexSyn, Decomment, Scanners.** One action per state of the automaton, characters from a
small alphabet that has all those with a meaning and one without.

**Chunk, the heap managers, HeapMgrs.** The heap is an array of units; a unit has two fields
(`first`, `second`) that a header, a footer and data overlay as the C structs do, so
that what is written as one thing and read as another goes wrong in the model too. The
program writes all of each object it is given. `sbrk` returns the memory after the
heap, up to `MaxUnits`; it may fail before. `heap` is a record of the memory and the
manager's static variables, so that `HeapMgrs` can put any of the four in one place.
`Allocator` has the program's objects and the units that hold what it wrote; the mapping
takes from the heap the units of live objects that still do.

**DirTree.** The recursion is an explicit stack; the file system, the pattern and the
depth are one input chosen at the start. An entry that vanishes before `lstat`, and a
directory that cannot be opened, belong to the input, and so do the entries whose type
`readdir` does not tell (`untyped`): the order goes by that type (`d_type`), all else by
the one `lstat` tells. Of the six types a device is counted in no field of the summaries
but the sizes. The nodes of an input are ways to
a directory (`InputOK`): one that is given twice, or inside of another that is given, is
two nodes, as the traversal goes through it twice. A depth is between 1 and `MAX_DEPTH`;
`main` ends the program on any other.

## 3. What is checked

| Run | Instance | Shows |
|---|---|---|
| `rwlock` | 3 threads, 4 tickets | `Exclusion`, `TicketWindow`, `NoLostWakeup`, `NoStall`, `FifoOrder`, `ImplementsFifoLock`, and, once no quick read comes, `EveryoneServed` |
| `hashtable` | 2 threads, 3 keys in 2 buckets, 3 nodes, 2 values | `ChainsSound` (with the sizes), `NoStaleNode`, `NoLeak`, `Linearizable` (refinement of `KVMap`) |
| `locked_table` | 3 threads, 2 keys in one bucket, 2 nodes | `ImplementsHashTable` (refinement), and, once no quick read comes, `CallsReturn` |
| `skvslib` | 2 workers, one key, two values; every line of up to 3 tokens | `ResponsesTrue`, `GrammarExact` |
| `server` | 2 workers, 2 clients, 2 buckets, 1 entry, buffer of 2 bytes, requests up to 3, backlog 1 | `TableAlive` (and all is freed, once, entries included), `ConnectionsOwned`, `Framing`, and, with clients that read, `Terminates`, and, over connections that deliver, `Answered` |
| `snush` | 3 pids, 2 jobs of up to 2 stages, job ids up to 1 | `JobTableSound`, `GroupsOwned`, `OneForeground`, `NoReportLost`, `ExitTerminates`, `ReportsArrive`, `ForegroundLeaves` |
| `snush_ctrlc` | 2 pids, 1 job | a violation: `CtrlCInterrupts` (section 6) |
| `snush_ctrld` | 2 pids, 1 job | a violation: `EofEnds` (section 6) |
| `pipeline` | 1 to 4 stages, 3 items, pipes that hold 2 | `FdsExact`, `StartTogether`, `AllEnd` |
| `scanners` | lines of up to 6 characters; texts of up to 7 | `LexExact`, `SyntaxExact`; `Decommented` (with `LinesKept` at every character and the line in the error) |
| `heapmgrs` | each manager; 12, 12, 8 and 8 units, growth by 2 or more, requests up to 3, 2 exact bins and 3 doubling ones | `HeapValid` (tags, tiling, lists), `ImplementsAllocator` (refinement: objects disjoint, never overwritten), `GrowsIfNeeded` |
| `dirtree` | trees of 4 entries, depths 1 to 3; two trees with entries of all six types; patterns up to 6 characters on 14 names | `ListingExact` (with `CountsExact`, the summaries), `PendingSound`, `PatternsExact` |

The type invariant of a module is checked as a part of one of these (`TypeOK` alone in
`rwlock`). Section 5 says which of the properties are also theorems; the inductive
invariants behind them were themselves checked on the instances above before they were
proved.

Deadlock is checked in `rwlock`, `hashtable`, `locked_table` and `heapmgrs`, whose systems
always have something to do; the others may end (a process that exits, an input that
is over).

**Why the bounds are enough.**
- *Locks.* A reader, a writer and a third request of any kind give every pair of
  holder and queue and one request behind it; `TicketMod` is the least that the
  assumption `TicketsWide` allows, so the counters wrap constantly. The theorems of
  section 5 do not depend on these numbers.
- *Table.* Two keys in one bucket and one in another give chains of two nodes, head and
  tail deletions, and operations that do not meet. Three nodes let one be reused while
  another is held. Workers interact only through one bucket's lock, two at a time. With
  the queue of the lock itself (`locked_table`) there are three, so that one can wait behind
  a waiting one; the calls are chosen for collisions on one key and a walk past it.
- *Library.* The response depends on the operation's own result only; two workers with
  one key give every pair of overlapping operations. Buffer lengths straddle `BUF_SIZE`,
  key lengths `MAX_KEY_LEN`, and every line of up to three tokens covers each command
  with too few, enough and too many.
- *Server.* A request of 3 bytes exceeds the buffer of 2, one of 1 fits with room, one
  of 2 fits exactly. Two clients on a backlog of one compete for two workers. Two
  buckets have a first lock that must be undone and a second that fails; an entry, in the
  second, is there at the end or not, put there and taken away by either worker. How
  entries share a chain is for `hashtable`; the theorem is about any number of them.
- *Shell.* Three pids make reuse immediate; two jobs of two stages give a background job
  beside a foreground one and a pipeline of which one stage ends first. `MaxJid` bounds
  the drift of ids, which has no bound in the code; a job 1 that outlives job 0 occurs.
- *Pipeline.* Four stages have two inner ones, so every pattern of first, inner and last
  neighbour occurs, and 5 is one more than `MAX_PROC_PER_JOB`; 3 items on a pipe for 2 make a writer block.
- *Lexer and decommenter.* Each automaton looks at one character at a time and remembers
  a state, so seven characters reach every state from every other and come back, with
  room for a comment, a newline and a second, open comment.
- *Heaps.* 12 units hold four blocks (of at least 3, with header and footer) with a
  split, a join on both sides and growth that joins; the managers without a footer have
  the same in 8; `EXACT_BINS = 2` puts the boundary between exact and doubling bins among the
  spans that occur (the code's is 64; the shift loop is a division).
- *Directories.* Four entries give every shape with a branch below a branch; entries
  are numbered in an order in which a directory precedes what is in it, since only the
  order inside of one directory matters. Files and directories alone shape a traversal, so
  all six types are in the smaller trees. Six characters of pattern hold `(ab)*a`.

## 4. Fairness

- `RWLock`: weak fairness of `Recheck` and of the unlocks: a woken thread runs, and who
  holds the lock gives it back, as every caller in `hashtable.c` does after a bounded
  walk. Requests need not come. Quick reads may starve the queue, which
  `readme.md:252-255` asks for, so `EveryoneServed` assumes that they stop.
- `LockedTable`: a worker goes on with the call it has begun; no call has to be made. As
  above, `CallsReturn` assumes that quick reads stop.
- `SKVSServer`: the threads run. Nothing forces SIGINT, a connection or a request.
  Clients read their replies (`ClientFairness`); the code depends on it, see section 6.
  `Terminates` needs these two (`FairSpec`). `recv` may time out at any time, so that a
  request is answered at all takes a connection that delivers in the end: strong fairness
  of `Recv` (`NetworkFairness`), which `Answered` assumes. TCP promises as much
  of a connection that is not broken, and the loop comes back to `recv` after each time-out.
- `Snush`: the shell's steps happen when they can, a forked child gets as far as its
  barrier, and a running process that got a SIGINT ends. No other process has to end, no key has to be pressed; `ReportsArrive`
  speaks of a shell that comes back to its prompt again and again.
- `Pipeline`: the shell and each stage run; none has to quit early.

Safety properties hold without any of it.

## 5. What is proved

Every safety property and every refinement that the runs of the lock, the table, the
locked table, the library, the server, the shell, the pipelines and the heap managers
check, and the pending paths and the summaries of `dirtree`, are also theorems about the
specification, without the bounds of the run: for any sets of threads, keys, values,
nodes, clients and pids, any trees and any sizes, under the assumptions named below.
(The run of the library explores a part of `SKVSLib`'s steps, see `MCNext`; the theorems
are about all of them.)

| Module | Theorem | States |
|---|---|---|
| `RWLockProofs` | `TypeCorrect` | `Spec => []TypeOK` |
| | `MutualExclusion` | a writer is alone; the counters count the holders |
| | `TurnsAreExact` | tickets of the waiting threads and of the writer are distinct and fill the window from `now_serving` to `next_ticket`, across the wrap |
| | `WakeupsNotLost` | a thread sleeps only while its predicate is false |
| | `NeverStalls` | if somebody waits, somebody holds the lock or is awake and may take it |
| | `FirstComeFirstServed` | a queued request is granted only after those queued before it |
| | `Refinement` | `RWLock` implements `FifoLock` |
| `HashTableProofs` | `ChainsAreSound` | each chain is finite, as long as its size says, of live nodes of its bucket, no key twice |
| | `NodesStayFresh` | no operation stands on a node that another unlinked or freed, or reads a freed value |
| | `NothingLeaks` | each allocated node, whole or half-built, is in one chain or in the hands of one operation |
| | `TableLinearizable` | `HashTable` implements `KVMap` |
| `LockedTableProofs` | `LocksSuffice` | `LockedTable` implements `HashTable` |
| | `TableUnderLocks` | hence the three properties of `HashTableProofs` hold of it too |
| | `LinearizableUnderLocks` | and it implements `KVMap` |
| `SKVSProofs` | `ResponsesAreTrue` | the responses account for what is in the table |
| | `GrammarIsExact` | exactly the lines of the grammar are run, as the operation they name |
| | `TableSafe` | the table outlives the workers; at an exit all is freed, once, after any failure, with the key, value and node of every entry |
| | `ConnectionsSafe` | a connection is queued once or has one worker, and none is leaked |
| | `FramingSafe` | what a worker has and what is to come make up the unanswered request |
| `SnushProofs` | `TableSound` | `n_jobs`, the ids and `remaining_processes` agree with the slots and the processes |
| | `GroupsAreJobs` | a job's group is the processes it has left, pids being reused |
| | `ForegroundAlone` | `wait_fg` waits for the one foreground job |
| | `ReportsKept` | every promised report has its job in the table or in the queue, which drops none |
| | `ExitLeavesNothing` | the exiting shell has signalled every process of a job it announced and did not report |
| `PipelineProofs` | `DescriptorsExact` | a stage starts with the descriptors of its place and no pipe end more, and the shell keeps none |
| | `NoHeadStart` | no stage opens a file or executes before the shell has given up `sync_pipe` |
| `HeapMgrsProofs` | `HeapsAreValid` | `Spec => []HeapValid`: blocks, tags, joined neighbours and lists of each of the four managers |
| | `HeapsImplementAllocator` | each manager implements `Allocator` |
| | `HeapsGrowIfNeeded` | a heap grows only if no free block fits |
| `DirTreeProofs` | `PendingPathsSound` | the pending paths are the open directories not printed yet, and fit the array |
| | `SummariesCount` | the summaries count exactly the matching entries printed, by type, devices in the sizes alone |

Each module proves first that its inductive invariant holds (`IInv`, theorem
`Invariance`, or lemmas), action by action, and then that it implies the properties.

**The lock** (`ThreadsFinite`, `TicketsWide`: finitely many threads, fewer than tickets;
the code's modulus is the range of its counter, and a thread waits with one ticket at
most). Neither `Exclusion` nor `TicketWindow` is inductive alone: that a new
ticket differs from the outstanding ones needs their number to be smaller than the
modulus, and that the next turn belongs to somebody needs the outstanding tickets to
have no gap. `IInv` adds to them that the number of ticket
owners (queued threads and the active writer) is the distance from `now_serving` to
`next_ticket`. `RWLockProofs` abstracts the four variables involved to `Line` and
shows once that it survives taking a ticket (`LineGrows`) and serving one
(`LineShrinks`); each action is then one of those, or neither. `WakeupsNotLost` needs
that every change that can make a sleeper's predicate true broadcasts; `NeverStalls`
follows from it and from the window: the owner of `now_serving` exists, and it is
awake, or waits for a holder. For the order and the refinement,
the proofs show that the distances of tickets order the queue as `FifoLock`'s
`ahead` does, and that serving moves everybody up by one.

**The table** (`SizesPositive`, `Addresses`, `NullProper`, `MemoryFinite`, `KeysAreStrings`:
at least one bucket, NULL is no node, key or value, nor is a freed thing a key or value,
finitely many nodes, keys are sequences of integers). A chain is what `next` reaches from the bucket, a function
of the index that is defined by recursion on it; the lemmas on `Path` say what building,
linking and unlinking a node do to it, and that a chain without a repeated node stays
one. `IInv` has five parts: who is inside of a bucket is who holds its lock (`LockInv`);
the chain is simple, of its size, and of the bucket's own keys, none twice (`ChainInv`);
only an update's node lacks its value (`ValueInv`); a node in no chain, half-built or
whole, is in one operation's hands, and no value outlives its node (`HandInv`); and what each operation knows at each step (`Knows`). The
last is where the code could be wrong: that `prev` still precedes `node` while
`hash_delete` walks, and that the insert's search has passed every key of the chain
(`Passed`), so that no other inserter has been there when it publishes. `hash` is in
range for every key by induction on its length (`SetInduction`). `TableLinearizable`
(`RepliesProper`: no reply is a reply) shows that
a step of the table is one of `KVMap` or changes nothing that it sees, with one addition
to `IInv`, that `dst` is empty until `hash_read` has copied (`DstInv`).

**The table under its locks** (and `CallsKnown`). The invariant ties the two state
machines together: a lock says of a worker what the worker's program counter says
(`Says`), and in a lock's queue of any two one waits for the other, while a writer
inside is alone (`Fifo`). With it each grant is a grant that `HashTable` allows.
`RWLock` implements `FifoLock`, the locked table is built from `FifoLock`s and
implements `HashTable`, and `HashTable` implements `KVMap`: from the mutex to the map
each link is proved, for all sizes, and `LinearizableUnderLocks` puts the last two
together. (That `RWLock` may stand in for `FifoLock` inside of
`LockedTable` is the usual argument on compositions, not itself a theorem here.)

**The library** (`LengthsOK`, `CallersFinite`, `NothingsApart`, `LinesKnown`: the lengths
are numbers, the marks for nothing are neither commands nor answers, a token is not
empty). `ResponsesTrue` counts over the workers, so it is proved by what a step does to
the count (`DoneGrows`, `DoneShrinks`) and by `CreditIs`: the text of a response says of
a creation or a deletion that it succeeded exactly if it did. Beside it `LibIInv` has that
a worker is in an operation exactly as long as it serves a line, and in that line's
(`Serving`); without it a response could be made of another command's answer. The parser
is not recursive (its loop is over the five commands), so that `ParseExact` holds for
lines of any number of tokens.

**The server** (`PoolSize`, `SizesOK`, `HashKnown`, `NoClientIsNone`). What is allocated is a
function of where `main` and the workers are (`HeldBy`); the heart of it is `UndoExact`,
that whatever step of `skvs_init` fails, the error paths undo exactly the steps before
it. An entry's key, value and node are held exactly while it is on a chain, and it is on
one at most (`EntriesApart`), so that what `hash_destroy` walks over is what is left of
them (`DestroyAll`). For connections and framing the invariant adds that a request of which nothing was
received is whole, and that a session that goes on has room for another byte
(`Untouched`), without which a full buffer would be read into.

**The shell** (`PidsFinite`, `LimitsOK`; the bound `MaxJid` is any number). The
properties lean on each other, so they are proved together. Beside them `IInv` says: the
stages forked so far make up the group of the first, which no job has, but for the last,
which may not have joined yet (`LeaderInv`, `StartInv`); free pids have no group and no
signal (`ProcInv`), so that a pid given again does not inherit an old job; the one
foreground job is the one `wait_fg` was given, and outside of `wait_fg` there is none
(`ForegroundInv`); the queue of ended jobs is empty except between the two steps that
fill and empty it, and known and queued groups together are the promised ones
(`ReportInv`). The lemmas on `Place` say that the queue of a round of `waitpid` names
each ended job once, in the order of slots.

**Pipelines** (`AtLeastOne`, `SizesOK`). `IInv` gives, for each point of the shell's
loop and of a stage's way to its program, the process's whole table of descriptors
(`ShellInv`, `StageInv`), and says that no stage has gone on while the shell holds the
write end of `sync_pipe` (`HoldInv`). That a read of `sync_pipe` blocks until then is
not assumed: it follows from the shell's table, which has the write end, and that a
stage has closed its own copies is in its.

**The heap managers** (`UnitsOK`: the bounds, growths and numbers of bins are numbers,
requests are positive). `HeapValid` says of the blocks that a walk through the heap
finds; for induction that is the wrong way round, since a step changes the walk. The
invariant of each manager says instead that there are a set `B` of blocks and a set `F`
of free ones among them, such that the blocks lie end to end (`Tiled`), no two free ones
touch (`Coalesced`), the lists are as this manager keeps `F`, and the program has
exactly the blocks of `B \ F`, each with room for its object and with the object's bytes
in it (`Owned`, `Roomy`). Each operation is then a change of `B` and `F`: insertion,
detaching, cutting a block in two and joining two are lemmas on any such heap, a call of
malloc or free is a sequence of them, and each step of the sequence says which units it
leaves alone (`Kept`, `Saved`). That a walk finds `B` and a list finds `F`, the functions
of the model being recursive, is shown at the end (`BlocksFound`, `ListIsOrdered`,
`CircleFound`), by induction over numbers (`SetInduction`), and gives `HeapValid`.

What differs is the lists. In `heapmgr1` and `heapmgr2` they are in no order and linked
both ways through header and footer (`Linked`, by a rank of each block); a bin of
`heapmgr2` has the blocks whose index is its own, and that the search from the bin of
the request up misses no block needs the index to grow with the span (`BinsGrow`).
`heapmgrbase` and `heapmgrkr` keep theirs in the order of the addresses (`Chained`, no
ranks needed), so that what a freed block joins are its neighbours on the list; for
K&R's, base is outside of the heap, the search and the walk to a block's place start
anywhere on the circle, and `RoundTaken` shows that once round visits all of it.
`HeapsImplementAllocator` needs of all this only that objects lie apart and hold what
was written (`Apart`): that is `CallIsStep`, once for the four.

**The directory lister** (`InputsOK`). `pending_paths` and `pending_count` are shared by
all calls of `process_dir_rec`, and each call compares, after its own recursion, the place
where it put its path with a count that may have been reset and grown again. The
invariant says what makes this right. For some number `s` the first `s` open
directories are printed and the others are pending, in their order and with their depth;
and the `my_pending_idx` of a directory that is pending is its place among them
(`Waiting`), so that what the comparison takes back is its own path. And all
that was ever reached is a set closed under the way up, which the entries still to come
are not in (`Reached`): without it a directory could be met again and its earlier line
taken for a new one.
The number and the set, which the code does not have, are existential in the invariant,
and each step gives the new ones. `CountsExact` rests on it: what is flushed and what is
reported counts in neither summary, and a line that counts is counted by its type, once, and with its size; a device, which
`struct summary` has no field for, with its size only.

*Only model-checked:*
- Liveness everywhere: the prover does not do ENABLED, hence no fairness.
- `ListingExact` of `DirTree`, but for its part `CountsExact`: what is printed in the end
  is compared with a description of the whole tree (`Expected`), and its order with that
  of two paths (`Earlier`). And `PatternsExact`, which depends on the language of patterns.
- What recursive functions compute for inputs of every length (`Scanners`,
  `submatch`). The library's induction theorems take a predicate as a
  parameter, which the provers cannot instantiate. Induction over numbers is possible for
  one set at a time, as it is done for `hash` and for walks along a chain; that an automaton over
  sequences agrees with its reference was not attempted this way.

## 6. Where the code and its documents differ

The runs `snush_ctrlc` and `snush_ctrld` show the first two; the others were met while
modelling, the models do what the code does, and the properties are stated so as to hold
of it.

1. **A Ctrl-C can be lost on the foreground job** (`execute.c:254`). The handler sets a
   flag, which `wait_fg` reads only after `waitpid` has failed with EINTR; when the signal
   falls before the call, `waitpid` blocks with the flag set and nothing is forwarded
   until the job ends by itself. `lab-4-shell/README.md:105`: Ctrl-C "should interrupt the
   foreground job".
2. **Ctrl-D after Ctrl-C does not end the shell** (`snush.c:218`): `errno` is still EINTR
   from the earlier interruption when `fgets` returns NULL at the end of the input, and so
   it is at every later one. `lab-4-shell/README.md:34`.
3. **Devices are listed and not counted** (`dirtree.c:266-282`): a character or block
   device is printed in full, with a blank type, and its size is added up, but it is not
   among the files, nor in the "total # of entries" (`dirtree.c:439`); `CountsExact` says so.
   `lab-2-input-and-output/README.md:171`: devices "are just treated as `Regular file`".
4. **A failing fork releases the stages before it** (`execute.c:457`): closing `sync_pipe`
   is the signal they wait for, so they execute outside of any job.
   `lab-4-shell/README.md:90`.
5. **The first job id is 0** (`job.c:30`); `lab-4-shell/README.md:179` asks for a positive
   one.
6. **A stopped foreground job blocks the shell** (`execute.c:297`): without `tcsetpgrp` a
   foreground program that reads the terminal is stopped by SIGTTIN, and `waitpid` does
   not ask for stopped children.
7. **With a full job table `exit` and `cd` are refused too** (`snush.c:90`), against
   `lab-4-shell/README.md:64`.
8. **`cd &`** passes the syntax check and makes `cd` use `dir` uninitialised
   (`execute.c:208`).
9. **`args` is stored to before its bound is tested** (`execute.c:147` and `:156`).
10. **A quick read is not first** (`rwlock.c:103`): one that waits for a writer holds no
   place, and after the unlock's broadcast a queued writer may take the mutex first.
   `rwlock.h:39`, `lab-5-simple-kvs/readme.md:255`.
11. **A client that stops reading keeps the server alive after SIGINT** (`server.c:29`):
    `send_all` neither times out nor looks at `g_shutdown`.
    `lab-5-simple-kvs/readme.md:244`. `Terminates` fails when `ClientFairness` is dropped.
12. **`need_units` is cut to an int** (`heapmgr1.c:247`, `heapmgr2.c:313`): a request of
    2^32 units gets a span of 2.
13. **A Ctrl-C may end a background child** (`execute.c:361`) when the terminal sends it
   between the fork and the setpgid; it is then reported like any job that ended.
   `lab-4-shell/README.md:105` speaks of the foreground job only.
14. **An empty line leaks its token array** (`snush.c:83`), which every other way out of
   `shell_helper` frees.
15. **K&R's `heapmgr_malloc(0)` returns a block** (`reference/heapmgrkr.c`), where
   `heapmgr.h` promises NULL, and its `heapmgr_free` has no test for NULL
   (`reference/heapmgrkr.c:69`): it would take the word before address 0 for a header. The
   model makes no such calls.
16. **The comment of `get_search_bin`** (`heapmgr2.c:70`) says that every block of the bin
    fits; in a doubling bin some do not, and the loop that tests each block is needed.
17. **Directories come first only where `readdir` tells types** (`dirtree.c:188`): on a file
   system that answers DT_UNKNOWN they are sorted among the files by name, and printed as
   the directories that `lstat` says they are. `lab-2-input-and-output/README.md:136`.
18. **A chunk of 2 GiB overflows an int** (`chunk.c:33` and `:67`): `span * CHUNK_UNIT` is a
   product of ints, so the footer or the next chunk of such a span is looked for before it.

## 7. What is not modelled

- `hash_dump`, `TRACE` output, error messages: they only print. The server's command line
  is constants.
- `dynarray.c`, `token.c`'s allocation. LEX_NOMEM and LEX_LONG: allocation failure in the
  lexer, and lines longer than `fgets` returns.
- `cd`'s working directory, which nothing else of the shell reads; `dup2` failing on
  descriptors just made; failures of `sigaction` and `signal` before the loops.
- Requests of 0 and frees of NULL, which return at once but in K&R's manager (section 6);
  requests and spans near the range of the integers (section 6); `heapmgrgnu.c`, two calls of the C library.
- dirtree's columns, names cut at their width, user, group and size; wrong options.
- The test programs, `rwtest.sh`, the tree generator, example inputs and binaries; the
  `202113385_assignN` copies, identical to the files modelled (for lab 1 the copy is the
  only source and is modelled).

## 8. Plan

Done: every component with logic of its own; the compositions of lock and table and of a
program with each heap manager; abstract specifications of the lock, the table, the map and
the allocator, each with a proved refinement; every safety property of the lock, the
table, the library, the server, the shell, its pipelines and the heap managers as a
theorem, and two of the three of the directory lister.

Next, by what a defect would cost:

1. `RWLock` in the place of `FifoLock` in `LockedTable`, as a specification and a theorem.
2. `ListingExact` of `DirTree`, its expected lines stated with the set of what was reached.

The scanners and the pattern language stay with TLC.

And an abstract specification of job control (jobs that start, end and are reported) for
`Snush`, the working directory, and the columns of the directory lister.
