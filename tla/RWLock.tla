------------------------------- MODULE RWLock -------------------------------
(***************************************************************************)
(* The custom read-write lock of lab 5 (rwlock.c): a ticket-based FIFO     *)
(* lock plus "quick" reads that take no ticket.  One lock is modelled.     *)
(*                                                                         *)
(* Every function body runs between pthread_mutex_lock and either          *)
(* pthread_mutex_unlock or pthread_cond_wait, so one action is one stay    *)
(* inside the mutex: from the call (or from the return of a cond_wait) to  *)
(* the next point where the mutex is free.  The sleep(delay) of the unlock *)
(* functions comes before the mutex and changes nothing: a thread in it    *)
(* still holds the lock and is in state "reading" or "writing".            *)
(***************************************************************************)
EXTENDS Naturals, FiniteSets

CONSTANTS Threads,    \* the worker threads that use the lock
          TicketMod,  \* 2^w for the w-bit unsigned long of the tickets
          Kinds       \* the requests the callers make

QUICK == "quick"      \* rwlock_read_lock(rw, 1)
READ  == "read"       \* rwlock_read_lock(rw, 0)
WRITE == "write"      \* rwlock_write_lock(rw)

ASSUME ThreadsFinite == IsFiniteSet(Threads)
ASSUME TicketsWide   == TicketMod \in Nat /\ Cardinality(Threads) < TicketMod
ASSUME KindsKnown    == Kinds \subseteq {QUICK, READ, WRITE}

VARIABLES current_readers, current_writers,  \* rwlock_t
          next_ticket, now_serving,          \* struct uctx
          pc,       \* what a thread does with the lock: "idle", a kind of
                    \* request it waits in, "reading" or "writing"
          ticket,   \* the local variable ticket
          asleep    \* threads blocked in pthread_cond_wait, not woken yet

vars == <<current_readers, current_writers, next_ticket, now_serving,
          pc, ticket, asleep>>

Tickets == 0 .. TicketMod - 1
SuccNoWrap(k) == k + 1                               \* mutant: no wrap
Succ(k) == IF k = TicketMod - 1 THEN 0 ELSE k + 1    \* ++ on an unsigned long

Readers == {t \in Threads : pc[t] = "reading"}
Writers == {t \in Threads : pc[t] = "writing"}
Holders == Readers \cup Writers
Queued  == {t \in Threads : pc[t] \in {READ, WRITE}}
Waiting == {t \in Threads : pc[t] \in {QUICK, READ, WRITE}}

\* rwlock_init zeroes the counters; no thread has called anything yet.
Init ==
  /\ current_readers = 0
  /\ current_writers = 0
  /\ next_ticket = 0
  /\ now_serving = 0
  /\ pc = [t \in Threads |-> "idle"]
  /\ ticket = [t \in Threads |-> 0]
  /\ asleep = {}

-----------------------------------------------------------------------------
(* The wait predicates and the two ways out of a loop: block, or go on.    *)

\* Mutant: a read may join whenever no writer is active, ahead of its turn.
MayReadUnordered(t, kind, k) == current_writers = 0

MayRead(t, kind, k) ==    \* kind = QUICK or READ; k is the ticket of a READ
  IF kind = QUICK THEN current_writers = 0 ELSE now_serving = k

\* Mutant: the writer forgets the readers that have not left yet.
MayWriteEarly(t, k) == now_serving = k /\ current_writers = 0

MayWrite(t, k) ==
  now_serving = k /\ current_readers = 0 /\ current_writers = 0

CondWait(t, kind) ==
  /\ pc' = [pc EXCEPT ![t] = kind]
  /\ asleep' = asleep \cup {t}
  /\ UNCHANGED <<current_readers, current_writers, now_serving>>

\* Mutant: pthread_cond_signal, which wakes one waiter of its choice.
SignalOne ==
  IF asleep = {} THEN UNCHANGED asleep
                 ELSE \E s \in asleep : asleep' = asleep \ {s}

Broadcast == asleep' = {}

\* Mutant: the test is made before the decrement.
WakeAfterReadEarly == asleep' = IF current_readers = 0 THEN {} ELSE asleep

\* Only the last reader to leave broadcasts.
WakeAfterRead == asleep' = IF current_readers' = 0 THEN {} ELSE asleep

ReadLoop(t, kind, k) ==
  \/ ~ MayRead(t, kind, k) /\ CondWait(t, kind)
  \/ /\ MayRead(t, kind, k)
     /\ pc' = [pc EXCEPT ![t] = "reading"]
     /\ current_readers' = current_readers + 1
     /\ now_serving' = IF kind = QUICK THEN now_serving ELSE Succ(now_serving)
     /\ Broadcast
     /\ UNCHANGED current_writers

WriteLoop(t, k) ==
  \/ ~ MayWrite(t, k) /\ CondWait(t, WRITE)
  \/ /\ MayWrite(t, k)
     /\ pc' = [pc EXCEPT ![t] = "writing"]
     /\ current_writers' = current_writers + 1
     /\ asleep' = asleep \ {t}
     /\ UNCHANGED <<current_readers, now_serving>>

\* Mutant: the ticket is read but next_ticket is not advanced.
TakeTicketStale(t) ==
  /\ ticket' = [ticket EXCEPT ![t] = next_ticket]
  /\ UNCHANGED next_ticket

TakeTicket(t) ==
  /\ ticket' = [ticket EXCEPT ![t] = next_ticket]
  /\ next_ticket' = Succ(next_ticket)

-----------------------------------------------------------------------------
(* The calls *)

QuickReadLock(t) ==
  /\ pc[t] = "idle" /\ QUICK \in Kinds
  /\ ReadLoop(t, QUICK, 0)
  /\ UNCHANGED <<next_ticket, ticket>>

ReadLock(t) ==
  /\ pc[t] = "idle" /\ READ \in Kinds
  /\ TakeTicket(t)
  /\ ReadLoop(t, READ, next_ticket)

WriteLock(t) ==
  /\ pc[t] = "idle" /\ WRITE \in Kinds
  /\ TakeTicket(t)
  /\ WriteLoop(t, next_ticket)

\* A woken thread gets the mutex back and evaluates its predicate again.
Recheck(t) ==
  /\ t \in Waiting \ asleep
  /\ \/ pc[t] \in {QUICK, READ} /\ ReadLoop(t, pc[t], ticket[t])
     \/ pc[t] = WRITE /\ WriteLoop(t, ticket[t])
  /\ UNCHANGED <<next_ticket, ticket>>

\* POSIX lets pthread_cond_wait return without a broadcast.
SpuriousWakeup(t) ==
  /\ t \in asleep
  /\ asleep' = asleep \ {t}
  /\ UNCHANGED <<current_readers, current_writers, next_ticket, now_serving,
                 pc, ticket>>

ReadUnlock(t) ==
  /\ pc[t] = "reading"
  /\ pc' = [pc EXCEPT ![t] = "idle"]
  /\ current_readers' =
       IF current_readers > 0 THEN current_readers - 1 ELSE current_readers
  /\ WakeAfterRead
  /\ UNCHANGED <<current_writers, next_ticket, now_serving, ticket>>

WriteUnlock(t) ==
  /\ pc[t] = "writing"
  /\ pc' = [pc EXCEPT ![t] = "idle"]
  /\ current_writers' =
       IF current_writers > 0 THEN current_writers - 1 ELSE current_writers
  /\ now_serving' = Succ(now_serving)
  /\ Broadcast
  /\ UNCHANGED <<current_readers, next_ticket, ticket>>

Call(t) == QuickReadLock(t) \/ ReadLock(t) \/ WriteLock(t)
Unlock(t) == ReadUnlock(t) \/ WriteUnlock(t)

Next == \E t \in Threads :
          Call(t) \/ Recheck(t) \/ SpuriousWakeup(t) \/ Unlock(t)

Spec == Init /\ [][Next]_vars

(* The holder of the lock finishes its work and unlocks (hash_* hold the   *)
(* lock over a finite traversal), and a woken thread eventually gets the   *)
(* mutex.  Calls and spurious wake-ups may never happen.                   *)
Fairness == \A t \in Threads : WF_vars(Recheck(t)) /\ WF_vars(Unlock(t))

FairSpec == Spec /\ Fairness

-----------------------------------------------------------------------------
(* Properties *)

TypeOK ==
  /\ current_readers \in Nat
  /\ current_writers \in Nat
  /\ next_ticket \in Tickets
  /\ now_serving \in Tickets
  /\ pc \in [Threads -> {"idle", QUICK, READ, WRITE, "reading", "writing"}]
  /\ ticket \in [Threads -> Tickets]
  /\ asleep \subseteq Waiting

\* The two counters of rwlock_t count the threads that really hold the lock,
\* a writer is alone, and so the "> 0" tests of the unlocks never hide an
\* underflow.
Exclusion ==
  /\ current_readers = Cardinality(Readers)
  /\ current_writers = Cardinality(Writers)
  /\ \A w \in Writers : Writers = {w} /\ Readers = {}

(* The tickets between now_serving and next_ticket, counted round the      *)
(* wrap of the unsigned long, and the threads that own them: those that    *)
(* queue and the writer, which keeps its turn until it unlocks.            *)
Dist(k) == IF k >= now_serving THEN k - now_serving
                               ELSE k + TicketMod - now_serving
Owners == Queued \cup Writers

\* No turn is lost or given twice: every ticket handed out and not yet served
\* belongs to exactly one thread that waits for it or writes under it, and no
\* other ticket does; an active writer is the one now_serving points at.
TicketWindow ==
  /\ \A t \in Owners : Dist(ticket[t]) < Dist(next_ticket)
  /\ \A s, t \in Owners : ticket[s] = ticket[t] => s = t
  /\ \A k \in Tickets : Dist(k) < Dist(next_ticket) =>
       \E t \in Owners : ticket[t] = k
  /\ \A w \in Writers : ticket[w] = now_serving

MayGo(t) ==
  \/ pc[t] \in {QUICK, READ} /\ MayRead(t, pc[t], ticket[t])
  \/ pc[t] = WRITE /\ MayWrite(t, ticket[t])

\* No wake-up is lost: a thread left asleep in pthread_cond_wait could not go
\* on anyway (each change that makes a predicate true is followed by a
\* broadcast, although write_lock and a non-last read_unlock send none).
NoLostWakeup == \A t \in asleep : ~ MayGo(t)

\* While anyone waits, someone can move: a holder that will unlock, or a woken
\* thread; the lock never stalls with free counters and a queue.
NoStall == Waiting # {} => Holders \cup (Waiting \ asleep) # {}

(* Reads and writes with a ticket get the lock in the order in which they  *)
(* asked: when t enters on its turn, every thread that goes on queueing    *)
(* has a later ticket (the turns counted from the old now_serving).        *)
EntersOnTurn(t) ==
  /\ t \notin Holders /\ t \in Holders'
  /\ t \in Queued \/ next_ticket' # next_ticket

FifoOrder ==
  [][\A s, t \in Threads :
       EntersOnTurn(t) /\ s \in Queued /\ s \in Queued'
         => Dist(ticket'[t]) < Dist(ticket[s])]_vars

\* If quick reads stop coming, every queued request is served in the end: only
\* quick reads may starve the queue.
EveryoneServed ==
  <>[][\A t \in Threads : ~ QuickReadLock(t)]_vars =>
  \A t \in Threads : t \in Queued ~> pc[t] \in {"reading", "writing"}
=============================================================================
