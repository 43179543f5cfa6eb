---------------------------- MODULE RWLockProofs ----------------------------
(***************************************************************************)
(* Proofs about the read-write lock, for every finite set of threads and   *)
(* every ticket width with more tickets than threads.                      *)
(***************************************************************************)
EXTENDS RWLockRefinement, FiniteSetTheorems, TLAPS

-----------------------------------------------------------------------------
(* Arithmetic of the ticket counters.  D(k, n) is Dist(k) when now_serving *)
(* is n.                                                                   *)

D(k, n) == IF k >= n THEN k - n ELSE k + TicketMod - n

\* Counting round the wrap: the distance is below 2^w and tells tickets apart.
LEMMA DistRange ==
  ASSUME NEW n \in Tickets, NEW k \in Tickets
  PROVE  /\ D(k, n) \in 0 .. TicketMod - 1
         /\ D(k, n) = 0 <=> k = n
         /\ \A j \in Tickets : D(j, n) = D(k, n) => j = k
  BY TicketsWide DEF D, Tickets

\* now_serving++ brings every other ticket one nearer, the old turn farthest.
LEMMA ServeDist ==
  ASSUME NEW n \in Tickets, NEW k \in Tickets
  PROVE  /\ Succ(n) \in Tickets
         /\ D(k, Succ(n)) = IF k = n THEN TicketMod - 1 ELSE D(k, n) - 1
  BY TicketsWide DEF D, Tickets, Succ

\* next_ticket++ moves the end of the line one away, unless it is full.
LEMMA TakeDist ==
  ASSUME NEW n \in Tickets, NEW k \in Tickets, D(k, n) < TicketMod - 1
  PROVE  D(Succ(k), n) = D(k, n) + 1
  BY TicketsWide DEF D, Tickets, Succ

-----------------------------------------------------------------------------
(* The line of outstanding tickets: TicketWindow plus its length.          *)

Line(O, tk, next, now) ==
  /\ \A t \in O : D(tk[t], now) < D(next, now)
  /\ \A s, t \in O : tk[s] = tk[t] => s = t
  /\ \A k \in Tickets : D(k, now) < D(next, now) => \E t \in O : tk[t] = k
  /\ Cardinality(O) = D(next, now)

\* A thread outside the line that takes a ticket joins its end; there is room
\* for it because there are more tickets than threads.
LEMMA LineGrows ==
  ASSUME NEW O \in SUBSET Threads, NEW tk \in [Threads -> Tickets],
         NEW next \in Tickets, NEW now \in Tickets, NEW t \in Threads \ O,
         Line(O, tk, next, now)
  PROVE  Line(O \cup {t}, [tk EXCEPT ![t] = next], Succ(next), now)
<1> DEFINE P  == O \cup {t}
           tl == [tk EXCEPT ![t] = next]
<1>1. IsFiniteSet(O) /\ IsFiniteSet(P)
  BY ThreadsFinite, FS_Subset, P \subseteq Threads
<1>2. Cardinality(P) = Cardinality(O) + 1 /\ Cardinality(P) <= Cardinality(Threads)
  BY <1>1, ThreadsFinite, FS_AddElement, FS_Subset, P \subseteq Threads
<1>3. /\ D(next, now) \in Nat
      /\ D(next, now) < TicketMod - 1
  BY <1>1, <1>2, TicketsWide, ThreadsFinite, FS_CardinalityType, DistRange
     DEF Line
<1>4. Succ(next) \in Tickets /\ D(Succ(next), now) = D(next, now) + 1
  BY <1>3, TakeDist, ServeDist
<1>5. \A s \in P : D(tl[s], now) < D(Succ(next), now)
  <2> SUFFICES ASSUME NEW s \in P PROVE D(tl[s], now) < D(Succ(next), now)
    OBVIOUS
  <2>1. CASE s = t
    BY <2>1, <1>3, <1>4
  <2>2. CASE s # t
    <3>1. s \in O /\ tl[s] = tk[s] /\ tk[s] \in Tickets
      BY <2>2
    <3>2. D(tk[s], now) < D(next, now) /\ D(tk[s], now) \in Nat
      BY <3>1, DistRange DEF Line
    <3> QED BY <3>1, <3>2, <1>3, <1>4
  <2> QED BY <2>1, <2>2
<1>6. \A s, u \in P : tl[s] = tl[u] => s = u
  <2>1. \A s \in O : tk[s] # next
    BY <1>3 DEF Line
  <2> QED BY <2>1 DEF Line
<1>7. \A k \in Tickets : D(k, now) < D(Succ(next), now) => \E s \in P : tl[s] = k
  <2> SUFFICES ASSUME NEW k \in Tickets, D(k, now) < D(Succ(next), now)
               PROVE  \E s \in P : tl[s] = k
    OBVIOUS
  <2>1. CASE k = next
    BY <2>1
  <2>2. CASE k # next
    <3>1. D(k, now) # D(next, now) /\ D(k, now) \in Nat
      BY <2>2, DistRange
    <3>2. PICK s \in O : tk[s] = k
      BY <3>1, <1>3, <1>4 DEF Line
    <3> QED BY <3>2
  <2> QED BY <2>1, <2>2
<1> QED BY <1>2, <1>4, <1>5, <1>6, <1>7 DEF Line

\* The owner of the turn leaves and now_serving moves on.
LEMMA LineShrinks ==
  ASSUME NEW O \in SUBSET Threads, NEW tk \in [Threads -> Tickets],
         NEW next \in Tickets, NEW now \in Tickets, NEW t \in O,
         Line(O, tk, next, now), tk[t] = now
  PROVE  Line(O \ {t}, tk, next, Succ(now))
<1>1. IsFiniteSet(O) /\ Cardinality(O \ {t}) = Cardinality(O) - 1
  BY ThreadsFinite, FS_Subset, FS_RemoveElement
<1>2. D(now, now) = 0 /\ D(next, now) \in Nat /\ D(next, now) > 0
  BY DistRange DEF Line
<1>3. next # now /\ D(next, Succ(now)) = D(next, now) - 1
  BY <1>2, ServeDist, DistRange
<1>4. \A s \in O \ {t} : D(tk[s], Succ(now)) = D(tk[s], now) - 1
  BY ServeDist DEF Line
<1>5. \A s \in O \ {t} : D(tk[s], Succ(now)) < D(next, Succ(now))
  BY <1>2, <1>3, <1>4, DistRange DEF Line
<1>6. \A k \in Tickets : D(k, Succ(now)) < D(next, Succ(now)) =>
                           \E s \in O \ {t} : tk[s] = k
  <2> SUFFICES ASSUME NEW k \in Tickets, D(k, Succ(now)) < D(next, Succ(now))
               PROVE  \E s \in O \ {t} : tk[s] = k
    OBVIOUS
  <2>1. k # now /\ D(k, Succ(now)) = D(k, now) - 1
    <3>1. D(next, now) <= TicketMod - 1
      BY DistRange
    <3> QED BY <3>1, <1>2, <1>3, ServeDist, TicketsWide
  <2>2. D(k, now) \in Nat
    BY DistRange
  <2>3. PICK s \in O : tk[s] = k
    BY <2>1, <2>2, <1>2, <1>3 DEF Line
  <2> QED BY <2>1, <2>3
<1> QED BY <1>1, <1>3, <1>5, <1>6 DEF Line

-----------------------------------------------------------------------------
(* The inductive invariant: TicketWindow needs the length of the line (for *)
(* room at its end), Exclusion needs TicketWindow (a reader that enters on *)
(* its turn meets no writer, because the turn would be the writer's).      *)

IInv == /\ TypeOK
        /\ Exclusion
        /\ TicketWindow
        /\ Cardinality(Owners) = Dist(next_ticket)

\* The last conjunct and TicketWindow, as a Line.
LEMMA WindowIsLine ==
  TypeOK => ((TicketWindow /\ Cardinality(Owners) = Dist(next_ticket))
             <=> /\ Line(Owners, ticket, next_ticket, now_serving)
                 /\ \A w \in Writers : ticket[w] = now_serving)
  BY DEF TicketWindow, Line, Dist, D, TypeOK

\* Initially all counters are zero and no ticket is out.
LEMMA InitIInv == Init => IInv
<1> SUFFICES ASSUME Init PROVE IInv
  OBVIOUS
<1>1. 0 \in Tickets
  BY TicketsWide, ThreadsFinite, FS_CardinalityType DEF Tickets
<1>2. Readers = {} /\ Writers = {} /\ Owners = {}
  BY DEF Init, Readers, Writers, Owners, Queued, READ, WRITE
<1>3. TypeOK
  BY <1>1 DEF Init, TypeOK
<1>4. Exclusion
  BY <1>2, FS_EmptySet DEF Init, Exclusion
<1>5. Dist(next_ticket) = 0 /\ \A k \in Tickets : Dist(k) \in Nat
  BY <1>1, TicketsWide DEF Init, Dist, Tickets
<1>6. TicketWindow /\ Cardinality(Owners) = Dist(next_ticket)
  BY <1>2, <1>5, FS_EmptySet DEF TicketWindow
<1> QED BY <1>3, <1>4, <1>6 DEF IInv

\* Types are kept by every action, whatever the other invariants say.
LEMMA TypeStep == TypeOK /\ [Next]_vars => TypeOK'
<1> SUFFICES ASSUME TypeOK, [Next]_vars PROVE TypeOK'
  OBVIOUS
<1> USE DEF TypeOK, Waiting, QUICK, READ, WRITE
<1>0. \A k \in Tickets : Succ(k) \in Tickets
  BY ServeDist
<1>1. CASE UNCHANGED vars
  BY <1>1 DEF vars
<1>2. ASSUME NEW t \in Threads, QuickReadLock(t) PROVE TypeOK'
  BY <1>2 DEF QuickReadLock, ReadLoop, CondWait, Broadcast
<1>3. ASSUME NEW t \in Threads, ReadLock(t) PROVE TypeOK'
  BY <1>0, <1>3 DEF ReadLock, TakeTicket, ReadLoop, CondWait, Broadcast
<1>4. ASSUME NEW t \in Threads, WriteLock(t) PROVE TypeOK'
  BY <1>0, <1>4 DEF WriteLock, TakeTicket, WriteLoop, CondWait
<1>5. ASSUME NEW t \in Threads, Recheck(t) PROVE TypeOK'
  BY <1>0, <1>5 DEF Recheck, ReadLoop, WriteLoop, CondWait, Broadcast
<1>6. ASSUME NEW t \in Threads, SpuriousWakeup(t) PROVE TypeOK'
  BY <1>6 DEF SpuriousWakeup
<1>7. ASSUME NEW t \in Threads, ReadUnlock(t) PROVE TypeOK'
  BY <1>7 DEF ReadUnlock, WakeAfterRead
<1>8. ASSUME NEW t \in Threads, WriteUnlock(t) PROVE TypeOK'
  BY <1>0, <1>8 DEF WriteUnlock, Broadcast
<1> QED
  BY <1>1, <1>2, <1>3, <1>4, <1>5, <1>6, <1>7, <1>8 DEF Next, Call, Unlock

-----------------------------------------------------------------------------
(* The step: what each action does to the holders and to the line.         *)

\* Sets of threads are finite, so entering and leaving count by one.
LEMMA FiniteHolders ==
  /\ IsFiniteSet(Readers) /\ IsFiniteSet(Writers)
  /\ Readers \subseteq Threads /\ Writers \subseteq Threads
  /\ Owners \subseteq Threads
  BY ThreadsFinite, FS_Subset DEF Readers, Writers, Owners, Queued

\* Exclusion and the line of tickets are kept by a step that leaves holders,
\* line and counters alone.
LEMMA SameStep ==
  ASSUME IInv, TypeOK',
         Readers' = Readers, Writers' = Writers, Owners' = Owners,
         UNCHANGED <<current_readers, current_writers, next_ticket, now_serving,
                     ticket>>
  PROVE  IInv'
  BY DEF IInv, Exclusion, TicketWindow, Dist

\* A reader enters: nobody writes, and the counter follows.
LEMMA ReaderEnters ==
  ASSUME Exclusion, TypeOK, NEW t \in Threads \ Readers, Writers = {},
         Readers' = Readers \cup {t}, Writers' = Writers,
         current_readers' = current_readers + 1,
         current_writers' = current_writers
  PROVE  Exclusion'
  BY FiniteHolders, FS_AddElement DEF Exclusion

\* A writer enters an empty lock.
LEMMA WriterEnters ==
  ASSUME Exclusion, TypeOK, NEW t \in Threads,
         current_readers = 0, current_writers = 0,
         Readers' = Readers, Writers' = Writers \cup {t},
         current_readers' = current_readers,
         current_writers' = current_writers + 1
  PROVE  Exclusion'
<1>1. Readers = {} /\ Writers = {}
  BY FiniteHolders, FS_EmptySet DEF Exclusion
<1>2. Writers' = {t} /\ Readers' = {}
  BY <1>1
<1> QED BY <1>1, <1>2, FS_EmptySet, FS_Singleton DEF Exclusion

\* With no writer counted there is no writer.
LEMMA NoWriterCounted ==
  ASSUME Exclusion, current_writers = 0
  PROVE  Writers = {}
  BY FiniteHolders, FS_EmptySet DEF Exclusion

\* The two views of the line, in the state after a step.
LEMMA LineIsWindowNext ==
  ASSUME TypeOK', Exclusion',
         Line(Owners', ticket', next_ticket', now_serving'),
         \A w \in Writers' : ticket'[w] = now_serving'
  PROVE  IInv'
  BY DEF IInv, TicketWindow, Line, Dist, D, TypeOK

\* A stay in the read loop: t waits, or enters as a reader.  P is the line with
\* t in it when t has a ticket; after the step the line is P, or P without t.
LEMMA ReadLoopStep ==
  ASSUME TypeOK, TypeOK', Exclusion,
         NEW t \in Threads, NEW kind \in {QUICK, READ}, NEW k \in Tickets,
         pc[t] \in {"idle", kind}, ReadLoop(t, kind, k),
         Line(Owners \cup (IF kind = READ THEN {t} ELSE {}), ticket',
              next_ticket', now_serving),
         kind = READ => ticket'[t] = k,
         kind = QUICK => ticket' = ticket,
         \A s \in Threads \ {t} : ticket'[s] = ticket[s],
         \A w \in Writers : ticket[w] = now_serving
  PROVE  IInv'
<1> USE DEF QUICK, READ, WRITE
<1> DEFINE P == Owners \cup (IF kind = READ THEN {t} ELSE {})
<1>1. P \subseteq Threads /\ t \notin Readers /\ t \notin Writers
      /\ (kind = QUICK => t \notin Owners)
  BY FiniteHolders DEF Readers, Writers, Owners, Queued
<1>2. CASE ~ MayRead(t, kind, k) /\ CondWait(t, kind)
  <2>1. Readers' = Readers /\ Writers' = Writers /\ Owners' = P
    BY <1>2 DEF CondWait, TypeOK, Readers, Writers, Owners, Queued
  <2>2. Exclusion'
    BY <1>2, <2>1 DEF CondWait, Exclusion
  <2>3. \A w \in Writers' : ticket'[w] = now_serving'
    BY <1>1, <1>2, <2>1, FiniteHolders DEF CondWait
  <2>4. Line(Owners', ticket', next_ticket', now_serving')
    BY <1>2, <2>1 DEF CondWait
  <2> QED BY <2>2, <2>3, <2>4, LineIsWindowNext
<1>3. CASE /\ MayRead(t, kind, k)
           /\ pc' = [pc EXCEPT ![t] = "reading"]
           /\ current_readers' = current_readers + 1
           /\ now_serving' = IF kind = QUICK THEN now_serving
                                             ELSE Succ(now_serving)
           /\ Broadcast
           /\ UNCHANGED current_writers
  <2>1. Readers' = Readers \cup {t} /\ Writers' = Writers /\ Owners' = P \ {t}
    BY <1>1, <1>3 DEF TypeOK, Readers, Writers, Owners, Queued
  <2>2. Writers = {}
    <3>1. CASE kind = QUICK
      BY <1>3, <3>1, NoWriterCounted DEF MayRead
    <3>2. CASE kind = READ
      <4> SUFFICES ASSUME NEW w \in Writers PROVE FALSE
        OBVIOUS
      <4>1. ticket'[w] = ticket'[t] /\ w \in P /\ t \in P
        BY <1>1, <1>3, <3>2, FiniteHolders DEF MayRead, Owners
      <4> QED BY <1>1, <4>1 DEF Line
    <3> QED BY <3>1, <3>2
  <2>3. Exclusion'
    BY <1>1, <1>3, <2>1, <2>2, ReaderEnters
  <2>4. Line(Owners', ticket', next_ticket', now_serving')
    <3>1. CASE kind = QUICK
      BY <1>1, <1>3, <2>1, <3>1
    <3>2. CASE kind = READ
      <4>1. t \in P /\ ticket'[t] = now_serving /\ now_serving' = Succ(now_serving)
        BY <1>3, <3>2 DEF MayRead
      <4> QED BY <1>1, <2>1, <4>1, LineShrinks DEF TypeOK
    <3> QED BY <3>1, <3>2
  <2> QED BY <2>1, <2>2, <2>3, <2>4, LineIsWindowNext
<1> QED BY <1>2, <1>3 DEF ReadLoop

\* A stay in the write loop: t, which has a ticket, waits or becomes the writer.
LEMMA WriteLoopStep ==
  ASSUME TypeOK, TypeOK', Exclusion,
         NEW t \in Threads, NEW k \in Tickets,
         pc[t] \in {"idle", WRITE}, WriteLoop(t, k),
         Line(Owners \cup {t}, ticket', next_ticket', now_serving),
         ticket'[t] = k,
         \A s \in Threads \ {t} : ticket'[s] = ticket[s],
         \A w \in Writers : ticket[w] = now_serving
  PROVE  IInv'
<1> USE DEF QUICK, READ, WRITE
<1>1. t \notin Readers /\ t \notin Writers
  BY DEF Readers, Writers
<1>2. CASE ~ MayWrite(t, k) /\ CondWait(t, WRITE)
  <2>1. Readers' = Readers /\ Writers' = Writers /\ Owners' = Owners \cup {t}
    BY <1>2 DEF CondWait, TypeOK, Readers, Writers, Owners, Queued
  <2>2. Exclusion'
    BY <1>2, <2>1 DEF CondWait, Exclusion
  <2>3. \A w \in Writers' : ticket'[w] = now_serving'
    BY <1>1, <1>2, <2>1, FiniteHolders DEF CondWait
  <2> QED BY <1>2, <2>1, <2>2, <2>3, LineIsWindowNext DEF CondWait
<1>3. CASE /\ MayWrite(t, k)
           /\ pc' = [pc EXCEPT ![t] = "writing"]
           /\ current_writers' = current_writers + 1
           /\ asleep' = asleep \ {t}
           /\ UNCHANGED <<current_readers, now_serving>>
  <2>1. /\ Readers' = Readers
        /\ Writers' = Writers \cup {t}
        /\ Owners' = Owners \cup {t}
    BY <1>3 DEF TypeOK, Readers, Writers, Owners, Queued
  <2>2. Exclusion'
    BY <1>3, <2>1, WriterEnters DEF MayWrite
  <2>3. \A w \in Writers' : ticket'[w] = now_serving'
    BY <1>1, <1>3, <2>1, FiniteHolders DEF MayWrite
  <2> QED BY <1>3, <2>1, <2>2, <2>3, LineIsWindowNext
<1> QED BY <1>2, <1>3 DEF WriteLoop

\* Every step of the lock keeps the invariant.
LEMMA IInvStep == IInv /\ [Next]_vars => IInv'
<1> SUFFICES ASSUME IInv, [Next]_vars PROVE IInv'
  OBVIOUS
<1> USE DEF QUICK, READ, WRITE
<1>0. /\ TypeOK /\ Exclusion /\ TypeOK'
      /\ Line(Owners, ticket, next_ticket, now_serving)
      /\ \A w \in Writers : ticket[w] = now_serving
  BY TypeStep, WindowIsLine DEF IInv
<1>1. CASE UNCHANGED vars
  BY <1>0, <1>1, SameStep DEF vars, Readers, Writers, Owners, Queued
<1>2. ASSUME NEW t \in Threads, QuickReadLock(t) PROVE IInv'
  <2>1. 0 \in Tickets /\ Owners \cup {} = Owners
    BY TicketsWide, ThreadsFinite, FS_CardinalityType DEF Tickets
  <2> QED BY <1>0, <1>2, <2>1, ReadLoopStep DEF QuickReadLock
<1>3. ASSUME NEW t \in Threads, TakeTicket(t), pc[t] = "idle"
      PROVE  /\ Line(Owners \cup {t}, ticket', next_ticket', now_serving)
             /\ ticket'[t] = next_ticket
             /\ next_ticket \in Tickets
             /\ \A s \in Threads \ {t} : ticket'[s] = ticket[s]
  <2>1. t \notin Owners
    BY <1>3 DEF Owners, Queued, Writers
  <2>2. ticket' = [ticket EXCEPT ![t] = next_ticket]
        /\ next_ticket' = Succ(next_ticket)
    BY <1>3 DEF TakeTicket
  <2>3. Line(Owners \cup {t}, ticket', next_ticket', now_serving)
    BY <1>0, <2>1, <2>2, FiniteHolders, LineGrows DEF TypeOK
  <2> QED BY <1>0, <2>2, <2>3 DEF TypeOK
<1>4. ASSUME NEW t \in Threads, ReadLock(t) PROVE IInv'
  BY <1>0, <1>3, <1>4, ReadLoopStep DEF ReadLock
<1>5. ASSUME NEW t \in Threads, WriteLock(t) PROVE IInv'
  BY <1>0, <1>3, <1>5, WriteLoopStep DEF WriteLock
<1>6. ASSUME NEW t \in Threads, Recheck(t) PROVE IInv'
  <2>1. pc[t] \in {QUICK, READ, WRITE} /\ ticket' = ticket
        /\ next_ticket' = next_ticket /\ ticket[t] \in Tickets
    BY <1>0, <1>6 DEF Recheck, Waiting, TypeOK
  <2>2. CASE pc[t] = QUICK
    <3>1. ReadLoop(t, QUICK, ticket[t]) /\ Owners \cup {} = Owners
      BY <1>6, <2>2 DEF Recheck
    <3> QED BY <1>0, <2>1, <2>2, <3>1, ReadLoopStep
  <2>3. CASE pc[t] = READ
    <3>1. ReadLoop(t, READ, ticket[t]) /\ Owners \cup {t} = Owners
      BY <1>6, <2>3 DEF Recheck, Owners, Queued
    <3> QED BY <1>0, <2>1, <2>3, <3>1, ReadLoopStep
  <2>4. CASE pc[t] = WRITE
    <3>1. WriteLoop(t, ticket[t]) /\ Owners \cup {t} = Owners
      BY <1>6, <2>4 DEF Recheck, Owners, Queued
    <3> QED BY <1>0, <2>1, <2>4, <3>1, WriteLoopStep
  <2> QED BY <2>1, <2>2, <2>3, <2>4
<1>7. ASSUME NEW t \in Threads, SpuriousWakeup(t) PROVE IInv'
  BY <1>0, <1>7, SameStep
     DEF SpuriousWakeup, Readers, Writers, Owners, Queued
<1>8. ASSUME NEW t \in Threads, ReadUnlock(t) PROVE IInv'
  <2>1. /\ t \in Readers /\ Readers' = Readers \ {t}
        /\ Writers' = Writers /\ Owners' = Owners
    BY <1>0, <1>8 DEF ReadUnlock, TypeOK, Readers, Writers, Owners, Queued
  <2>2. current_readers > 0
    BY <1>0, <2>1, FiniteHolders, FS_EmptySet DEF Exclusion, TypeOK
  <2>3. Exclusion'
    BY <1>0, <1>8, <2>1, <2>2, FiniteHolders, FS_RemoveElement
       DEF ReadUnlock, Exclusion
  <2> QED BY <1>0, <1>8, <2>1, <2>3, LineIsWindowNext DEF ReadUnlock
<1>9. ASSUME NEW t \in Threads, WriteUnlock(t) PROVE IInv'
  <2>1. /\ t \in Writers /\ Writers' = Writers \ {t}
        /\ Readers' = Readers /\ t \in Owners /\ Owners' = Owners \ {t}
    BY <1>0, <1>9 DEF WriteUnlock, TypeOK, Readers, Writers, Owners, Queued
  <2>2. Writers = {t} /\ Writers' = {} /\ Readers' = {}
    BY <1>0, <2>1 DEF Exclusion
  <2>3. current_writers = 1
    BY <1>0, <2>2, FS_Singleton DEF Exclusion
  <2>4. Exclusion'
    BY <1>0, <1>9, <2>1, <2>2, <2>3, FS_EmptySet DEF WriteUnlock, Exclusion
  <2>5. Line(Owners', ticket', next_ticket', now_serving')
    BY <1>0, <1>9, <2>1, FiniteHolders, LineShrinks DEF WriteUnlock, TypeOK
  <2> QED BY <1>0, <2>2, <2>4, <2>5, LineIsWindowNext
<1> QED
  BY <1>1, <1>2, <1>4, <1>5, <1>6, <1>7, <1>8, <1>9 DEF Next, Call, Unlock

-----------------------------------------------------------------------------
(* Theorems *)

\* The types, in every reachable state.
THEOREM TypeCorrect == Spec => []TypeOK
<1>1. Init => TypeOK
  BY InitIInv DEF IInv
<1> QED BY <1>1, TypeStep, PTL DEF Spec

\* Shared reads and a lone writer; the counters of rwlock_t count the holders.
THEOREM MutualExclusion == Spec => []Exclusion
<1>1. IInv => Exclusion
  BY DEF IInv
<1> QED BY <1>1, InitIInv, IInvStep, PTL DEF Spec

\* No turn is lost or given twice, for tickets of any width that has more
\* values than there are threads.
THEOREM TurnsAreExact == Spec => []TicketWindow
<1>1. IInv => TicketWindow
  BY DEF IInv
<1> QED BY <1>1, InitIInv, IInvStep, PTL DEF Spec

-----------------------------------------------------------------------------
(* Wake-ups *)

\* A stay in the read loop leaves no one asleep who could go on: the thread
\* that blocks found its predicate false, and entering wakes everyone.
LEMMA ReadLoopSleepers ==
  ASSUME TypeOK, NoLostWakeup,
         NEW t \in Threads, NEW kind \in {QUICK, READ}, NEW k \in Tickets,
         ReadLoop(t, kind, k),
         kind = READ => ticket'[t] = k,
         \A s \in Threads \ {t} : ticket'[s] = ticket[s]
  PROVE  NoLostWakeup'
<1> USE DEF QUICK, READ, WRITE
<1>1. CASE ~ MayRead(t, kind, k) /\ CondWait(t, kind)
  <2> SUFFICES ASSUME NEW s \in asleep' PROVE ~ MayGo(s)'
    BY DEF NoLostWakeup
  <2>1. CASE s = t
    BY <1>1, <2>1 DEF CondWait, MayGo, MayRead, TypeOK
  <2>2. CASE s # t
    BY <1>1, <2>2 DEF CondWait, MayGo, MayRead, MayWrite, TypeOK, Waiting,
                      NoLostWakeup
  <2> QED BY <2>1, <2>2
<1>2. CASE Broadcast
  BY <1>2 DEF Broadcast, NoLostWakeup
<1> QED BY <1>1, <1>2 DEF ReadLoop

\* A writer enters without a broadcast, which is right: it only makes the
\* predicates of the others false.
LEMMA WriteLoopSleepers ==
  ASSUME TypeOK, NoLostWakeup,
         NEW t \in Threads, NEW k \in Tickets,
         WriteLoop(t, k), ticket'[t] = k,
         \A s \in Threads \ {t} : ticket'[s] = ticket[s]
  PROVE  NoLostWakeup'
<1> USE DEF QUICK, READ, WRITE
<1> SUFFICES ASSUME NEW s \in asleep' PROVE ~ MayGo(s)'
  BY DEF NoLostWakeup
<1>1. CASE ~ MayWrite(t, k) /\ CondWait(t, WRITE)
  <2>1. CASE s = t
    BY <1>1, <2>1 DEF CondWait, MayGo, MayWrite, TypeOK
  <2>2. CASE s # t
    BY <1>1, <2>2 DEF CondWait, MayGo, MayRead, MayWrite, TypeOK, Waiting,
                      NoLostWakeup
  <2> QED BY <2>1, <2>2
<1>2. CASE /\ MayWrite(t, k)
           /\ pc' = [pc EXCEPT ![t] = "writing"]
           /\ current_writers' = current_writers + 1
           /\ asleep' = asleep \ {t}
           /\ UNCHANGED <<current_readers, now_serving>>
  <2>1. s \in asleep /\ s \in Threads /\ s # t
        /\ pc'[s] = pc[s] /\ ticket'[s] = ticket[s] /\ ~ MayGo(s)
    BY <1>2 DEF TypeOK, Waiting, NoLostWakeup
  <2>2. current_writers' # 0
    BY <1>2 DEF TypeOK
  <2> QED BY <1>2, <2>1, <2>2 DEF MayGo, MayRead, MayWrite
<1> QED BY <1>1, <1>2 DEF WriteLoop

\* Every step keeps NoLostWakeup.
LEMMA WakeupStep == TypeOK /\ NoLostWakeup /\ [Next]_vars => NoLostWakeup'
<1> SUFFICES ASSUME TypeOK, NoLostWakeup, [Next]_vars PROVE NoLostWakeup'
  OBVIOUS
<1> USE DEF QUICK, READ, WRITE
<1>1. CASE UNCHANGED vars
  BY <1>1 DEF vars, NoLostWakeup, MayGo, MayRead, MayWrite
<1>2. ASSUME NEW t \in Threads, QuickReadLock(t) PROVE NoLostWakeup'
  <2>1. 0 \in Tickets
    BY TicketsWide, ThreadsFinite, FS_CardinalityType DEF Tickets
  <2> QED BY <1>2, <2>1, ReadLoopSleepers DEF QuickReadLock
<1>3. ASSUME NEW t \in Threads, ReadLock(t) PROVE NoLostWakeup'
  BY <1>3, ReadLoopSleepers DEF ReadLock, TakeTicket, TypeOK
<1>4. ASSUME NEW t \in Threads, WriteLock(t) PROVE NoLostWakeup'
  BY <1>4, WriteLoopSleepers DEF WriteLock, TakeTicket, TypeOK
<1>5. ASSUME NEW t \in Threads, Recheck(t) PROVE NoLostWakeup'
  BY <1>5, ReadLoopSleepers, WriteLoopSleepers DEF Recheck, TypeOK
<1>6. ASSUME NEW t \in Threads, SpuriousWakeup(t) PROVE NoLostWakeup'
  BY <1>6 DEF SpuriousWakeup, NoLostWakeup, MayGo, MayRead, MayWrite
<1>7. ASSUME NEW t \in Threads, ReadUnlock(t) PROVE NoLostWakeup'
  <2> SUFFICES ASSUME NEW s \in asleep' PROVE ~ MayGo(s)'
    BY DEF NoLostWakeup
  <2>1. current_readers' # 0 /\ s \in asleep /\ s \in Threads /\ s # t
        /\ pc'[s] = pc[s] /\ ~ MayGo(s)
    BY <1>7 DEF ReadUnlock, WakeAfterRead, TypeOK, Waiting, NoLostWakeup
  <2> QED BY <1>7, <2>1 DEF ReadUnlock, MayGo, MayRead, MayWrite
<1>8. ASSUME NEW t \in Threads, WriteUnlock(t) PROVE NoLostWakeup'
  BY <1>8 DEF WriteUnlock, Broadcast, NoLostWakeup
<1> QED
  BY <1>1, <1>2, <1>3, <1>4, <1>5, <1>6, <1>7, <1>8 DEF Next, Call, Unlock

\* A thread asleep in pthread_cond_wait never has a true predicate.
THEOREM WakeupsNotLost == Spec => []NoLostWakeup
<1>1. Init => TypeOK /\ NoLostWakeup
  BY InitIInv DEF IInv, Init, NoLostWakeup
<1> QED BY <1>1, TypeStep, WakeupStep, PTL DEF Spec

\* With no holder and everyone asleep, the owner of the turn (or any quick
\* read) would have a true predicate.
LEMMA SomeoneMoves == IInv /\ NoLostWakeup => NoStall
<1> SUFFICES ASSUME IInv, NoLostWakeup, NEW w \in Waiting,
                    Holders = {}, Waiting \subseteq asleep
             PROVE  FALSE
  BY DEF NoStall
<1> USE DEF QUICK, READ, WRITE
<1>1. Readers = {} /\ Writers = {} /\ current_readers = 0 /\ current_writers = 0
  BY FS_EmptySet DEF IInv, Exclusion, Holders
<1>2. \A t \in Waiting : ~ MayGo(t)
  BY DEF NoLostWakeup
<1>3. pc[w] # QUICK
  BY <1>1, <1>2 DEF MayGo, MayRead
<1>4. w \in Owners /\ w \in Threads
  BY <1>3 DEF Waiting, Owners, Queued
<1>5. Dist(ticket[w]) \in Nat /\ Dist(now_serving) = 0
      /\ Dist(next_ticket) \in Nat /\ now_serving \in Tickets
  BY <1>4, TicketsWide DEF IInv, TypeOK, Dist, Tickets
<1>6. PICK t \in Owners : ticket[t] = now_serving
  BY <1>4, <1>5 DEF IInv, TicketWindow
<1>7. t \in Waiting /\ pc[t] \in {READ, WRITE}
  BY <1>1, <1>6 DEF Owners, Queued, Waiting
<1> QED BY <1>1, <1>2, <1>6, <1>7 DEF MayGo, MayRead, MayWrite

\* The lock never stalls: while anyone waits, a holder or a woken thread is
\* there to move.
THEOREM NeverStalls == Spec => []NoStall
  BY InitIInv, IInvStep, WakeupsNotLost, SomeoneMoves, PTL DEF Spec

-----------------------------------------------------------------------------
(* The order of admission, and the refinement of FifoLock                  *)

USE DEF QUICK, READ, WRITE

\* The distances of the owners' tickets: only the owner of the turn is at 0,
\* and with an empty line the next ticket has the turn.
LEMMA LineFacts ==
  ASSUME IInv
  PROVE  /\ \A k \in Tickets : Dist(k) \in Nat
         /\ \A k \in Tickets : Dist(k) = 0 <=> k = now_serving
         /\ \A s \in Owners : ticket[s] \in Tickets
         /\ next_ticket = now_serving <=> Owners = {}
         /\ \A s \in Owners : ticket[s] = now_serving =>
              \A u \in Owners : u # s => Dist(ticket[u]) > 0
         /\ \A s \in Owners : ticket[s] = now_serving \/
              \E u \in Owners : Dist(ticket[u]) < Dist(ticket[s])
<1>1. \A k \in Tickets : Dist(k) = D(k, now_serving)
  BY DEF Dist, D
<1>2. now_serving \in Tickets /\ next_ticket \in Tickets
  BY DEF IInv, TypeOK
<1>3. \A k \in Tickets : Dist(k) \in Nat /\ (Dist(k) = 0 <=> k = now_serving)
  BY <1>1, <1>2, DistRange
<1>4. \A s \in Owners : s \in Threads /\ ticket[s] \in Tickets
  BY FiniteHolders DEF IInv, TypeOK
<1>5. next_ticket = now_serving <=> Owners = {}
  BY <1>2, <1>3, <1>4 DEF IInv, TicketWindow
<1>6. ASSUME NEW s \in Owners, ticket[s] = now_serving, NEW u \in Owners, u # s
      PROVE  Dist(ticket[u]) > 0
  BY <1>3, <1>4, <1>6 DEF IInv, TicketWindow
<1>7. ASSUME NEW s \in Owners, ticket[s] # now_serving
      PROVE  \E u \in Owners : Dist(ticket[u]) < Dist(ticket[s])
  <2>1. Dist(now_serving) = 0 /\ Dist(ticket[s]) > 0 /\ Dist(next_ticket) > 0
    BY <1>2, <1>3, <1>4, <1>5, <1>7
  <2>2. PICK u \in Owners : ticket[u] = now_serving
    BY <1>2, <2>1 DEF IInv, TicketWindow
  <2> QED BY <2>1, <2>2
<1> QED BY <1>3, <1>4, <1>5, <1>6, <1>7

-----------------------------------------------------------------------------
(* First come, first served *)

FifoAction ==
  \A s, t \in Threads :
    EntersOnTurn(t) /\ s \in Queued /\ s \in Queued'
      => Dist(ticket'[t]) < Dist(ticket[s])

\* Whoever enters with a ticket has the ticket now_serving points at.
LEMMA EntersWithTheTurn ==
  ASSUME IInv, [Next]_vars, NEW t \in Threads, EntersOnTurn(t)
  PROVE  /\ ticket'[t] = now_serving
         /\ t \in Owners \/ next_ticket = now_serving
<1>0. TypeOK /\ pc[t] \notin {"reading", "writing"}
      /\ pc'[t] \in {"reading", "writing"}
  BY DEF IInv, EntersOnTurn, Holders, Readers, Writers
<1>1. CASE UNCHANGED vars
  BY <1>0, <1>1 DEF vars
<1>2. ASSUME NEW u \in Threads, QuickReadLock(u)
      PROVE  FALSE
  <2>1. u = t /\ t \notin Queued /\ next_ticket' = next_ticket
    BY <1>0, <1>2 DEF QuickReadLock, ReadLoop, CondWait, TypeOK, Queued
  <2> QED BY <2>1 DEF EntersOnTurn
<1>3. ASSUME NEW u \in Threads, ReadLock(u)
      PROVE  ticket'[t] = now_serving /\ next_ticket = now_serving
  BY <1>0, <1>3 DEF ReadLock, TakeTicket, ReadLoop, CondWait, MayRead, TypeOK
<1>4. ASSUME NEW u \in Threads, WriteLock(u)
      PROVE  ticket'[t] = now_serving /\ next_ticket = now_serving
  BY <1>0, <1>4 DEF WriteLock, TakeTicket, WriteLoop, CondWait, MayWrite, TypeOK
<1>5. ASSUME NEW u \in Threads, Recheck(u)
      PROVE  ticket'[t] = now_serving /\ t \in Owners
  <2>1. u = t /\ ticket' = ticket /\ next_ticket' = next_ticket
    BY <1>0, <1>5 DEF Recheck, ReadLoop, WriteLoop, CondWait, TypeOK
  <2>2. t \in Queued
    BY <2>1 DEF EntersOnTurn
  <2>3. CASE pc[t] = READ
    <3>1. ReadLoop(t, READ, ticket[t])
      BY <1>5, <2>1, <2>3 DEF Recheck
    <3> QED BY <1>0, <2>1, <2>2, <3>1
            DEF ReadLoop, CondWait, MayRead, TypeOK, Owners
  <2>4. CASE pc[t] = WRITE
    <3>1. WriteLoop(t, ticket[t])
      BY <1>5, <2>1, <2>4 DEF Recheck
    <3> QED BY <1>0, <2>1, <2>2, <3>1
            DEF WriteLoop, CondWait, MayWrite, TypeOK, Owners
  <2> QED BY <2>2, <2>3, <2>4 DEF Queued
<1>6. ASSUME NEW u \in Threads,
             SpuriousWakeup(u) \/ ReadUnlock(u) \/ WriteUnlock(u)
      PROVE  FALSE
  BY <1>0, <1>6 DEF SpuriousWakeup, ReadUnlock, WriteUnlock, TypeOK
<1> QED
  BY <1>1, <1>2, <1>3, <1>4, <1>5, <1>6 DEF Next, Call, Unlock

\* Every step admits in the order of the tickets.
LEMMA FifoStep == IInv /\ [Next]_vars => FifoAction
<1> SUFFICES ASSUME IInv, [Next]_vars, NEW s \in Threads, NEW t \in Threads,
                    EntersOnTurn(t), s \in Queued, s \in Queued'
             PROVE  Dist(ticket'[t]) < Dist(ticket[s])
  BY DEF FifoAction
<1>1. s \in Owners /\ s # t
  BY DEF Owners, EntersOnTurn, Holders, Readers, Writers, Queued
<1>2. now_serving \in Tickets /\ Dist(now_serving) = 0
  BY LineFacts DEF IInv, TypeOK
<1>3. t \in Owners => ticket'[t] = ticket[t]
  BY DEF IInv, TypeOK, Next, vars, Call, Unlock, QuickReadLock, ReadLock, WriteLock,
         TakeTicket, Recheck, SpuriousWakeup, ReadUnlock, WriteUnlock,
         Owners, Queued, Writers
<1> QED BY <1>1, <1>2, <1>3, EntersWithTheTurn, LineFacts

\* Reads and writes enter in the order of their requests, whatever quick reads
\* and spurious wake-ups do in between.
THEOREM FirstComeFirstServed == Spec => FifoOrder
<1>1. IInv /\ [Next]_vars
        => [\A s, t \in Threads :
              EntersOnTurn(t) /\ s \in Queued /\ s \in Queued'
                => Dist(ticket'[t]) < Dist(ticket[s])]_vars
  BY FifoStep DEF FifoAction
<1> QED BY <1>1, InitIInv, IInvStep, PTL DEF Spec, FifoOrder

-----------------------------------------------------------------------------
(* Refinement *)

\* Counters and holders, as the abstract lock sees them.
LEMMA AbstractHolders ==
  ASSUME IInv
  PROVE  /\ current_writers = 0 <=> Abstract!NoWriter
         /\ current_readers = 0 <=> Abstract!NoReader
  BY FiniteHolders, FS_EmptySet
     DEF IInv, Exclusion, Readers, Writers, Abstract!NoWriter, Abstract!NoReader


\* Nothing the abstract lock sees changes.
LEMMA StutterStep ==
  ASSUME UNCHANGED <<pc, ticket, now_serving>>
  PROVE  UNCHANGED Abstract!vars
  BY DEF Abstract!vars, aheadBar, Owners, Queued, Writers, Dist

\* The owner of the turn leaves the line: every other owner moves up by one and
\* the line ahead of it loses just that thread.
LEMMA LineMovesUp ==
  ASSUME IInv, TypeOK', NEW t \in Owners, ticket[t] = now_serving,
         ticket' = ticket, now_serving' = Succ(now_serving),
         Owners' = Owners \ {t},
         \A s \in Threads \ {t} : pc'[s] = pc[s],
         pc'[t] \notin {READ, WRITE}
  PROVE  aheadBar' = Abstract!Leave(t)
<1>1. \A s \in Owners \ {t} : Dist(ticket[s])' = Dist(ticket[s]) - 1
  <2> SUFFICES ASSUME NEW s \in Owners \ {t}
               PROVE  Dist(ticket[s])' = Dist(ticket[s]) - 1
    OBVIOUS
  <2>1. ticket[s] \in Tickets /\ ticket[s] # now_serving
    BY LineFacts DEF IInv, TicketWindow
  <2>2. D(ticket[s], Succ(now_serving)) = D(ticket[s], now_serving) - 1
    BY <2>1, ServeDist DEF IInv, TypeOK
  <2> QED BY <2>2 DEF Dist, D
<1>2. \A s \in Owners : Dist(ticket[s]) \in Nat
  BY LineFacts
<1>3. ASSUME NEW s \in Threads
      PROVE  aheadBar'[s] = IF s = t THEN {} ELSE aheadBar[s] \ {t}
  <2>1. CASE s = t
    BY <2>1 DEF aheadBar
  <2>2. CASE s # t /\ pc[s] \notin {READ, WRITE}
    BY <2>2 DEF aheadBar
  <2>3. CASE s # t /\ pc[s] \in {READ, WRITE}
    <3>1. s \in Owners \ {t}
      BY <2>3 DEF Owners, Queued
    <3>2. aheadBar[s] = {u \in Owners : Dist(ticket[u]) < Dist(ticket[s])}
      BY <2>3 DEF aheadBar
    <3>3. aheadBar'[s] = {u \in Owners \ {t} : Dist(ticket[u])' < Dist(ticket[s])'}
      BY <2>3 DEF aheadBar
    <3> QED BY <1>1, <1>2, <2>3, <3>1, <3>2, <3>3
  <2> QED BY <2>1, <2>2, <2>3
<1> QED BY <1>3 DEF Abstract!Leave, aheadBar

\* A thread that takes a ticket and waits has the whole line ahead of it.
LEMMA LineGetsLonger ==
  ASSUME IInv, NEW t \in Threads, pc[t] = "idle", NEW kind \in {READ, WRITE},
         TakeTicket(t), CondWait(t, kind)
  PROVE  aheadBar' = [aheadBar EXCEPT ![t] = Abstract!Line(kind)]
<1>1. /\ t \notin Owners /\ Owners \subseteq Threads
      /\ Owners' = Owners \cup {t}
      /\ \A s \in Owners : ticket'[s] = ticket[s]
      /\ ticket'[t] = next_ticket
      /\ \A s \in Owners : Dist(ticket[s])' = Dist(ticket[s])
      /\ Dist(ticket[t])' = Dist(next_ticket)
  BY DEF CondWait, TakeTicket, IInv, TypeOK, Owners, Queued, Writers, Dist
<1>2. Abstract!Line(kind) = Owners
  BY DEF Abstract!Line, Owners, Queued, Writers
<1>3. \A s \in Owners : Dist(ticket[s]) < Dist(next_ticket)
                        /\ Dist(ticket[s]) \in Nat
  BY LineFacts DEF IInv, TicketWindow
<1>4. Dist(next_ticket) \in Nat
  BY LineFacts DEF IInv, TypeOK
<1>5. ASSUME NEW s \in Threads
      PROVE  aheadBar'[s] = IF s = t THEN Owners ELSE aheadBar[s]
  <2>1. CASE s = t
    <3>1. aheadBar'[s] = {u \in Owners' : Dist(ticket[u])' < Dist(ticket[t])'}
      BY <2>1 DEF aheadBar, CondWait, IInv, TypeOK
    <3> QED BY <1>1, <1>3, <1>4, <2>1, <3>1
  <2>2. CASE s # t /\ pc[s] \notin {READ, WRITE}
    BY <2>2 DEF aheadBar, CondWait, IInv, TypeOK
  <2>3. CASE s # t /\ pc[s] \in {READ, WRITE}
    <3>1. s \in Owners
      BY <2>3 DEF Owners, Queued
    <3>2. aheadBar[s] = {u \in Owners : Dist(ticket[u]) < Dist(ticket[s])}
      BY <2>3 DEF aheadBar
    <3>3. aheadBar'[s] = {u \in Owners' : Dist(ticket[u])' < Dist(ticket[s])'}
      BY <2>3 DEF aheadBar, CondWait, IInv, TypeOK
    <3> QED BY <1>1, <1>3, <1>4, <2>3, <3>1, <3>2, <3>3
  <2> QED BY <2>1, <2>2, <2>3
<1> QED BY <1>2, <1>5 DEF aheadBar

\* Inside the loops: blocking and entering, seen by the abstract lock.  A is
\* what is ahead of t, k its ticket; an owner of the turn has nobody ahead.
LEMMA ReadLoopGrants ==
  ASSUME IInv, NEW kind \in {QUICK, READ}, NEW t \in Threads, NEW k, NEW A,
         kind = READ => (k = now_serving <=> A = {})
  PROVE  MayRead(t, kind, k) <=> Abstract!Grantable(kind, A)
  BY AbstractHolders DEF MayRead, Abstract!Grantable

\* No writer can be active when the turn is taken by a thread that waits; the
\* test of current_writers in write_lock adds nothing.
LEMMA WriteLoopGrants ==
  ASSUME IInv, NEW t \in Threads, NEW k, NEW A,
         k = now_serving <=> A = {},
         A = {} => Writers = {}
  PROVE  MayWrite(t, k) <=> Abstract!Grantable(WRITE, A)
<1>1. Writers = {} => current_writers = 0
  BY FS_EmptySet DEF IInv, Exclusion
<1> QED BY <1>1, AbstractHolders DEF MayWrite, Abstract!Grantable

\* What is ahead of a thread that waits, or that is about to take a ticket.
LEMMA AheadFacts ==
  ASSUME IInv
  PROVE  /\ \A t \in Queued : ticket[t] = now_serving <=> aheadBar[t] = {}
         /\ \A t \in Queued : aheadBar[t] = {} => Writers = {}
         /\ \A kind \in {READ, WRITE} : Abstract!Line(kind) = Owners
         /\ \A t \in Threads : aheadBar[t] \subseteq Owners
<1>1. ASSUME NEW t \in Queued
      PROVE  /\ ticket[t] = now_serving <=> aheadBar[t] = {}
             /\ aheadBar[t] = {} => Writers = {}
  <2>1. t \in Threads /\ t \in Owners /\ t \notin Writers
        /\ aheadBar[t] = {s \in Owners : Dist(ticket[s]) < Dist(ticket[t])}
    BY DEF Queued, Owners, Writers, aheadBar
  <2>2. \A s \in Owners : ticket[s] \in Tickets /\ Dist(ticket[s]) \in Nat
    BY LineFacts
  <2>3. ticket[t] = now_serving => Dist(ticket[t]) = 0
    BY <2>1, <2>2, LineFacts
  <2>4. ticket[t] = now_serving <=> aheadBar[t] = {}
    BY <2>1, <2>2, <2>3, LineFacts
  <2>5. ticket[t] = now_serving => Writers = {}
    BY <2>1 DEF IInv, TicketWindow, Owners
  <2> QED BY <2>4, <2>5
<1> QED BY <1>1 DEF Abstract!Line, Owners, Queued, Writers, aheadBar

\* Every step of the ticket lock is a step of the abstract lock or a stutter.
LEMMA RefinementStep ==
  IInv /\ TypeOK' /\ [Next]_vars => [Abstract!Next]_(Abstract!vars)
<1> SUFFICES ASSUME IInv, TypeOK', [Next]_vars
             PROVE  Abstract!Next \/ UNCHANGED Abstract!vars
  OBVIOUS
<1>0. TypeOK /\ Owners \subseteq Threads /\ Queued \subseteq Owners
  BY FiniteHolders DEF IInv, Owners
<1>1. CASE UNCHANGED vars
  BY <1>1, StutterStep DEF vars
<1>2. ASSUME NEW t \in Threads, QuickReadLock(t) PROVE Abstract!Next
  <2>1. Abstract!Line(QUICK) = {} /\ QUICK \in Kinds /\ pc[t] = "idle"
    BY <1>2 DEF Abstract!Line, QuickReadLock
  <2>2. MayRead(t, QUICK, 0) <=> Abstract!Grantable(QUICK, {})
    BY ReadLoopGrants
  <2>3. ticket' = ticket /\ Owners' = Owners /\ now_serving' = now_serving
    BY <1>0, <1>2 DEF QuickReadLock, ReadLoop, CondWait, TypeOK, Owners, Queued,
                      Writers
  <2>4. aheadBar' = aheadBar /\ aheadBar[t] = {}
    BY <1>0, <1>2, <2>1, <2>3
       DEF QuickReadLock, ReadLoop, CondWait, aheadBar, Dist, TypeOK
  <2>5. Abstract!Wait(t, QUICK) \/ Abstract!Enter(t, QUICK)
    BY <1>0, <1>2, <2>1, <2>2, <2>4
       DEF QuickReadLock, ReadLoop, CondWait, Abstract!Wait, Abstract!Enter,
           Abstract!Holding, TypeOK, aheadBar
  <2> QED BY <2>1, <2>5 DEF Abstract!Next
<1>3. ASSUME Owners = {}, Owners' \cap Queued' = {}
      PROVE  aheadBar' = aheadBar
  BY <1>3 DEF aheadBar, Owners, Queued
<1>4. ASSUME NEW t \in Threads, ReadLock(t) PROVE Abstract!Next
  <2>1. Abstract!Line(READ) = Owners /\ READ \in Kinds /\ pc[t] = "idle"
    BY <1>4, AheadFacts DEF ReadLock
  <2>2. MayRead(t, READ, next_ticket) <=> Abstract!Grantable(READ, Owners)
    BY ReadLoopGrants, LineFacts
  <2>3. CASE ~ MayRead(t, READ, next_ticket)
    <3>1. TakeTicket(t) /\ CondWait(t, READ)
      BY <1>4, <2>3 DEF ReadLock, ReadLoop
    <3> QED BY <2>1, <2>2, <2>3, <3>1, LineGetsLonger
            DEF Abstract!Wait, Abstract!Next, CondWait
  <2>4. CASE MayRead(t, READ, next_ticket)
    <3>1. Owners = {} /\ pc' = [pc EXCEPT ![t] = "reading"]
      BY <1>4, <2>2, <2>4 DEF ReadLock, ReadLoop, Abstract!Grantable
    <3>2. Queued' = {}
      BY <1>0, <3>1 DEF Owners, Queued, TypeOK
    <3>3. Abstract!Enter(t, READ)
      BY <1>3, <2>1, <2>2, <2>4, <3>1, <3>2 DEF Abstract!Enter, Abstract!Holding
    <3> QED BY <2>1, <3>3 DEF Abstract!Next
  <2> QED BY <2>3, <2>4
<1>5. ASSUME NEW t \in Threads, WriteLock(t) PROVE Abstract!Next
  <2>1. Abstract!Line(WRITE) = Owners /\ WRITE \in Kinds /\ pc[t] = "idle"
    BY <1>5, AheadFacts DEF WriteLock
  <2>2. MayWrite(t, next_ticket) <=> Abstract!Grantable(WRITE, Owners)
    BY WriteLoopGrants, LineFacts DEF Owners
  <2>3. CASE ~ MayWrite(t, next_ticket)
    <3>1. TakeTicket(t) /\ CondWait(t, WRITE)
      BY <1>5, <2>3 DEF WriteLock, WriteLoop
    <3> QED BY <2>1, <2>2, <2>3, <3>1, LineGetsLonger
            DEF Abstract!Wait, Abstract!Next, CondWait
  <2>4. CASE MayWrite(t, next_ticket)
    <3>1. Owners = {} /\ pc' = [pc EXCEPT ![t] = "writing"]
      BY <1>5, <2>2, <2>4 DEF WriteLock, WriteLoop, Abstract!Grantable
    <3>2. Queued' = {}
      BY <1>0, <3>1 DEF Owners, Queued, TypeOK
    <3>3. Abstract!Enter(t, WRITE)
      BY <1>3, <2>1, <2>2, <2>4, <3>1, <3>2 DEF Abstract!Enter, Abstract!Holding
    <3> QED BY <2>1, <3>3 DEF Abstract!Next
  <2> QED BY <2>3, <2>4
<1>6. ASSUME NEW t \in Threads, Recheck(t)
      PROVE  Abstract!Next \/ UNCHANGED Abstract!vars
  <2>0. ticket' = ticket /\ pc[t] \in {QUICK, READ, WRITE}
    BY <1>6 DEF Recheck, Waiting
  <2>1. ASSUME NEW kind, pc[t] = kind, CondWait(t, kind)
        PROVE  UNCHANGED Abstract!vars
    BY <1>0, <2>0, <2>1, StutterStep DEF CondWait, TypeOK
  <2>2. CASE pc[t] = QUICK
    <3>1. ReadLoop(t, QUICK, ticket[t]) /\ aheadBar[t] = {}
      BY <1>6, <2>2 DEF Recheck, aheadBar
    <3>2. CASE MayRead(t, QUICK, ticket[t])
      <4>1. pc' = [pc EXCEPT ![t] = "reading"] /\ now_serving' = now_serving
        BY <3>1, <3>2 DEF ReadLoop
      <4>2. aheadBar' = aheadBar
        BY <1>0, <2>0, <2>2, <4>1 DEF aheadBar, Owners, Queued, Writers, Dist, TypeOK
      <4>3. Abstract!Grant(t)
        BY <2>2, <3>1, <3>2, <4>1, <4>2, ReadLoopGrants
           DEF Abstract!Grant, Abstract!Holding
      <4> QED BY <4>3 DEF Abstract!Next
    <3> QED BY <2>1, <2>2, <3>1, <3>2 DEF ReadLoop
  <2>3. CASE pc[t] = READ
    <3>1. ReadLoop(t, READ, ticket[t]) /\ t \in Queued /\ t \in Owners
      BY <1>6, <2>3 DEF Recheck, Queued, Owners
    <3>2. CASE MayRead(t, READ, ticket[t])
      <4>1. /\ pc' = [pc EXCEPT ![t] = "reading"]
            /\ now_serving' = Succ(now_serving)
            /\ ticket[t] = now_serving
        BY <3>1, <3>2 DEF ReadLoop, MayRead
      <4>2. Owners' = Owners \ {t}
        BY <1>0, <4>1 DEF Owners, Queued, Writers, TypeOK
      <4>3. aheadBar' = Abstract!Leave(t)
        BY <1>0, <2>0, <3>1, <4>1, <4>2, LineMovesUp DEF TypeOK
      <4>4. Abstract!Grantable(READ, aheadBar[t])
        BY <3>1, <3>2, AheadFacts, ReadLoopGrants
      <4>5. Abstract!Grant(t)
        BY <2>3, <4>1, <4>3, <4>4 DEF Abstract!Grant, Abstract!Holding
      <4> QED BY <4>5 DEF Abstract!Next
    <3> QED BY <2>1, <2>3, <3>1, <3>2 DEF ReadLoop
  <2>4. CASE pc[t] = WRITE
    <3>1. WriteLoop(t, ticket[t]) /\ t \in Queued
      BY <1>6, <2>4 DEF Recheck, Queued
    <3>2. CASE MayWrite(t, ticket[t])
      <4>1. /\ pc' = [pc EXCEPT ![t] = "writing"]
            /\ now_serving' = now_serving
            /\ ticket[t] = now_serving
        BY <3>1, <3>2 DEF WriteLoop, MayWrite
      <4>2. Owners' = Owners
        BY <1>0, <2>4, <4>1 DEF Owners, Queued, Writers, TypeOK
      <4>3. aheadBar[t] = {}
        BY <3>1, <4>1, AheadFacts
      <4>4. aheadBar' = aheadBar
        BY <1>0, <2>0, <4>1, <4>2, <4>3 DEF aheadBar, Dist, TypeOK
      <4>5. Abstract!Grantable(WRITE, aheadBar[t])
        BY <3>1, <3>2, AheadFacts, WriteLoopGrants
      <4>6. Abstract!Grant(t)
        BY <2>4, <4>1, <4>4, <4>5 DEF Abstract!Grant, Abstract!Holding
      <4> QED BY <4>6 DEF Abstract!Next
    <3> QED BY <2>1, <2>4, <3>1, <3>2 DEF WriteLoop
  <2> QED BY <2>0, <2>2, <2>3, <2>4
<1>7. ASSUME NEW t \in Threads, SpuriousWakeup(t) PROVE UNCHANGED Abstract!vars
  BY <1>7, StutterStep DEF SpuriousWakeup
<1>8. ASSUME NEW t \in Threads, ReadUnlock(t) PROVE Abstract!Next
  <2>1. aheadBar' = aheadBar
    BY <1>0, <1>8 DEF ReadUnlock, TypeOK, aheadBar, Owners, Queued, Writers, Dist
  <2> QED BY <1>8, <2>1 DEF ReadUnlock, Abstract!Release, Abstract!Next
<1>9. ASSUME NEW t \in Threads, WriteUnlock(t) PROVE Abstract!Next
  <2>1. /\ t \in Owners /\ ticket[t] = now_serving /\ ticket' = ticket
        /\ now_serving' = Succ(now_serving)
        /\ Owners' = Owners \ {t}
    BY <1>0, <1>9
       DEF WriteUnlock, TypeOK, IInv, TicketWindow, Owners, Queued, Writers
  <2>2. aheadBar' = Abstract!Leave(t)
    BY <1>0, <1>9, <2>1, LineMovesUp DEF WriteUnlock, TypeOK
  <2> QED BY <1>9, <2>2 DEF WriteUnlock, Abstract!Release, Abstract!Next
<1> QED
  BY <1>1, <1>2, <1>4, <1>5, <1>6, <1>7, <1>8, <1>9 DEF Next, Call, Unlock

\* The lock of rwlock.c is the first-come first-served lock with quick reads.
THEOREM Refinement == Spec => ImplementsFifoLock
<1>1. Init => Abstract!Init
  BY DEF Init, Abstract!Init, aheadBar
<1>2. IInv => TypeOK
  BY DEF IInv
<1> QED
  BY <1>1, <1>2, InitIInv, IInvStep, RefinementStep, PTL
     DEF Spec, ImplementsFifoLock, Abstract!Spec
=============================================================================
