-------------------------- MODULE LockedTableProofs --------------------------
(***************************************************************************)
(* The hash table under its locks implements the hash table that assumes   *)
(* exclusion, for every set of workers and calls, every finite memory and  *)
(* every number of buckets.                                                *)
(***************************************************************************)
EXTENDS LockedTable, TLAPS

\* What the map of the table's linearizability shows of a call without a reply.
NoReply == CHOOSE r : r \notin [ret : {-1, 0, 1}, dst : Values \cup {NULL}]

TableProofs == INSTANCE HashTableProofs WITH
                 readers <- [b \in Buckets |-> In(b, "reading")],
                 writers <- [b \in Buckets |-> In(b, "writing")]

LEMMA NoReplyIsNone == NoReply \notin [ret : {-1, 0, 1}, dst : Values \cup {NULL}]
  BY NoSetContainsEverything DEF NoReply

\* Every key has a bucket, hence every operation.
LEMMA IdxInBuckets ==
  ASSUME NEW k \in Keys
  PROVE  Table!hash(k) \in Buckets
<1>1. TableProofs!IsFiniteSet(Nodes)
  BY MemoryFinite DEF IsFiniteSet, TableProofs!IsFiniteSet
<1>2. TableProofs!hash(k) \in TableProofs!Buckets
  BY <1>1, TableProofs!HashRange, SizesPositive, Addresses, KeysAreStrings,
     NullProper, NoReplyIsNone
<1>3. TableProofs!hash(k) = Table!hash(k)
  BY DEF TableProofs!hash, Table!hash
<1> QED BY <1>2, <1>3 DEF TableProofs!Buckets, Buckets

-----------------------------------------------------------------------------
(* One lock.  st and ah are its state and the threads ahead of each.       *)

LockStates == {"idle", "quick", "read", "write", "reading", "writing"}

\* Who waits in line waits for all of those in line before it, a writer that has
\* the lock among them, and a writer is alone.
Fifo(st, ah) ==
  /\ \A t \in Threads : st[t] \notin {"read", "write"} => ah[t] = {}
  /\ \A s, t \in Threads :
       s # t /\ st[s] \in {"read", "write", "writing"} /\ st[t] \in {"read", "write"}
         => s \in ah[t] \/ t \in ah[s]
  /\ \A s, t \in Threads :
       s # t /\ st[s] = "writing" => st[t] \notin {"reading", "writing"}

\* The argument of Grantable: what a request of t waits for.
Before(st, ah, t, kind) ==
  IF st[t] # "idle" THEN ah[t]
  ELSE IF kind = "quick" THEN {}
  ELSE {s \in Threads : st[s] \in {"read", "write", "writing"}}

Hold(kind) == IF kind = "write" THEN "writing" ELSE "reading"

\* t joins the line.
LEMMA FifoQueues ==
  ASSUME NEW st \in [Threads -> LockStates], NEW ah \in [Threads -> SUBSET Threads],
         NEW t \in Threads, NEW kind \in {"quick", "read", "write"},
         Fifo(st, ah), st[t] = "idle"
  PROVE  Fifo([st EXCEPT ![t] = kind], [ah EXCEPT ![t] = Before(st, ah, t, kind)])
  BY DEF Fifo, Before, LockStates

\* The lock is granted to t: nobody ahead and no reader or writer in the way, so
\* that a writer meets nobody and a reader no writer.
LEMMA FifoGrants ==
  ASSUME NEW st \in [Threads -> LockStates], NEW ah \in [Threads -> SUBSET Threads],
         NEW t \in Threads, NEW kind \in {"quick", "read", "write"},
         Fifo(st, ah), st[t] \in {"idle", kind},
         kind = "quick" => \A s \in Threads : st[s] # "writing",
         kind # "quick" => Before(st, ah, t, kind) = {},
         kind = "write" => \A s \in Threads : st[s] # "reading",
         NEW now \in [Threads -> SUBSET Threads],
         now = IF st[t] # "idle" /\ kind = "read"
               THEN [s \in Threads |-> IF s = t THEN {} ELSE ah[s] \ {t}] ELSE ah
  PROVE  /\ Fifo([st EXCEPT ![t] = Hold(kind)], now)
         /\ \A s \in Threads \ {t} : st[s] # "writing"
<1>1. \A s \in Threads \ {t} : st[s] # "writing"
  <2>1. CASE kind = "quick"
    BY <2>1
  <2>2. CASE kind # "quick" /\ st[t] = "idle"
    BY <2>2 DEF Before
  <2>3. CASE kind # "quick" /\ st[t] = kind
    BY <2>3 DEF Before, Fifo
  <2> QED BY <2>1, <2>2, <2>3
<1>2. kind # "quick" => ah[t] = {}
  BY DEF Before, Fifo
<1> DEFINE new == [st EXCEPT ![t] = Hold(kind)]
<1>3. \A s \in Threads : new[s] \notin {"read", "write"} => now[s] = {}
  BY <1>2 DEF Hold, Fifo
<1>4. \A r, s \in Threads :
        r # s /\ new[r] \in {"read", "write", "writing"} /\ new[s] \in {"read", "write"}
          => r \in now[s] \/ s \in now[r]
  <2> SUFFICES ASSUME NEW r \in Threads, NEW s \in Threads, r # s,
                      new[r] \in {"read", "write", "writing"}, new[s] \in {"read", "write"}
               PROVE  r \in now[s] \/ s \in now[r]
    OBVIOUS
  <2>1. s # t /\ st[s] \in {"read", "write"}
    BY DEF Hold
  <2>2. CASE r # t
    BY <2>1, <2>2 DEF Fifo
  <2>3. CASE r = t
    <3>1. kind = "write"
      BY <2>3 DEF Hold
    <3>2. st[t] = "write"
      BY <3>1, <2>1 DEF Before
    <3> QED BY <2>1, <2>3, <3>1, <3>2, <1>2 DEF Fifo
  <2> QED BY <2>2, <2>3
<1>5. \A r, s \in Threads :
        r # s /\ new[r] = "writing" => new[s] \notin {"reading", "writing"}
  BY <1>1 DEF Hold, Fifo
<1> QED BY <1>1, <1>3, <1>4, <1>5 DEF Fifo

\* A holder gives the lock back.
LEMMA FifoReleases ==
  ASSUME NEW st \in [Threads -> LockStates], NEW ah \in [Threads -> SUBSET Threads],
         NEW t \in Threads, Fifo(st, ah), st[t] \in {"reading", "writing"}
  PROVE  /\ st[t] = "writing" =>
              Fifo([st EXCEPT ![t] = "idle"],
                   [s \in Threads |-> IF s = t THEN {} ELSE ah[s] \ {t}])
         /\ st[t] = "reading" => Fifo([st EXCEPT ![t] = "idle"], ah)
  BY DEF Fifo

-----------------------------------------------------------------------------
(* The inductive invariant: what a lock says of a worker is where the      *)
(* worker is.                                                              *)

Labels == {"idle", "lock", "search", "undo", "link", "publish", "assign", "free", "unlock"}

\* What the lock of b may say of t.
Says(b, t) ==
  IF b # Idx(t) \/ pc[t] = "idle" THEN {"idle"}
  ELSE IF pc[t] = "lock" THEN {"idle", Kind(t)}
  ELSE {Hold(Kind(t))}

IInv ==
  /\ pc \in [Threads -> Labels]
  /\ op \in [Threads -> Table!Operations]
  /\ state \in [Buckets -> [Threads -> LockStates]]
  /\ ahead \in [Buckets -> [Threads -> SUBSET Threads]]
  /\ \A b \in Buckets : \A t \in Threads : state[b][t] \in Says(b, t)
  /\ \A b \in Buckets : Fifo(state[b], ahead[b])

LEMMA IdxType ==
  ASSUME op \in [Threads -> Table!Operations], NEW t \in Threads
  PROVE  Idx(t) \in Buckets
<1>1. op[t].key \in Keys
  BY DEF Table!Operations
<1> QED BY <1>1, IdxInBuckets DEF Idx, Table!Idx

LEMMA KindType == \A t : Kind(t) \in {"quick", "read", "write"}
  BY DEF Kind

LEMMA InitInv == Init => IInv
<1> SUFFICES ASSUME Init PROVE IInv
  OBVIOUS
<1>1. op \in [Threads -> Table!Operations]
  <2>1. PICK k \in Keys : TRUE
    BY KeysAreStrings
  <2>2. [name |-> "read", key |-> k] \in Table!Operations
    BY DEF Table!Operations
  <2>3. (CHOOSE o \in Table!Operations : o.name = "read") \in Table!Operations
    BY <2>2
  <2> QED BY <2>3 DEF Init, Table!Init
<1>2. pc = [t \in Threads |-> "idle"]
  BY DEF Init, Table!Init
<1> QED BY <1>1, <1>2 DEF Init, IInv, Labels, LockStates, Says, Fifo

\* A step that only t takes and that leaves the lock of its bucket in a fitting state.
LEMMA OneMoves ==
  ASSUME IInv, NEW t \in Threads, NEW b \in Buckets, NEW l \in Labels,
         NEW s \in LockStates, NEW a \in [Threads -> SUBSET Threads],
         b = Idx(t), pc' = [pc EXCEPT ![t] = l], Put(b, t, s, a),
         UNCHANGED <<op, quick>>,
         Fifo([state[b] EXCEPT ![t] = s], a),
         s \in IF l = "idle" THEN {"idle"}
               ELSE IF l = "lock" THEN {"idle", Kind(t)} ELSE {Hold(Kind(t))}
  PROVE  IInv'
<1>1. /\ pc' \in [Threads -> Labels]
      /\ state' \in [Buckets -> [Threads -> LockStates]]
      /\ ahead' \in [Buckets -> [Threads -> SUBSET Threads]]
      /\ state'[b] = [state[b] EXCEPT ![t] = s] /\ ahead'[b] = a
      /\ \A d \in Buckets \ {b} : state'[d] = state[d] /\ ahead'[d] = ahead[d]
  BY DEF IInv, Put
<1>2. \A u : Idx(u)' = Idx(u) /\ Kind(u)' = Kind(u)
  BY DEF Idx, Table!Idx, Kind
<1>3. \A d \in Buckets : \A u \in Threads : state'[d][u] \in Says(d, u)'
  <2> SUFFICES ASSUME NEW d \in Buckets, NEW u \in Threads
               PROVE  state'[d][u] \in Says(d, u)'
    OBVIOUS
  <2>1. CASE d = b /\ u = t
    <3>1. state'[d][u] = s /\ pc'[u] = l
      BY <1>1, <2>1 DEF IInv
    <3> QED BY <2>1, <3>1, <1>2 DEF Says
  <2>2. CASE ~ (d = b /\ u = t)
    <3>1. state'[d][u] = state[d][u]
      BY <1>1, <2>2 DEF IInv
    <3>2. CASE u # t
      BY <3>1, <3>2, <1>2 DEF Says, IInv
    <3>3. CASE u = t
      BY <2>2, <3>1, <3>3, <1>2 DEF Says, IInv
    <3> QED BY <3>2, <3>3
  <2> QED BY <2>1, <2>2
<1>4. \A d \in Buckets : Fifo(state[d], ahead[d])'
  <2>1. \A d \in Buckets : Fifo(state'[d], ahead'[d])
    BY <1>1 DEF IInv
  <2> QED BY <2>1
<1> QED BY <1>1, <1>3, <1>4 DEF IInv

LEMMA LockSide ==
  ASSUME IInv, NEW t \in Threads, NEW b \in Buckets, b = Idx(t), pc[t] = "lock"
  PROVE  /\ Before(state[b], ahead[b], t, Kind(t)) =
              IF state[b][t] # "idle" THEN ahead[b][t] ELSE LockOf(b)!Line(Kind(t))
         /\ Kind(t) \in {"quick", "read", "write"}
         /\ state[b][t] \in {"idle", Kind(t)}
         /\ state[b] \in [Threads -> LockStates]
         /\ ahead[b] \in [Threads -> SUBSET Threads]
         /\ Fifo(state[b], ahead[b])
  BY KindType DEF IInv, Says, Before, LockOf!Line

\* A grant is a Lock of the table: nobody else has the lock as a writer and, if t
\* asks to write, nobody as a reader.
LEMMA LockStep ==
  ASSUME IInv, NEW t \in Threads, Lock(t)
  PROVE  IInv' /\ Table!Lock(t)
<1> DEFINE b == Idx(t)
           now == IF state[b][t] # "idle" /\ Kind(t) = "read"
                  THEN [s \in Threads |-> IF s = t THEN {} ELSE ahead[b][s] \ {t}]
                  ELSE ahead[b]
<1>1. b \in Buckets
  BY IdxType DEF IInv
<1>2. /\ pc[t] = "lock" /\ pc' = [pc EXCEPT ![t] = "search"]
      /\ node' = [node EXCEPT ![t] = buckets[b]]
      /\ Put(b, t, Hold(Kind(t)), now)
      /\ UNCHANGED <<heap, op, prev, ret, dst, quick>>
  BY DEF Lock, Hold, LockOf!Holding, LockOf!Leave, locals
<1>3. /\ Kind(t) = "quick" => \A s \in Threads : state[b][s] # "writing"
      /\ Kind(t) # "quick" => Before(state[b], ahead[b], t, Kind(t)) = {}
      /\ Kind(t) = "write" => \A s \in Threads : state[b][s] # "reading"
  BY <1>1, <1>2, LockSide DEF Lock, LockOf!Grantable, LockOf!NoWriter, LockOf!NoReader
<1>4. now \in [Threads -> SUBSET Threads]
  BY <1>1 DEF IInv
<1> HIDE DEF b, now
<1>5. /\ Fifo([state[b] EXCEPT ![t] = Hold(Kind(t))], now)
      /\ \A s \in Threads \ {t} : state[b][s] # "writing"
  <2>1. /\ Kind(t) \in {"quick", "read", "write"}
        /\ state[b][t] \in {"idle", Kind(t)}
        /\ state[b] \in [Threads -> LockStates]
        /\ ahead[b] \in [Threads -> SUBSET Threads]
        /\ Fifo(state[b], ahead[b])
    BY <1>1, <1>2, LockSide DEF b
  <2>2. now = IF state[b][t] # "idle" /\ Kind(t) = "read"
              THEN [s \in Threads |-> IF s = t THEN {} ELSE ahead[b][s] \ {t}]
              ELSE ahead[b]
    BY DEF now
  <2>3. /\ Kind(t) = "quick" => \A s \in Threads : state[b][s] # "writing"
        /\ Kind(t) # "quick" => Before(state[b], ahead[b], t, Kind(t)) = {}
        /\ Kind(t) = "write" => \A s \in Threads : state[b][s] # "reading"
    BY <1>3 DEF b
  <2> QED BY <1>4, <2>1, <2>2, <2>3, FifoGrants
<1>6. IInv'
  <2>1. Hold(Kind(t)) \in LockStates /\ "search" \in Labels
    BY DEF Hold, LockStates, Labels
  <2> QED BY <1>1, <1>2, <1>4, <1>5, <2>1, OneMoves DEF b
<1>7. Table!Lock(t)
  <2>1. state[b][t] \notin {"reading", "writing"}
    BY <1>1, <1>2, LockSide DEF b
  <2>2. In(b, "writing") = {}
    BY <1>5, <2>1 DEF In
  <2>3. Kind(t) = "write" => In(b, "reading") = {}
    BY <1>3 DEF In, b
  <2>4. Kind(t) = "write" <=> Table!Writes(op[t])
    BY DEF Kind
  <2>5. \A d \in Buckets, hold \in {"reading", "writing"} :
          In(d, hold)' = IF d = b /\ hold = Hold(Kind(t))
                         THEN In(d, hold) \cup {t} ELSE In(d, hold)
    BY <1>1, <1>2, <2>1 DEF In, Put, IInv
  <2>6. [d \in Buckets |-> In(d, "reading")]' =
          IF Table!Writes(op[t]) THEN [d \in Buckets |-> In(d, "reading")]
          ELSE [[d \in Buckets |-> In(d, "reading")] EXCEPT ![b] = @ \cup {t}]
    BY <1>1, <2>4, <2>5 DEF Hold
  <2>7. [d \in Buckets |-> In(d, "writing")]' =
          IF Table!Writes(op[t])
          THEN [[d \in Buckets |-> In(d, "writing")] EXCEPT ![b] = {t}]
          ELSE [d \in Buckets |-> In(d, "writing")]
    BY <1>1, <2>2, <2>4, <2>5 DEF Hold
  <2>8. Table!Idx(t) = b
    BY DEF Idx, b
  <2> QED BY <1>1, <1>2, <2>2, <2>3, <2>4, <2>6, <2>7, <2>8
          DEF Table!Lock, Table!heap, heap, b
<1> QED BY <1>6, <1>7

\* A worker that waits changes the lock only.
LEMMA QueueStep ==
  ASSUME IInv, NEW t \in Threads, Queue(t)
  PROVE  IInv' /\ UNCHANGED Table!vars
<1> DEFINE b == Idx(t)
           now == [ahead[b] EXCEPT ![t] = Before(state[b], ahead[b], t, Kind(t))]
<1>1. b \in Buckets
  BY IdxType DEF IInv
<1>2. /\ pc[t] = "lock" /\ state[b][t] = "idle"
      /\ Before(state[b], ahead[b], t, Kind(t)) = LockOf(b)!Line(Kind(t))
      /\ Kind(t) \in {"quick", "read", "write"} /\ Kind(t) \in LockStates
      /\ state[b] \in [Threads -> LockStates]
      /\ ahead[b] \in [Threads -> SUBSET Threads]
      /\ Fifo(state[b], ahead[b])
  BY <1>1, LockSide DEF Queue, LockStates
<1>3. Put(b, t, Kind(t), now) /\ UNCHANGED <<heap, pc, node, locals>>
  BY <1>2 DEF Queue
<1>4. now \in [Threads -> SUBSET Threads]
  BY <1>2 DEF Before
<1>5. Fifo([state[b] EXCEPT ![t] = Kind(t)], now)
  BY <1>2, FifoQueues
<1>6. pc' = [pc EXCEPT ![t] = "lock"] /\ "lock" \in Labels
  BY <1>2, <1>3 DEF IInv, Labels
<1> HIDE DEF b, now
<1>7. IInv'
  BY <1>1, <1>2, <1>3, <1>4, <1>5, <1>6, OneMoves DEF b, locals
<1>8. \A d \in Buckets, hold \in {"reading", "writing"} : In(d, hold)' = In(d, hold)
  <2>1. Kind(t) \notin {"reading", "writing"}
    BY <1>2
  <2> QED BY <1>1, <1>2, <1>3, <2>1 DEF In, Put, IInv
<1>9. UNCHANGED Table!vars
  BY <1>3, <1>8 DEF Table!vars, Table!heap, Table!locks, heap, locals
<1> QED BY <1>7, <1>9

\* Between its lock and its unlock a worker keeps the lock.
LEMMA WorkStep ==
  ASSUME IInv, NEW t \in Threads, Work(t)
  PROVE  IInv' /\ Table!Step(t)
<1>1. UNCHANGED <<quick, state, ahead, op>>
  BY DEF Work, locks, Table!Advance, Table!Refuse, Table!OutOfMemory,
         Table!InsertBuild, Table!InsertUndo, Table!InsertLink, Table!InsertPublish,
         Table!ReadCopy, Table!UpdateFree, Table!UpdateAssign, Table!DeleteUnlink,
         Table!DeleteFree
<1>2. pc[t] \notin {"idle", "lock"}
  BY DEF Work, Table!Advance, Table!Refuse, Table!OutOfMemory, Table!In,
         Table!InsertBuild, Table!InsertUndo, Table!InsertLink, Table!InsertPublish,
         Table!ReadCopy, Table!UpdateFree, Table!UpdateAssign, Table!DeleteUnlink,
         Table!DeleteFree
<1>3. \/ UNCHANGED pc
      \/ \E l \in Labels \ {"idle", "lock"} : pc' = [pc EXCEPT ![t] = l]
  BY DEF Labels, Work, Table!Advance, Table!Refuse, Table!OutOfMemory, Table!Return,
         Table!InsertBuild, Table!InsertUndo, Table!InsertLink, Table!InsertPublish,
         Table!ReadCopy, Table!UpdateFree, Table!UpdateAssign, Table!DeleteUnlink,
         Table!DeleteFree
<1>4. /\ pc' \in [Threads -> Labels] /\ pc'[t] \notin {"idle", "lock"}
      /\ \A u \in Threads \ {t} : pc'[u] = pc[u]
  BY <1>2, <1>3 DEF IInv
<1>5. \A b \in Buckets : \A u \in Threads : Says(b, u)' = Says(b, u)
  BY <1>1, <1>2, <1>4 DEF Says, Idx, Table!Idx, Kind
<1>6. \A b \in Buckets : Fifo(state[b], ahead[b])'
  BY <1>1 DEF IInv
<1>7. IInv'
  BY <1>1, <1>4, <1>5, <1>6 DEF IInv
<1>8. Table!Step(t)
  BY DEF Work, Table!Step
<1> QED BY <1>7, <1>8

LEMMA UnlockStep ==
  ASSUME IInv, NEW t \in Threads, Unlock(t)
  PROVE  IInv' /\ Table!Step(t)
<1> DEFINE b == Idx(t)
           now == IF Kind(t) = "write"
                  THEN [s \in Threads |-> IF s = t THEN {} ELSE ahead[b][s] \ {t}]
                  ELSE ahead[b]
<1>1. b \in Buckets
  BY IdxType DEF IInv
<1>2. /\ pc[t] = "unlock" /\ pc' = [pc EXCEPT ![t] = "idle"]
      /\ Put(b, t, "idle", now) /\ UNCHANGED <<op, quick>>
  BY DEF Unlock, Table!Unlock, LockOf!Leave
<1>3. /\ state[b] \in [Threads -> LockStates] /\ ahead[b] \in [Threads -> SUBSET Threads]
      /\ Fifo(state[b], ahead[b]) /\ state[b][t] = Hold(Kind(t))
  BY <1>1, <1>2 DEF IInv, Says
<1>4. now \in [Threads -> SUBSET Threads]
  BY <1>3
<1>5. Fifo([state[b] EXCEPT ![t] = "idle"], now)
  BY <1>3, FifoReleases DEF Hold
<1>6. "idle" \in LockStates /\ "idle" \in Labels
  BY DEF LockStates, Labels
<1> HIDE DEF b, now
<1>7. IInv'
  BY <1>1, <1>2, <1>4, <1>5, <1>6, OneMoves DEF b
<1>8. Table!Step(t)
  BY DEF Unlock, Table!Step
<1> QED BY <1>7, <1>8

LEMMA CallStep ==
  ASSUME IInv, NEW t \in Threads, NEW o \in Calls, Call(t, o)
  PROVE  IInv' /\ o \in Table!Operations /\ Table!Call(t, o)
<1>1. o \in Table!Operations /\ Table!Call(t, o) /\ UNCHANGED <<state, ahead>>
  BY CallsKnown DEF Call, locks
<1>2. /\ pc[t] = "idle" /\ pc' = [pc EXCEPT ![t] = "lock"] /\ op' = [op EXCEPT ![t] = o]
      /\ \E q \in BOOLEAN : quick' = [quick EXCEPT ![t] = q]
  BY DEF Call, Table!Call
<1>3. pc' \in [Threads -> Labels] /\ op' \in [Threads -> Table!Operations]
  BY <1>1, <1>2 DEF IInv, Labels
<1>4. \A u \in Threads \ {t} : \A b \in Buckets : Says(b, u)' = Says(b, u)
  BY <1>2 DEF Says, Idx, Table!Idx, Kind, IInv
<1>5. \A b \in Buckets : state[b][t] = "idle" /\ "idle" \in Says(b, t)'
  BY <1>2 DEF Says, IInv
<1>6. \A b \in Buckets : Fifo(state[b], ahead[b])'
  BY <1>1 DEF IInv
<1>7. \A b \in Buckets : \A u \in Threads : state'[b][u] \in Says(b, u)'
  BY <1>1, <1>4, <1>5 DEF IInv
<1>8. IInv'
  BY <1>1, <1>3, <1>6, <1>7 DEF IInv
<1> QED BY <1>1, <1>8

\* Every step of the two together is one of the table, or one of the lock alone.
LEMMA NextStep ==
  ASSUME IInv, [Next]_vars
  PROVE  IInv' /\ [Table!Next]_(Table!vars)
<1>1. ASSUME NEW t \in Threads, Step(t)
      PROVE  IInv' /\ [Table!Next]_(Table!vars)
  BY <1>1, QueueStep, LockStep, WorkStep, UnlockStep
  DEF Step, Table!Next, Table!Step
<1>2. ASSUME NEW t \in Threads, NEW o \in Calls, Call(t, o)
      PROVE  IInv' /\ [Table!Next]_(Table!vars)
  BY <1>2, CallStep DEF Table!Next
<1>3. CASE UNCHANGED vars
  <2>1. IInv'
    <3>1. \A b \in Buckets : \A t \in Threads : Says(b, t)' = Says(b, t)
      BY <1>3 DEF vars, locals, Says, Idx, Table!Idx, Kind
    <3>2. \A b \in Buckets : Fifo(state[b], ahead[b])'
      BY <1>3 DEF vars, locks, IInv
    <3> QED BY <1>3, <3>1, <3>2 DEF vars, locals, locks, IInv
  <2>2. UNCHANGED Table!vars
    BY <1>3 DEF vars, heap, locals, locks, In, Table!vars, Table!heap, Table!locks
  <2> QED BY <2>1, <2>2
<1> QED BY <1>1, <1>2, <1>3 DEF Next

-----------------------------------------------------------------------------
(* The theorems                                                            *)

THEOREM Invariance == Spec => []IInv
<1>1. IInv /\ [Next]_vars => IInv'
  BY NextStep
<1> QED BY InitInv, <1>1, PTL DEF Spec

\* The locks of the buckets give the table the exclusion that its specification
\* assumes, over every interleaving of waits, grants and quick reads: for every set
\* of workers and calls.
THEOREM LocksSuffice == Spec => ImplementsHashTable
<1>1. Init => Table!Init
  BY DEF Init
<1>2. IInv /\ [Next]_vars => [Table!Next]_(Table!vars)
  BY NextStep
<1> QED BY <1>1, <1>2, Invariance, PTL DEF Spec, ImplementsHashTable, Table!Spec

\* The two instances of the table have one specification.
LEMMA OneTable == Table!Spec => TableProofs!Spec
<1>1. (Table!Init <=> TableProofs!Init) /\ (Table!Next <=> TableProofs!Next)
      /\ Table!vars = TableProofs!vars
  BY
  DEF Table!Writes, TableProofs!Writes, Table!Idx, TableProofs!Idx, Table!Init,
      TableProofs!Init, Table!Call, TableProofs!Call, Table!Lock, TableProofs!Lock,
      Table!Return, TableProofs!Return, Table!Unlock, TableProofs!Unlock, Table!AtKey,
      TableProofs!AtKey, Table!AtEnd, TableProofs!AtEnd, Table!In, TableProofs!In,
      Table!Advance, TableProofs!Advance, Table!Refuse, TableProofs!Refuse,
      Table!OutOfMemory, TableProofs!OutOfMemory, Table!InsertBuild,
      TableProofs!InsertBuild, Table!InsertUndo, TableProofs!InsertUndo,
      Table!InsertLink, TableProofs!InsertLink,
      Table!InsertPublish, TableProofs!InsertPublish, Table!ReadCopy,
      TableProofs!ReadCopy, Table!UpdateFree, TableProofs!UpdateFree,
      Table!UpdateAssign, TableProofs!UpdateAssign, Table!Unlink, TableProofs!Unlink,
      Table!DeleteUnlink, TableProofs!DeleteUnlink, Table!DeleteFree,
      TableProofs!DeleteFree, Table!Step, TableProofs!Step, Table!Next,
      TableProofs!Next, Table!Operations, TableProofs!Operations, Table!Buckets,
      TableProofs!Buckets, Table!hash, TableProofs!hash, Table!heap, TableProofs!heap,
      Table!locks, TableProofs!locks, Table!vars, TableProofs!vars
<1>2. [Table!Next]_(Table!vars) <=> [TableProofs!Next]_(TableProofs!vars)
  BY <1>1 DEF Table!vars, TableProofs!vars, Table!heap, TableProofs!heap,
              Table!locks, TableProofs!locks
<1> QED BY <1>1, <1>2, PTL DEF Table!Spec, TableProofs!Spec

\* What HashTableProofs proves of the table under an assumed exclusion holds of the
\* table with the locks that rwlock.c provides.
THEOREM TableUnderLocks ==
  Spec => [](Table!ChainsSound /\ Table!NoStaleNode /\ Table!NoLeak)
<1>1. TableProofs!IsFiniteSet(Nodes)
  BY MemoryFinite DEF IsFiniteSet, TableProofs!IsFiniteSet
<1>2. TableProofs!Spec => [](TableProofs!ChainsSound)
  BY <1>1, TableProofs!ChainsAreSound, SizesPositive, Addresses, KeysAreStrings,
     NullProper, NoReplyIsNone
<1>3. TableProofs!Spec => [](TableProofs!NoStaleNode)
  BY <1>1, TableProofs!NodesStayFresh, SizesPositive, Addresses, KeysAreStrings,
     NullProper, NoReplyIsNone
<1>4. TableProofs!Spec => [](TableProofs!NoLeak)
  BY <1>1, TableProofs!NothingLeaks, SizesPositive, Addresses, KeysAreStrings,
     NullProper, NoReplyIsNone
<1>5. /\ TableProofs!ChainsSound <=> Table!ChainsSound
      /\ TableProofs!NoStaleNode <=> Table!NoStaleNode
      /\ TableProofs!NoLeak <=> Table!NoLeak
  BY
  DEF Table!Cardinality, TableProofs!Cardinality, Table!IsFiniteSet,
      TableProofs!IsFiniteSet, Table!ChainsSound, TableProofs!ChainsSound, Table!NoStaleNode,
      TableProofs!NoStaleNode, Table!NoLeak, TableProofs!NoLeak, Table!TypeOK,
      TableProofs!TypeOK, Table!Walk, TableProofs!Walk, Table!Chain,
      TableProofs!Chain, Table!Buckets, TableProofs!Buckets, Table!Operations,
      TableProofs!Operations, Table!hash, TableProofs!hash, Table!Idx,
      TableProofs!Idx, Table!AtKey, TableProofs!AtKey
<1> QED BY <1>2, <1>3, <1>4, <1>5, OneTable, LocksSuffice, PTL DEF ImplementsHashTable

\* And it is linearizable: to the workers, the table with its locks is an atomic map.
THEOREM LinearizableUnderLocks == Spec => TableProofs!Linearizable
<1>1. TableProofs!IsFiniteSet(Nodes)
  BY MemoryFinite DEF IsFiniteSet, TableProofs!IsFiniteSet
<1>2. TableProofs!Spec => TableProofs!Linearizable
  BY <1>1, TableProofs!TableLinearizable, SizesPositive, Addresses, KeysAreStrings,
     NullProper, NoReplyIsNone
<1> QED BY <1>2, OneTable, LocksSuffice, PTL DEF ImplementsHashTable
=============================================================================
