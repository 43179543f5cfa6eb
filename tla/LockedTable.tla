---------------------------- MODULE LockedTable ----------------------------
(***************************************************************************)
(* The hash table and the locks of its buckets together: the operations of *)
(* HashTable take their turn in a lock that admits as FifoLock does, which *)
(* RWLockProofs proves of rwlock.c.  HashTable assumes exclusion and       *)
(* no order; RWLock assumes holders that unlock.  Here neither assumes     *)
(* anything of the other.                                                  *)
(***************************************************************************)
EXTENDS Integers, FiniteSets, Sequences

CONSTANTS Threads, Keys, Values, Nodes, hash_size, WordMod, NULL, Freed,
          Calls    \* bound: the calls that the workers make

VARIABLES buckets, bucket_sizes, key, value, next,   \* as in HashTable
          pc, op, node, prev, ret, dst,
          quick,          \* the argument of hash_read
          state, ahead    \* of the lock of each bucket, as in FifoLock

heap == <<buckets, bucket_sizes, key, value, next>>
locals == <<op, prev, ret, dst, quick>>
locks == <<state, ahead>>
vars == <<heap, pc, node, locals, locks>>

LockOf(b) == INSTANCE FifoLock WITH
               Kinds <- {"quick", "read", "write"},
               state <- state[b],
               ahead <- ahead[b]

Buckets == 0 .. hash_size - 1
In(b, hold) == {t \in Threads : state[b][t] = hold}

Table == INSTANCE HashTable WITH
           readers <- [b \in Buckets |-> In(b, "reading")],
           writers <- [b \in Buckets |-> In(b, "writing")]

ASSUME SizesPositive == hash_size \in Nat \ {0} /\ WordMod \in Nat \ {0}
ASSUME Addresses == NULL \notin Nodes /\ Freed \notin Values /\ Freed \notin Keys
ASSUME NullProper == NULL \notin Values \cup Keys \cup {Freed}
ASSUME MemoryFinite == IsFiniteSet(Nodes)
ASSUME KeysAreStrings == Keys \subseteq Seq(Int) /\ Keys # {}
ASSUME CallsKnown == Calls \subseteq Table!Operations

Idx(t) == Table!Idx(t)

\* MUTANT of Kind: hash_delete asks for a shared lock.
KindShared(t) ==
  IF Table!Writes(op[t]) /\ op[t].name # "delete" THEN "write"
  ELSE IF quick[t] THEN "quick" ELSE "read"

\* rwlock_write_lock(&locks[idx]) or rwlock_read_lock(&locks[idx], quick)
Kind(t) == IF Table!Writes(op[t]) THEN "write" ELSE IF quick[t] THEN "quick" ELSE "read"

Init ==
  /\ quick = [t \in Threads |-> FALSE]
  /\ state = [b \in Buckets |-> [t \in Threads |-> "idle"]]
  /\ ahead = [b \in Buckets |-> [t \in Threads |-> {}]]
  /\ Table!Init

Call(t, o) ==
  /\ \E q \in BOOLEAN :
       /\ q => o.name = "read"
       /\ quick' = [quick EXCEPT ![t] = q]
  /\ UNCHANGED locks
  /\ Table!Call(t, o)

-----------------------------------------------------------------------------
(* The lock of the bucket *)

Put(b, t, s, a) ==
  /\ state' = [state EXCEPT ![b][t] = s]
  /\ ahead' = [ahead EXCEPT ![b] = a]

Queue(t) ==
  LET b == Idx(t) line == LockOf(b)!Line(Kind(t)) IN
  /\ pc[t] = "lock" /\ state[b][t] = "idle"
  /\ ~ LockOf(b)!Grantable(Kind(t), line)
  /\ Put(b, t, Kind(t), [ahead[b] EXCEPT ![t] = line])
  /\ UNCHANGED <<heap, pc, node, locals>>

\* The lock is granted, at once or after a wait, and the search starts.
Lock(t) ==
  LET b == Idx(t) waited == state[b][t] # "idle" IN
  /\ pc[t] = "lock"
  /\ LockOf(b)!Grantable(Kind(t), IF waited THEN ahead[b][t]
                                            ELSE LockOf(b)!Line(Kind(t)))
  /\ Put(b, t, LockOf(b)!Holding(Kind(t)),
         IF waited /\ Kind(t) = "read" THEN LockOf(b)!Leave(t) ELSE ahead[b])
  /\ pc' = [pc EXCEPT ![t] = "search"]
  /\ node' = [node EXCEPT ![t] = buckets[b]]
  /\ UNCHANGED <<heap, locals>>

Unlock(t) ==
  LET b == Idx(t) IN
  /\ Put(b, t, "idle", IF Kind(t) = "write" THEN LockOf(b)!Leave(t) ELSE ahead[b])
  /\ UNCHANGED quick
  /\ Table!Unlock(t)

\* What an operation does between its lock and its unlock.
Work(t) ==
  /\ UNCHANGED <<quick, locks>>
  /\ \/ Table!Advance(t) \/ Table!Refuse(t) \/ Table!OutOfMemory(t)
     \/ Table!InsertBuild(t) \/ Table!InsertUndo(t)
     \/ Table!InsertLink(t) \/ Table!InsertPublish(t)
     \/ Table!ReadCopy(t)
     \/ Table!UpdateFree(t) \/ Table!UpdateAssign(t)
     \/ Table!DeleteUnlink(t) \/ Table!DeleteFree(t)

Step(t) == Queue(t) \/ Lock(t) \/ Work(t) \/ Unlock(t)

Next == \E t \in Threads : Step(t) \/ \E o \in Calls : Call(t, o)

Spec == Init /\ [][Next]_vars

\* A worker goes on with a call that it has begun; it may never make one.
FairSpec == Spec /\ \A t \in Threads : WF_vars(Step(t))

-----------------------------------------------------------------------------
(* Properties *)

\* The locks give the table what HashTable assumes: a step of the two together
\* is one of the table under some exclusive lock, for every interleaving of
\* the operations with grants, waits and quick reads that jump the queue.
ImplementsHashTable == Table!Spec

QuickCall == \E t \in Threads : pc[t] = "idle" /\ pc'[t] = "lock" /\ quick'[t]

\* Every insert, update, delete and queued read returns, once no more quick
\* reads come: each walk of a chain ends, each way out of an operation unlocks,
\* and the lock passes on to all who wait for it.
CallsReturn ==
  <>[][~ QuickCall]_vars =>
    \A t \in Threads : (pc[t] # "idle" /\ ~ quick[t]) ~> pc[t] = "idle"
=============================================================================
