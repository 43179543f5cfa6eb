----------------------------- MODULE HashTable -----------------------------
(***************************************************************************)
(* The chained hash table of lab 5 (hashtable.c): hash_insert, hash_read,  *)
(* hash_update and hash_delete run by several workers, one pointer access  *)
(* at a time, each bucket under its own read-write lock.  Of the lock the  *)
(* model keeps what RWLockProofs proves of rwlock.c, shared reads and      *)
(* exclusive writes; the order of admission does not matter here.          *)
(* Memory is a set of nodes, each with its key and its value; calloc and   *)
(* strdup may fail, and what is freed is unreadable (Freed) until a later  *)
(* calloc reuses the node.                                                 *)
(***************************************************************************)
EXTENDS Integers, FiniteSets, Sequences

CONSTANTS Threads,    \* the workers
          Keys,       \* sequences of character codes
          Values,
          Nodes,      \* the addresses calloc can return
          hash_size,
          WordMod,    \* 2^w for the w-bit unsigned int of hash()
          NULL, Freed

ASSUME SizesPositive == hash_size \in Nat \ {0} /\ WordMod \in Nat \ {0}
ASSUME Addresses == NULL \notin Nodes /\ Freed \notin Values /\ Freed \notin Keys
ASSUME NullProper == NULL \notin Values \cup Keys \cup {Freed}
ASSUME MemoryFinite == IsFiniteSet(Nodes)
ASSUME KeysAreStrings == Keys \subseteq Seq(Int) /\ Keys # {}

VARIABLES buckets, bucket_sizes,   \* hashtable_t
          key, value, next,        \* the fields of every node
          readers, writers,        \* who holds the lock of a bucket
          pc, op, node, prev, ret, dst   \* the threads and their locals

heap == <<key, value, next>>
locks == <<readers, writers>>
vars == <<buckets, bucket_sizes, heap, locks, pc, op, node, prev, ret, dst>>

Buckets == 0 .. hash_size - 1

\* hash = (hash << 5) + *key++ in unsigned arithmetic, then % hash_size.
hash(k) ==
  LET h[i \in 0 .. Len(k)] ==
        IF i = 0 THEN 0 ELSE (h[i - 1] * 32 + k[i]) % WordMod
  IN h[Len(k)] % hash_size

Operations ==
  [name : {"insert", "update"}, key : Keys, value : Values]
    \cup [name : {"read", "delete"}, key : Keys]

\* MUTANTS of Writes: an operation that takes the lock for reading only.
WritesNotInsert(o) == o.name \in {"update", "delete"}
WritesNotUpdate(o) == o.name \in {"insert", "delete"}
WritesNotDelete(o) == o.name \in {"insert", "update"}

Writes(o) == o.name # "read"

Idx(t) == hash(op[t].key)

Init ==
  /\ buckets = [b \in Buckets |-> NULL]
  /\ bucket_sizes = [b \in Buckets |-> 0]
  /\ key = [n \in Nodes |-> Freed]
  /\ value = [n \in Nodes |-> Freed]
  /\ next = [n \in Nodes |-> NULL]
  /\ readers = [b \in Buckets |-> {}]
  /\ writers = [b \in Buckets |-> {}]
  /\ pc = [t \in Threads |-> "idle"]
  /\ op \in [Threads -> {CHOOSE o \in Operations : o.name = "read"}]
  /\ node = [t \in Threads |-> NULL]
  /\ prev = [t \in Threads |-> NULL]
  /\ ret = [t \in Threads |-> 0]
  /\ dst = [t \in Threads |-> NULL]

-----------------------------------------------------------------------------
(* Entering and leaving: the lock of the bucket is taken before the first  *)
(* node is read and released on every way out.                             *)

Call(t, o) ==
  /\ pc[t] = "idle"
  /\ pc' = [pc EXCEPT ![t] = "lock"]
  /\ op' = [op EXCEPT ![t] = o]
  /\ UNCHANGED <<buckets, bucket_sizes, heap, locks, node, prev, ret, dst>>

Lock(t) ==
  LET b == Idx(t) IN
  /\ pc[t] = "lock"
  /\ writers[b] = {}
  /\ IF Writes(op[t])
     THEN /\ readers[b] = {}
          /\ writers' = [writers EXCEPT ![b] = {t}]
          /\ UNCHANGED readers
     ELSE /\ readers' = [readers EXCEPT ![b] = @ \cup {t}]
          /\ UNCHANGED writers
  /\ pc' = [pc EXCEPT ![t] = "search"]
  /\ node' = [node EXCEPT ![t] = buckets[b]]
  /\ UNCHANGED <<buckets, bucket_sizes, heap, op, prev, ret, dst>>

\* Set the return value; what is left is the unlock.
Return(t, r) ==
  /\ ret' = [ret EXCEPT ![t] = r]
  /\ pc' = [pc EXCEPT ![t] = "unlock"]

Unlock(t) ==
  LET b == Idx(t) IN
  /\ pc[t] = "unlock"
  /\ readers' = [readers EXCEPT ![b] = @ \ {t}]
  /\ writers' = [writers EXCEPT ![b] = @ \ {t}]
  /\ pc' = [pc EXCEPT ![t] = "idle"]
  /\ node' = [node EXCEPT ![t] = NULL]
  /\ prev' = [prev EXCEPT ![t] = NULL]
  /\ ret' = [ret EXCEPT ![t] = 0]
  /\ dst' = [dst EXCEPT ![t] = NULL]
  /\ UNCHANGED <<buckets, bucket_sizes, heap, op>>

-----------------------------------------------------------------------------
(* The search loop common to the four operations *)

AtKey(t) == node[t] # NULL /\ key[node[t]] = op[t].key
AtEnd(t) == node[t] = NULL
In(t, name) == pc[t] = "search" /\ op[t].name = name

Advance(t) ==
  /\ pc[t] = "search" /\ ~ AtEnd(t) /\ ~ AtKey(t)
  /\ node' = [node EXCEPT ![t] = next[node[t]]]
  /\ prev' = IF op[t].name = "delete" THEN [prev EXCEPT ![t] = node[t]] ELSE prev
  /\ UNCHANGED <<buckets, bucket_sizes, heap, locks, pc, op, ret, dst>>

\* MUTANT of Refuse: it returns without the unlock.
RefuseLocked(t) ==
  /\ pc[t] = "search"
  /\ IF op[t].name = "insert" THEN AtKey(t) ELSE AtEnd(t)
  /\ pc' = [pc EXCEPT ![t] = "idle"]
  /\ UNCHANGED <<buckets, bucket_sizes, heap, locks, op, node, prev, ret, dst>>

\* 0: the key exists already (insert), or there is no such key (the others).
Refuse(t) ==
  /\ pc[t] = "search"
  /\ IF op[t].name = "insert" THEN AtKey(t) ELSE AtEnd(t)
  /\ Return(t, 0)
  /\ UNCHANGED <<buckets, bucket_sizes, heap, locks, op, node, prev, dst>>

\* -1: calloc in hash_insert or strdup in hash_update returned NULL.
OutOfMemory(t) ==
  /\ \/ In(t, "insert") /\ AtEnd(t)
     \/ In(t, "update") /\ AtKey(t)
  /\ Return(t, -1)
  /\ UNCHANGED <<buckets, bucket_sizes, heap, locks, op, node, prev, dst>>

-----------------------------------------------------------------------------
(* hash_insert *)

\* calloc returned a node; each strdup made a copy or returned NULL.
InsertBuild(t) ==
  /\ In(t, "insert") /\ AtEnd(t)
  /\ \E n \in {m \in Nodes : key[m] = Freed},
        k \in {op[t].key, NULL}, v \in {op[t].value, NULL} :
       /\ key' = [key EXCEPT ![n] = k]
       /\ value' = [value EXCEPT ![n] = v]
       /\ next' = [next EXCEPT ![n] = NULL]
       /\ node' = [node EXCEPT ![t] = n]
       /\ pc' = [pc EXCEPT ![t] = IF NULL \in {k, v} THEN "undo" ELSE "link"]
  /\ UNCHANGED <<buckets, bucket_sizes, locks, op, prev, ret, dst>>

\* MUTANT of InsertUndo: the node and the key are freed, the value is not.
InsertUndoNode(t) ==
  /\ pc[t] = "undo"
  /\ key' = [key EXCEPT ![node[t]] = Freed]
  /\ value' = [value EXCEPT ![node[t]] = IF @ = NULL THEN Freed ELSE @]
  /\ Return(t, -1)
  /\ UNCHANGED <<buckets, bucket_sizes, next, locks, op, node, prev, dst>>

\* -1: a strdup returned NULL; the copy of the other and the node are freed.
InsertUndo(t) ==
  /\ pc[t] = "undo"
  /\ key' = [key EXCEPT ![node[t]] = Freed]
  /\ value' = [value EXCEPT ![node[t]] = Freed]
  /\ Return(t, -1)
  /\ UNCHANGED <<buckets, bucket_sizes, next, locks, op, node, prev, dst>>

InsertLink(t) ==
  /\ pc[t] = "link"
  /\ next' = [next EXCEPT ![node[t]] = buckets[Idx(t)]]
  /\ pc' = [pc EXCEPT ![t] = "publish"]
  /\ UNCHANGED <<buckets, bucket_sizes, key, value, locks, op, node, prev, ret, dst>>

InsertPublish(t) ==
  LET b == Idx(t) IN
  /\ pc[t] = "publish"
  /\ buckets' = [buckets EXCEPT ![b] = node[t]]
  /\ bucket_sizes' = [bucket_sizes EXCEPT ![b] = @ + 1]
  /\ Return(t, 1)
  /\ UNCHANGED <<heap, locks, op, node, prev, dst>>

-----------------------------------------------------------------------------
(* hash_read *)

ReadCopy(t) ==
  /\ In(t, "read") /\ AtKey(t)
  /\ dst' = [dst EXCEPT ![t] = value[node[t]]]
  /\ Return(t, 1)
  /\ UNCHANGED <<buckets, bucket_sizes, heap, locks, op, node, prev>>

-----------------------------------------------------------------------------
(* hash_update: between the free and the assignment the node has no value. *)

UpdateFree(t) ==
  /\ In(t, "update") /\ AtKey(t)
  /\ value' = [value EXCEPT ![node[t]] = Freed]
  /\ pc' = [pc EXCEPT ![t] = "assign"]
  /\ UNCHANGED <<buckets, bucket_sizes, key, next, locks, op, node, prev, ret, dst>>

UpdateAssign(t) ==
  /\ pc[t] = "assign"
  /\ value' = [value EXCEPT ![node[t]] = op[t].value]
  /\ Return(t, 1)
  /\ UNCHANGED <<buckets, bucket_sizes, key, next, locks, op, node, prev, dst>>

-----------------------------------------------------------------------------
(* hash_delete *)

\* MUTANT of Unlink: every node is unlinked as if it were the first.
UnlinkHead(t) ==
  /\ buckets' = [buckets EXCEPT ![Idx(t)] = next[node[t]]]
  /\ UNCHANGED next

Unlink(t) ==
  LET b == Idx(t) after == next[node[t]] IN
  IF prev[t] # NULL
  THEN /\ next' = [next EXCEPT ![prev[t]] = after]
       /\ UNCHANGED buckets
  ELSE /\ buckets' = [buckets EXCEPT ![b] = after]
       /\ UNCHANGED next

DeleteUnlink(t) ==
  /\ In(t, "delete") /\ AtKey(t)
  /\ Unlink(t)
  /\ bucket_sizes' = [bucket_sizes EXCEPT ![Idx(t)] = @ - 1]
  /\ pc' = [pc EXCEPT ![t] = "free"]
  /\ UNCHANGED <<key, value, locks, op, node, prev, ret, dst>>

DeleteFree(t) ==
  /\ pc[t] = "free"
  /\ key' = [key EXCEPT ![node[t]] = Freed]
  /\ value' = [value EXCEPT ![node[t]] = Freed]
  /\ next' = [next EXCEPT ![node[t]] = NULL]
  /\ Return(t, 1)
  /\ UNCHANGED <<buckets, bucket_sizes, locks, op, node, prev, dst>>

Step(t) ==
  \/ Lock(t) \/ Advance(t) \/ Refuse(t) \/ OutOfMemory(t)
  \/ InsertBuild(t) \/ InsertUndo(t) \/ InsertLink(t) \/ InsertPublish(t)
  \/ ReadCopy(t)
  \/ UpdateFree(t) \/ UpdateAssign(t)
  \/ DeleteUnlink(t) \/ DeleteFree(t)
  \/ Unlock(t)

Next == \E t \in Threads : Step(t) \/ \E o \in Operations : Call(t, o)

Spec == Init /\ [][Next]_vars

-----------------------------------------------------------------------------
(* Properties *)

\* walk[i] is the node reached from the head of bucket b after i next pointers.
Walk(b) ==
  LET walk[i \in 0 .. Cardinality(Nodes)] ==
        IF i = 0 THEN buckets[b]
        ELSE IF walk[i - 1] = NULL THEN NULL ELSE next[walk[i - 1]]
  IN walk

Chain(b) == {Walk(b)[i] : i \in 0 .. Cardinality(Nodes)} \ {NULL}

TypeOK ==
  /\ buckets \in [Buckets -> Nodes \cup {NULL}]
  /\ bucket_sizes \in [Buckets -> Nat]
  /\ key \in [Nodes -> Keys \cup {NULL, Freed}]
  /\ value \in [Nodes -> Values \cup {NULL, Freed}]
  /\ next \in [Nodes -> Nodes \cup {NULL}]
  /\ readers \in [Buckets -> SUBSET Threads]
  /\ writers \in [Buckets -> SUBSET Threads]
  /\ op \in [Threads -> Operations]
  /\ node \in [Threads -> Nodes \cup {NULL}]
  /\ prev \in [Threads -> Nodes \cup {NULL}]
  /\ ret \in [Threads -> {-1, 0, 1}]
  /\ dst \in [Threads -> Values \cup {NULL}]

\* Every chain ends, holds only live nodes of its own bucket, as many as
\* bucket_sizes says, and each key at most once, whatever two inserts of one key
\* do at the same time and after any number of concurrent operations.
ChainsSound ==
  /\ TypeOK
  /\ \A b \in Buckets :
       /\ bucket_sizes[b] = Cardinality(Chain(b))
       /\ Walk(b)[Cardinality(Nodes)] = NULL
       /\ \A n \in Chain(b) : key[n] \in Keys /\ hash(key[n]) = b
       /\ \A m, n \in Chain(b) : key[m] = key[n] => m = n

\* No operation stands on a node that another one has freed or unlinked, and a
\* read never meets a value that an update has just freed.
NoStaleNode ==
  \A t \in Threads :
    pc[t] = "search" =>
      /\ node[t] # NULL => node[t] \in Chain(Idx(t))
      /\ prev[t] # NULL => prev[t] \in Chain(Idx(t)) /\ next[prev[t]] = node[t]
      /\ AtKey(t) /\ op[t].name # "insert" => value[node[t]] \in Values

\* Every node allocated, whole or in part, is in a chain or in the hands of one
\* operation that is about to publish or to free it: nothing leaks and nothing is
\* freed twice, even if hash_insert gets a node and not the copies for it.
NoLeak ==
  LET InHand == {t \in Threads : pc[t] \in {"undo", "link", "publish", "free"}} IN
  /\ {n \in Nodes : key[n] # Freed \/ value[n] # Freed} =
       (UNION {Chain(b) : b \in Buckets}) \cup {node[t] : t \in InHand}
  /\ \A t \in InHand : \A b \in Buckets : node[t] \notin Chain(b)
  /\ \A s, t \in InHand : node[s] = node[t] => s = t
=============================================================================
