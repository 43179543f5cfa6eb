------------------------ MODULE HashTableRefinement ------------------------
(* The hash table implements the atomic map KVMap: what each key has for    *)
(* the outside, and who has had its answer.                                 *)
EXTENDS HashTable

CONSTANT NoReply

ASSUME RepliesProper ==
  NoReply \notin [ret : {-1, 0, 1}, dst : Values \cup {NULL}]

\* The value a key has for the outside: between the free and the assignment of
\* an update it is the new one already.
storeBar ==
  [k \in Keys |->
     LET here == {n \in Chain(hash(k)) : key[n] = k} IN
     IF here = {} THEN NULL
     ELSE LET n == CHOOSE n \in here : TRUE IN
          IF value[n] # Freed THEN value[n]
          ELSE op[CHOOSE t \in Threads : pc[t] = "assign" /\ node[t] = n].value]

replyBar ==
  [t \in Threads |->
     CASE pc[t] \in {"assign", "free"} -> [ret |-> 1, dst |-> NULL]
       [] pc[t] = "unlock" -> [ret |-> ret[t], dst |-> dst[t]]
       [] OTHER -> NoReply]

Map == INSTANCE KVMap WITH
         NoValue <- NULL,
         store <- storeBar,
         request <- op,
         pending <- {t \in Threads : pc[t] # "idle"},
         reply <- replyBar

\* Linearizability: the table behaves as an atomic map for its callers, whose
\* operations take effect at the publication of the new node (hash_insert), the free
\* of the old value (hash_update), the unlinking (hash_delete) or the copy
\* (hash_read), and those that fail when their search ends or what they had is freed.
Linearizable == Map!Spec
=============================================================================
