CONSTANTS
  t1 = t1
  t2 = t2
  n1 = n1
  n2 = n2
  n3 = n3
  v1 = v1
  v2 = v2
  NULL = NULL
  Freed = Freed
  NoReply = NoReply
  Threads <- MCThreads
  Nodes <- MCNodes
  Values <- MCValues
  Keys <- MCKeys
  hash_size = 2
  WordMod = 256
SPECIFICATION Spec
SYMMETRY Symmetry
PROPERTY Linearizable
INVARIANTS ChainsSound NoStaleNode NoLeak
