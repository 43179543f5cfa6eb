CONSTANTS
  t1 = t1
  t2 = t2
  t3 = t3
  n1 = n1
  n2 = n2
  v1 = v1
  NULL = NULL
  Freed = Freed
  Threads <- MCThreads
  Nodes <- MCNodes
  Values <- MCValues
  Keys <- MCKeys
  Calls <- SomeCalls
  hash_size = 1
  WordMod = 256
SPECIFICATION FairSpec
PROPERTIES ImplementsHashTable CallsReturn
