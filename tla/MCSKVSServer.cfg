CONSTANTS
  c1 = c1
  c2 = c2
  e1 = e1
  NoClient = NoClient
  Clients <- MCClients
  Entries <- MCEntries
  hash <- MCHash
  num_threads = 2
  hash_size = 2
  BufSize = 2
  Backlog = 1
  MaxLen = 3
  SockCap = 1
SPECIFICATION FairSpec
INVARIANTS TableAlive ConnectionsOwned Framing
CHECK_DEADLOCK FALSE
PROPERTIES Terminates Answered
