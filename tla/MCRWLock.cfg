CONSTANTS
  t1 = t1
  t2 = t2
  t3 = t3
  Threads <- MCThreads
  TicketMod = 4
  Kinds <- AllKinds
SPECIFICATION FairSpec
INVARIANTS TypeOK Exclusion TicketWindow NoLostWakeup NoStall
PROPERTIES FifoOrder ImplementsFifoLock EveryoneServed
