CONSTANTS
  p1 = p1
  p2 = p2
  p3 = p3
  NoPid = NoPid
  Pids <- TwoPids
  MAX_JOBS = 1
  MAX_PROC_PER_JOB = 2
  MaxJid = 1
  CanFail = FALSE
  Terminal = FALSE
SPECIFICATION FairSpec
CHECK_DEADLOCK FALSE
PROPERTY EofEnds
