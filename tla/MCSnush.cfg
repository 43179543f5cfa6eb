CONSTANTS
  p1 = p1
  p2 = p2
  p3 = p3
  NoPid = NoPid
  Pids <- ThreePids
  MAX_JOBS = 2
  MAX_PROC_PER_JOB = 2
  MaxJid = 1
  CanFail = TRUE
  Terminal = TRUE
SPECIFICATION FairSpec
CHECK_DEADLOCK FALSE
PROPERTIES ReportsArrive ForegroundLeaves
INVARIANTS JobTableSound GroupsOwned OneForeground NoReportLost ExitTerminates
