CONSTANTS
  MAX_PROC_PER_JOB = 4
  Items = 3
  Cap = 2
  CanFail = TRUE
SPECIFICATION FairSpec
CHECK_DEADLOCK FALSE
INVARIANTS FdsExact StartTogether
PROPERTY AllEnd
