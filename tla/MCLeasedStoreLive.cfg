SPECIFICATION FairSpec
CONSTANTS
  Worker = {w1, w2}
  Client = {c1}
  Run = {r1}
  Job = {j1, j2}
  None = None
  RunOf <- MCRunOf
  Backoff <- MCBackoff
  LeaseTerm = 1
  MaxAttempts = 2
  MaxVersion = 2
  MaxFaults = 1
  MaxErrors = 1
PROPERTIES
  JobsEnd
CHECK_DEADLOCK FALSE
