SPECIFICATION MCFairSpec
CONSTANTS
  Worker = {w1, w2}
  Job = {j1, j2}
  None = None
  LeaseTerm = 1
  Backoff <- MCBackoff
  MaxAttempts = 3
  MaxFaults = 0
  MaxErrors = 0
  low = low
  high = high
  a1 = a1
  a2 = a2
  req = req
  Plan = {low, high}
  Quorum <- MCQuorum
  Approver = {a1, a2, req}
  Requester = req
  MaxRunAttempts = 1
  MaxCancels = 0
  MaxApiCrashes = 0
PROPERTIES
  RunSettles
CHECK_DEADLOCK FALSE
