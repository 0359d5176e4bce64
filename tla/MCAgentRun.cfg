SPECIFICATION MCSpec
CONSTANTS
  Worker = {w1, w2}
  Job = {j1, j2}
  None = None
  LeaseTerm = 1
  Backoff <- MCBackoff
  MaxAttempts = 2
  MaxFaults = 1
  MaxErrors = 1
  low = low
  high = high
  a1 = a1
  a2 = a2
  req = req
  Plan = {low, high}
  Quorum <- MCQuorum
  Approver = {a1, a2, req}
  Requester = req
  MaxRunAttempts = 3
  MaxCancels = 1
  MaxApiCrashes = 1
SYMMETRY Symmetry
INVARIANTS
  TypeOK
  WriteApproved
  CompletedWrote
PROPERTIES
  FinalStays
  CancelWins
  VotesKept
CHECK_DEADLOCK FALSE
