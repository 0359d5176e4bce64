SPECIFICATION Spec
CONSTANTS
  Worker = {w1, w2}
  Client = {c1, c2}
  Run = {r1}
  Job = {j1, j2}
  None = None
  RunOf <- MCRunOf
  Backoff <- MCBackoff
  LeaseTerm = 1
  MaxAttempts = 2
  MaxVersion = 3
  MaxFaults = 2
  MaxErrors = 0
SYMMETRY Symmetry
INVARIANTS
  TypeOK
  NoLostUpdate
  RecoveryBounded
PROPERTIES
  FencingOrder
  ImplementsAtomicRun
CHECK_DEADLOCK FALSE
