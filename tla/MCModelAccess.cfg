SPECIFICATION FairSpec
CONSTANTS
  c1 = c1
  c2 = c2
  c3 = c3
  p1 = p1
  p2 = p2
  Nobody = Nobody
  Caller = {c1, c2, c3}
  Process = {p1, p2}
  ProcessOf <- MCProcessOf
  Patience = 2
  MaxCalls = 5
  MaxCrashes = 2
  MaxLosses = 1
INVARIANTS
  TypeOK
  OneInside
  GatewayLoad
  
PROPERTIES
  CallsEnd
CHECK_DEADLOCK FALSE
