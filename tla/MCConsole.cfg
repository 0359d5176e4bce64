SPECIFICATION MCFairSpec
CONSTANTS
  ann = ann
  bob = bob
  a1 = a1
  a2 = a2
  NoUser = NoUser
  NoRun = NoRun
  User = {ann, bob}
  Run = {a1, a2}
  TenantOf <- MCTenantOf
  MaxWork = 1
  MaxLogins = 2
  MaxClicks = 1
  MaxReads = 1
  MaxFailures = 1
INVARIANTS
  TypeOK
  IdentityMatches
  JobsOwn
  ForeignExplained
PROPERTIES
  Settles
CHECK_DEADLOCK FALSE
