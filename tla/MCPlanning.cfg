SPECIFICATION Spec
CONSTANTS
  Text <- MCText
  Chunks <- MCChunks
  DocOf <- MCDocOf
  Route <- MCRoute
  SourceLimit = 3
  OneCharacter = {"x", "1", "2", "3", "4", "5", "6"}
  EvidenceLimit = 3
  MaxSteps = 3
  Cases <- MCCases
INVARIANTS
  TypeOK
  FusionRespectsBoth
  PlannerInformed
  NamingEnds
  WiringKept
  AcceptedIffSortable
  UnapprovedIsSystems
  UnchangedFails
  
  ScalingCovers
CHECK_DEADLOCK FALSE
