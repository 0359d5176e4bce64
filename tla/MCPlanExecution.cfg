SPECIFICATION Spec
CONSTANTS
  Worker = {w1, w2}
  Step = {1, 2}
  Scaling = {1}
  Plan <- MCPlan
  MaxAttempts = 2
  MaxBegins = 2
SYMMETRY Symmetry
INVARIANTS
  TypeOK
  EffectOnce
  DependenciesRecorded
  
  RolledBackIsRestored
PROPERTIES
  ImplementsPlanEffects
CHECK_DEADLOCK FALSE
