SPECIFICATION Spec
CONSTANTS
  Worker = {w1}
  Step = {1}
  Scaling = {1}
  Plan <- MCOnePlan
  MaxAttempts = 2
  MaxBegins = 2
PROPERTIES
  CompletedRepaired
CHECK_DEADLOCK FALSE
