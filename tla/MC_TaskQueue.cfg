SPECIFICATION Spec
CONSTANTS
  Projects = {p1, p2, p3}
  MaxConcurrency = 2
  MaxTasks = 5
INVARIANTS
  CapRespected
  WorkConserving
  HasActiveTaskTruthful
PROPERTIES
  ImplementsWorkPool
  EveryTaskSettles
CHECK_DEADLOCK FALSE
