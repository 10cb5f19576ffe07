SPECIFICATION ServingSpec
CONSTANTS
  f2 = f2
  general = general
  m1 = m1
  Workload = {f2, general}
  Model = {m1, m2}
  FirstSpecs <- MCFirstSpecs
  MaxAttempts = 2
  MaxSelects = 1
CHECK_DEADLOCK FALSE
PROPERTIES
  NothingLeftRunning
  ServingInOrder
  AppliedMeansServed
