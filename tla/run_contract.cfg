CONSTANTS
  MaxVersions = 2
  c1 = c1
  c2 = c2
  w1 = w1
  w2 = w2
  Clients = {c1, c2}
  Workers = {w1, w2}
  Document = TRUE
  Research = TRUE
  Costs = {1}
  Limit = 2
  MaxAttempts = 2
  MaxStalls = 1
  MaxFaults = 1
  MaxCrashes = 0
  NoWorker = NoWorker
SPECIFICATION Spec
SYMMETRY Interchangeable
CHECK_DEADLOCK FALSE
PROPERTIES
  KeepsContract
