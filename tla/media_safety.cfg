CONSTANTS
  c1 = c1
  c2 = c2
  w1 = w1
  m1 = m1
  m2 = m2
  NoId = NoId
  MediaIds = {m1, m2}
  Clients = {c1, c2}
  Workers = {w1}
  MaxImages = 2
  Attempts = 2
  MaxStalls = 1
  MaxCalls = 3
  MaxFaults = 2
SPECIFICATION Spec
CHECK_DEADLOCK FALSE
SYMMETRY Interchangeable
INVARIANTS
  TypeOK
  ShareHasItsMedia
  ObjectKept
PROPERTIES
  EntriesKept
