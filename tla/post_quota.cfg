CONSTANTS
  MaxVersions = 1
  c1 = c1
  c2 = c2
  p1 = p1
  p2 = p2
  p3 = p3
  w1 = w1
  NoPost = NoPost
  Posts = {p1, p2, p3}
  Clients = {c1, c2}
  Workers = {}
  Quota = 1
  MaxPeriods = 2
  MaxCalls = 3
  MaxFaults = 0
  MaxStalls = 1
SPECIFICATION Spec
CHECK_DEADLOCK FALSE
SYMMETRY Interchangeable
INVARIANTS
  QuotaOvershootBounded
