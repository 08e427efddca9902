CONSTANTS
  MaxVersions = 2
  c1 = c1
  c2 = c2
  p1 = p1
  p2 = p2
  p3 = p3
  w1 = w1
  NoPost = NoPost
  Posts = {p1}
  Clients = {c1}
  Workers = {w1}
  Quota = 1
  MaxPeriods = 1
  MaxCalls = 2
  MaxFaults = 0
  MaxStalls = 1
SPECIFICATION FairSpec
CHECK_DEADLOCK FALSE
PROPERTY ScheduledPublishesItsPin
