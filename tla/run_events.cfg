CONSTANTS
  MaxAttempts = 2
  MaxStalls = 1
  Batch = 2
  MaxEvents = 2
  MaxTroubles = 1
  MaxCuts = 1
SPECIFICATION FairSpec
CHECK_DEADLOCK FALSE
INVARIANTS
  TypeOK
  NoGapNoRepeat
  SeqFollowsStream
  ToldIsRecorded
PROPERTIES
  ClientStops
