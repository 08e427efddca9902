CONSTANTS
  MaxItems = 3
  PageSize = 1
  MaxMonths = 2
  MaxRevisions = 2
  MaxTries = 2
  MaxLibraryCalls = 4
  MaxLibraryFaults = 1
  MaxFeedCalls = 5
SPECIFICATION Spec
CHECK_DEADLOCK FALSE
INVARIANTS
  TypeOK
  DeckShown
  PagesCover
