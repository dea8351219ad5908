CONSTANTS
  N = 3
  NumReqsToProcess = 1
  Supply = 2
SPECIFICATION FairSpec
INVARIANTS
  ServesMapped
  WritesOpened
  SearchIsWatched
PROPERTIES
  SettledStays
  WaitingCoreSlowed
