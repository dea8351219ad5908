CONSTANTS
  Workers = {w1, w2, w3}
  NumReqsToProcess = 4
  warmupReqs = 1
  maxReqs = 4
  Schedule <- Rising
  TBENCH_QPS = 1
  Uninitialized = {0}
SPECIFICATION MCSpec
INVARIANTS
  WorkersInv
  WindowNear
  NoLineMissed
  LinesDisjoint
  ArrivalsFollow
PROPERTIES
  ProcessEnds
