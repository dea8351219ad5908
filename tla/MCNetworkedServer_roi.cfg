CONSTANTS
  w1 = w1
  w2 = w2
  NoThread = NoThread
  Workers <- MCWorkers
  Main = w1
  NumClients = 2
  WarmupReqs = 1
  MaxReqs = 1
  NumReqsToProcess = 9
  Supply = 2
  Mortal <- FirstMortal
  Partial = FALSE
SPECIFICATION Spec
INVARIANTS
  RoiStartsOnce
