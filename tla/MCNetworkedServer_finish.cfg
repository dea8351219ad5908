CONSTANTS
  w1 = w1
  w2 = w2
  NoThread = NoThread
  Workers <- MCWorkers
  Main = w1
  NumClients = 3
  WarmupReqs = 1
  MaxReqs = 1
  NumReqsToProcess = 9
  Supply = 1
  Mortal <- NobodyMortal
  Partial = FALSE
SPECIFICATION Spec
INVARIANTS
  FinishReachesAll
