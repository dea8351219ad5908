CONSTANTS
  N = 2
  NumReqsToProcess = 3
  Supply = 3
SPECIFICATION MCSpec
INVARIANTS
  StepInTable
PROPERTIES
  GovernorConverges
  SharedCoreFollows
  ProcessEnds
