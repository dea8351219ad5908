CONSTANTS
  Senders = {s1, s2}
  Receivers = {r1, r2}
  ThreadCounts <- OneOrTwo
  NoThread = NoThread
  warmupReqs = 2
  maxReqs = 1
  MaxStarted = 2
  MaxOthers = 1
SPECIFICATION FairSpec
INVARIANTS
  ClientInv
  RecordsWindow
PROPERTIES
  SendersStart
  ClientEnds
