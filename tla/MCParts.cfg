CONSTANTS
  NumClients = 4
  Mortal <- AllMortal
  Dictionaries <- BothDictionaries
  Word = 1024
  Memory = 12
  HEADER = 2
  Bodies <- FullBodies
  Window = 6
  Results <- Around25
  MAX_RES_LEN = 1000
  NoFile = NoFile
  MAX_PACKAGES = 3
  MAX_CPUS = 3
  NUM_RAPL_DOMAINS = 2
  PERF_DOMAINS <- TwoDomains
  CpuInfos <- AllChips
  Topologies <- AllTopologies
  Args <- AllArgs
SPECIFICATION MCSpec
INVARIANTS
  BoundedBypass
  SteadyBypass
  TermsInv
  Intact
  LengthIsTotal
  PackagesFound
  OneReport
  ReportExplained
PROPERTIES
  Settles
CHECK_DEADLOCK FALSE
