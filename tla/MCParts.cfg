CONSTANTS
  NULL = NULL
  Requests <- SmallRequests
  wrapper = wrapper
  facade = facade
  leak = leak
  allocator = allocator
  CHUNK = CHUNK
  CALLOCBASE = CALLOCBASE
  Builds <- MCBuilds
  SizeInputs <- MCSizes
  WORDS = 256
  INTS = 16
  ENTRIES_PER_BIN = 4
  InitialBins = 2
  MaxBins = 64
  Versions = {"2.24", "2.26", "2.28", "2.29", "other"}
  TcacheCounts = {0, 7, 8}
  TEST_SIZE_TCACHEBIN = 7
  EarlySizes = {2, 8, 9}
  MaxEarly = 3
  TCACHE = TCACHE
  ELSEWHERE = ELSEWHERE
  ONE = ONE
  Experiments <- MCExperiments
  Patterns <- MCPatterns
  Repetitions = 2
  BufferHolds = 3
  MaxFailures = 2
  MaxDeletes = 1
  MaxKills = 1
SPECIFICATION PartsSpec
INVARIANTS
  CopyFits
  CopyKeepsData
  TypeOK
  RecursionEnds
  RawCallsHavePointers
  StaticBufferOnce
  ClientsGetChunks
  ModesAsAsked
  StoreLargeEnough
  ProbeSucceeds
  TcacheStructReal
  ProbesKeepNothing
  LeftoversRemoved
  ResultsKept
  NotTooOften
PROPERTIES
  StartupEnds
  AllMeasured
