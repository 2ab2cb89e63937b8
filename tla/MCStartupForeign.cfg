SPECIFICATION FairSpec
CHECK_DEADLOCK FALSE
CONSTANTS
  Builds <- MCBuilds
  SizeInputs <- MCSizes
  WORDS = 256
  INTS = 16
  ENTRIES_PER_BIN = 4
  InitialBins = 2
  MaxBins = 64
INVARIANT ForeignNamesRefused
