SPECIFICATION FairSpec
CHECK_DEADLOCK FALSE
CONSTANTS
  Builds <- MCBuilds
  SizeInputs <- MinusOne
  WORDS = 256
  INTS = 16
  ENTRIES_PER_BIN = 4
  InitialBins = 2
  MaxBins = 64
PROPERTY StartupEnds
