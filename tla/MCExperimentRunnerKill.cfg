SPECIFICATION FairSpec
CONSTANTS
  Experiments <- MCExperiments
  Patterns <- MCPatterns
  Repetitions = 2
  BufferHolds = 3
  MaxFailures = 2
  MaxDeletes = 1
  MaxKills = 1
INVARIANT ResumableAfterKill
