CONSTANTS
  NULL = NULL
  k1 = k1
  k2 = k2
  k3 = k3
  k4 = k4
  Key = {k1, k2, k3}
  Sizes = {33, 49}
  ENTRIES_PER_BIN = 2
  InitialBins = 1
  HashBits = 2
  Requests = {7}
SPECIFICATION Spec
SYMMETRY KeySymmetry
INVARIANTS
  TypeOK
  TargetHasSpace
  EntriesFindable
  SizeIsExact
PROPERTIES
  ImplementsMap
