CONSTANTS
  NULL = NULL
  k1 = k1
  k2 = k2
  k3 = k3
  Key = {k1, k2, k3}
  Sizes = {33, 34, 49}
SPECIFICATION BothSpec
INVARIANTS
  TypeOK
  NoDuplicates
PROPERTIES
  ImplementsMap
  HashImplementsMap
