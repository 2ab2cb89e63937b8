SPECIFICATION Spec
CONSTANTS
  NULL = NULL
  TCACHE = TCACHE
  ELSEWHERE = ELSEWHERE
  ONE = ONE
  Versions = {"2.24", "2.26", "2.28", "2.29"}
  TcacheCounts = {0, 7}
  TEST_SIZE_TCACHEBIN = 7
  EarlySizes = {2, 8}
  MaxEarly = 2
INVARIANT SortedIntoSmallbin0
