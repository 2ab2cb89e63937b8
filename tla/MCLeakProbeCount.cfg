SPECIFICATION Spec
CONSTANTS
  NULL = NULL
  TCACHE = TCACHE
  ELSEWHERE = ELSEWHERE
  ONE = ONE
  Versions = {"2.26", "2.28", "2.29"}
  TcacheCounts = {3, 8}
  TEST_SIZE_TCACHEBIN = 7
  EarlySizes = {2, 9}
  MaxEarly = 1
INVARIANT AWentPastTcache
