SPECIFICATION Spec
CONSTANTS
  NULL = NULL
  TCACHE = TCACHE
  ELSEWHERE = ELSEWHERE
  ONE = ONE
  Versions = {"2.26", "2.28", "2.29"}
  TcacheCounts = {2}
  TEST_SIZE_TCACHEBIN = 2
  EarlySizes = {2}
  MaxEarly = 6
INVARIANT TcacheAnswerAlwaysRight
