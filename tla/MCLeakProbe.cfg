SPECIFICATION Spec
CONSTANTS
  NULL = NULL
  TCACHE = TCACHE
  ELSEWHERE = ELSEWHERE
  ONE = ONE
  Versions = {"2.24", "2.28", "2.29"}
  TcacheCounts = {0, 1, 2, 3}
  TEST_SIZE_TCACHEBIN = 2
  EarlySizes = {2, 8, 9}
  MaxEarly = 4
INVARIANTS
  ProbeSucceeds
  TcacheAnswerRight
  TcacheStructReal
  TcacheStructFound
