CONSTANTS
  NULL = NULL
  BIN = BIN
  TOP = TOP
  p1 = p1
  p2 = p2
  p3 = p3
  Ptr = {p1, p2}
  TcIdx = {1}
  RawSizes = {33, 49}
  TopSizes = {1025, 2049}
  USB_ENTRIES_MAX = 2
  TCA_BIN_SIZE = 2
  ptrMode = TRUE
  topMode = TRUE
  usbMode = TRUE
  tcaMode = TRUE
  leakMode = TRUE
  MallocMayFail = FALSE
  EarlyCalls = FALSE
  BadFrees = TRUE
  MaxWrites = 2
SPECIFICATION Spec
SYMMETRY PtrSymmetry
INVARIANTS
  TypeOK
  AlarmOnlyOnError
  StoreTracksLive
  NothingLeaks
  FreesAreVerified
PROPERTIES
  DamageCaughtAtNextCall
  BadFreeCaught
  KeepsPromise
