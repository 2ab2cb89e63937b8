SPECIFICATION Spec
CONSTANTS
  wrapper = wrapper
  facade = facade
  leak = leak
  allocator = allocator
  NULL = NULL
  CHUNK = CHUNK
  CALLOCBASE = CALLOCBASE
INVARIANT SetupAtMostOnce
