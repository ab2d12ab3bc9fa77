SPECIFICATION Spec
CONSTANTS
  MaxCalls = 3
  MaxDepth = 1
  MaxLock = 2
  Chunks = 1
  CountIn = 0
  Requests = {"other"}
  InExport = TRUE
INVARIANTS LockIsMutex
