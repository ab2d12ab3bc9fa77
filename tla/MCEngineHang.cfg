SPECIFICATION Spec
CONSTANTS
  MaxCalls = 3
  MaxDepth = 2
  MaxLock = 2
  Chunks = 0
  CountIn = 0
  Requests = {"roll"}
  InExport = FALSE
INVARIANTS PausesServed
