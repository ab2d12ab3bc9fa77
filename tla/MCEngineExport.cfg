SPECIFICATION FairSpec
CONSTANTS
  MaxCalls = 3
  MaxDepth = 1
  MaxLock = 2
  Chunks = 2
  CountIn = 0
  Requests = {"pause"}
  InExport = TRUE
PROPERTIES ExportsEnd
