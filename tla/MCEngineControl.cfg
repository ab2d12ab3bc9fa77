SPECIFICATION FairSpec
CONSTANTS
  MaxCalls = 5
  MaxDepth = 3
  MaxLock = 2
  Chunks = 1
  CountIn = 1
  Requests = {"roll", "pause", "other"}
  InExport = FALSE
INVARIANTS TypeOK LockBlocksCycles AccessExcludesCycles ChangesExcludeCycles RunsBetweenCalls
PROPERTIES CallsReturn RequestsServed RollsAgain
