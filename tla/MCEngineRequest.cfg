SPECIFICATION Spec
CONSTANTS
  MaxCalls = 2
  MaxDepth = 0
  MaxLock = 1
  Chunks = 0
  CountIn = 0
  Requests = {"roll", "pause"}
  InExport = FALSE
INVARIANTS UserObeyed
