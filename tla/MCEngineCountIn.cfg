SPECIFICATION Spec
CONSTANTS
  MaxCalls = 3
  MaxDepth = 1
  MaxLock = 1
  Chunks = 0
  CountIn = 1
  Requests = {"roll"}
  InExport = FALSE
INVARIANTS UserObeyed
