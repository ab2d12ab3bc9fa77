SPECIFICATION Spec
CONSTANTS
  Addrs = {a1, a2}
  Nil = Nil
  Types <- OneType
  MaxLength <- Unlimited
  MaxEdits = 2
  MaxGroup = 1
  MaxPosts = 4
  MenuRows = {}
  MayFail = TRUE
  MaySave = FALSE
INVARIANT SemaphoreIsMutex
CHECK_DEADLOCK FALSE
