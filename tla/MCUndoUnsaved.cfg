SPECIFICATION Spec
CONSTANTS
  Addrs = {a1, a2, a3}
  Nil = Nil
  Types <- OneType
  MaxLength <- Unlimited
  MaxEdits = 4
  MaxGroup = 1
  MaxPosts = 2
  MenuRows = {}
  MayFail = FALSE
  MaySave = TRUE
INVARIANT UnsavedNoticed
CHECK_DEADLOCK FALSE
