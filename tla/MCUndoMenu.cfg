SPECIFICATION Spec
CONSTANTS
  Addrs = {a1, a2, a3}
  Nil = Nil
  Types <- OneType
  MaxLength <- Unlimited
  MaxEdits = 3
  MaxGroup = 2
  MaxPosts = 1
  MenuRows = {0, 1, 2}
  MayFail = FALSE
  MaySave = FALSE
INVARIANT UndoFindsAnAction
CHECK_DEADLOCK FALSE
