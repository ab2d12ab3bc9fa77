SPECIFICATION Spec
CONSTANTS
  Addrs = {a1, a2, a3, a4}
  Nil = nil
  Types <- TwoTypes
  MaxLength = 2
  MaxEdits = 4
  MaxGroup = 2
  MaxPosts = 4
  MenuRows = {0, 1}
  MayFail = TRUE
  MaySave = FALSE
SYMMETRY AnyAddr
INVARIANTS UndoMatchesDocument ReloadRestores
PROPERTIES OnlyPerformForgets
CHECK_DEADLOCK FALSE
