SPECIFICATION Spec
CONSTANTS
  Addrs = {a1, a2, a3, a4}
  Nil = Nil
  Types <- OneType
  MaxLength = 2
  MaxEdits = 4
  MaxGroup = 2
  MaxPosts = 1
  MenuRows = {}
  MayFail = FALSE
  MaySave = FALSE
INVARIANT GroupsAreOnTheirStack
CHECK_DEADLOCK FALSE
