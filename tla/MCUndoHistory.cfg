\* A call that waits for ever stops the program: it is CallsReturn that reports
\* it, not the check for deadlocks.
SPECIFICATION FairSpec
CONSTANTS
  Addrs = {a1, a2, a3, a4}
  Nil = Nil
  Types <- OneType
  MaxLength <- Unlimited
  MaxEdits = 4
  MaxGroup = 3
  MaxPosts = 2
  MenuRows = {}
  MayFail = FALSE
  MaySave = TRUE
INVARIANTS TypeOK GroupsWhole EditsMeetTheirDocument
PROPERTIES ImplementsHistory CallsReturn
CHECK_DEADLOCK FALSE
