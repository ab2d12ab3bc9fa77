SPECIFICATION Spec
CONSTANTS
  Addrs = {a1, a2, a3}
  NoAction = none
  MaxLength = 3
  MaxEdits = 3
  MaxSaves = 3
  MayCrash = FALSE
  Fallible = {}
INVARIANTS EditsKeepProject
