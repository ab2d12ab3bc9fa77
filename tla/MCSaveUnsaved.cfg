SPECIFICATION Spec
CONSTANTS
  Addrs = {a1, a2, a3}
  NoAction = none
  MaxLength = 2
  MaxEdits = 3
  MaxSaves = 1
  MayCrash = FALSE
  Fallible = {}
INVARIANTS UnsavedNoticed
