SPECIFICATION Spec
CONSTANTS
  Addrs = {a1, a2}
  NoAction = none
  MaxLength = 1
  MaxEdits = 1
  MaxSaves = 2
  MayCrash = FALSE
  Fallible = {"serialize"}
INVARIANTS ErrorsNoticed
