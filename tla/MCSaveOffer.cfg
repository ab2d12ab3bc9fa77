SPECIFICATION Spec
CONSTANTS
  Addrs = {a1, a2}
  NoAction = none
  MaxLength = 2
  MaxEdits = 2
  MaxSaves = 2
  MayCrash = TRUE
  Fallible = {}
INVARIANTS NewerBackupOffered
