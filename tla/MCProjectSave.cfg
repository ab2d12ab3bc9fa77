SPECIFICATION FairSpec
CONSTANTS
  Addrs = {a1, a2, a3}
  NoAction = none
  MaxLength = 2
  MaxEdits = 3
  MaxSaves = 2
  MayCrash = TRUE
  Fallible = {"project_dir", "backup_dir", "dirs", "pool", "clone", "states", "serialize"}
INVARIANTS TypeOK BackupsWhole NothingUnsavedIsLost
PROPERTIES BackupsTouchNothingElse SavesReturn
