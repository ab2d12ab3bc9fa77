SPECIFICATION FairSpec
CONSTANTS
  t = t
  a = a
  Tracks = {t}
  Autos = {a}
  Owner <- Alone
  Splits <- FewSplits
  PoolSize = 2
  MaxOps = 2
INVARIANTS TypeOK FlagsAnswered
PROPERTIES RecordingsEnd
CHECK_DEADLOCK FALSE
