SPECIFICATION Spec
CONSTANTS
  t = t
  a = a
  Tracks = {t}
  Autos = {a}
  Owner <- Alone
  Splits <- FewSplits
  PoolSize = 2
  MaxOps = 3
PROPERTIES ResumeEndsPause
CHECK_DEADLOCK FALSE
