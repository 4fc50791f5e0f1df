SPECIFICATION Spec
CONSTANTS
  None = None
  Task = {t1, t2}
  Batch = {b1, b2, b3}
  DemoBatch = {b1, b2}
  MaxFetches = 2
INVARIANTS
  TypeOK
  SpinnerHasCause
  PanelsMatch
  QuietMeansFresh
PROPERTIES
  SpinnerEnds
CHECK_DEADLOCK FALSE
