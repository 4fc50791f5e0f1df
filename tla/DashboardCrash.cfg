SPECIFICATION Spec
CONSTANTS
  None = None
  Task = {t1, t2}
  Batch = {b1, b2, b3}
  DemoBatch = {b1, b2}
  MaxFetches = 2
INVARIANTS
  NeverCrashes
CHECK_DEADLOCK FALSE
