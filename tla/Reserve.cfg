SPECIFICATION Spec
CONSTANTS
  NJobs = 2
  Resource <- MCResource
  Wants <- MCWants
  Caps = {1, 3}
  None = None
  Session = {s1, s2}
  MaxCalls = 3
INVARIANTS
  TypeOK
PROPERTIES
  GrowsWithinLimit
  RowsMoveForward
  ImplementsLedger
  CallsEnd
CHECK_DEADLOCK FALSE
