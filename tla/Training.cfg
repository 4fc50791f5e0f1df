\* Two runs of Step 1 and two of Step 2 against a request.
SPECIFICATION Spec
CONSTANTS
  a = a
  b = b
  c = c
  Datasets <- MCDatasets
  Request = {q1}
  MaxPreps = 2
  MaxRuns = 2
  None = None
  Torn = Torn
INVARIANTS
  ServedIsWhole
  PredictionsStand
CHECK_DEADLOCK FALSE
