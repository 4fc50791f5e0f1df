SPECIFICATION Spec
CONSTANTS
  Execution = {x1, x2}
  Session = {s1, s2}
  Requests <- MCRequests
  Jobs = {1}
  Schemas <- MCSchemas
  MaxCalls = 4
  MaxTime = 1
  None = None
INVARIANTS
  TypeOK
  OneExecutionPerRequest
  RunsOnlyIfCleared
PROPERTIES
  ImplementsMachine
  CallsEnd
CHECK_DEADLOCK FALSE
