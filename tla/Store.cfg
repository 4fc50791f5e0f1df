SPECIFICATION Spec
CONSTANTS
  Batch = {b1, b2}
  None = None
  Worker = {w1, w2, w3}
  MaxRequests = 3
INVARIANTS
  TypeOK
  WritesInOrder
  RerunOnStoredData
  DeletedOnce
PROPERTIES
  RequestsEnd
CHECK_DEADLOCK FALSE
