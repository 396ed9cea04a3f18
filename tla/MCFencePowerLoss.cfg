CONSTANTS
  m1 = m1
  m2 = m2
  b1 = b1
  b2 = b2
  b3 = b3
  Tags = {"t1", "t2"}
  Ids = {m1, m2}
  NoId = NoId
  Bodies = {b1, b2, b3}
  Absent = Absent
  Payload <- DistinctPayload
  OperatorBodies = {Absent}
  EditBodies = {b3}
  Nobody = Nobody
  Operator = Operator
  Embedded = FALSE
  Kinds = {"add", "remove"}
  PowerLossToo = TRUE
  MaxRequests = 3
  MaxFaults = 1
  MaxCrashes = 1
SPECIFICATION Spec
CHECK_DEADLOCK FALSE
INVARIANTS AddedIsDurable AtMostOnePending
PROPERTIES ImplementsLedger
