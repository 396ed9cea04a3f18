CONSTANTS
  m1 = m1
  m2 = m2
  b1 = b1
  b2 = b2
  b3 = b3
  Tags = {"t1"}
  Ids = {m1, m2}
  NoId = NoId
  Bodies = {b1, b2, b3}
  Absent = Absent
  Payload <- SamePayload
  OperatorBodies = {Absent}
  EditBodies = {b3}
  Nobody = Nobody
  Operator = Operator
  Embedded = TRUE
  Kinds = {"add", "remove", "start", "stop", "auth"}
  PowerLossToo = FALSE
  MaxRequests = 3
  MaxFaults = 1
  MaxCrashes = 1
SPECIFICATION FairSpec
PROPERTIES PendingIsResolved
