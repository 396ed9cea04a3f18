CONSTANTS
  m1 = m1
  m2 = m2
  b1 = b1
  b2 = b2
  b3 = b3
  Tags = {"t1"}
  Ids = {m1, m2}
  NoId = NoId
  Bodies = {b1, b2, b3}
  Absent = Absent
  Payload <- DistinctPayload
  OperatorBodies = {Absent}
  EditBodies = {b3}
  Nobody = Nobody
  Operator = Operator
  Embedded = TRUE
  Kinds = {"add", "remove", "auth", "start", "stop", "edit", "list"}
  PowerLossToo = FALSE
  MaxRequests = 4
  MaxFaults = 2
  MaxCrashes = 1
SPECIFICATION Spec
INVARIANTS RemovedNotServed
PROPERTIES ConditionalReplacesWhatWasSeen NoResurrection OwnerPublishedWhenServed
