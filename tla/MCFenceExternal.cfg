CONSTANTS
  m1 = m1
  m2 = m2
  b1 = b1
  b2 = b2
  b3 = b3
  Tags = {"t1"}
  Ids = {m1, m2}
  NoId = NoId
  Bodies = {b1, b2, b3}
  Absent = Absent
  Payload <- DistinctPayload
  OperatorBodies = {b3, Absent}
  EditBodies = {b3}
  Nobody = Nobody
  Operator = Operator
  Embedded = FALSE
  Kinds = {"add", "remove", "save"}
  PowerLossToo = FALSE
  MaxRequests = 4
  MaxFaults = 2
  MaxCrashes = 1
SPECIFICATION Spec
CHECK_DEADLOCK FALSE
INVARIANTS MemoryIsFile OwnerHasInbound CrashLeavesResolvable RemovedStaysRemoved
PROPERTIES SupersededRemoveTouchesNothing AddedMeansServed
