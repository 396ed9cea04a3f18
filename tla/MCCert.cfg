CONSTANTS
  HttpDeploys = {h1, h2}
  WsDeploys = {w1}
  Old = Old
  Nobody = Nobody
  Stopped = Stopped
  MaxFaults = 3
SYMMETRY Interchangeable
SPECIFICATION Spec
CHECK_DEADLOCK FALSE
INVARIANTS PairMatches
PROPERTIES SuccessIsLive FailureIsClean NeverRevivesXray
