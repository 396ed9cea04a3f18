CONSTANTS
  windowSize = 2
  Callers = {c1, c2}
  Sessions = {s1, s2}
  NoSession = NoSession
  Exchanges = {e1, e2, e3, e4, e5}
  NoExchange = NoExchange
  MaxCopies = 1
SYMMETRY Interchangeable
SPECIFICATION Spec
CHECK_DEADLOCK FALSE
INVARIANTS WindowIsExact ServedOnce
PROPERTIES AnswerIsReadable
