SPECIFICATION Spec
CONSTANTS
  Keys = {k1, k2}
  Requests = {r1, r2}
  MaxSessions = 2
INVARIANTS
  CleanedStaysClean
  RunningIsKnown
PROPERTIES
  RequestsEnd
CHECK_DEADLOCK FALSE
