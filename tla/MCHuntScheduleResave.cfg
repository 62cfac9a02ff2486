CONSTANTS
  Queries = {q1}
  Callers = {c1}
  BackoffAfter = 1
  MaxRows = 3
  MaxSaves = 2
  MaxFailures = 0
  MaxCrashes = 0
  None = None
SPECIFICATION Spec
INVARIANT NoRowSkipped
CHECK_DEADLOCK FALSE
