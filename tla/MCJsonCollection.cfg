CONSTANTS
  Ids = {f1}
  Ports = {None, p1}
  MaxCalls = 2
  None = None
SPECIFICATION Spec
INVARIANTS
  StopIsSaved
CHECK_DEADLOCK FALSE
