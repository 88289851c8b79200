CONSTANTS
  Sessions = {k1}
  Fwds = {f1, f2}
  Conns = {x1}
  Callers = {a1}
  Ports = {p1}
  MaxForwards = 1
  MaxRetargets = 1
  MaxErrors = 1
  FwdNone = FwdNone
SPECIFICATION ForwardsFairSpec
INVARIANTS
  CloseIsLast
  DialsOneTarget
  StopFreesPort
PROPERTY
  StopEndsForward
ACTION_CONSTRAINT ServesAlone
