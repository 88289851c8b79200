CONSTANTS
  Sessions = {1, 2, 3}
  Clusters = {a, b}
  First = a
  Second = b
  Ops = {1, 2}
  Kinds = {"connect", "disconnect", "adopt"}
  MaxReloads = 1
  None = None
SPECIFICATION Spec
INVARIANTS
  NothingStranded
PROPERTY
  ConnectEnds
ACTION_CONSTRAINTS
  InOrder
  ClosesAtOnce
  FewAtOnce
CHECK_DEADLOCK FALSE
