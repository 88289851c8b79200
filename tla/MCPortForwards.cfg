CONSTANTS
  MaxLaunches = 2
  Modes = {"manual", "connectOnStart"}
  None = None
SPECIFICATION Spec
INVARIANTS
  StopHolds
  WaitsForCluster
  NobodysListener
  ShownAsItIs
CONSTRAINT FewAtOnce
CHECK_DEADLOCK FALSE
