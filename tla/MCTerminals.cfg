CONSTANTS
  Keys = {k1, k2}
  Kinds = {"exec", "node", "local"}
  MaxAttempts = 2
  None = None
SPECIFICATION Spec
INVARIANTS
  NobodysShell
  RunningIsOpen
  NoneLeft
  ShellPods
CHECK_DEADLOCK FALSE
