CONSTANTS
  Loads = {l1, l2}
  Cancellers = {a1}
  Targets = {t1, t2}
  Chunks = 2
  None = None
SPECIFICATION Spec
INVARIANTS
  DigestIsOfTheFile
  NothingLeftBehind
  ShutdownCleansUp
PROPERTY
  CancelIsHonoured
