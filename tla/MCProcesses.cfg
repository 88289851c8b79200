CONSTANTS
  Procs = {p1, p2}
  Writers = {w1}
  Killers = {a1}
  StartKinds = {"plain", "pty"}
  Escapes = TRUE
  MaxChunks = 1
  NoProcess = NoProcess
SPECIFICATION ProcessesFairSpec
INVARIANTS
  ExitSaysAll
  WritesToOpenInput
  KilledMeansGone
PROPERTY
  ProcessesEnd
ACTION_CONSTRAINT ServesAlone
