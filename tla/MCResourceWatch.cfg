CONSTANTS
  a = a
  b = b
  Namespaces = {a, b}
  Selections <- BothOrOne
  MaxOps = 2
  MaxChanges = 1
  MaxCloses = 1
  MaxPending = 1
  MaxFlaps = 1
  Overlap = TRUE
  NoWatch = NoWatch
SPECIFICATION WatchFairSpec
INVARIANTS
  NothingSkipped
  LiveIsWatched
  NobodysStream
PROPERTY
  Settles
CHECK_DEADLOCK FALSE
ACTION_CONSTRAINT OverlapsAlone
