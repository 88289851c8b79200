CONSTANTS
  Sessions = {k1}
  Streams = {s1, s2, s3}
  Callers = {c1}
  MaxStreams = 2
  MaxChunks = 1
  Late = {s3}
  None = None
SPECIFICATION FairSpec
INVARIANTS
  LiveWithinLimit
  StopsAreTrue
  StoppedBeforeSessionsClose
PROPERTIES
  KeepsTheFeed
  AnsweredMeansSilent
  StreamsEnd
ACTION_CONSTRAINT ThirdIsRefused
