CONSTANTS
  Sessions = {k1}
  Chans = {c1, c2}
  Callers = {a1}
  Writers = {w1, w2}
  MaxChannels = 1
  MaxData = 1
  TimersFire = TRUE
  None = None
SPECIFICATION FairSpec
INVARIANT
  SlotsAccounted
PROPERTY
  ChannelsEnd
ACTION_CONSTRAINT ServesAlone
