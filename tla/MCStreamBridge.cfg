CONSTANTS
  Streams = {s1, s2}
  MaxChunks = 1
  MaxStops = 2
SPECIFICATION FairSpec
INVARIANTS
  NothingLost
  ListensWhileOpen
PROPERTIES
  DeliversTheFeed
  SubscriptionsEnd
