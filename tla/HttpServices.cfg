CONSTANTS
  Requests = {r1, r2}
  MaxOutputs = 2
  Posts = {p1}
  TakenAhead = 1
  MaxUpdates = 3
  Jobs = {j1, j2}
  Streams = {s1}
  PoolSize = 1
  MaxRetries = 2
  MaxTicks = 1
SPECIFICATION ServicesSpec
INVARIANTS
  EntriesAreOpen
  RepliesAreExplained
  FirstOutputCounts
  UpdaterFollowsMain
  StreamsAreFaithful
PROPERTIES
  EveryRequestReplied
  AcceptedIsCalledBack
  StreamsClose
CHECK_DEADLOCK FALSE
