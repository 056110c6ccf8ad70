CONSTANTS
  Requests = {r1, r2}
  Contexts = {c1, c2}
  Workers = {w1}
  QueueMaxSize = 1
  StopSignal = StopSignal
  NoRequest = NoRequest
  NoContext = NoContext
SPECIFICATION FairSpec
PROPERTIES
  EventuallyAnswered
  HandlerEnds
  ThreadsStop
CHECK_DEADLOCK FALSE
