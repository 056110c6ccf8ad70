CONSTANTS
  Requests = {r1, r2, r3}
  Contexts = {c1, c2}
  Workers = {w1, w2}
  QueueMaxSize = 1
  StopSignal = StopSignal
  NoRequest = NoRequest
  NoContext = NoContext
SPECIFICATION Spec
INVARIANTS
  Custody
PROPERTIES
  OneAnswerWithItsInput
CHECK_DEADLOCK FALSE
SYMMETRY Symmetry
