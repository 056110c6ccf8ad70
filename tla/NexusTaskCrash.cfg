CONSTANTS
  Works = {w1}
  MaxAttempts = 3
  NumNeurons = 2
  MaxCrashes = 2
SPECIFICATION FairSpec
INVARIANTS
  OneFlow
  AttemptsBounded
  NoStateCorruption
PROPERTIES
  CreditGoesToExecutor
  EventuallyVerdict
CHECK_DEADLOCK FALSE
