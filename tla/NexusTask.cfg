CONSTANTS
  Works = {w1, w2}
  MaxAttempts = 2
  NumNeurons = 2
  MaxCrashes = 0
SPECIFICATION Spec
INVARIANTS
  TypeOK
  ExhaustedAfterAllAttempts
  ReportsAgreeWithStore
CHECK_DEADLOCK FALSE
SYMMETRY Symmetry
