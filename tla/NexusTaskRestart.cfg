CONSTANTS
  Works = {w1}
  MaxAttempts = 2
  NumNeurons = 2
  MaxCrashes = 1
SPECIFICATION Spec
INVARIANTS
  WorkSurvivesRestart
CHECK_DEADLOCK FALSE
