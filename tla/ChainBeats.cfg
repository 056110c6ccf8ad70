CONSTANTS
  NetUid = 1
  Tempo = 3
  DefaultTempo = 3
  EveryNth = 1
  Delay = 2
  Offset = 1
  Cooldown = 2
  MaxBlock = 8
  MaxBack = 1
  MaxQueue = 1
  Targets = {"a", "b"}
  Scores = {1, 2}
  Stamps = {1, 4, 5}
  WeighedEpochs <- MCEpochs
  Malformed = {0}
  MaxStored = 3
SPECIFICATION MCSpec
INVARIANTS
  EpochBeatsFollowChain
  AttemptsSpaced
  ReachedEpochsAreTried
  ViewsAgree
  WeighsWhatWasStored
PROPERTIES
  EpochsAreSubtensors
CHECK_DEADLOCK FALSE
