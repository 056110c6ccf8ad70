CONSTANTS
  Threads = {t1, t2}
  Values = {v1}
  NoValue = NoValue
  Corrupt = Corrupt
  MaxContexts = 3
  MaxEntries = 4
  MaxCrashes = 1
SPECIFICATION FairSpec
INVARIANTS
  TypeOK
  RecoverableState
  SnapshotIsParentAtCreation
PROPERTIES
  CreationEnds
CHECK_DEADLOCK FALSE
