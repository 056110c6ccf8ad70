CONSTANTS
  beat = beat
  result = result
  answer = answer
  control = control
  work = work
  record = record
  finish = finish
  Clock = Clock
  Worker = Worker
  Recorder = Recorder
  NoSink = NoSink
  StopSource = StopSource
  StopSink = StopSink
  Sources <- MCSources
  Sinks <- MCSinks
  Actors <- MCActors
  Primary <- MCPrimary
  Taps <- MCTaps
  Owner <- MCOwner
  Outputs <- MCOutputs
  Deferred <- MCDeferred
  Producers = {beat}
  MaxProduced = 2
  MaxCrashes = 0
SPECIFICATION Spec
INVARIANTS
  DeliveredStateIsEmissionState
  StopDrainsInboxes
CHECK_DEADLOCK FALSE
