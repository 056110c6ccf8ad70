CONSTANTS
  clock = clock
  worker = worker
  retry = retry
  storer = storer
  inner = inner
  double = double
  logger = logger
  tick = tick
  ok = ok
  error = error
  attempt = attempt
  stored = stored
  noted = noted
  control = control
  work = work
  input = input
  beat = beat
  store = store
  show = show
  external = external
  note = note
  task = task
  NoSink = NoSink
  NoSource = NoSource
  NoOwner = NoOwner
  Nobody = Nobody
  Subnet = Subnet
  Piping = Piping
  Bus = Bus
  Flows = {f1, f2}
  Sources <- MCSources
  Sinks <- MCSinks
  Nodes <- MCNodes
  SinksOf <- MCSinksOf
  SourcesOf <- MCSourcesOf
  DefaultSource <- MCDefaultSource
  Buildable = {clock, worker, retry, storer, double, logger}
  BuilderNodes = {{worker, storer}}
  Given = {worker, storer}
  Clock = tick
  Tasks = {task}
  TaskNodes <- MCTaskNodes
  TaskPipes <- MCTaskPipes
  OwnerNode <- MCOwnerNode
  OwnerTask <- MCOwnerTask
  BlockBeat <- MCBlockBeat
  Wiring <- MCWiring
  MaxTaps = 1
  MaxCalls = 2
  MaxStarts = 2
SPECIFICATION Spec
SYMMETRY Symmetry
INVARIANTS
  ProcessTypeOK
  RunningGraphIsServed
PROPERTIES
  GraphsAreUnions
CHECK_DEADLOCK FALSE
