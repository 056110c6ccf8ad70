# Formal models of the Nexus library

TLA+ models of `bittensor-nexus-library` (`src/src/nexus`, the framework subnet
validators are built with), the TLC configurations that check them, and the theorems
TLAPS proves about them. Paths below are relative to `src/src/nexus/_internal/` unless
they start with `src/`.

* [The system](#the-system) — components, state, interactions, hazards
* [Modules](#modules) — what models what
* [Runs](#runs) — what is checked, bounds, fairness
* [Proofs](#proofs)
* [Findings](#findings)
* [Not modelled](#not-modelled)
* [Plan](#plan)

## The system

A validator is a graph of *nodes*. Every node has typed *sinks* and *sources*; each
source is connected to at most one *primary* sink and any number of *tap* sinks. At run
time a node is an *actor* with a thread and an inbox. All messages go through one *event
bus* thread. Work is carried by *contexts*: the primary flow continues on the context of
the message, every tap gets a child context, and every change to a context is logged so
that it can be rebuilt.

| Component | State | Operations | Interacts with | Hard behaviour | Correct when |
|---|---|---|---|---|---|
| event bus (`core/runtime/event_bus.py`) | input queue, sink registry | append message to context, fork a child per tap, deliver, stop | context store (lock of the context), inboxes of all actors | order of forking and delivery, stop overtaking work, replay after a crash | a context has one owner; what is delivered is the state at emission; stop drains |
| actor, patterns (`actor.py`, `actor_patterns.py`) | inbox, thread, producer thread | handle event under the context's lock, emit returned events, start, stop | bus queue, context store, side threads (timers, communicators) | emission after the lock is released, side threads that use the context later | one owner; nothing is lost by a crash on the primary flow |
| subnet runtime (`subnet_runtime.py`) | threads of bus and actors | start, request_stop, wait | all of the above | every thread must end | every thread ends |
| context store (`context_store.py`, `context_store_types.py`) | contexts in memory, log per context, lock per context | get, append message, set user data, note, complete, create with 0..n parents, recover | bus, handlers, side threads | two-step changes and a crash in between, deltas, several parents locked at once | memory is what the log rebuilds; snapshots agree with the logs; no deadlock |
| async HTTP communicator (`actors/executor_communicator/`) | pending-request store with deadlines, bounded asyncio queue, input saved in the context | dispatch, enqueue with timeout, send, callback, sweep of timeouts, stop | neuron over HTTP, event bus, context locks | four parties race for each request; event loop blocked by a context lock; lost and repeated callbacks | one answer per request, with its input; always answered; handlers and threads end |
| retry strategy (`actors/retry_strategy.py`) | attempts and original input in the context, timer threads | input, failed attempt, timer | graph of the task | a timer uses the context after the handler | bounded attempts, exactly one verdict |
| timestamper (`actors/timestamper.py`) | latest block beat, queue of outputs | stamp start, stamp or queue output, flush | contexts of queued outputs | queue before the first beat, age limit | each output is stamped or dropped once |
| preparer, storers, dispatcher, sampler (`actors/task_result_*.py`) | pending result in the context | validate, convert, store, dispatch, sample | task result store | pending state over attempts; two messages on one context | a stored result is dispatched once |
| task result store (`core/runtime/task_result_store.py`) | results per task, ids, lock | add, get by id, per epoch | storers, weight setter | epoch boundaries, by-id and per-epoch views | the views agree |
| REST entry point (`actors/rest_entry_point*.py`) | futures by context, HTTP server thread and loop | request, output, error, timeout, stop | bus, HTTP client | answer races timeout and shutdown | each request gets one response, its own |
| chain beats (`actors/chain_beat/`, `utils/chain.py`) | last beat, last successful epoch | poll, emit | Pylon | blocks repeat or go back, boundaries | one epoch beat per epoch; weights retried within an epoch |
| weight setter (`actors/weight_setter.py`) | none | compute and put weights | Pylon, result store | failure, retry by beat | an epoch's weights are the function of its results |
| graph DSL (`core/dsl/`) | connections under construction | connect, tap, merge flows | builder | a call is a series of connects, any of which may raise; flows absorb each other | a graph is the union of what was declared; one primary per source, one role per target |
| validator process (`nexus_validator.py`) | subnet flow, nodes and tasks discovered | connect, start, run, stop, start again | DSL, builder, runtime | rebuilt graphs, refused starts, threads that die or do not end | what runs serves what was connected |
| neuron service and cat-images miner (`async_http_neuron_service.py`, `src/demos/cat-images/.../miner/`) | worker threads, process pool | accept, process, call back; update the axon; stop | communicators, chain | a callback before the 202, hung updates, a broken pool | each accepted request is called back once; the axon keeps being updated; an interrupt ends the process |
| cat-images facilitator (`src/demos/cat-images/.../facilitator/`) | job logs, worker pool, tickers, streams | submit with retries, tick, stream | validator's entry point, browsers | ticker races the result, stream races the log | one final status, last in the log; streams close |

`PROJECT.json` lists all components with their files and the hazards with their lines.

## Modules

| Module | Models | Correspondence |
|---|---|---|
| `RequestOutcome` | the promise of any communicator: at most one answer per request, with its own input | abstract specification |
| `AsyncHttpCommunicator` | the asynchronous HTTP communicator | one action per step of its five threads of control: actor, sender loop with workers, callback server, sweep, shutdown |
| `AsyncHttpCommunicatorProofs` | theorems about it | extends it with `OwnedInput` and `IInv` |
| `Runtime` | actors, producers, event bus, stop, crash and replay, generic in the graph | one action per step of the bus thread, an actor thread, a producer thread, a side thread |
| `RuntimeProofs` | theorems about it | the places a context can be in, and what each holds |
| `ContextStore` | contexts, logs, locks, creation and recovery | one action per step a crash or another thread can come between |
| `ContextStoreProofs` | theorems about it | recovery entry by entry, and what each log rebuilds |
| `NexusTask` | the pipeline of one task: retry strategy, payload creator, router, timestamper, communicator, preparer, converter, storers, dispatcher, error mux | one action per handler, timer, beat and delivery; the communicator by the promise of `RequestOutcome` |
| `NexusTaskProofs` | theorems about it | an invariant of what the state says of one work (`View`) |
| `Epochs` | epochs as the validator computes them, and as subtensor does | operators only |
| `ChainBeats` | block beats, epoch beats, the gate of weight setting, weight setter | one action per poll and per handled beat |
| `ChainBeatsProofs` | theorems about both | the phase of a block, and an invariant per property |
| `TaskResults` | the store of task results, and the weighing function of the cat-images validator that reads it | one action per call of the store |
| `TaskResultsProofs` | theorems about both | sorted views, the fold over validations, and what a weighing has read so far |
| `RestEntryPoint` | the HTTP entry point | one action per step of a request task, the actor thread, the server thread and the callbacks that join their futures |
| `Pipes` | the targets of a source: merging, refusing | operators only |
| `Connections` | what declaring connections promises | abstract specification |
| `TaskGraph` | flows, `then`, absorption, the builder | one action per `Pipes.connect` of a call |
| `ValidatorProcess` | the program around it: `NexusValidator` or flows by hand, start, run, stop | one action per step of a call, and per thread that dies or ends; EXTENDS `TaskGraph` |
| `TaskGraphProofs` | theorems about both | refinement of `Connections`; what a start and a build keep of a flow |
| `Miner` | neuron service, axon updater, `main()` | one action per step of a handler, a worker, the loop, the pool and `main` |
| `Facilitator` | jobs, tickers, streams | one action per step of a worker, a ticker or a stream |
| `HttpServicesProofs` | theorems about the entry point, the miner and the facilitator | one invariant per request of the entry point, one for its actor, one for its inbox; the order of updates in the pool; what each stream has seen and is going to send |
| `MC*` | instances for TLC | `MCChainBeats` puts `ChainBeats` and `TaskResults` into one run, `MCHttpServices` the entry point, the miner and the facilitator: the first state chooses the part that runs |

### AsyncHttpCommunicator

`pending` and `overdue` are the pending-request store and the entries whose `expires_at`
has passed. `actor.pc` follows `handle_input` through registration, scheduling of
`queue.put`, and the wait on its future; `put` is the state of the coroutine and its
future, separately from `cancelled`, because cancelling the future does not take a
request out of the queue. A worker in state `failing` waits for a context lock inside a
coroutine and so blocks the loop (`LoopFree`); the POST of another worker may still
reach its neuron meanwhile (`NeuronReceives`). `Emit` reads the input from the context,
as `_load_input_from_context` does; internal errors carry no input, only the context.

What is external is the asyncio machinery (`PutQueued`, `PutSignalled`, `PutDropped`),
modelled from its use. A neuron that received a POST may call back any number of times
or never; a callback for a request that is not pending changes nothing (404). The 2xx
answer, the failure and the callback are independent of each other. The answers' kinds
are kept, payloads are not.

`NoOpenRequest` is an assumption about the graph: the next request on a context is
dispatched only after the previous one was answered (in a NexusTask the next attempt is
triggered by the answer). Without it the saved input could be overwritten while a
request is open.

### Runtime

Handlers are not modelled one by one: a handler for sink `k` returns any element of
`Outputs[k]` (or nothing, also when it raises), may write user data, and may leave a
deferred emission (`Deferred[k]`) to a side thread, which is what communicators and
retry timers do. The graph is a constant; `Pipes` is what a finished graph of the DSL
guarantees.

Payloads are the numbers of the messages that carried them, user data the number of the
message whose handler wrote it last, so "which state does the handler see" can be asked
without values. Persisted is `ctxs`; a crash loses queues, inboxes and threads. The new
process replays the last message of every context, as the docstring of
`pass_message_downstream` describes; the repository has no caller that does so yet
(`subnet_runtime.py` keeps only the recovered store), so `Replay` models the documented
procedure with the code's own `pass_message_downstream` and
`recover_from(...).last_messages`.

`done` is a history variable: a message is handled by a sink when its handler has
returned and every event of its output is logged.

### ContextStore

Values are opaque, a delta is its old and new value, and applying it to another value
gives `Corrupt`. `mem[c]` and `log[c]` are a context and its entries in the persistence
layer; the persistence layer is assumed to survive and to perform each call at once (the
only implementation in the repository is in memory). The log of a parent gets its
`ChildCreated` entry in the same call that creates the child. `given` are the contexts
that `create_context` returned: only they are known to anybody. Locks are reentrant; the
code first tries a lock without waiting, logs an error when it is taken, and then waits
for it, which in the model is just the wait.

### NexusTask

Each work (an input of the task) has its context. `bus`, `inbox` and `last` are its
messages that are emitted, delivered, and logged last; `data` is its user data. A
handler is one action: it consumes a message, writes user data and emits. The bus logs
and delivers in a step of its own (`Deliver`), so the process can crash between a
handler's writes and the logging of what it returned. A message waits only for earlier
messages *to the same actor*. `Crash` leaves user data, stored results and, to be
replayed, the last message of each context.

Abstracted: a transform (payload creator, router, converter, input and output adapters
of the storers) succeeds, fails, or yields nothing, in which case the handler raises and
the work is in `lost` (the actor loop only logs the exception). Payloads keep the neuron
they were routed to or came from, which is what `CreditGoesToExecutor` is about. The set
of neurons does not change while a task runs, and a neuron answers with an output or an
executor failure; another kind of exception as output ends in the same sources as an
executor failure that cannot be stored. `TimePasses` ages everything started so far:
`old` tells works older than `QUEUE_AGE_ERROR_THRESHOLD` from younger ones. The result
store is assumed to survive a crash, as the one that exists does not.

`Tokens(w)` counts the places work `w` is in. Reports on child contexts
(`successful_task_result`, `executor_failure`) do not count: they leave the task beside
the work.

### Epochs and ChainBeats

`EpochContaining` and `Previous` follow `Epoch` and `get_epoch_containing_block` in
`utils/types.py` and `utils/chain.py`; `BlocksUntilNextEpoch` and `EpochStep` are what
subtensor does with the same netuid and tempo, the reference they are compared with. The
first epoch may start below block 0, and an epoch has a previous one only if that starts
at a block.

The chain and Pylon are external: the latest block goes on one by one, and once may go
one back (a reorganisation, or another node that answers the poll); polls miss blocks
and see them twice. A poll that fails changes nothing and is a stutter. The gate,
`SetWeightsBeatActor`, keeps the block of its last attempt and the last epoch it knows
to be successful; `OnBlockBeat` is the whole handler, with each of its early returns and
a Pylon status that may fail. `EpochBeatNode` has no tempo of its own: its beats follow
`DEFAULT_TEMPO`, with which they are compared. Weights that were put are submitted, if
at all, in the epoch in which Pylon took them, because a put carries no epoch. Mechanism
ids, hashes and timestamps are left out.

### TaskResults

A call of the store is one step, since it holds the store's lock throughout; a weighing
is a step per view it reads. Results arrive in any order of blocks, from any neuron, of
the mining task or of the validation task, and are found by id, by task, and by epoch in
the order of their blocks. A validation names the results it asked about (`asks`;
`Malformed` stands for a payload that cannot be read) and answers with scores, for these
or for others. `WeighsWhatWasStored` compares the algorithm, a fold over views, with a
definition over sets (`Expected`): the latest usable validation of a result counts,
whatever the order it was stored in. Because views are read one after the other, the
weights may or may not include what was stored in between, but they are those of one
such set.

### RestEntryPoint

A request task goes through `_dispatch_post_request`: context, registration, put, wait.
`future` is the one the store holds; `wrapped` is the one asyncio chains to it, and
`calls` are the callbacks scheduled on the loop that carry the state of one to the
other. They make the races visible: a timeout cancels `wrapped` at once and `future`
only in a callback, while the actor thread may be between `done()` and `set_result`
(`CheckDone`, `SetResult`); a `set_result` on a future that was cancelled in between
raises, which the actor loop logs. `Expire` is the timer of `wait_for`; `Awake` says
that asyncio runs the callbacks of a future before it resumes the task that waits for
it. `CancelAll` and `CancelOne` are two steps, since the futures are cancelled outside
the lock. An output that is an exception is an answer too (with status 500), told from
`ServerError`, the failure of the request itself. `Refuse` is the end of a request that
gets no context (404, 405, 411, 400). `StartUp` and `StartUpFails` are the two ends of
`on_start`: when the server thread is not seen to be up in time, the actor ends, but the
server may still come up later, accept requests that nobody will answer, and see
`should_exit` only then. Keep-alive is left out.

### TaskGraph and ValidatorProcess

A call of the DSL or of a validator is `Begin` with the connections it is going to make
(`call.todo`, ranked where the code orders them), one `Merge` or `Raise` per
`Pipes.connect`, and `Return`, which gives the flow its new exits. A call that raises in
the middle keeps what it merged before, which is why the calls are not atomic. Flows
hold their entry, exits and default exit (`shape`) and their connections (`pipes`); the
same map holds the connections of the validator's flow and of the piping `build` makes.
Calls that raise before they change anything are left out. In `ThenRoutes` and with
several taps the targets are absorbed in the order of the code; connections from one
flow are merged in any order, as their order is that of a dictionary.

`ValidatorProcess` adds `connect` with the discovery of the nodes and tasks that own an
endpoint (`MergeAndRegister`: the connection is made first, the owners are registered
after it), `start_runtime` with its taps on the clock, and the threads of a runtime as a
set: the bus may die of a sink without handler (`BusDies`), an actor in `on_start`
(`ActorDies`), and `WaitForStop` may end before the threads do. `byHand` behaviours use
flows and a builder without a validator.

Who owns an endpoint is what the endpoint says (`OwnerNode`, `OwnerTask`, the fields
`owner_node` and `owner_task`), and nothing relates it to the nodes that list the
endpoint (`SinksOf`, `SourcesOf`): the endpoints of a `DoubleTransform` are owned by its
inner transforms, so that connecting one registers a node `build` refuses, and a
`SinkNode` lists a sink without owner, so that nothing is registered and the bus dies of
it. `connect` may be called before a start, between starts and in the body of a running
`start_runtime`, by the thread of that body; what it adds then is served by the next
start, and `served` remembers the tasks of the current one (`connected_tasks` of
`_build_runtime`). Calls of `connect` from other threads are left out, and so are the
auxiliary actors of `add_actors` and `add_actor_factories`, which only tests
use: the actors of a runtime are those of its nodes.

`Connections` is the abstract graph: a set of connections that only grows by what a call
declares, stays well formed, and ends a call early only for a connection that does not
fit.

### Miner and Facilitator

The miner is a neuron service and an axon updater in one process. The worker of a
request may call back before its handler replied; the stop of the service joins no
workers, so a process that exits may leave one behind. The updater's loop submits an
update to a pool of one process and waits for it two minutes; an update that times out
keeps the process (`abandoned`). `taken` is what the pool's queue holds out of reach of
`cancel_futures` (external, after `concurrent.futures`), so a hung update delays the end
of the process, but not of `main` (`ProcessExited`).

The facilitator's job takes a worker of a pool, a ticker thread of its own and a
retrying submission; streams poll the job's log. `AppendStatus` refuses after a final
status, which is what a late ticker meets. Validators' registry and pages are left out.

`MCHttpServices` runs the three HTTP programs, which share nothing, one at a time.

## Runs

| Run | Instance | Question |
|---|---|---|
| `communicator_safety` | 3 requests, 2 contexts, 2 workers, queue of 1; symmetry | `Custody`: each dispatched request is answered or owed its answer by exactly one of store, worker, server, sweep; `OneAnswerWithItsInput`: it implements `RequestOutcome` |
| `communicator_liveness` | 2 requests, 2 contexts, 1 worker, queue of 1 | `EventuallyAnswered`, `HandlerEnds`, `ThreadsStop` |
| `runtime_safety` | graph with producer, primary chain, taps, deferred emission, actor with two sinks; 2 messages produced, no crash | `DeliveredStateIsEmissionState`: nothing changes what a target sees between emission and handling; `StopDrainsInboxes` |
| `runtime_crash` | same graph, 1 product, 1 crash | `SingleOwner`: a context is in one place at a time, through the replay; `PrimaryWorkIsKept`: until its primary has completed, a message is the last one of a context and something will go on with it; `PrimaryWorkSurvives`; `StopEndsThreads` |
| `runtime_tap_loss` | same | violated: `TapWorkSurvives`, see [Findings](#findings) |
| `context_store` | 2 threads, 3 contexts, 4 log entries, 1 crash | `TypeOK`; `RecoverableState`: the log of a context rebuilds its memory, and does so for every context handed out; `SnapshotIsParentAtCreation`; `CreationEnds`: no deadlock among threads that lock several parents |
| `nexus_task` | 2 works, 2 attempts, 2 neurons, no crash; symmetry | `TypeOK`; `ExhaustedAfterAllAttempts`, `ReportsAgreeWithStore`: what leaves the task agrees with what happened in it |
| `nexus_task_crash` | 1 work, 3 attempts, 2 neurons, 2 crashes | `OneFlow`: a work is in one place until its only verdict, and a replay never doubles it; `AttemptsBounded`; `NoStateCorruption`; `CreditGoesToExecutor`; `EventuallyVerdict` |
| `nexus_task_restart` | 1 work, 2 attempts, 1 crash | violated: `WorkSurvivesRestart`, see [Findings](#findings) |
| `chain_beats` | blocks 0 to 8, epochs of 4 blocks, netuid 1, finality delay 2, offset 1, cooldown 2, queues of 1; beside it 3 results at blocks 1, 4 and 5, 2 neurons, 2 scores | `EpochsAreSubtensors`: what a beat names is an epoch of subtensor; `EpochBeatsFollowChain`; `AttemptsSpaced`: attempts to set weights are a cooldown apart; `ReachedEpochsAreTried`; `ViewsAgree`, `WeighsWhatWasStored`: weights are the function of what was stored |
| `http_services` | entry point: 2 requests, up to 2 outputs each, one stop; miner: 1 request, 3 updates, one of them taken ahead; facilitator: 2 jobs, 1 worker, 2 tries, 1 tick, 1 stream | `EntriesAreOpen`: no pending response is left behind; `RepliesAreExplained`; `FirstOutputCounts`: the first output the actor handled is the response unless the request timed out; `EveryRequestReplied`; `UpdaterFollowsMain`, `AcceptedIsCalledBack`; `StreamsAreFaithful`, `StreamsClose` |
| `task_graph` | 7 nodes, a DoubleTransform and its inner node and a node that lists a sink without owner among them, 1 task, 2 flows, 2 calls, 1 tap per call, 2 starts; symmetry in the flows | `ProcessTypeOK`; `RunningGraphIsServed`: a running graph has the actors, tasks and taps of what was connected when it was started, and its bus ends of a sink only that has no handler and no owner that handles it; `GraphsAreUnions`: it implements `Connections` |

The remaining type invariants (of the communicator, the runtime, the beats and the entry
point) are proved and are no part of the runs.

### Bounds

* Communicator: two requests can be in flight on two contexts while the third is a retry
  on one of them (fresh request, same context), two workers fill a queue of one. All
  races are between two parties over one request, or between a party and the actor that
  holds the context.
* Runtime: two products are enough for one to overtake the other in every queue and for
  the tap of the first to be alive with the second; a product in flight logs at most
  four messages in a run with one crash (`MaxTracked`, the messages the liveness
  properties quantify over). A second crash repeats the situation of the first: what is
  persisted differs only in the length of the logs.
* Context store: three contexts give a child of two parents, a chain of three, and two
  threads that gather the same parents in opposite order. `MaxEntries` bounds the
  changes in all logs; `RefuseCreate` also serves as the end of a creation when
  `MaxContexts` is reached, which is the bound and not the code.
* NexusTask: works meet only in the queue of the timestamper, so two are enough for one
  to be dropped or flushed with the other, and two attempts for one retry. The crash run
  has one work, three attempts (a replayed attempt in the middle) and two crashes, so
  that a replay is itself interrupted and replayed. `MaxCrashes` is the only bound in
  the guards.
* Chain beats: the blocks cover an epoch that starts below block 0 (so has no previous
  one), one that starts at a block and one after it; polls skip whole epochs. Queues of
  one are enough for a beat to be handled after its epoch ended.
* Task results: three results are a mined one and two validations that disagree about
  it, or a success, a failure and a validation; the three stamps are the first and the
  last block of an epoch and the first of the next, so results come out of order within
  an epoch and across its end.
* REST entry point: requests share only the actor thread and its inbox, so two are
  enough for one to hold up the other; two outputs stand for any number, since only the
  first finds an entry.
* Task graph: two flows, so that one absorbs another that is itself changed afterwards;
  two calls, of `then` or `connect`, are one that succeeds and one that is refused
  because of it (`MaxCalls`), with one tap each (`MaxTaps`); two starts show what the
  second one repeats (`MaxStarts`). One sink has no owner, one node cannot be built.
* Miner: three updates are one that hangs, one that is taken ahead into the pool's queue
  and one that stays in the backlog; `MaxUpdates` bounds the loop. Requests share
  nothing but the server, so there is one.
* Facilitator: two jobs for one worker, so that one waits; `MaxTicks` bounds the waiting
  messages, and one is enough to come after the final status.
* `CHECK_DEADLOCK FALSE` everywhere: a stopped runtime, a store nobody uses, a chain at
  its last block and a task whose works are done have no next step.

### Fairness

* Communicator: threads that can run do run (weak fairness of the actor's and the loop's
  steps, of each worker, of the callback server and of the sweep) and time passes (weak
  fairness of `Expire`). A send ends, since it has a timeout in the code (`SendFailed`
  is weakly fair). Nothing obliges a neuron to call back, a POST to be accepted, the
  graph to send inputs or the runtime to stop.
* Runtime: bus and actors run, handlers return, and a side thread emits in the end,
  which is `EventuallyAnswered` for the communicator and a timer for retries.
  Production, stop and crash are not fair.
* NexusTask: bus, actors and timers run, the communicator answers (again
  `EventuallyAnswered`), and blocks go on, so that a beat comes. Inputs, crashes and the
  passing of the queue's age limit are not fair.
* REST entry point: the request tasks, the callbacks of the loop, the actor and the
  server thread run. Outputs, the stop and the timeout are not fair: the first part of
  `EveryRequestReplied` must hold without the timeout, the second assumes it explicitly.
* Miner: handlers, workers and the updater's loop run, the processor returns, and `main`
  goes on with its stop. Nothing makes an update end, a request come or an interrupt
  happen.
* Facilitator: workers, streams and the pool run, and an attempt ends (its client has a
  timeout). A ticker may be late for ever.
* Chain beats, task results and the task graph: no fairness, all their properties are
  safety or step properties.
* Context store: strong fairness of an operation's next step, since a lock is free again
  and again rather than for ever (handlers return), and Python's locks do not starve a
  waiter for ever in practice; this is an assumption on the platform, not something the
  code enforces.

## Proofs

`AsyncHttpCommunicatorProofs` proves, for any sets of requests, contexts and workers and
any queue size under `CommunicatorAssumption`:

* `TypeCorrectness`: `Spec => []TypeOK`;
* `CustodyIsKept`: `Spec => []Custody`;
* `ImplementsRequestOutcome`: `Spec => RequestOutcome!Spec`;
* `Invariance`: `Spec => []IInv`, the invariant they rest on.

`Custody` is not inductive alone. `IInv` adds `OwnedInput`: the actor and the workers
hold only real requests, the sweep has a batch only while it emits (or the signal check
could drop one), and the input saved in a context is that of its open request. The last
part is what makes an emission carry its own input: it holds initially, `HandleInput`
overwrites a context's input only when the context has no open request
(`NoOpenRequest`), and nothing else writes it.

The argument: whoever emits holds the request (`HeldIsOpen`), hence it is unanswered and
its context has its input (`EmitAnswers`); after the emission the other requests are
where they were (`EmitKeepsCustody`). Each action has a lemma, `NextIInv` combines them.
For the refinement, an action either emits for a held request, which is `Resolve`, or
dispatches, or refuses, or stutters (`StepSimulation`).

`RuntimeProofs` proves, for any graph under `GraphAssumption`, any number of products and
any number of crashes:

* `TypeCorrectness`: `Spec => []TypeOK`;
* `GracefulStop`: `Spec => []StopDrainsInboxes`;
* `OneOwner`: `LinearOutputs /\ Spec => []SingleOwner`;
* `StateAtEmission`: `LinearOutputs /\ Spec => []DeliveredStateIsEmissionState`;
* `PrimaryWorkKept`: `OwnContextLast /\ Spec => []PrimaryWorkIsKept`.

`LinearOutputs` says that no handler returns two events on its own context, as in the
graphs of the runs. It is a condition on the graph, not a fact of the code: a handler may
return such a list, and the storer of executor failures does
(`task_result_storer.py:202-212`), so its context is on the bus twice for a while. For
the actors that transform, fork or produce, for communicators and for retry timers it
holds. `OwnContextLast` says in addition that the event on the own context is the last one
of an output, as the dispatcher of task results has it (`task_result_dispatcher.py:117-131`);
an output on children only, as for an executor failure, satisfies it too.

The argument for `OneOwner` goes by places: queues, threads, the side threads' events,
the replay (`Places`, `Held`). `OnePlace` says that two places never hold the same context,
`OnceEach` that none holds it twice. A step moves a context from one place to another,
puts new ones into a place, or only removes some (`MovesOne`, `MovesNew`, `MovesSome`,
`MovesNone`, all from `Moved`); each action has a lemma that names its two places.
`TypeInv` adds to the types that what is referred to was logged (`RefersToLogged`): the
replay of a context without a message would have no source.

`StateAtEmission` follows: whoever writes to a context holds it (`WritesKeep`), so no
delivery in an inbox, on the bus or in another handler is about that context. The
children of taps get their state from the context the bus is passing on, which
`BusHasState` keeps equal to the message until the last child exists. For `GracefulStop`,
`StopsAreLast`: the bus puts the stop events when nothing is left to pass on, and puts
nothing after them.

`PrimaryWorkIsKept` is the safety half of `PrimaryWorkSurvives`: it says of every moment,
whatever is fair, that the context which would replay a message still has it and that a
delivery, a replay or the last event of its handler is pending. It is not inductive: once a
handler has answered on children only, its own context is in no queue, and what keeps
another message from replacing the one it carries is that nothing leads back to it. `Kept`
says so (`Due`: the last event is on the context, or the context is `Nowhere`), and each
lemma about a step also shows `NoneComesBack`: a context that was nowhere stays there
(`Unmoved`). Most steps put what they take somewhere else (`KeptByMoving`); a handler that
returns leaves its last event behind (`ReturnsKept`); a message that is logged replaces
another one only on the context of its own event, which by `OnePlace` is the event that
completes the other (`AppendsKept`); a crash leaves every logged context to the replay.

TLC checked the invariants of the four proofs on the graphs of the runs first.

`ChainBeatsProofs` proves about `Epochs`, for every netuid, tempo and block:

* `EpochIsSubtensors`: the epoch computed for a block contains it and runs from one step
  of subtensor to the block before the next;
* `EpochsTile`: every block of an epoch has that epoch, the block after it begins the
  next one, and `Epoch.previous` is the epoch of the block before it.

Both reduce to the phase of a block, `(block + netuid + 2) % (tempo + 1)`: it is the
distance from the first block of the epoch (`EpochFromPhase`) and moves along with the
block inside an epoch (`PhaseShift`). Below them are three lemmas on the modulus
(`ModShift`, `ModUnique`, `ModSucc`).

and about `ChainBeats`, for every sequence of blocks and all the constants under
`BeatsAssumption`:

* `AttemptsKeepDistance`: `Spec => []AttemptsSpaced`. A block beat that is not silenced
  is at least a cooldown after the last attempt, but "the last attempt" is what the
  handler remembers, and the distances of the history follow from one step to the next;
  `IInv` adds that the remembered block is the last of the attempts (`GateInv`);
* `BeatsNameSubtensorEpochs`: `Spec => EpochsAreSubtensors`, an action property, from
  `EpochIsSubtensors`;
* `TypeCorrectness`: `Spec => []TypeOK`;
* `EpochBeatsFollow`: `Spec => []EpochBeatsFollowChain`. `FollowInv` adds that an epoch
  behind the last one beaten, which will be beaten again, has a step back of the block
  to its account; that epochs advance with blocks is the lemma `EpochsAdvance`;
* `EpochsAreTried`: `Spec => []ReachedEpochsAreTried`. What silences the gate must be an
  attempt, or a confirmed success, of the same epoch; `OrderInv` says that on a chain
  that does not go back the queued beats are in order and not before the settled one,
  and `SilentIsTried` is the case analysis of the gate.

`TaskGraphProofs` proves, for any nodes, sinks, sources, flows and bounds under
`GraphAssumption`, `SinkAssumption` and `ValidatorAssumption`:

* `ProcessTypeCorrectness`: `Spec => []ProcessTypeOK`;
* `ImplementsConnections`: `Spec => GraphsAreUnions`, the refinement of `Connections`;
* `RunningIsServed`: `Spec => []RunningGraphIsServed`, under `TaskAssumption` too;
* `Invariance`: `Spec => []IInv`, which they rest on.

The refinement maps pipes to sets of connections. That a merge adds what was declared
and nothing else is `MergeAddsConnections`, that a refused declaration does not fit is
`RefusedDoesNotFit`; both speak of two targets only. Every action of the program is one
of five steps as far as graph and call are concerned (`CallStep`), which is what
`StepSimulation` maps: a call begins, merges, raises, ends, or nothing happens.
`GraphInv` adds that merged targets have one role each, that only a call by itself
declares nothing, and that nothing changes the graph between the taps of the clock and
the build.

What a runtime serves was discovered while calls connected it, so `RunningGraphIsServed`
needs `ServedInv`: the owners that the endpoints of the validator's flow name are
registered (`Registered`); the clock has its taps once the flow was prepared for a start
(`Tapped`); a build has what the flow has, and the nodes it is built with are those of
what it merges (`BuildsAll`); and a call is in the phase that its kind has
(`CallsInPhases`). A call in the body of a running `start_runtime` changes flow, nodes
and tasks, and neither piping nor actors. Of owners only their types are assumed, so the
theorem holds for endpoints without owner and for owners that do not handle what they
own; for these it promises nothing, and names them as what a bus may die of.
`TaskAssumption` says that the internal pipes of a task lead to sinks of its own nodes.

`TaskResultsProofs` proves, for any hotkeys, scores, blocks, epochs and number of results,
under `ResultsAssumption` and `WeighedAssumption` (the epochs of a chain do not overlap):

* `StoreAgrees`: `ResultsSpec => []ViewsAgree`;
* `WeighingIsFaithful`: `ResultsSpec => []WeighsWhatWasStored`.

The algorithm sorts, folds and adds up; the property speaks of sets. Three results about
data lie between them, each by induction over the naturals in the form of `Induction`: a
list can be sorted, so that a view exists (`SortExists`) and shows the results of its
epoch, all of them and no other (`ViewShowsEpoch`); what a fold over validations knows of
a result is what the last of them says that says something (`ScoresAre`), which in a
sorted list is the latest (`ScoresAreLatest`); and with both the accumulators come to the
weights of the definition (`AccumulatedIsWeights`). `ListsInv` adds that ids grow along
every list and are unique, so that sorting by block is the order of blocks and ids, and
the two tasks' results are apart. `ReaderInv` follows a weighing: each view it has read
is sorted, is made of stored results of its epoch, and has all that were there when the
weighing began (`Reads`). Results that are stored later disturb neither this
(`ReadsStay`) nor what was expected of earlier ones (`ExpectedStays`). At the end, what
was read beyond the results of the beginning is the set `S` of the property
(`EndWeighs`). TLC checked `ListsInv`, `ByIdInv` and `ReaderInv` on the instance of the
run before they were proved.

`HttpServicesProofs` proves about `RestEntryPoint`, for any set of requests and any number
of outputs for each:

* `TypeCorrectness`: `Spec => []TypeOK`;
* `EntryPointInvariance`: `Spec => []EntryPointInv`;
* `NoEntryIsLeft`, `RepliesHaveReasons`, `FirstOutputIsResponse`: `EntriesAreOpen`,
  `RepliesAreExplained` and `FirstOutputCounts` always hold.

None of the three properties is inductive: why the store is empty or a reply is what it
is depends on where the request's task, its two futures and their callbacks are.
`RequestInv(r)` lists what goes together for one request, `ActorInv` says that what the
actor holds was taken out of the store and was there, and `InboxInv` that the first
output for an entry is in the inbox, before any other output of that request. The proof
has three kinds of steps: those of one request leave all others alone
(`OthersUntouched`) and the actor too (`RequestKeepsActor`, `RequestKeepsInbox`); those
of the graph only append to the inbox; those of the actor touch the one request they are
about (`ResolveKeepsInvariant`, `SetResultKeepsInvariant`, `CancelOneKeepsInvariant`).
TLC checked the invariant before it was proved, also as an invariant of one step from
any typed state with one request.

About `Miner` it proves `UpdaterIsFollowing`, `MinerSpec => []UpdaterFollowsMain`, for any
number of updates and any depth of the pool's queue. The property says that whatever is
in the pool was abandoned or is what the loop waits for; that an update leaves the pool
for good when it ends or is lost needs `PoolInv`: updates pass the backlog and the queue
in the order in which they were submitted, each once. `LoopInv` adds that nobody but
`main` shuts the pool down, and that what the loop waits for is in the pool, has ended,
or was lost with it.

About `Facilitator` it proves `StreamsStayFaithful`, `FacilitatorSpec => []StreamsAreFaithful`, for any jobs, streams, workers, retries and ticks. Its invariant
has three parts. `JobInv`: a log is final only when its worker is done, which is why a
ticker that comes late finds it final and appends nothing. `QueueInv`: a job that waits
has not begun and waits once, so no second worker ends it. `Faithful`: what a stream has
sent is what it has seen of its log, and its batch is what comes next. Logs only grow
(`LogsGrow`), which leaves all streams as faithful as they were (`StreamsKept`).

`ContextStoreProofs` proves, for any threads, values, contexts, changes and crashes:

* `TypeCorrect`: `Spec => []TypeOK`;
* `Recoverable`: `Spec => []RecoverableState`;
* `SnapshotsFaithful`: `Spec => []SnapshotIsParentAtCreation`.

What a log rebuilds is a recursion over its entries (`Rebuild`, a recursive function on
positions). Its defining equation has to be proved, by induction over the naturals. The
library's induction theorems take an operator, so `Induction` is derived in a form about
a set of numbers, from the well-foundedness of finite sets under inclusion. The result is
`RebuildAppend`: one more entry in a log is one more step of the recovery.

A change is logged before it is made, and a crash or another thread may come in between,
so "the log rebuilds the memory" is not inductive. `IInv` says what each log rebuilds
instead: the memory of a context nobody is changing (`LogRebuildsMemory`), the changed
memory of one with a logged change (`LogRebuildsChange`), its creation only for a context
that was not handed out (`OnlyCreated`). That other threads do not disturb this needs
`Exclusive`, no context is owned by two threads, and no context is created by two.
`SnapshotsRight` and `NotedOnce` keep what a child remembers tied to the one note of its
creation in the log of each parent; since logs only grow (`GrownByOne`, `SnapshotKept`),
what the note says stays true. In a crash (`CrashAndRecoverStep`) memory becomes what the
logs rebuild.

`NexusTaskProofs` proves, for any number of works, neurons and crashes and any
`max_attempts` under `TaskAssumption`:

* `InvariantHolds`: `Spec => []IInv`, which the others rest on;
* `TypesHold`: `Spec => []TypeOK`;
* `FlowIsOne`: `Spec => []OneFlow`;
* `AttemptsAreBounded`: `Spec => []AttemptsBounded`;
* `StateIsNotCorrupted`: `Spec => []NoStateCorruption`;
* `ExhaustedIsHonest`: `Spec => []ExhaustedAfterAllAttempts`;
* `ReportsAreStored`: `Spec => []ReportsAgreeWithStore`;
* `CreditIsDue`: `Spec => CreditGoesToExecutor`, an action property.

Works meet only in the timestamper's queue, so `IInv` is one invariant of what the state
says of a work, for every work. Its first part holds with crashes (`WorkInv`):
`InOnePlace` counts the places as `OneFlow` does; `Ordered` says that a report in an
inbox may lag, but every other message there is the last one logged, so a replay repeats
nothing that was overtaken, and that of two messages returned together the one that moves the
work on comes second; `MessagesAgree` ties what a message, request, timer or queue entry
claims to the user data of the work and to the neuron asked last, which is where
`CreditIsDue` and `StateIsNotCorrupted` come from; `PendingAgrees` says where a work can
be while the preparer keeps a result; `AttemptsCounted` that the attempts in the context
are never behind those issued, which is why a repeated handler issues no attempt too
many. The second part (`UncrashedInv`) balances messages, store and what left the task
as long as no process crashed: it is false after a crash, which may lose the message
between a stored failure and its report.

The proof has two stages. Lemmas about two views of a work say what an answer of no, one
or two messages, a delivery, an input, a dropped output or a crash keeps (`HandledKeeps`,
`DeliveredWork`, `CrashedWork`, ...). A lemma for each action then says which of these it
is, and that it leaves the other works alone. What is in the queue for a work is again a
recursive function (`OfWorks`), with its equation proved by induction.

TLC checked both invariants on the instances of the runs before they were proved.

Left to TLC is liveness under fairness, and with it `ENABLED`, which are out of reach of the
provers: `EventuallyAnswered`, `HandlerEnds`, `ThreadsStop`, `PrimaryWorkSurvives`,
`StopEndsThreads`, `CreationEnds`, `EventuallyVerdict`, `EveryRequestReplied`,
`AcceptedIsCalledBack` and `StreamsClose`. Every other property of a passing run, all
invariants and action properties among them, is proved.

## Findings

* **A tap delivery can be lost in a crash** (`runtime_tap_loss`). Recovery passes the
  last message of every context downstream again. The child context of a tap has no
  message, and its parent's last message is another one as soon as the primary flow went
  on. A tap delivery in flight at that moment is never made. `src/docs/nexus.md:226`
  says that a validator process must be restartable without losing any work.
* **A restart forgets a work whose executor failure was just stored**
  (`nexus_task_restart`). The storer emits `executor_failure` and then `error`, both on
  the context of the work: if the process dies when the first is logged and the second
  is not, the context's last message is the report for the dispatcher. Replaying it
  retries nothing, and the work has no verdict.

More observations that are no run of their own. The same two messages are processed at
the same time by dispatcher and retry strategy (and the bus), so that one of them waits
for a lock for which `lock_context` expects never to wait, and logs an error. A crash
between the preparer's write of the pending result and the logging of its message makes
the replay find a result already pending, so a good output ends as an internal error;
`ReportsAgreeWithStore` therefore speaks of behaviours without a crash.

The docstring of `core/runtime/nexus_task.py:28-29` says "Once retries are exhausted,
`error` fires and none of the result sources emit", whereas `executor_failure` is
emitted for every failed attempt whose failure was stored, the last one included,
possibly after `error`.

A `SetWeightsBeat` that is handled after its epoch ended puts its weights into the next
epoch, whose status then reads submitted: `put_weights` takes no epoch.

A request that is accepted after `cancel_all` and before the server sees `should_exit`
waits for its whole timeout, longer than `on_stop` waits for the server thread, which
then outlives its actor.

The miner's `stop()` shuts its pool down without waiting for it, but the interpreter
waits for the pool's process when it exits (`ProcessPoolExecutor` registers that with
the interpreter): `main` returns after an interrupt, but a hung update keeps the
process.

## Not modelled

Payload contents, serialization, logging, settings, exceptions' texts and the public
facade; HTTP and TLS themselves; the OpenRouter and embedded communicators (a
synchronous call in a handler), the wrappers of external clients and the sampler of task
results (a transform without state); the facilitator's registry of validators and its
pages; the wiring of the cat-images validator, which is one more graph. Exceptions out
of `on_stop` (logged, the thread ends as without them) and out of `append_message`
(which takes a payload whose delta does not rebuild it, and payloads are abstract) are
left out. Durable persistence does not exist in the repository; the models state what
they assume of it.

What has no concurrency of its own is only seen through its outcome: transforms succeed,
fail, or yield nothing (`NexusTask`). The share of the code that is not mapped is mostly
declarations, type parameters, exception classes, re-exports, clients and formatting.

## Plan

A composition of `NexusTask` with `Runtime` would replace the promise of deliveries in
`NexusTask` by the bus itself; both are checked against the same order of steps now.
