------------------------ MODULE AsyncHttpCommunicator ------------------------
(***************************************************************************)
(* The asynchronous HTTP communicator: the actor thread that dispatches    *)
(* requests, the sender event loop with its bounded queue and its workers, *)
(* the callback server that receives the neurons' answers, and the timeout *)
(* sweep.  The four race for each request through the shared               *)
(* pending-request store: whoever pops a request owns its one answer.      *)
(*                                                                         *)
(* Locks.  The actor handles an input while it holds the lock of the       *)
(* input's context; whoever emits an answer first loads the saved input    *)
(* under the same lock.  The load is one step, so only the actor is ever   *)
(* seen holding a context.  A sender worker that waits for a context lock  *)
(* blocks the whole event loop (LoopFree).                                 *)
(*                                                                         *)
(* Time.  A deadline is an action (Expire), a wait that may time out is a  *)
(* choice between its two endings.                                         *)
(***************************************************************************)
EXTENDS Naturals, FiniteSets, Sequences

CONSTANTS Requests,      \* ids, one per dispatch (uuid7 in the code)
          Contexts,      \* the contexts requests are dispatched for
          Workers,       \* max_in_flight sender workers
          QueueMaxSize,  \* _SENDER_QUEUE_MAX_SIZE
          StopSignal,    \* STOP_SENDER_LOOP_SIGNAL
          NoRequest,
          NoContext

ASSUME CommunicatorAssumption ==
  /\ QueueMaxSize \in Nat \ {0}
  /\ IsFiniteSet(Workers) /\ Workers # {}
  /\ StopSignal \notin Requests
  /\ NoRequest \notin Requests
  /\ NoContext \notin Contexts

VARIABLES
  dispatched,  \* requests whose input reached handle_input
  ctxOf,       \* the context of each dispatched request
  savedInput,  \* context user data: the input saved for the last dispatch
  pending,     \* the pending-request store
  overdue,     \* those of them whose expires_at has passed
  actor,       \* the actor thread: [pc, req]
  put,         \* state of each request's queue.put coroutine and its future
  cancelled,   \* requests whose enqueue future was cancelled
  queue,       \* the asyncio queue between the actor and the workers
  loop,        \* the sender loop: "starting", "running" or "closed"
  stopsLeft,   \* stop signals _enqueue_stop_signals has still to put
  worker,      \* each sender worker: [st, req]
  posted,      \* requests that reached the neuron
  server,      \* the callback server: [up, req, kind]
  sweep,       \* the sweep thread: [pc, stop, batch]
  answers      \* for each request, the events put on the bus for it

actorVars  == <<dispatched, ctxOf, savedInput, actor>>
storeVars  == <<pending, overdue>>
senderVars == <<put, cancelled, queue, loop, stopsLeft, worker, posted>>
vars == <<actorVars, storeVars, senderVars, server, sweep, answers>>

----------------------------------------------------------------------------
(* Types *)

\* Answers on the processed source carry the input; internal errors do not.
Replies == {"processed", "executor_error"}
Kinds == Replies \cup {"internal_error"}

ActorPc == {"idle", "registered", "enqueueing", "timed_out",
            "stop_sweep", "stop_sender", "stop_server", "stopped"}

PutState == {"none", "scheduled", "queued", "signalled", "dropped"}

SweepPc == {"check", "pop", "emit", "exited"}

WorkerState == {"idle", "sending", "failing", "stopped"}

Answer == [kind : Kinds, input : Requests \cup {NoRequest}]

TypeOK ==
  /\ dispatched \in SUBSET Requests
  /\ ctxOf \in [Requests -> Contexts \cup {NoContext}]
  /\ savedInput \in [Contexts -> Requests \cup {NoRequest}]
  /\ pending \in SUBSET Requests
  /\ overdue \in SUBSET pending
  /\ actor \in [pc : ActorPc, req : Requests \cup {NoRequest}]
  /\ put \in [Requests -> PutState]
  /\ cancelled \in SUBSET Requests
  /\ queue \in Seq(Requests \cup {StopSignal})
  /\ loop \in {"starting", "running", "closed"}
  /\ stopsLeft \in Nat
  /\ worker \in [Workers -> [st : WorkerState, req : Requests \cup {NoRequest}]]
  /\ posted \in SUBSET Requests
  /\ server \in [up : BOOLEAN, req : Requests \cup {NoRequest}, kind : Replies]
  /\ sweep \in [pc : SweepPc, stop : BOOLEAN, batch : SUBSET Requests]
  /\ answers \in [Requests -> Seq(Answer)]

----------------------------------------------------------------------------
(* Helpers *)

\* The actor is inside a handler, holding the lock of its context.
Handling == actor.pc \in {"registered", "enqueueing", "timed_out"}

\* The context of request r can be locked by a thread other than the actor.
CtxFree(r) == ~(Handling /\ ctxOf[actor.req] = ctxOf[r])

\* The event loop runs callbacks, also while it enters the Pylon client: it is not
\* closed, and no worker blocks it.
LoopFree == loop # "closed" /\ \A w \in Workers : worker[w].st # "failing"

\* The event put on the bus for r: answer plus the input saved in r's context.
Emit(r, k) ==
  answers' = [answers EXCEPT ![r] = Append(@, [kind |-> k, input |-> savedInput[ctxOf[r]]])]

\* pending_request_store.pop: the entry leaves with its deadline.
Pop(r) == /\ pending' = pending \ {r}
          /\ overdue' = overdue \ {r}

\* Mutant: the failure is emitted whether or not the request was still pending.
FailPendingBlindly(r) ==
  /\ Pop(r)
  /\ Emit(r, "executor_error")

\* _fail_pending_request by the thread that owns r's context: pop the request
\* and, when it was still there, emit the executor failure.
FailPending(r) ==
  /\ Pop(r)
  /\ IF r \in pending THEN Emit(r, "executor_error") ELSE UNCHANGED answers

\* The task graph sends the next attempt of a context only after the answer to
\* the previous one, so a context has at most one open request.
NoOpenRequest(c) == \A r \in dispatched : ctxOf[r] = c => answers[r] # <<>>

----------------------------------------------------------------------------
Init ==
  /\ dispatched = {}
  /\ ctxOf = [r \in Requests |-> NoContext]
  /\ savedInput = [c \in Contexts |-> NoRequest]
  /\ pending = {}
  /\ overdue = {}
  /\ actor = [pc |-> "idle", req |-> NoRequest]
  /\ put = [r \in Requests |-> "none"]
  /\ cancelled = {}
  /\ queue = <<>>
  /\ loop = "starting"
  /\ stopsLeft = 0
  /\ worker = [w \in Workers |-> [st |-> "idle", req |-> NoRequest]]
  /\ posted = {}
  /\ server = [up |-> TRUE, req |-> NoRequest, kind |-> "processed"]
  /\ sweep = [pc |-> "check", stop |-> FALSE, batch |-> {}]
  /\ answers = [r \in Requests |-> <<>>]

----------------------------------------------------------------------------
(* The actor thread: handle_input *)

\* Save the input in the context and register the request in the store.
HandleInput(r, c) ==
  /\ actor.pc = "idle"
  /\ r \notin dispatched
  /\ NoOpenRequest(c)
  /\ dispatched' = dispatched \cup {r}
  /\ ctxOf' = [ctxOf EXCEPT ![r] = c]
  /\ savedInput' = [savedInput EXCEPT ![c] = r]
  /\ pending' = pending \cup {r}
  /\ actor' = [pc |-> "registered", req |-> r]
  /\ UNCHANGED <<overdue, senderVars, server, sweep, answers>>

\* The target's axon has the wrong protocol or port: internal error, no request.
RefuseTarget(r, c) ==
  /\ actor.pc = "idle"
  /\ r \notin dispatched
  /\ NoOpenRequest(c)
  /\ dispatched' = dispatched \cup {r}
  /\ ctxOf' = [ctxOf EXCEPT ![r] = c]
  /\ savedInput' = [savedInput EXCEPT ![c] = r]
  /\ answers' = [answers EXCEPT ![r] = Append(@, [kind |-> "internal_error", input |-> NoRequest])]
  /\ UNCHANGED <<actor, storeVars, senderVars, server, sweep>>

\* run_coroutine_threadsafe(queue.put): scheduled on the loop, or RuntimeError
\* because the loop is closed.
ScheduleEnqueue ==
  /\ actor.pc = "registered"
  /\ \/ /\ loop # "closed"
        /\ put' = [put EXCEPT ![actor.req] = "scheduled"]
        /\ actor' = [actor EXCEPT !.pc = "enqueueing"]
        /\ UNCHANGED <<storeVars, answers>>
     \/ /\ loop = "closed"
        /\ FailPending(actor.req)
        /\ actor' = [pc |-> "idle", req |-> NoRequest]
        /\ UNCHANGED put
  /\ UNCHANGED <<dispatched, ctxOf, savedInput, cancelled, queue, loop, stopsLeft,
                 worker, posted, server, sweep>>

\* enqueue_future.result() returns: the handler ends, the context is released.
EnqueueDone ==
  /\ actor.pc = "enqueueing"
  /\ put[actor.req] = "signalled"
  /\ actor' = [pc |-> "idle", req |-> NoRequest]
  /\ UNCHANGED <<dispatched, ctxOf, savedInput, storeVars, senderVars, server, sweep, answers>>

\* Mutant: result() without a timeout.
NoEnqueueTimeout == FALSE /\ UNCHANGED vars

\* ... or times out after queue_enqueue_timeout.
EnqueueTimeout ==
  /\ actor.pc = "enqueueing"
  /\ put[actor.req] # "signalled"
  /\ actor' = [actor EXCEPT !.pc = "timed_out"]
  /\ UNCHANGED <<dispatched, ctxOf, savedInput, storeVars, senderVars, server, sweep, answers>>

\* Cancel the future (the coroutine hears of it only when the loop runs again)
\* and fail the request if nobody has resolved it meanwhile.
FailEnqueue ==
  /\ actor.pc = "timed_out"
  /\ cancelled' = cancelled \cup {actor.req}
  /\ FailPending(actor.req)
  /\ actor' = [pc |-> "idle", req |-> NoRequest]
  /\ UNCHANGED <<dispatched, ctxOf, savedInput, put, queue, loop, stopsLeft,
                 worker, posted, server, sweep>>

----------------------------------------------------------------------------
(* The actor thread: on_stop *)

\* StopActorEvent: ask the sweep to stop ...
RequestStop ==
  /\ actor.pc = "idle"
  /\ actor' = [actor EXCEPT !.pc = "stop_sweep"]
  /\ sweep' = [sweep EXCEPT !.stop = TRUE]
  /\ UNCHANGED <<dispatched, ctxOf, savedInput, storeVars, senderVars, server, answers>>

\* Mutant: one stop signal too few.
StopSenderOneShort ==
  /\ actor.pc = "stop_sweep"
  /\ actor' = [actor EXCEPT !.pc = "stop_sender"]
  /\ stopsLeft' = IF loop = "closed" THEN 0 ELSE Cardinality(Workers) - 1
  /\ UNCHANGED <<dispatched, ctxOf, savedInput, storeVars, put, cancelled, queue, loop,
                 worker, posted, server, sweep, answers>>

\* ... join it (or give up after the join timeout) and schedule the stop signals ...
StopSender ==
  /\ actor.pc = "stop_sweep"
  /\ actor' = [actor EXCEPT !.pc = "stop_sender"]
  /\ stopsLeft' = IF loop = "closed" THEN 0 ELSE Cardinality(Workers)
  /\ UNCHANGED <<dispatched, ctxOf, savedInput, storeVars, put, cancelled, queue, loop, worker,
                 posted, server, sweep, answers>>

\* ... join the sender thread (or give up) and stop the callback server.
StopServer ==
  /\ actor.pc = "stop_sender"
  /\ actor' = [actor EXCEPT !.pc = "stopped"]
  /\ server' = [server EXCEPT !.up = FALSE]
  /\ UNCHANGED <<dispatched, ctxOf, savedInput, storeVars, senderVars, sweep, answers>>

----------------------------------------------------------------------------
(* The sender event loop *)

\* The loop enters the Pylon client and starts its workers, or crashes there.
LoopStarts ==
  /\ loop = "starting"
  /\ loop' \in {"running", "closed"}
  /\ UNCHANGED <<actorVars, storeVars, put, cancelled, queue, stopsLeft, worker, posted,
                 server, sweep, answers>>

\* The loop ends when every worker has taken a stop signal.
LoopExits ==
  /\ loop = "running"
  /\ \A w \in Workers : worker[w].st = "stopped"
  /\ loop' = "closed"
  /\ UNCHANGED <<actorVars, storeVars, put, cancelled, queue, stopsLeft, worker, posted,
                 server, sweep, answers>>

\* The queue.put coroutine finds room.
PutQueued(r) ==
  /\ LoopFree
  /\ put[r] = "scheduled"
  /\ Len(queue) < QueueMaxSize
  /\ queue' = Append(queue, r)
  /\ put' = [put EXCEPT ![r] = "queued"]
  /\ UNCHANGED <<actorVars, storeVars, cancelled, loop, stopsLeft, worker, posted,
                 server, sweep, answers>>

\* The coroutine's done callback completes the future the actor waits for.
PutSignalled(r) ==
  /\ LoopFree
  /\ put[r] = "queued"
  /\ r \notin cancelled
  /\ put' = [put EXCEPT ![r] = "signalled"]
  /\ UNCHANGED <<actorVars, storeVars, cancelled, queue, loop, stopsLeft, worker, posted,
                 server, sweep, answers>>

\* The cancellation reaches a coroutine that has not queued its request yet.
PutDropped(r) ==
  /\ LoopFree
  /\ put[r] = "scheduled"
  /\ r \in cancelled
  /\ put' = [put EXCEPT ![r] = "dropped"]
  /\ UNCHANGED <<actorVars, storeVars, cancelled, queue, loop, stopsLeft, worker, posted,
                 server, sweep, answers>>

\* One more stop signal finds room in the queue.
PutStop ==
  /\ LoopFree
  /\ stopsLeft > 0
  /\ Len(queue) < QueueMaxSize
  /\ queue' = Append(queue, StopSignal)
  /\ stopsLeft' = stopsLeft - 1
  /\ UNCHANGED <<actorVars, storeVars, put, cancelled, loop, worker, posted, server,
                 sweep, answers>>

WorkerGet(w) ==
  /\ LoopFree
  /\ loop = "running"
  /\ worker[w].st = "idle"
  /\ queue # <<>>
  /\ queue' = Tail(queue)
  /\ worker' = [worker EXCEPT ![w] =
       IF Head(queue) = StopSignal THEN [st |-> "stopped", req |-> NoRequest]
       ELSE [st |-> "sending", req |-> Head(queue)]]
  /\ UNCHANGED <<actorVars, storeVars, put, cancelled, loop, stopsLeft, posted, server,
                 sweep, answers>>

\* The POST reaches the neuron, which from now on may call back.
NeuronReceives(w) ==
  /\ loop = "running"
  /\ worker[w].st = "sending"
  /\ worker[w].req \notin posted
  /\ posted' = posted \cup {worker[w].req}
  /\ UNCHANGED <<actorVars, storeVars, put, cancelled, queue, loop, stopsLeft, worker,
                 server, sweep, answers>>

\* The neuron acknowledges with a 2xx status.
SendAccepted(w) ==
  /\ LoopFree
  /\ worker[w].st = "sending"
  /\ worker[w].req \in posted
  /\ worker' = [worker EXCEPT ![w] = [st |-> "idle", req |-> NoRequest]]
  /\ UNCHANGED <<actorVars, storeVars, put, cancelled, queue, loop, stopsLeft, posted,
                 server, sweep, answers>>

\* Bad payload, send timeout, network or mTLS error, non-2xx status: pop the
\* request; when it was still pending, the worker owes its failure.
SendFailed(w) ==
  LET r == worker[w].req IN
  /\ LoopFree
  /\ worker[w].st = "sending"
  /\ Pop(r)
  /\ worker' = [worker EXCEPT ![w] =
       IF r \in pending THEN [st |-> "failing", req |-> r]
       ELSE [st |-> "idle", req |-> NoRequest]]
  /\ UNCHANGED <<actorVars, put, cancelled, queue, loop, stopsLeft, posted,
                 server, sweep, answers>>

\* The blocked worker gets the context lock, loads the input and emits.
WorkerEmits(w) ==
  /\ worker[w].st = "failing"
  /\ CtxFree(worker[w].req)
  /\ Emit(worker[w].req, "executor_error")
  /\ worker' = [worker EXCEPT ![w] = [st |-> "idle", req |-> NoRequest]]
  /\ UNCHANGED <<actorVars, storeVars, put, cancelled, queue, loop, stopsLeft, posted,
                 server, sweep>>

----------------------------------------------------------------------------
(* The callback server: one callback at a time, since the handler is synchronous *)

\* Mutant: the callback looks the request up and leaves it in the store.
ProcessCallbackPeeks(r, k) ==
  /\ server.up
  /\ server.req = NoRequest
  /\ r \in posted
  /\ r \in pending
  /\ server' = [server EXCEPT !.req = r, !.kind = k]
  /\ UNCHANGED <<actorVars, storeVars, senderVars, sweep, answers>>

\* A neuron calls back, any number of times; only a request still pending is
\* taken (otherwise 404, no change).  Remote errors, missing and invalid outputs
\* are executor errors.
ProcessCallback(r, k) ==
  /\ server.up
  /\ server.req = NoRequest
  /\ r \in posted
  /\ r \in pending
  /\ Pop(r)
  /\ server' = [server EXCEPT !.req = r, !.kind = k]
  /\ UNCHANGED <<actorVars, senderVars, sweep, answers>>

CallbackEmits ==
  /\ server.req # NoRequest
  /\ CtxFree(server.req)
  /\ Emit(server.req, server.kind)
  /\ server' = [server EXCEPT !.req = NoRequest, !.kind = "processed"]
  /\ UNCHANGED <<actorVars, storeVars, senderVars, sweep>>

----------------------------------------------------------------------------
(* The timeout sweep *)

\* total_processing_timeout passes for r.
Expire(r) ==
  /\ r \in pending
  /\ r \notin overdue
  /\ overdue' = overdue \cup {r}
  /\ UNCHANGED <<actorVars, pending, senderVars, server, sweep, answers>>

\* while not stop_signal.is_set(): the signal is read before the store is swept.
SweepChecksSignal ==
  /\ sweep.pc = "check"
  /\ sweep' = [sweep EXCEPT !.pc = IF sweep.stop THEN "exited" ELSE "pop"]
  /\ UNCHANGED <<actorVars, storeVars, senderVars, server, answers>>

\* Mutant: every overdue request is removed, one is reported.
PopExpiredReportsOne ==
  /\ sweep.pc = "pop"
  /\ sweep' = [sweep EXCEPT !.pc = "emit",
       !.batch = IF overdue = {} THEN {} ELSE {CHOOSE r \in overdue : TRUE}]
  /\ pending' = pending \ overdue
  /\ overdue' = {}
  /\ UNCHANGED <<actorVars, senderVars, server, answers>>

\* pop_expired: every overdue request leaves the store at once.
PopExpired ==
  /\ sweep.pc = "pop"
  /\ sweep' = [sweep EXCEPT !.pc = "emit", !.batch = overdue]
  /\ pending' = pending \ overdue
  /\ overdue' = {}
  /\ UNCHANGED <<actorVars, senderVars, server, answers>>

SweepEmits(r) ==
  /\ sweep.pc = "emit"
  /\ r \in sweep.batch
  /\ CtxFree(r)
  /\ Emit(r, "executor_error")
  /\ sweep' = [sweep EXCEPT !.batch = @ \ {r}]
  /\ UNCHANGED <<actorVars, storeVars, senderVars, server>>

\* stop_signal.wait(sweep_timeout), back to the head of the loop.
SweepWaits ==
  /\ sweep.pc = "emit"
  /\ sweep.batch = {}
  /\ sweep' = [sweep EXCEPT !.pc = "check"]
  /\ UNCHANGED <<actorVars, storeVars, senderVars, server, answers>>

----------------------------------------------------------------------------
ActorStep == ScheduleEnqueue \/ EnqueueDone \/ EnqueueTimeout \/ FailEnqueue
             \/ StopSender \/ StopServer

LoopStep == \/ LoopStarts \/ LoopExits \/ PutStop
            \/ \E r \in Requests : PutQueued(r) \/ PutSignalled(r) \/ PutDropped(r)

WorkerStep(w) == WorkerGet(w) \/ NeuronReceives(w) \/ SendAccepted(w) \/ SendFailed(w)
                 \/ WorkerEmits(w)

SweepStep == SweepChecksSignal \/ PopExpired \/ SweepWaits
             \/ \E r \in Requests : SweepEmits(r)

Next ==
  \/ \E r \in Requests, c \in Contexts : HandleInput(r, c) \/ RefuseTarget(r, c)
  \/ RequestStop
  \/ ActorStep
  \/ LoopStep
  \/ \E w \in Workers : WorkerStep(w)
  \/ \E r \in Requests : \E k \in Replies : ProcessCallback(r, k)
  \/ CallbackEmits
  \/ \E r \in Requests : Expire(r)
  \/ SweepStep

\* Threads that can run do run, and time passes.  Nothing obliges a neuron to
\* call back, a POST to succeed, the graph to send inputs or the runtime to stop.
Fairness ==
  /\ WF_vars(ActorStep)
  /\ WF_vars(LoopStep)
  /\ \A w \in Workers : WF_vars(WorkerGet(w)) /\ WF_vars(SendFailed(w)) /\ WF_vars(WorkerEmits(w))
  /\ WF_vars(CallbackEmits)
  /\ \A r \in Requests : WF_vars(Expire(r))
  /\ WF_vars(SweepStep)

Spec == Init /\ [][Next]_vars

FairSpec == Spec /\ Fairness

----------------------------------------------------------------------------
(* Properties *)

\* Who owes the answer to r: the store, a blocked worker, the callback server or
\* the sweep's current batch.
Failing(r) == \E w \in Workers : worker[w].st = "failing" /\ worker[w].req = r
Held(r) == r \in pending \/ Failing(r) \/ server.req = r \/ r \in sweep.batch

\* Every dispatched request is either answered once, and then nobody owes it
\* anything, or owed its answer by exactly one of the store and the three threads
\* that pop from it.  A pop that is not followed by its emission, or two threads
\* that both believe they own a request, breaks it (pending_requests.py:76-87 with
\* its three callers).
Custody ==
  /\ \A r \in Requests :
       /\ r \notin dispatched => answers[r] = <<>> /\ ~Held(r)
       /\ r \in dispatched => (Held(r) <=> answers[r] = <<>>)
       /\ r \in pending => ~Failing(r) /\ server.req # r /\ r \notin sweep.batch
       /\ Failing(r) => server.req # r /\ r \notin sweep.batch
       /\ server.req = r => r \notin sweep.batch
  /\ \A v, w \in Workers :
       worker[v].st = "failing" /\ worker[w].st = "failing" /\ worker[v].req = worker[w].req
         => v = w

\* The communicator implements the abstract promise: at most one answer to each
\* request, carrying the input of that request although the input is re-read from
\* the shared context when the answer is emitted (base_communicator.py:126-164).
RO == INSTANCE RequestOutcome WITH
        Requests <- Requests, Kinds <- Kinds, NoRequest <- NoRequest,
        dispatched <- dispatched, answers <- answers
OneAnswerWithItsInput == RO!Spec

\* While the communicator is not asked to stop, every dispatched request is
\* eventually answered, whatever the neuron, the network and the sender loop do:
\* the sweep covers crashed loops, lost callbacks and cancelled enqueues.
StopRequested == actor.pc \in {"stop_sweep", "stop_sender", "stop_server", "stopped"}
EventuallyAnswered ==
  \A r \in Requests : r \in dispatched ~> (answers[r] # <<>> \/ StopRequested)

\* The actor waits for the loop to take a request while the loop may wait for the
\* context the actor holds; the enqueue timeout breaks the cycle, so a handler
\* always ends (sender_loop_runtime.py:275-285).
HandlerEnds == Handling ~> ~Handling

\* Once stop is requested the sender loop and the sweep end, although the stop
\* signals share the bounded queue with requests, the actor only waits for them a
\* bounded time, and a worker may be blocked or sending (sender_loop_runtime.py:491-511,
\* timeout_sweep_runtime.py:96-113).
ThreadsStop == StopRequested ~> (loop = "closed" /\ sweep.pc = "exited")

=============================================================================
