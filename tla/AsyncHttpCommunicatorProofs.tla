--------------------- MODULE AsyncHttpCommunicatorProofs ---------------------
(***************************************************************************)
(* Proofs about AsyncHttpCommunicator, for any number of requests,         *)
(* contexts and workers and any queue size: the type invariant, custody of *)
(* every request, and the implementation of RequestOutcome.                *)
(***************************************************************************)
EXTENDS AsyncHttpCommunicator, FiniteSetTheorems, TLAPS

\* What Custody needs to be inductive: the actor and the workers only hold real
\* requests, the sweep has a batch only while it emits, and the input saved in a
\* context is that of its open request.
OwnedInput ==
  /\ Handling => actor.req \in Requests
  /\ \A w \in Workers : worker[w].st \in {"sending", "failing"} => worker[w].req \in Requests
  /\ sweep.pc # "emit" => sweep.batch = {}
  /\ \A r \in dispatched :
       ctxOf[r] \in Contexts /\ (answers[r] = <<>> => savedInput[ctxOf[r]] = r)

IInv == TypeOK /\ OwnedInput /\ Custody

----------------------------------------------------------------------------
(* Emissions *)

\* A request someone still owes an answer to is dispatched and unanswered, and its
\* context holds its own input: what every emission relies on.
LEMMA HeldIsOpen ==
  ASSUME IInv, NEW r \in Requests, Held(r)
  PROVE  /\ r \in dispatched /\ answers[r] = <<>>
         /\ ctxOf[r] \in Contexts /\ savedInput[ctxOf[r]] = r
BY DEF IInv, OwnedInput, Custody

\* An emission for a held request appends one answer, its own, to an empty history.
LEMMA EmitAnswers ==
  ASSUME IInv, NEW r \in Requests, Held(r), NEW k \in Replies, Emit(r, k)
  PROVE  /\ answers' = [answers EXCEPT ![r] = <<[kind |-> k, input |-> r]>>]
         /\ answers' \in [Requests -> Seq(Answer)]
         /\ answers'[r] # <<>>
         /\ \A q \in Requests \ {r} : answers'[q] = answers[q]
<1>1. answers[r] = <<>> /\ savedInput[ctxOf[r]] = r
  BY HeldIsOpen
<1>2. Append(answers[r], [kind |-> k, input |-> savedInput[ctxOf[r]]]) = <<[kind |-> k, input |-> r]>>
  BY <1>1
<1>3. answers' = [answers EXCEPT ![r] = <<[kind |-> k, input |-> r]>>]
  BY <1>2 DEF Emit
<1>4. <<[kind |-> k, input |-> r]>> \in Seq(Answer)
  BY DEF Answer, Kinds, Replies
<1>5. answers \in [Requests -> Seq(Answer)]
  BY DEF IInv, TypeOK
<1>6. <<[kind |-> k, input |-> r]>> # <<>>
  OBVIOUS
<1>7. QED
  BY <1>3, <1>4, <1>5, <1>6

\* The part of the invariant about saved inputs survives an emission.
LEMMA EmitKeepsInputs ==
  ASSUME IInv, NEW r \in Requests, answers'[r] # <<>>,
         \A q \in Requests \ {r} : answers'[q] = answers[q],
         UNCHANGED <<dispatched, ctxOf, savedInput>>
  PROVE  \A q \in dispatched' :
           ctxOf'[q] \in Contexts /\ (answers'[q] = <<>> => savedInput'[ctxOf'[q]] = q)
BY DEF IInv, TypeOK, OwnedInput

\* Custody after the holder of r emitted and let go of it, the others keeping theirs.
LEMMA EmitKeepsCustody ==
  ASSUME IInv, NEW r \in Requests, Held(r), answers'[r] # <<>>,
         \A q \in Requests \ {r} : answers'[q] = answers[q],
         UNCHANGED dispatched,
         ~Held(r)',
         \A q \in Requests \ {r} :
           /\ q \in pending' <=> q \in pending
           /\ Failing(q)' <=> Failing(q)
           /\ server'.req = q <=> server.req = q
           /\ q \in sweep'.batch <=> q \in sweep.batch,
         \A w \in Workers : worker'[w].st = "failing" => worker'[w] = worker[w]
  PROVE  Custody'
<1>1. r \in dispatched
  BY HeldIsOpen
<1>2. \A q \in Requests \ {r} : Held(q)' <=> Held(q)
  BY DEF Held
<1>3. ASSUME NEW q \in Requests
      PROVE  /\ q \notin dispatched' => answers'[q] = <<>> /\ ~Held(q)'
             /\ q \in dispatched' => (Held(q)' <=> answers'[q] = <<>>)
             /\ q \in pending' => ~Failing(q)' /\ server'.req # q /\ q \notin sweep'.batch
             /\ Failing(q)' => server'.req # q /\ q \notin sweep'.batch
             /\ server'.req = q => q \notin sweep'.batch
  <2>1. CASE q = r
    BY <2>1, <1>1 DEF Held
  <2>2. CASE q # r
    BY <2>2, <1>2 DEF IInv, Custody
  <2> QED
    BY <2>1, <2>2
<1>4. \A v, w \in Workers :
        worker'[v].st = "failing" /\ worker'[w].st = "failing" /\ worker'[v].req = worker'[w].req
          => v = w
  BY DEF IInv, Custody
<1> QED
  BY <1>3, <1>4 DEF Custody

----------------------------------------------------------------------------
(* The initial states *)

\* The inductive invariant holds initially.
LEMMA InitIInv == Init => IInv
<1> SUFFICES ASSUME Init PROVE IInv
  OBVIOUS
<1>1. TypeOK
  BY CommunicatorAssumption
  DEF Init, TypeOK, ActorPc, PutState, SweepPc, WorkerState, Kinds, Replies, Answer
<1>2. OwnedInput
  BY DEF Init, OwnedInput, Handling
<1>3. Custody
  BY CommunicatorAssumption DEF Init, Custody, Held, Failing
<1> QED
  BY <1>1, <1>2, <1>3 DEF IInv

----------------------------------------------------------------------------
(* One lemma per action: it preserves the invariant *)

\* A dispatch puts a fresh request, and it alone, into the store.
LEMMA HandleInputStep ==
  ASSUME IInv, NEW r \in Requests, NEW c \in Contexts, HandleInput(r, c)
  PROVE  IInv'
<1>1. TypeOK'
  BY CommunicatorAssumption DEF IInv, HandleInput, NoOpenRequest, TypeOK, ActorPc, actorVars, storeVars, senderVars, OwnedInput
<1>2. OwnedInput'
  BY CommunicatorAssumption DEF IInv, HandleInput, NoOpenRequest, TypeOK, actorVars, storeVars, senderVars, OwnedInput, Handling
<1>3. Custody'
  BY CommunicatorAssumption DEF IInv, HandleInput, NoOpenRequest, TypeOK, actorVars, storeVars, senderVars, OwnedInput, Custody, Held, Failing
<1> QED
  BY <1>1, <1>2, <1>3 DEF IInv

\* A refused target is answered at once, and nobody owes it anything.
LEMMA RefuseTargetStep ==
  ASSUME IInv, NEW r \in Requests, NEW c \in Contexts, RefuseTarget(r, c)
  PROVE  IInv'
<1>1. TypeOK'
  <2>1. [kind |-> "internal_error", input |-> NoRequest] \in Answer
    BY DEF Answer, Kinds
  <2>2. answers[r] \in Seq(Answer)
    BY DEF IInv, TypeOK
  <2>3. Append(answers[r], [kind |-> "internal_error", input |-> NoRequest]) \in Seq(Answer)
    BY <2>1, <2>2
  <2>4. answers' \in [Requests -> Seq(Answer)]
    BY <2>3 DEF RefuseTarget, IInv, TypeOK
  <2> QED
    BY <2>4 DEF IInv, RefuseTarget, TypeOK, actorVars, storeVars, senderVars
<1>2. OwnedInput'
  BY CommunicatorAssumption DEF IInv, RefuseTarget, NoOpenRequest, TypeOK, actorVars, storeVars, senderVars, OwnedInput, Handling
<1>3. Custody'
  BY CommunicatorAssumption DEF IInv, RefuseTarget, NoOpenRequest, TypeOK, actorVars, storeVars, senderVars, OwnedInput, Custody, Held, Failing
<1> QED
  BY <1>1, <1>2, <1>3 DEF IInv

\* Popping r on the actor's behalf and emitting its failure if it was still there.
LEMMA FailPendingStep ==
  ASSUME IInv, NEW r \in Requests, FailPending(r),
         UNCHANGED <<dispatched, ctxOf, savedInput, worker, server, sweep>>
  PROVE  /\ pending' \in SUBSET Requests /\ overdue' \in SUBSET pending'
         /\ answers' \in [Requests -> Seq(Answer)]
         /\ \A q \in dispatched' :
              ctxOf'[q] \in Contexts /\ (answers'[q] = <<>> => savedInput'[ctxOf'[q]] = q)
         /\ Custody'
<1>1. pending' = pending \ {r} /\ overdue' = overdue \ {r}
  BY DEF FailPending, Pop
<1>2. pending' \in SUBSET Requests /\ overdue' \in SUBSET pending'
  BY <1>1 DEF IInv, TypeOK
<1>3. CASE r \in pending
  <2>1. Held(r)
    BY <1>3 DEF Held
  <2>2. Emit(r, "executor_error")
    BY <1>3 DEF FailPending
  <2>3. "executor_error" \in Replies
    BY DEF Kinds, Replies
  <2>4. /\ answers' \in [Requests -> Seq(Answer)]
        /\ answers'[r] # <<>>
        /\ \A q \in Requests \ {r} : answers'[q] = answers[q]
    BY <2>1, <2>2, <2>3, EmitAnswers
  <2>5. \A q \in dispatched' :
          ctxOf'[q] \in Contexts /\ (answers'[q] = <<>> => savedInput'[ctxOf'[q]] = q)
    BY <2>4, EmitKeepsInputs
  <2>6. \A q \in Requests : Failing(q)' <=> Failing(q)
    BY DEF Failing
  <2>7. ~Failing(r) /\ server.req # r /\ r \notin sweep.batch
    BY <1>3 DEF IInv, Custody
  <2>8. ~Held(r)'
    BY <1>1, <2>6, <2>7 DEF Held
  <2>9. Custody'
    BY <1>1, <2>1, <2>4, <2>6, <2>8, EmitKeepsCustody
  <2> QED
    BY <1>2, <2>4, <2>5, <2>9
<1>4. CASE r \notin pending
  <2>1. UNCHANGED <<pending, answers>>
    BY <1>1, <1>4 DEF FailPending
  <2>2. \A q \in Requests : (Held(q)' <=> Held(q)) /\ (Failing(q)' <=> Failing(q))
    BY <2>1 DEF Held, Failing
  <2>3. Custody'
    BY <2>1, <2>2 DEF IInv, Custody
  <2> QED
    BY <1>2, <2>1, <2>3 DEF IInv, TypeOK, OwnedInput
<1> QED
  BY <1>3, <1>4

\* Scheduling the enqueue keeps custody; a closed loop makes the actor fail the
\* request if it is still pending.
LEMMA ScheduleEnqueueStep ==
  ASSUME IInv, ScheduleEnqueue
  PROVE  IInv'
<1>1. actor.req \in Requests
  BY DEF ScheduleEnqueue, IInv, OwnedInput, Handling
<1>2. CASE loop # "closed"
  <2>1. TypeOK'
    BY <1>1, <1>2 DEF ScheduleEnqueue, IInv, TypeOK, ActorPc, PutState, storeVars
  <2>2. OwnedInput'
    BY <1>1, <1>2 DEF ScheduleEnqueue, IInv, TypeOK, OwnedInput, Handling, storeVars
  <2>3. Custody'
    BY <1>2 DEF ScheduleEnqueue, IInv, Custody, Held, Failing, storeVars
  <2> QED
    BY <2>1, <2>2, <2>3 DEF IInv
<1>3. CASE loop = "closed"
  <2>1. FailPending(actor.req) /\ UNCHANGED <<dispatched, ctxOf, savedInput, worker, server, sweep>>
    BY <1>3 DEF ScheduleEnqueue
  <2>2. /\ pending' \in SUBSET Requests /\ overdue' \in SUBSET pending'
        /\ answers' \in [Requests -> Seq(Answer)]
        /\ \A q \in dispatched' :
             ctxOf'[q] \in Contexts /\ (answers'[q] = <<>> => savedInput'[ctxOf'[q]] = q)
        /\ Custody'
    BY <1>1, <2>1, FailPendingStep
  <2>3. TypeOK'
    BY <1>3, <2>2 DEF ScheduleEnqueue, IInv, TypeOK, ActorPc
  <2>4. OwnedInput'
    BY <1>3, <2>2 DEF ScheduleEnqueue, IInv, OwnedInput, Handling
  <2> QED
    BY <2>2, <2>3, <2>4 DEF IInv
<1> QED
  BY <1>2, <1>3

\* The end of a successful enqueue leaves the request with its holder.
LEMMA EnqueueDoneStep ==
  ASSUME IInv, EnqueueDone
  PROVE  IInv'
<1>1. TypeOK'
  BY CommunicatorAssumption DEF IInv, EnqueueDone, TypeOK, ActorPc, actorVars, storeVars, senderVars, OwnedInput
<1>2. OwnedInput'
  BY CommunicatorAssumption DEF IInv, EnqueueDone, TypeOK, actorVars, storeVars, senderVars, OwnedInput, Handling
<1>3. Custody'
  BY CommunicatorAssumption DEF IInv, EnqueueDone, TypeOK, actorVars, storeVars, senderVars, OwnedInput, Custody, Held, Failing
<1> QED
  BY <1>1, <1>2, <1>3 DEF IInv

\* A timed-out enqueue does not yet touch the request.
LEMMA EnqueueTimeoutStep ==
  ASSUME IInv, EnqueueTimeout
  PROVE  IInv'
<1>1. TypeOK'
  BY CommunicatorAssumption DEF IInv, EnqueueTimeout, TypeOK, ActorPc, actorVars, storeVars, senderVars, OwnedInput
<1>2. OwnedInput'
  BY CommunicatorAssumption DEF IInv, EnqueueTimeout, TypeOK, actorVars, storeVars, senderVars, OwnedInput, Handling
<1>3. Custody'
  BY CommunicatorAssumption DEF IInv, EnqueueTimeout, TypeOK, actorVars, storeVars, senderVars, OwnedInput, Custody, Held, Failing
<1> QED
  BY <1>1, <1>2, <1>3 DEF IInv

\* After the timeout the actor fails the request only if nobody resolved it meanwhile.
LEMMA FailEnqueueStep ==
  ASSUME IInv, FailEnqueue
  PROVE  IInv'
<1>1. actor.req \in Requests
  BY DEF FailEnqueue, IInv, OwnedInput, Handling
<1>2. /\ pending' \in SUBSET Requests /\ overdue' \in SUBSET pending'
      /\ answers' \in [Requests -> Seq(Answer)]
      /\ \A q \in dispatched' :
           ctxOf'[q] \in Contexts /\ (answers'[q] = <<>> => savedInput'[ctxOf'[q]] = q)
      /\ Custody'
  BY <1>1, FailPendingStep DEF FailEnqueue
<1>3. TypeOK'
  BY <1>1, <1>2 DEF FailEnqueue, IInv, TypeOK, ActorPc
<1>4. OwnedInput'
  BY <1>2 DEF FailEnqueue, IInv, OwnedInput, Handling
<1> QED
  BY <1>2, <1>3, <1>4 DEF IInv

\* Asking for the stop takes no request from anybody.
LEMMA RequestStopStep ==
  ASSUME IInv, RequestStop
  PROVE  IInv'
<1>1. TypeOK'
  BY CommunicatorAssumption DEF IInv, RequestStop, TypeOK, ActorPc, SweepPc, actorVars, storeVars, senderVars, OwnedInput
<1>2. OwnedInput'
  BY CommunicatorAssumption DEF IInv, RequestStop, TypeOK, actorVars, storeVars, senderVars, OwnedInput, Handling
<1>3. Custody'
  BY CommunicatorAssumption DEF IInv, RequestStop, TypeOK, actorVars, storeVars, senderVars, OwnedInput, Custody, Held, Failing
<1> QED
  BY <1>1, <1>2, <1>3 DEF IInv

\* Neither does scheduling the stop signals.
LEMMA StopSenderStep ==
  ASSUME IInv, StopSender
  PROVE  IInv'
<1>1. TypeOK'
  BY CommunicatorAssumption, FS_CardinalityType DEF IInv, StopSender, TypeOK, ActorPc, actorVars, storeVars, senderVars, OwnedInput
<1>2. OwnedInput'
  BY CommunicatorAssumption DEF IInv, StopSender, TypeOK, actorVars, storeVars, senderVars, OwnedInput, Handling
<1>3. Custody'
  BY CommunicatorAssumption DEF IInv, StopSender, TypeOK, actorVars, storeVars, senderVars, OwnedInput, Custody, Held, Failing
<1> QED
  BY <1>1, <1>2, <1>3 DEF IInv

\* Nor stopping the callback server, which may still owe an emission.
LEMMA StopServerStep ==
  ASSUME IInv, StopServer
  PROVE  IInv'
<1>1. TypeOK'
  BY CommunicatorAssumption DEF IInv, StopServer, TypeOK, ActorPc, Kinds, Replies, actorVars, storeVars, senderVars, OwnedInput
<1>2. OwnedInput'
  BY CommunicatorAssumption DEF IInv, StopServer, TypeOK, actorVars, storeVars, senderVars, OwnedInput, Handling
<1>3. Custody'
  BY CommunicatorAssumption DEF IInv, StopServer, TypeOK, actorVars, storeVars, senderVars, OwnedInput, Custody, Held, Failing
<1> QED
  BY <1>1, <1>2, <1>3 DEF IInv

\* The start or the crash of the sender loop leaves every request with its holder.
LEMMA LoopStartsStep ==
  ASSUME IInv, LoopStarts
  PROVE  IInv'
<1>1. TypeOK'
  BY CommunicatorAssumption DEF IInv, LoopStarts, TypeOK, actorVars, storeVars, senderVars, OwnedInput
<1>2. OwnedInput'
  BY CommunicatorAssumption DEF IInv, LoopStarts, TypeOK, actorVars, storeVars, senderVars, OwnedInput, Handling
<1>3. Custody'
  BY CommunicatorAssumption DEF IInv, LoopStarts, TypeOK, actorVars, storeVars, senderVars, OwnedInput, Custody, Held, Failing
<1> QED
  BY <1>1, <1>2, <1>3 DEF IInv

\* So does its end.
LEMMA LoopExitsStep ==
  ASSUME IInv, LoopExits
  PROVE  IInv'
<1>1. TypeOK'
  BY CommunicatorAssumption DEF IInv, LoopExits, TypeOK, actorVars, storeVars, senderVars, OwnedInput
<1>2. OwnedInput'
  BY CommunicatorAssumption DEF IInv, LoopExits, TypeOK, actorVars, storeVars, senderVars, OwnedInput, Handling
<1>3. Custody'
  BY CommunicatorAssumption DEF IInv, LoopExits, TypeOK, actorVars, storeVars, senderVars, OwnedInput, Custody, Held, Failing
<1> QED
  BY <1>1, <1>2, <1>3 DEF IInv

\* Queueing a request is no transfer of custody: the store still holds it.
LEMMA PutQueuedStep ==
  ASSUME IInv, NEW r \in Requests, PutQueued(r)
  PROVE  IInv'
<1>1. TypeOK'
  BY CommunicatorAssumption DEF IInv, PutQueued, TypeOK, PutState, actorVars, storeVars, senderVars, OwnedInput
<1>2. OwnedInput'
  BY CommunicatorAssumption DEF IInv, PutQueued, TypeOK, actorVars, storeVars, senderVars, OwnedInput, Handling
<1>3. Custody'
  BY CommunicatorAssumption DEF IInv, PutQueued, TypeOK, actorVars, storeVars, senderVars, OwnedInput, Custody, Held, Failing
<1> QED
  BY <1>1, <1>2, <1>3 DEF IInv

\* Nor is telling the actor of it.
LEMMA PutSignalledStep ==
  ASSUME IInv, NEW r \in Requests, PutSignalled(r)
  PROVE  IInv'
<1>1. TypeOK'
  BY CommunicatorAssumption DEF IInv, PutSignalled, TypeOK, PutState, actorVars, storeVars, senderVars, OwnedInput
<1>2. OwnedInput'
  BY CommunicatorAssumption DEF IInv, PutSignalled, TypeOK, actorVars, storeVars, senderVars, OwnedInput, Handling
<1>3. Custody'
  BY CommunicatorAssumption DEF IInv, PutSignalled, TypeOK, actorVars, storeVars, senderVars, OwnedInput, Custody, Held, Failing
<1> QED
  BY <1>1, <1>2, <1>3 DEF IInv

\* A cancelled coroutine drops the queue entry, never the request.
LEMMA PutDroppedStep ==
  ASSUME IInv, NEW r \in Requests, PutDropped(r)
  PROVE  IInv'
<1>1. TypeOK'
  BY CommunicatorAssumption DEF IInv, PutDropped, TypeOK, PutState, actorVars, storeVars, senderVars, OwnedInput
<1>2. OwnedInput'
  BY CommunicatorAssumption DEF IInv, PutDropped, TypeOK, actorVars, storeVars, senderVars, OwnedInput, Handling
<1>3. Custody'
  BY CommunicatorAssumption DEF IInv, PutDropped, TypeOK, actorVars, storeVars, senderVars, OwnedInput, Custody, Held, Failing
<1> QED
  BY <1>1, <1>2, <1>3 DEF IInv

\* A stop signal in the queue is not a request.
LEMMA PutStopStep ==
  ASSUME IInv, PutStop
  PROVE  IInv'
<1>1. TypeOK'
  <2>1. stopsLeft' \in Nat
    BY DEF PutStop, IInv, TypeOK
  <2>2. queue' \in Seq(Requests \cup {StopSignal})
    BY DEF PutStop, IInv, TypeOK
  <2> QED
    BY <2>1, <2>2 DEF PutStop, IInv, TypeOK, actorVars, storeVars
<1>2. OwnedInput'
  BY DEF PutStop, IInv, OwnedInput, Handling, actorVars
<1>3. Custody'
  BY DEF PutStop, IInv, Custody, Held, Failing, actorVars, storeVars
<1> QED
  BY <1>1, <1>2, <1>3 DEF IInv

\* A worker that takes a request from the queue does not own it yet.
LEMMA WorkerGetStep ==
  ASSUME IInv, NEW w \in Workers, WorkerGet(w)
  PROVE  IInv'
<1> DEFINE x == worker'[w]
<1>1. queue \in Seq(Requests \cup {StopSignal}) /\ queue # <<>>
  BY DEF WorkerGet, IInv, TypeOK
<1>2. Head(queue) \in Requests \cup {StopSignal} /\ queue' \in Seq(Requests \cup {StopSignal})
  BY <1>1 DEF WorkerGet
<1>3. \/ x = [st |-> "stopped", req |-> NoRequest]
      \/ x = [st |-> "sending", req |-> Head(queue)] /\ Head(queue) \in Requests
  BY <1>2 DEF WorkerGet, IInv, TypeOK
<1>4. worker' = [worker EXCEPT ![w] = x] /\ worker[w].st = "idle"
  BY DEF WorkerGet, IInv, TypeOK
<1>5. TypeOK'
  <2>1. x \in [st : WorkerState, req : Requests \cup {NoRequest}]
    BY <1>3 DEF WorkerState
  <2>2. worker' \in [Workers -> [st : WorkerState, req : Requests \cup {NoRequest}]]
    BY <1>4, <2>1 DEF IInv, TypeOK
  <2> QED
    BY <1>2, <2>2 DEF WorkerGet, IInv, TypeOK, actorVars, storeVars
<1>6. OwnedInput'
  BY <1>3, <1>4 DEF WorkerGet, IInv, TypeOK, OwnedInput, Handling, actorVars
<1>7. Custody'
  <2>1. \A v \in Workers : (worker'[v].st = "failing" <=> worker[v].st = "failing")
                           /\ (worker[v].st = "failing" => worker'[v] = worker[v])
    BY <1>3, <1>4 DEF IInv, TypeOK
  <2>2. \A r \in Requests : Failing(r)' <=> Failing(r)
    BY <2>1 DEF Failing
  <2>3. \A r \in Requests : Held(r)' <=> Held(r)
    BY <2>2 DEF WorkerGet, Held, storeVars
  <2> QED
    BY <2>1, <2>2, <2>3 DEF WorkerGet, IInv, Custody, actorVars, storeVars
<1> QED
  BY <1>5, <1>6, <1>7 DEF IInv

\* The neuron receiving a request changes no holder.
LEMMA NeuronReceivesStep ==
  ASSUME IInv, NEW w \in Workers, NeuronReceives(w)
  PROVE  IInv'
<1>1. worker[w].req \in Requests
  BY DEF NeuronReceives, IInv, OwnedInput
<1>2. TypeOK'
  BY <1>1 DEF NeuronReceives, IInv, TypeOK, actorVars, storeVars
<1>3. OwnedInput'
  BY DEF NeuronReceives, IInv, OwnedInput, Handling, actorVars
<1>4. Custody'
  BY DEF NeuronReceives, IInv, Custody, Held, Failing, actorVars, storeVars
<1> QED
  BY <1>2, <1>3, <1>4 DEF IInv

\* A worker whose POST was accepted owes nothing.
LEMMA SendAcceptedStep ==
  ASSUME IInv, NEW w \in Workers, SendAccepted(w)
  PROVE  IInv'
<1>1. worker' = [worker EXCEPT ![w] = [st |-> "idle", req |-> NoRequest]] /\ worker[w].st = "sending"
  BY DEF SendAccepted
<1>2. TypeOK'
  <2>1. [st |-> "idle", req |-> NoRequest] \in [st : WorkerState, req : Requests \cup {NoRequest}]
    BY DEF WorkerState
  <2>2. worker' \in [Workers -> [st : WorkerState, req : Requests \cup {NoRequest}]]
    BY <1>1, <2>1 DEF IInv, TypeOK
  <2> QED
    BY <2>2 DEF SendAccepted, IInv, TypeOK, actorVars, storeVars
<1>3. OwnedInput'
  BY <1>1 DEF SendAccepted, IInv, TypeOK, OwnedInput, Handling, actorVars
<1>4. Custody'
  <2>1. \A v \in Workers : (worker'[v].st = "failing" <=> worker[v].st = "failing")
                           /\ (worker[v].st = "failing" => worker'[v] = worker[v])
    BY <1>1 DEF IInv, TypeOK
  <2>2. \A r \in Requests : Failing(r)' <=> Failing(r)
    BY <2>1 DEF Failing
  <2>3. \A r \in Requests : Held(r)' <=> Held(r)
    BY <2>2 DEF SendAccepted, Held, storeVars
  <2> QED
    BY <2>1, <2>2, <2>3 DEF SendAccepted, IInv, Custody, actorVars, storeVars
<1> QED
  BY <1>2, <1>3, <1>4 DEF IInv

\* A failed send moves the request from the store to the worker, or does nothing to it.
LEMMA SendFailedStep ==
  ASSUME IInv, NEW w \in Workers, SendFailed(w)
  PROVE  IInv'
<1>a. PICK q \in Requests : q = worker[w].req
  BY DEF SendFailed, IInv, OwnedInput
<1>1. PICK x : x = worker'[w]
  OBVIOUS
<1>2. /\ worker' = [worker EXCEPT ![w] = x]
      /\ \/ q \in pending /\ x = [st |-> "failing", req |-> q]
         \/ q \notin pending /\ x = [st |-> "idle", req |-> NoRequest]
      /\ worker[w].st = "sending"
      /\ pending' = pending \ {q} /\ overdue' = overdue \ {q}
      /\ UNCHANGED <<actorVars, answers, server, sweep>>
  BY <1>a, <1>1 DEF SendFailed, Pop, IInv, TypeOK
<1>3. TypeOK'
  <2>1. x \in [st : WorkerState, req : Requests \cup {NoRequest}]
    BY <1>2 DEF WorkerState
  <2>2. worker' \in [Workers -> [st : WorkerState, req : Requests \cup {NoRequest}]]
    BY <1>2, <2>1 DEF IInv, TypeOK
  <2> QED
    BY <1>2, <2>2 DEF SendFailed, IInv, TypeOK, actorVars
<1>4. OwnedInput'
  <2>1. \A v \in Workers : worker'[v].st \in {"sending", "failing"} => worker'[v].req \in Requests
    <3>1. ASSUME NEW v \in Workers, v # w, worker'[v].st \in {"sending", "failing"}
          PROVE  worker'[v].req \in Requests
      BY <3>1, <1>2 DEF IInv, TypeOK, OwnedInput
    <3>2. worker'[w] = x
      BY <1>1
    <3> QED
      BY <1>2, <3>1, <3>2
  <2> QED
    BY <1>2, <2>1 DEF IInv, OwnedInput, Handling, actorVars
<1>5. Custody'
  <2>1. \A v \in Workers \ {w} : worker'[v] = worker[v]
    BY <1>2 DEF IInv, TypeOK
  <2>2. \A r \in Requests \ {q} : Failing(r)' <=> Failing(r)
    BY <1>1, <1>2, <1>a, <2>1 DEF Failing
  <2>3. \A r \in Requests \ {q} : Held(r)' <=> Held(r)
    BY <1>2, <2>2 DEF Held
  <2>4. CASE q \in pending
    <3>1. ~Failing(q) /\ server.req # q /\ q \notin sweep.batch /\ Held(q)
      BY <2>4 DEF IInv, Custody, Held
    <3>2. Failing(q)' /\ Held(q)' /\ q \notin pending'
      BY <1>1, <1>2, <2>4 DEF Failing, Held
    <3>3. \A v \in Workers \ {w} : worker'[v].st = "failing" => worker'[v].req # q
      BY <2>1, <3>1 DEF Failing
    <3>4. \A u, v \in Workers :
            worker'[u].st = "failing" /\ worker'[v].st = "failing" /\ worker'[u].req = worker'[v].req
              => u = v
      BY <1>1, <1>2, <2>1, <2>4, <3>3 DEF IInv, Custody
    <3>5. ASSUME NEW r \in Requests
          PROVE  /\ r \notin dispatched' => answers'[r] = <<>> /\ ~Held(r)'
                 /\ r \in dispatched' => (Held(r)' <=> answers'[r] = <<>>)
                 /\ r \in pending' => ~Failing(r)' /\ server'.req # r /\ r \notin sweep'.batch
                 /\ Failing(r)' => server'.req # r /\ r \notin sweep'.batch
                 /\ server'.req = r => r \notin sweep'.batch
      <4>1. CASE r = q
        <5>1. q \in dispatched /\ answers[q] = <<>>
          BY <3>1, HeldIsOpen
        <5>2. UNCHANGED <<dispatched, answers, server, sweep>>
          BY <1>2 DEF actorVars
        <5> QED
          BY <4>1, <3>1, <3>2, <5>1, <5>2
      <4>2. CASE r # q
        BY <4>2, <1>2, <2>2, <2>3 DEF IInv, Custody, actorVars
      <4> QED
        BY <4>1, <4>2
    <3> QED
      BY <3>4, <3>5 DEF Custody
  <2>5. CASE q \notin pending
    <3>1. \A v \in Workers : (worker'[v].st = "failing" <=> worker[v].st = "failing")
                             /\ (worker[v].st = "failing" => worker'[v] = worker[v])
      BY <1>1, <1>2, <2>1, <2>5
    <3>2. \A r \in Requests : Failing(r)' <=> Failing(r)
      BY <3>1 DEF Failing
    <3>3. \A r \in Requests : (Held(r)' <=> Held(r)) /\ (r \in pending' <=> r \in pending)
      BY <1>2, <2>5, <3>2 DEF Held
    <3> QED
      BY <1>2, <3>1, <3>2, <3>3 DEF IInv, Custody, actorVars
  <2> QED
    BY <2>4, <2>5
<1> QED
  BY <1>3, <1>4, <1>5 DEF IInv

\* A failing worker owns its request, so its emission is the only answer.
LEMMA WorkerEmitsStep ==
  ASSUME IInv, NEW w \in Workers, WorkerEmits(w)
  PROVE  IInv'
<1>a. PICK r \in Requests : r = worker[w].req
  BY DEF WorkerEmits, IInv, OwnedInput
<1>1. Failing(r) /\ Held(r) /\ "executor_error" \in Replies /\ Emit(r, "executor_error")
  BY <1>a DEF WorkerEmits, Held, Failing, Kinds, Replies
<1>2. /\ answers' \in [Requests -> Seq(Answer)]
      /\ answers'[r] # <<>>
      /\ \A q \in Requests \ {r} : answers'[q] = answers[q]
  BY <1>1, EmitAnswers
<1>3. worker' = [worker EXCEPT ![w] = [st |-> "idle", req |-> NoRequest]] /\ worker[w].st = "failing"
  BY DEF WorkerEmits
<1>4. TypeOK'
  <2>1. [st |-> "idle", req |-> NoRequest] \in [st : WorkerState, req : Requests \cup {NoRequest}]
    BY DEF WorkerState
  <2>2. worker' \in [Workers -> [st : WorkerState, req : Requests \cup {NoRequest}]]
    BY <1>3, <2>1 DEF IInv, TypeOK
  <2> QED
    BY <1>2, <2>2 DEF WorkerEmits, IInv, TypeOK, actorVars, storeVars
<1>5. OwnedInput'
  <2>1. \A q \in dispatched' :
          ctxOf'[q] \in Contexts /\ (answers'[q] = <<>> => savedInput'[ctxOf'[q]] = q)
    BY <1>1, <1>2, EmitKeepsInputs DEF WorkerEmits, actorVars
  <2> QED
    BY <1>3, <2>1 DEF WorkerEmits, IInv, TypeOK, OwnedInput, Handling, actorVars
<1>6. Custody'
  <2>1. \A v \in Workers \ {w} : worker'[v] = worker[v] /\ (worker[v].st = "failing" => worker[v].req # r)
    BY <1>a, <1>3 DEF IInv, TypeOK, Custody
  <2>2. worker'[w].st = "idle"
    BY <1>3 DEF IInv, TypeOK
  <2>3. ~Failing(r)' /\ \A q \in Requests \ {r} : Failing(q)' <=> Failing(q)
    BY <1>a, <1>3, <2>1, <2>2 DEF Failing
  <2>4. r \notin pending /\ server.req # r /\ r \notin sweep.batch
    BY <1>1 DEF IInv, Custody
  <2>5. ~Held(r)'
    BY <2>3, <2>4 DEF WorkerEmits, Held, storeVars
  <2>6. \A v \in Workers : worker'[v].st = "failing" => worker'[v] = worker[v]
    BY <2>1, <2>2
  <2> QED
    BY <1>1, <1>2, <2>3, <2>5, <2>6, EmitKeepsCustody DEF WorkerEmits, actorVars, storeVars
<1> QED
  BY <1>4, <1>5, <1>6 DEF IInv

\* A callback moves the request from the store to the server.
LEMMA ProcessCallbackStep ==
  ASSUME IInv, NEW r \in Requests, NEW k \in Replies, ProcessCallback(r, k)
  PROVE  IInv'
<1>1. /\ pending' = pending \ {r} /\ overdue' = overdue \ {r} /\ r \in pending
      /\ server.req = NoRequest /\ server' = [server EXCEPT !.req = r, !.kind = k]
      /\ UNCHANGED <<actorVars, senderVars, sweep, answers>>
  BY DEF ProcessCallback, Pop
<1>2. server' \in [up : BOOLEAN, req : Requests \cup {NoRequest}, kind : Replies] /\ server'.req = r
  BY <1>1 DEF IInv, TypeOK, Kinds, Replies
<1>3. TypeOK'
  BY <1>1, <1>2 DEF IInv, TypeOK, actorVars, senderVars
<1>4. OwnedInput'
  BY <1>1 DEF IInv, OwnedInput, Handling, actorVars, senderVars
<1>5. Custody'
  <2>1. \A q \in Requests : Failing(q)' <=> Failing(q)
    BY <1>1 DEF Failing, senderVars
  <2>2. ~Failing(r) /\ r \notin sweep.batch /\ Held(r)
    BY <1>1 DEF IInv, Custody, Held
  <2>3. Held(r)'
    BY <1>2 DEF Held
  <2>4. \A q \in Requests \ {r} : Held(q)' <=> Held(q)
    BY <1>1, <1>2, <2>1, CommunicatorAssumption DEF Held
  <2>5. \A q \in Requests : server.req # q
    BY <1>1, CommunicatorAssumption
  <2> QED
    BY <1>1, <1>2, <2>1, <2>2, <2>3, <2>4, <2>5 DEF IInv, Custody, actorVars, senderVars
<1> QED
  BY <1>3, <1>4, <1>5 DEF IInv

\* The callback server owns the request it popped, so its emission is the only answer.
LEMMA CallbackEmitsStep ==
  ASSUME IInv, CallbackEmits
  PROVE  IInv'
<1>a. PICK r \in Requests : r = server.req
  BY DEF CallbackEmits, IInv, TypeOK
<1>1. Held(r) /\ server.kind \in Replies /\ Emit(r, server.kind)
  BY <1>a DEF CallbackEmits, IInv, TypeOK, Held
<1>2. /\ answers' \in [Requests -> Seq(Answer)]
      /\ answers'[r] # <<>>
      /\ \A q \in Requests \ {r} : answers'[q] = answers[q]
  BY <1>1, EmitAnswers
<1>3. server' \in [up : BOOLEAN, req : Requests \cup {NoRequest}, kind : Replies] /\ server'.req = NoRequest
  BY DEF CallbackEmits, IInv, TypeOK, Kinds, Replies
<1>4. TypeOK'
  BY <1>2, <1>3 DEF CallbackEmits, IInv, TypeOK, actorVars, storeVars, senderVars
<1>5. OwnedInput'
  <2>1. \A q \in dispatched' :
          ctxOf'[q] \in Contexts /\ (answers'[q] = <<>> => savedInput'[ctxOf'[q]] = q)
    BY <1>1, <1>2, EmitKeepsInputs DEF CallbackEmits, actorVars
  <2> QED
    BY <2>1 DEF CallbackEmits, IInv, OwnedInput, Handling, actorVars, senderVars
<1>6. Custody'
  <2>1. r \notin pending /\ ~Failing(r) /\ r \notin sweep.batch
    BY <1>a DEF IInv, Custody
  <2>2. \A q \in Requests : Failing(q)' <=> Failing(q)
    BY DEF CallbackEmits, Failing, senderVars
  <2>3. ~Held(r)' /\ \A q \in Requests : server'.req # q
    BY <1>1, <1>3, <2>1, <2>2, CommunicatorAssumption DEF CallbackEmits, Held, storeVars
  <2> QED
    BY <1>a, <1>1, <1>2, <2>2, <2>3, EmitKeepsCustody
    DEF CallbackEmits, actorVars, storeVars, senderVars
<1> QED
  BY <1>4, <1>5, <1>6 DEF IInv

\* A deadline that passes marks a pending request only.
LEMMA ExpireStep ==
  ASSUME IInv, NEW r \in Requests, Expire(r)
  PROVE  IInv'
<1>1. TypeOK'
  BY DEF Expire, IInv, TypeOK, actorVars, senderVars
<1>2. OwnedInput'
  BY DEF Expire, IInv, OwnedInput, Handling, actorVars, senderVars
<1>3. Custody'
  BY DEF Expire, IInv, Custody, Held, Failing, actorVars, senderVars
<1> QED
  BY <1>1, <1>2, <1>3 DEF IInv

\* The sweep reading its stop signal moves nothing.
LEMMA SweepChecksSignalStep ==
  ASSUME IInv, SweepChecksSignal
  PROVE  IInv'
<1>1. TypeOK'
  BY CommunicatorAssumption DEF IInv, SweepChecksSignal, TypeOK, SweepPc, actorVars, storeVars, senderVars, OwnedInput
<1>2. OwnedInput'
  BY CommunicatorAssumption DEF IInv, SweepChecksSignal, TypeOK, actorVars, storeVars, senderVars, OwnedInput, Handling
<1>3. Custody'
  BY CommunicatorAssumption DEF IInv, SweepChecksSignal, TypeOK, actorVars, storeVars, senderVars, OwnedInput, Custody, Held, Failing
<1> QED
  BY <1>1, <1>2, <1>3 DEF IInv

\* The sweep moves every overdue request from the store to its batch.
LEMMA PopExpiredStep ==
  ASSUME IInv, PopExpired
  PROVE  IInv'
<1>1. /\ sweep' = [sweep EXCEPT !.pc = "emit", !.batch = overdue]
      /\ sweep.batch = {} /\ pending' = pending \ overdue /\ overdue' = {}
      /\ UNCHANGED <<actorVars, senderVars, server, answers>>
  BY DEF PopExpired, IInv, OwnedInput
<1>2. overdue \in SUBSET pending /\ pending \in SUBSET Requests
  BY DEF IInv, TypeOK
<1>3. sweep' \in [pc : SweepPc, stop : BOOLEAN, batch : SUBSET Requests] /\ sweep'.batch = overdue
      /\ sweep'.pc = "emit"
  BY <1>1, <1>2 DEF IInv, TypeOK, SweepPc
<1>4. TypeOK'
  BY <1>1, <1>2, <1>3 DEF IInv, TypeOK, actorVars, senderVars
<1>5. OwnedInput'
  BY <1>1, <1>3 DEF IInv, OwnedInput, Handling, actorVars, senderVars
<1>6. Custody'
  <2>1. \A q \in Requests : Failing(q)' <=> Failing(q)
    BY <1>1 DEF Failing, senderVars
  <2>2. \A q \in Requests : Held(q)' <=> Held(q)
    BY <1>1, <1>2, <1>3, <2>1 DEF Held
  <2> QED
    BY <1>1, <1>2, <1>3, <2>1, <2>2 DEF IInv, Custody, actorVars, senderVars
<1> QED
  BY <1>4, <1>5, <1>6 DEF IInv

\* The sweep owns its batch, so its emission is the only answer.
LEMMA SweepEmitsStep ==
  ASSUME IInv, NEW r \in Requests, SweepEmits(r)
  PROVE  IInv'
<1>1. Held(r) /\ "executor_error" \in Replies
  BY DEF SweepEmits, Held, Kinds, Replies
<1>2. /\ answers' \in [Requests -> Seq(Answer)]
      /\ answers'[r] # <<>>
      /\ \A q \in Requests \ {r} : answers'[q] = answers[q]
  BY <1>1, EmitAnswers DEF SweepEmits
<1>3. /\ sweep' \in [pc : SweepPc, stop : BOOLEAN, batch : SUBSET Requests]
      /\ sweep'.batch = sweep.batch \ {r} /\ sweep'.pc = sweep.pc
  BY DEF SweepEmits, IInv, TypeOK
<1>4. TypeOK'
  BY <1>2, <1>3 DEF SweepEmits, IInv, TypeOK, actorVars, storeVars, senderVars
<1>5. OwnedInput'
  <2>1. \A q \in dispatched' :
          ctxOf'[q] \in Contexts /\ (answers'[q] = <<>> => savedInput'[ctxOf'[q]] = q)
    BY <1>2, EmitKeepsInputs DEF SweepEmits, actorVars
  <2> QED
    BY <1>3, <2>1 DEF SweepEmits, IInv, OwnedInput, Handling, actorVars, senderVars
<1>6. Custody'
  <2>1. r \notin pending /\ ~Failing(r) /\ server.req # r
    BY DEF SweepEmits, IInv, Custody
  <2>2. \A q \in Requests : Failing(q)' <=> Failing(q)
    BY DEF SweepEmits, Failing, senderVars
  <2>3. ~Held(r)'
    BY <1>3, <2>1, <2>2 DEF SweepEmits, Held, storeVars
  <2> QED
    BY <1>1, <1>2, <1>3, <2>2, <2>3, EmitKeepsCustody
    DEF SweepEmits, actorVars, storeVars, senderVars
<1> QED
  BY <1>4, <1>5, <1>6 DEF IInv

\* The sweep goes back to its wait with an empty batch.
LEMMA SweepWaitsStep ==
  ASSUME IInv, SweepWaits
  PROVE  IInv'
<1>1. TypeOK'
  BY CommunicatorAssumption DEF IInv, SweepWaits, TypeOK, SweepPc, actorVars, storeVars, senderVars, OwnedInput
<1>2. OwnedInput'
  BY CommunicatorAssumption DEF IInv, SweepWaits, TypeOK, actorVars, storeVars, senderVars, OwnedInput, Handling
<1>3. Custody'
  BY CommunicatorAssumption DEF IInv, SweepWaits, TypeOK, actorVars, storeVars, senderVars, OwnedInput, Custody, Held, Failing
<1> QED
  BY <1>1, <1>2, <1>3 DEF IInv

----------------------------------------------------------------------------
(* The theorems *)

\* Every step, and every stutter, preserves the inductive invariant.
LEMMA NextIInv == IInv /\ [Next]_vars => IInv'
<1> SUFFICES ASSUME IInv, [Next]_vars PROVE IInv'
  OBVIOUS
<1>1. ASSUME NEW r \in Requests, NEW c \in Contexts, HandleInput(r, c) \/ RefuseTarget(r, c)
      PROVE  IInv'
  BY <1>1, HandleInputStep, RefuseTargetStep
<1>2. CASE RequestStop
  BY <1>2, RequestStopStep
<1>3. CASE ActorStep
  BY <1>3, ScheduleEnqueueStep, EnqueueDoneStep, EnqueueTimeoutStep, FailEnqueueStep,
     StopSenderStep, StopServerStep DEF ActorStep
<1>4. CASE LoopStep
  BY <1>4, LoopStartsStep, LoopExitsStep, PutStopStep, PutQueuedStep, PutSignalledStep,
     PutDroppedStep DEF LoopStep
<1>5. ASSUME NEW w \in Workers, WorkerStep(w)
      PROVE  IInv'
  BY <1>5, WorkerGetStep, NeuronReceivesStep, SendAcceptedStep, SendFailedStep, WorkerEmitsStep
  DEF WorkerStep
<1>6. ASSUME NEW r \in Requests, NEW k \in Replies, ProcessCallback(r, k)
      PROVE  IInv'
  BY <1>6, ProcessCallbackStep
<1>7. CASE CallbackEmits
  BY <1>7, CallbackEmitsStep
<1>8. ASSUME NEW r \in Requests, Expire(r)
      PROVE  IInv'
  BY <1>8, ExpireStep
<1>9. CASE SweepStep
  BY <1>9, SweepChecksSignalStep, PopExpiredStep, SweepWaitsStep, SweepEmitsStep DEF SweepStep
<1>10. CASE UNCHANGED vars
  <2>1. TypeOK'
    BY <1>10 DEF IInv, vars, actorVars, storeVars, senderVars, TypeOK
  <2>2. OwnedInput'
    BY <1>10 DEF IInv, vars, actorVars, storeVars, senderVars, OwnedInput, Handling
  <2>3. Custody'
    BY <1>10 DEF IInv, vars, actorVars, storeVars, senderVars, Custody, Held, Failing
  <2> QED
    BY <2>1, <2>2, <2>3 DEF IInv
<1> QED
  BY <1>1, <1>2, <1>3, <1>4, <1>5, <1>6, <1>7, <1>8, <1>9, <1>10 DEF Next

\* The inductive invariant holds in every reachable state.
THEOREM Invariance == Spec => []IInv
<1>1. Init => IInv
  BY InitIInv
<1>2. IInv /\ [Next]_vars => IInv'
  BY NextIInv
<1> QED
  BY <1>1, <1>2, PTL DEF Spec

\* Type correctness of the communicator.
THEOREM TypeCorrectness == Spec => []TypeOK
<1>1. IInv => TypeOK
  BY DEF IInv
<1> QED
  BY <1>1, Invariance, PTL

\* Every dispatched request is answered, or owed its answer by exactly one of the
\* store, a worker, the callback server and the sweep.
THEOREM CustodyIsKept == Spec => []Custody
<1>1. IInv => Custody
  BY DEF IInv
<1> QED
  BY <1>1, Invariance, PTL

----------------------------------------------------------------------------
(* The communicator implements RequestOutcome *)

\* An emission by the holder of a request is the Resolve of the abstract specification.
LEMMA EmitResolves ==
  ASSUME IInv, NEW r \in Requests, Held(r), NEW k \in Replies, Emit(r, k), UNCHANGED dispatched
  PROVE  RO!Resolve(r)
<1>1. answers[r] = <<>> /\ r \in dispatched
  BY HeldIsOpen
<1>2. answers' = [answers EXCEPT ![r] = <<[kind |-> k, input |-> r]>>]
  BY EmitAnswers
<1>3. [kind |-> k, input |-> r] \in RO!Answer(r)
  BY DEF RO!Answer, Kinds, Replies
<1> QED
  BY <1>1, <1>2, <1>3 DEF RO!Resolve

\* Every step of the communicator is a step of the abstract specification, or leaves
\* what it speaks about alone.
LEMMA StepSimulation == IInv /\ [Next]_vars => [RO!Next]_(RO!vars)
<1> SUFFICES ASSUME IInv, [Next]_vars PROVE RO!Next \/ UNCHANGED <<dispatched, answers>>
  BY DEF RO!vars
<1> DEFINE Stutter == UNCHANGED <<dispatched, answers>>
<1>1. ASSUME NEW r \in Requests, NEW c \in Contexts, HandleInput(r, c)
      PROVE  RO!Next
  <2>1. RO!Dispatch(r)
    BY <1>1 DEF HandleInput, RO!Dispatch
  <2> QED
    BY <2>1 DEF RO!Next
<1>2. ASSUME NEW r \in Requests, NEW c \in Contexts, RefuseTarget(r, c)
      PROVE  RO!Next
  <2>1. answers[r] = <<>> /\ r \notin dispatched
    BY <1>2 DEF RefuseTarget, IInv, Custody
  <2>2. Append(answers[r], [kind |-> "internal_error", input |-> NoRequest]) = <<RO!Refusal>>
    BY <2>1 DEF RO!Refusal
  <2>3. RO!Refuse(r)
    BY <1>2, <2>1, <2>2 DEF RefuseTarget, RO!Refuse
  <2> QED
    BY <2>3 DEF RO!Next
<1>3. ASSUME NEW r \in Requests, FailPending(r), UNCHANGED dispatched
      PROVE  RO!Next \/ Stutter
  <2>1. CASE r \in pending
    BY <1>3, <2>1, EmitResolves DEF FailPending, Held, Kinds, Replies, RO!Next
  <2>2. CASE r \notin pending
    BY <1>3, <2>2 DEF FailPending
  <2> QED
    BY <2>1, <2>2
<1>4. CASE ActorStep
  <2>1. CASE ScheduleEnqueue
    <3>1. actor.req \in Requests
      BY <2>1 DEF ScheduleEnqueue, IInv, OwnedInput, Handling
    <3> QED
      BY <2>1, <3>1, <1>3 DEF ScheduleEnqueue
  <2>2. CASE FailEnqueue
    <3>1. actor.req \in Requests
      BY <2>2 DEF FailEnqueue, IInv, OwnedInput, Handling
    <3> QED
      BY <2>2, <3>1, <1>3 DEF FailEnqueue
  <2>3. CASE EnqueueDone \/ EnqueueTimeout \/ StopSender \/ StopServer
    BY <2>3 DEF EnqueueDone, EnqueueTimeout, StopSender, StopServer
  <2> QED
    BY <1>4, <2>1, <2>2, <2>3 DEF ActorStep
<1>5. CASE RequestStop
  BY <1>5 DEF RequestStop
<1>6. CASE LoopStep
  BY <1>6 DEF LoopStep, LoopStarts, LoopExits, PutStop, PutQueued, PutSignalled, PutDropped, actorVars
<1>7. ASSUME NEW w \in Workers, WorkerStep(w)
      PROVE  RO!Next \/ Stutter
  <2>1. CASE WorkerEmits(w)
    <3>1. PICK r \in Requests : r = worker[w].req
      BY <2>1 DEF WorkerEmits, IInv, OwnedInput
    <3>2. Held(r) /\ "executor_error" \in Replies /\ Emit(r, "executor_error") /\ UNCHANGED dispatched
      BY <2>1, <3>1 DEF WorkerEmits, Held, Failing, Kinds, Replies, actorVars
    <3> QED
      BY <3>2, EmitResolves DEF RO!Next
  <2>2. CASE WorkerGet(w) \/ NeuronReceives(w) \/ SendAccepted(w) \/ SendFailed(w)
    BY <2>2 DEF WorkerGet, NeuronReceives, SendAccepted, SendFailed, actorVars
  <2> QED
    BY <1>7, <2>1, <2>2 DEF WorkerStep
<1>8. ASSUME NEW r \in Requests, NEW k \in Replies, ProcessCallback(r, k)
      PROVE  Stutter
  BY <1>8 DEF ProcessCallback, actorVars
<1>9. CASE CallbackEmits
  <2>1. PICK r \in Requests : r = server.req
    BY <1>9 DEF CallbackEmits, IInv, TypeOK
  <2>2. Held(r) /\ server.kind \in Replies /\ Emit(r, server.kind) /\ UNCHANGED dispatched
    BY <1>9, <2>1 DEF CallbackEmits, IInv, TypeOK, Held, actorVars
  <2> QED
    BY <2>2, EmitResolves DEF RO!Next
<1>10. ASSUME NEW r \in Requests, Expire(r)
       PROVE  Stutter
  BY <1>10 DEF Expire, actorVars
<1>11. CASE SweepStep
  <2>1. ASSUME NEW r \in Requests, SweepEmits(r)
        PROVE  RO!Next
    <3>1. Held(r) /\ "executor_error" \in Replies /\ Emit(r, "executor_error") /\ UNCHANGED dispatched
      BY <2>1 DEF SweepEmits, Held, Kinds, Replies, actorVars
    <3> QED
      BY <3>1, EmitResolves DEF RO!Next
  <2> QED
    BY <1>11, <2>1 DEF SweepStep, SweepChecksSignal, PopExpired, SweepWaits, actorVars
<1>12. CASE UNCHANGED vars
  BY <1>12 DEF vars, actorVars
<1> QED
  BY <1>1, <1>2, <1>4, <1>5, <1>6, <1>7, <1>8, <1>9, <1>10, <1>11, <1>12 DEF Next

\* Whatever the interleaving of actor, sender loop, callback server and sweep, a
\* request is answered at most once and with its own input.
THEOREM ImplementsRequestOutcome == Spec => OneAnswerWithItsInput
<1>1. Init => RO!Init
  BY DEF Init, RO!Init
<1>2. IInv /\ [Next]_vars => [RO!Next]_(RO!vars)
  BY StepSimulation
<1> QED
  BY <1>1, <1>2, Invariance, PTL DEF Spec, OneAnswerWithItsInput, RO!Spec
=============================================================================
