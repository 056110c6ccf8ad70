------------------------------- MODULE Miner -------------------------------
(***************************************************************************)
(* The cat-images miner: an AsyncHttpNeuronService, which accepts a post   *)
(* and calls back from a thread of its own, and an AxonUpdaterService,     *)
(* whose loop has a process pool of one update its axon and waits for each *)
(* update at most two minutes.  main() starts both and, when interrupted,  *)
(* stops the updater and then the service.                                 *)
(***************************************************************************)
EXTENDS Naturals, Sequences, FiniteSets

CONSTANTS Posts,         \* requests of communicators
          TakenAhead,    \* updates a pool takes up, beside the running one, and can
                         \* not cancel any more
          MaxUpdates     \* bound: updates the loop submits

ASSUME MinerAssumption == TakenAhead \in Nat /\ MaxUpdates \in Nat

VARIABLES
  main,        \* where main() is
  service,     \* the server thread of the service
  post,        \* per request: what its client has been told
  worker,      \* per request: the thread that processes it
  workers,     \* _worker_threads
  calledBack,  \* per request: the callbacks sent for it
  loop,        \* where the loop of the updater is
  update,      \* the last update it has submitted
  stopEvent,   \* _stop_event
  pool,        \* the executor
  backlog,     \* updates submitted that it has not taken up
  taken,       \* updates it has taken up: the first is running
  finished,    \* updates that have ended
  abandoned    \* history: updates the loop has stopped waiting for

serviceVars == <<service, post, worker, workers, calledBack>>
poolVars == <<pool, backlog, taken, finished>>
updaterVars == <<loop, update, stopEvent, poolVars, abandoned>>
minerVars == <<main, serviceVars, updaterVars>>

NothingDone ==
  /\ service = "down"
  /\ post = [r \in Posts |-> "none"] /\ worker = [r \in Posts |-> "none"]
  /\ workers = {} /\ calledBack = [r \in Posts |-> <<>>]
  /\ loop = "none" /\ update = 0 /\ stopEvent = FALSE
  /\ pool = "none" /\ backlog = <<>> /\ taken = <<>> /\ finished = {} /\ abandoned = {}

MinerInit == NothingDone /\ main = "start"

\* The process waits for what its pool has taken up, and takes its daemon threads along.
ProcessExited == main = "returned" /\ taken = <<>>

----------------------------------------------------------------------------
(* The service *)

\* A server that does not come up raises out of main(); the updater is optional.
StartMiner ==
  /\ main = "start"
  /\ \/ main' = "returned" /\ UNCHANGED <<service, pool, loop>>
     \/ /\ main' = "serving" /\ service' = "up"
        /\ \/ pool' = "open" /\ loop' = "submit"
           \/ UNCHANGED <<pool, loop>>
  /\ UNCHANGED <<post, worker, workers, calledBack, update, stopEvent, backlog, taken, finished,
                 abandoned>>

PostArrives(r) ==
  /\ service = "up" /\ post[r] = "none"
  /\ post' = [post EXCEPT ![r] = "reading"]
  /\ UNCHANGED <<main, service, worker, workers, calledBack, updaterVars>>

\* 404, 405, 411 or 400, before or after the body was read.
RefusePost(r) ==
  /\ post[r] = "reading"
  /\ post' = [post EXCEPT ![r] = "refused"]
  /\ UNCHANGED <<main, service, worker, workers, calledBack, updaterVars>>

\* The thread is registered before it starts ...
AcceptPost(r) ==
  /\ post[r] = "reading"
  /\ post' = [post EXCEPT ![r] = "accepting"]
  /\ worker' = [worker EXCEPT ![r] = "processing"]
  /\ workers' = workers \cup {r}
  /\ UNCHANGED <<main, service, calledBack, updaterVars>>

\* ... and may call back before the client has its 202.
ReplyAccepted(r) ==
  /\ post[r] = "accepting"
  /\ post' = [post EXCEPT ![r] = "accepted"]
  /\ UNCHANGED <<main, service, worker, workers, calledBack, updaterVars>>

\* Mutant: the processor's exception is not turned into a body.
ProcessUncaught(r) ==
  /\ worker[r] = "processing"
  /\ \E next \in {"output", "ending"} : worker' = [worker EXCEPT ![r] = next]
  /\ UNCHANGED <<main, service, post, workers, calledBack, updaterVars>>

\* An exception of the processor, or of the validation of its output, is the error of
\* the body.
Process(r) ==
  /\ worker[r] = "processing"
  /\ \E body \in {"output", "error"} : worker' = [worker EXCEPT ![r] = body]
  /\ UNCHANGED <<main, service, post, workers, calledBack, updaterVars>>

\* A callback that fails is logged; it may have arrived all the same.
PostCallback(r) ==
  /\ worker[r] \in {"output", "error"}
  /\ calledBack' = [calledBack EXCEPT ![r] = Append(@, worker[r])]
  /\ worker' = [worker EXCEPT ![r] = "ending"]
  /\ UNCHANGED <<main, service, post, workers, updaterVars>>

EndWorker(r) ==
  /\ worker[r] = "ending"
  /\ worker' = [worker EXCEPT ![r] = "ended"]
  /\ workers' = workers \ {r}
  /\ UNCHANGED <<main, service, post, calledBack, updaterVars>>

\* uvicorn ends after the requests it has; stop() waits for it a second.
ServiceEnds ==
  /\ service = "exiting"
  /\ \A r \in Posts : post[r] \notin {"reading", "accepting"}
  /\ service' = "down"
  /\ UNCHANGED <<main, post, worker, workers, calledBack, updaterVars>>

----------------------------------------------------------------------------
(* The updater's loop *)

\* A pool that was shut down refuses, and one that broke raises: the loop ends.
SubmitUpdate ==
  /\ loop = "submit"
  /\ \/ /\ pool = "open"
        /\ update' = update + 1
        /\ backlog' = Append(backlog, update')
        /\ loop' = "waiting"
     \/ pool \in {"shut", "broken"} /\ loop' = "dead" /\ UNCHANGED <<update, backlog>>
  /\ UNCHANGED <<main, serviceVars, stopEvent, pool, taken, finished, abandoned>>

InPool(u) == \E q \in {backlog, taken} : \E i \in DOMAIN q : q[i] = u

GetResult ==
  /\ loop = "waiting" /\ update \in finished
  /\ loop' = "sleeping"
  /\ UNCHANGED <<main, serviceVars, update, stopEvent, poolVars, abandoned>>

\* The update stays in the pool.
UpdateTimesOut ==
  /\ loop = "waiting" /\ InPool(update)
  /\ abandoned' = abandoned \cup {update}
  /\ loop' = "sleeping"
  /\ UNCHANGED <<main, serviceVars, update, stopEvent, poolVars>>

\* The pool broke, or has cancelled the update: the loop ends.
UpdateLost ==
  /\ loop = "waiting" /\ update \notin finished /\ ~InPool(update)
  /\ loop' = "dead"
  /\ UNCHANGED <<main, serviceVars, update, stopEvent, poolVars, abandoned>>

\* The interval is over, or the stop event set.
WakeUp ==
  /\ loop = "sleeping"
  /\ \/ stopEvent /\ loop' = "dead"
     \/ ~stopEvent /\ update < MaxUpdates /\ loop' = "submit"
  /\ UNCHANGED <<main, serviceVars, update, stopEvent, poolVars, abandoned>>

----------------------------------------------------------------------------
(* The pool: concurrent.futures.ProcessPoolExecutor *)

TakeUp ==
  /\ backlog # <<>> /\ Len(taken) <= TakenAhead
  /\ taken' = Append(taken, Head(backlog)) /\ backlog' = Tail(backlog)
  /\ UNCHANGED <<main, serviceVars, loop, update, stopEvent, pool, finished, abandoned>>

\* An update answers whether it failed or not.
UpdateEnds ==
  /\ taken # <<>>
  /\ taken' = Tail(taken) /\ finished' = finished \cup {Head(taken)}
  /\ UNCHANGED <<main, serviceVars, loop, update, stopEvent, pool, backlog, abandoned>>

\* The process of an update dies.
PoolBreaks ==
  /\ taken # <<>>
  /\ pool' = "broken" /\ taken' = <<>> /\ backlog' = <<>>
  /\ UNCHANGED <<main, serviceVars, loop, update, stopEvent, finished, abandoned>>

----------------------------------------------------------------------------
(* main *)

\* Interrupted; without an updater the service is stopped next.
Interrupted ==
  /\ main = "serving"
  /\ main' = IF loop = "none" THEN "stop_service" ELSE "stop_updater"
  /\ stopEvent' = (loop # "none")
  /\ UNCHANGED <<serviceVars, loop, update, poolVars, abandoned>>

\* Mutant: the pool's backlog is not cancelled.
ShutDownPoolOnly ==
  /\ main = "stop_updater"
  /\ pool' = IF pool = "broken" THEN pool ELSE "shut"
  /\ main' = "join_loop"
  /\ UNCHANGED <<serviceVars, loop, update, stopEvent, backlog, taken, finished, abandoned>>

ShutDownPool ==
  /\ main = "stop_updater"
  /\ pool' = IF pool = "broken" THEN pool ELSE "shut"
  /\ backlog' = <<>>
  /\ main' = "join_loop"
  /\ UNCHANGED <<serviceVars, loop, update, stopEvent, taken, finished, abandoned>>

\* The join lasts longer than the loop can wait for an update.
JoinLoop ==
  /\ main = "join_loop" /\ loop = "dead"
  /\ main' = "stop_service"
  /\ UNCHANGED <<serviceVars, updaterVars>>

StopService ==
  /\ main = "stop_service"
  /\ service' = "exiting" /\ main' = "returned"
  /\ UNCHANGED <<post, worker, workers, calledBack, updaterVars>>

----------------------------------------------------------------------------
HandlerStep(r) == RefusePost(r) \/ AcceptPost(r) \/ ReplyAccepted(r)
WorkerStep(r) == Process(r) \/ PostCallback(r) \/ EndWorker(r)
LoopAction == SubmitUpdate \/ GetResult \/ UpdateTimesOut \/ UpdateLost \/ WakeUp
StopStep == ShutDownPool \/ JoinLoop \/ StopService

MinerNext ==
  \/ StartMiner
  \/ ~ProcessExited /\ (\/ \E r \in Posts : PostArrives(r) \/ HandlerStep(r) \/ WorkerStep(r)
                        \/ ServiceEnds \/ LoopAction \/ TakeUp \/ UpdateEnds \/ PoolBreaks
                        \/ Interrupted \/ StopStep)

\* Threads run and the processor ends; nobody has to post or interrupt, and an update may
\* hang for ever.
MinerFairness ==
  /\ \A r \in Posts : /\ WF_minerVars(~ProcessExited /\ HandlerStep(r))
                      /\ WF_minerVars(~ProcessExited /\ WorkerStep(r))
  /\ WF_minerVars(LoopAction) /\ WF_minerVars(StopStep)

MinerSpec == MinerInit /\ [][MinerNext]_minerVars /\ MinerFairness

----------------------------------------------------------------------------
(* Properties *)

\* While the miner serves, its axon is updated again and again unless the pool broke,
\* whatever updates time out; what piles up in the pool are updates that timed out and the
\* one that is waited for; and once stop() has returned, nothing is submitted or waiting
\* (axon_updater.py:114-141).
UpdaterFollowsMain ==
  /\ main = "serving" /\ loop = "dead" => pool = "broken"
  /\ \A u \in 1..update : InPool(u) => u \in abandoned \/ (u = update /\ loop = "waiting")
  /\ main \in {"stop_service", "returned"} => loop \in {"none", "dead"} /\ backlog = <<>>

\* Every accepted request is called back once, with the output or the error of its
\* processing and although it may be told so first, unless the process exits before; and
\* an interrupt ends main() whatever its updates and requests do
\* (async_http_neuron_service.py:175-231, axon_updater.py:133-141).
AcceptedIsCalledBack ==
  /\ \A r \in Posts : post[r] = "accepting" ~> (Len(calledBack[r]) = 1 \/ ProcessExited)
  /\ stopEvent ~> main = "returned"
============================================================================
