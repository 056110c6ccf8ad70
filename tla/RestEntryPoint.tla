--------------------------- MODULE RestEntryPoint ---------------------------
(***************************************************************************)
(* The REST entry point.  Its actor starts a server thread.  Each HTTP     *)
(* request is a task on the event loop of that thread; the actor thread resolves it with an output of the   *)
(* graph, a timer ends it, and the stop of the actor cancels it.  They     *)
(* share a store of futures; asyncio chains a future of its own to each    *)
(* and keeps the two in step by callbacks on the loop.                     *)
(***************************************************************************)
EXTENDS Naturals, Sequences

CONSTANTS Requests,
          MaxOutputs   \* bound: outputs of the graph for one request

ASSUME EntryAssumption == MaxOutputs \in Nat

VARIABLES
  task,      \* per request: where its task is in _dispatch_post_request
  future,    \* per request: its concurrent.futures.Future
  wrapped,   \* per request: the asyncio future chained to it
  calls,     \* per request: callbacks on the loop that copy one future to the other
  expired,   \* requests whose response timeout has fired
  entries,   \* _futures_by_ctx_id
  inbox,     \* inbox of the actor
  actor,     \* where the actor thread is, and what it holds
  server,    \* the server thread
  should_exit,
  reply,     \* per request: the response of the client
  outputs,   \* history, per request: outputs the graph has emitted for it
  missed     \* history: requests whose first output was dropped before their timeout

taskVars == <<task, expired, reply>>
futureVars == <<future, wrapped, calls>>
actorVars == <<inbox, actor, outputs, missed>>
serverVars == <<server, should_exit>>
vars == <<taskVars, futureVars, entries, actorVars, serverVars>>

NoReply == <<"none">>
Refused == <<"4xx">>
ServerError == <<"500">>
ServiceUnavailable == <<"503">>
GatewayTimeout == <<"504">>
Answer(k) == <<"answer", k>>
Replies == {NoReply, Refused, ServerError, ServiceUnavailable, GatewayTimeout} \cup {Answer(k) : k \in 1..MaxOutputs}
Pending == <<"pending">>
Cancelled == <<"cancelled">>
Done(f) == f \notin {<<>>, Pending}
Futures == {<<>>, Pending, Cancelled} \cup {Answer(k) : k \in 1..MaxOutputs}

Calls == SUBSET {"set_state", "check_cancel"}

Output(r, k) == [req |-> r, num |-> k]
OutputEvents == [req : Requests, num : 1..MaxOutputs]
Stop == [stop |-> TRUE]
Events == OutputEvents \cup {Stop}
Starting == [pc |-> "starting"]
Idle == [pc |-> "idle"]
Resolving(p, o) == [pc |-> p, out |-> o]
Canceling(s) == [pc |-> "canceling", left |-> s]
Ended == [pc |-> "ended"]
Places == {Starting, Idle, Ended} \cup {Canceling(s) : s \in SUBSET Requests}
          \cup {Resolving("popped", o) : o \in OutputEvents}
          \cup {Resolving("checked", o) : o \in OutputEvents}
Serving == actor.pc \in {"idle", "popped", "checked"}
Stopping == actor.pc \in {"canceling", "ended"}

TypeOK ==
  /\ task \in [Requests -> {"none", "created", "registered", "put", "waiting", "done"}]
  /\ future \in [Requests -> Futures] /\ wrapped \in [Requests -> Futures]
  /\ calls \in [Requests -> Calls]
  /\ expired \subseteq Requests /\ entries \subseteq Requests
  /\ inbox \in Seq(Events) /\ actor \in Places
  /\ server \in {"starting", "running", "exiting", "ended"} /\ should_exit \in BOOLEAN
  /\ reply \in [Requests -> Replies]
  /\ outputs \in [Requests -> 0..MaxOutputs]
  /\ missed \subseteq Requests

NoRequests ==
  /\ task = [r \in Requests |-> "none"]
  /\ future = [r \in Requests |-> <<>>] /\ wrapped = [r \in Requests |-> <<>>]
  /\ calls = [r \in Requests |-> {}]
  /\ expired = {} /\ entries = {} /\ inbox = <<>> /\ should_exit = FALSE
  /\ reply = [r \in Requests |-> NoReply]
  /\ outputs = [r \in Requests |-> 0] /\ missed = {}

Init == NoRequests /\ actor = Starting /\ server = "starting"

----------------------------------------------------------------------------
(* The request task, on the loop of the server thread *)

Goto(r, p) == task' = [task EXCEPT ![r] = p]
Reply(r, v) == reply' = [reply EXCEPT ![r] = v] /\ Goto(r, "done")

\* 404, 405, 411 or 400: nothing else comes of it.
Refuse(r) ==
  /\ task[r] = "none" /\ server = "running"
  /\ Reply(r, Refused)
  /\ UNCHANGED <<expired, futureVars, entries, actorVars, serverVars>>

\* A valid request is accepted and gets a context.
Accept(r) ==
  /\ task[r] = "none" /\ server = "running"
  /\ Goto(r, "created")
  /\ UNCHANGED <<expired, reply, futureVars, entries, actorVars, serverVars>>

\* create: the future is stored.
Register(r) ==
  /\ task[r] = "created"
  /\ future' = [future EXCEPT ![r] = Pending]
  /\ entries' = entries \cup {r}
  /\ Goto(r, "registered")
  /\ UNCHANGED <<expired, reply, wrapped, calls, actorVars, serverVars>>

\* The request goes to the graph.
Put(r) ==
  /\ task[r] = "registered"
  /\ Goto(r, "put")
  /\ UNCHANGED <<expired, reply, futureVars, entries, actorVars, serverVars>>

\* Mutant: a request that cannot be put is left in the store.
PutFailsOnly(r) ==
  /\ task[r] = "registered"
  /\ Reply(r, ServerError)
  /\ UNCHANGED <<expired, futureVars, entries, actorVars, serverVars>>

PutFails(r) ==
  /\ task[r] = "registered"
  /\ entries' = entries \ {r}
  /\ Reply(r, ServerError)
  /\ UNCHANGED <<expired, futureVars, actorVars, serverVars>>

\* Whoever finishes a future that is chained schedules the copying of its state.
Finish(r, v) ==
  /\ future' = [future EXCEPT ![r] = v]
  /\ calls' = IF wrapped[r] = <<>> THEN calls
              ELSE [calls EXCEPT ![r] = @ \cup {"set_state"}]

\* wrap_future and wait_for: a future that is finished already is copied as well.
Wait(r) ==
  /\ task[r] = "put"
  /\ Goto(r, "waiting")
  /\ wrapped' = [wrapped EXCEPT ![r] = Pending]
  /\ calls' = IF Done(future[r]) THEN [calls EXCEPT ![r] = {"set_state"}] ELSE calls
  /\ UNCHANGED <<expired, reply, future, entries, actorVars, serverVars>>

\* The timeout cancels the task, and with it the future it waits for unless that is
\* finished; its callback precedes the task in the loop's queue.
Expire(r) ==
  /\ task[r] = "waiting" /\ r \notin expired
  /\ expired' = expired \cup {r}
  /\ IF Done(wrapped[r]) THEN UNCHANGED <<wrapped, calls>>
     ELSE /\ wrapped' = [wrapped EXCEPT ![r] = Cancelled]
          /\ calls' = [calls EXCEPT ![r] = @ \cup {"check_cancel"}]
  /\ UNCHANGED <<task, reply, future, entries, actorVars, serverVars>>

\* asyncio copies the finished future to the one the task waits for.
SetState(r) ==
  /\ "set_state" \in calls[r]
  /\ wrapped' = [wrapped EXCEPT ![r] = IF @ = Cancelled THEN @ ELSE future[r]]
  /\ calls' = [calls EXCEPT ![r] = @ \ {"set_state"}]
  /\ UNCHANGED <<future, taskVars, entries, actorVars, serverVars>>

\* asyncio cancels the future the actor knows when the task's was cancelled.
CheckCancel(r) ==
  /\ "check_cancel" \in calls[r]
  /\ calls' = [calls EXCEPT ![r] = (@ \ {"check_cancel"})
                 \cup (IF Done(future[r]) THEN {} ELSE {"set_state"})]
  /\ future' = [future EXCEPT ![r] = IF Done(@) THEN @ ELSE Cancelled]
  /\ UNCHANGED <<wrapped, taskVars, entries, actorVars, serverVars>>

\* The task takes its future out of the store, if it is still there; nobody else holds
\* it then.
Abandon(r) ==
  /\ future' = [future EXCEPT ![r] = IF r \in entries /\ ~Done(@) THEN Cancelled ELSE @]
  /\ entries' = entries \ {r}

Awake(r) == task[r] = "waiting" /\ Done(wrapped[r]) /\ "check_cancel" \notin calls[r]

Answered(r) ==
  /\ Awake(r) /\ r \notin expired /\ wrapped[r] # Cancelled
  /\ Reply(r, wrapped[r])
  /\ UNCHANGED <<expired, futureVars, entries, actorVars, serverVars>>

TimedOut(r) ==
  /\ Awake(r) /\ r \in expired
  /\ Abandon(r)
  /\ Reply(r, GatewayTimeout)
  /\ UNCHANGED <<expired, wrapped, calls, actorVars, serverVars>>

\* Mutant: cancellation is reported as a timeout.
AbortedAsTimeout(r) ==
  /\ Awake(r) /\ r \notin expired /\ wrapped[r] = Cancelled
  /\ Abandon(r)
  /\ Reply(r, GatewayTimeout)
  /\ UNCHANGED <<expired, wrapped, calls, actorVars, serverVars>>

Aborted(r) ==
  /\ Awake(r) /\ r \notin expired /\ wrapped[r] = Cancelled
  /\ Abandon(r)
  /\ Reply(r, ServiceUnavailable)
  /\ UNCHANGED <<expired, wrapped, calls, actorVars, serverVars>>

----------------------------------------------------------------------------
(* The graph and the actor thread *)

\* on_start returns when it sees that the server has started.
StartUp ==
  /\ actor = Starting /\ server = "running"
  /\ actor' = Idle
  /\ UNCHANGED <<inbox, outputs, missed, taskVars, futureVars, entries, serverVars>>

\* The server thread has ended, or a second has passed in which it was not seen to start:
\* on_start raises, which ends the actor.  Requests may have come in the meantime.
StartUpFails ==
  /\ actor = Starting
  /\ actor' = Ended
  /\ should_exit' = TRUE
  /\ UNCHANGED <<server, inbox, outputs, missed, taskVars, futureVars, entries>>

\* An output on the context of a request that was put; a replay may repeat it.
GraphEmits(r) ==
  /\ task[r] \notin {"none", "created", "registered"} /\ reply[r] \notin {Refused, ServerError}
  /\ outputs[r] < MaxOutputs
  /\ outputs' = [outputs EXCEPT ![r] = @ + 1]
  /\ inbox' = Append(inbox, Output(r, outputs'[r]))
  /\ UNCHANGED <<actor, missed, taskVars, futureVars, entries, serverVars>>

RequestStop ==
  /\ \A i \in DOMAIN inbox : inbox[i] # Stop
  /\ actor.pc \notin {"canceling", "ended"}
  /\ inbox' = Append(inbox, Stop)
  /\ UNCHANGED <<actor, outputs, missed, taskVars, futureVars, entries, serverVars>>

\* An output nobody waits for is dropped.
Drop(o) == missed' = IF o.num = 1 /\ o.req \notin expired THEN missed \cup {o.req} ELSE missed

\* resolve takes the future out of the store; without one the output is dropped.
Resolve ==
  /\ actor = Idle /\ inbox # <<>> /\ Head(inbox) # Stop
  /\ inbox' = Tail(inbox)
  /\ LET o == Head(inbox) IN
     \/ /\ o.req \in entries
        /\ entries' = entries \ {o.req}
        /\ actor' = Resolving("popped", o)
        /\ UNCHANGED missed
     \/ /\ o.req \notin entries
        /\ Drop(o)
        /\ UNCHANGED <<actor, entries>>
  /\ UNCHANGED <<outputs, taskVars, futureVars, serverVars>>

\* Mutant: done() the wrong way round.
CheckDoneInverted ==
  /\ actor.pc = "popped"
  /\ \/ /\ Done(future[actor.out.req])
        /\ actor' = Resolving("checked", actor.out) /\ UNCHANGED missed
     \/ /\ ~Done(future[actor.out.req])
        /\ actor' = Idle /\ Drop(actor.out)
  /\ UNCHANGED <<inbox, outputs, taskVars, futureVars, entries, serverVars>>

\* future.done(), outside the lock.
CheckDone ==
  /\ actor.pc = "popped"
  /\ \/ /\ ~Done(future[actor.out.req])
        /\ actor' = Resolving("checked", actor.out) /\ UNCHANGED missed
     \/ /\ Done(future[actor.out.req])
        /\ actor' = Idle /\ Drop(actor.out)
  /\ UNCHANGED <<inbox, outputs, taskVars, futureVars, entries, serverVars>>

\* set_result raises if the future was cancelled since; the actor loop goes on.
SetResult ==
  /\ actor.pc = "checked"
  /\ actor' = Idle
  /\ LET o == actor.out IN
     \/ Done(future[o.req]) /\ Drop(o) /\ UNCHANGED <<future, calls>>
     \/ ~Done(future[o.req]) /\ Finish(o.req, Answer(o.num)) /\ UNCHANGED missed
  /\ UNCHANGED <<wrapped, inbox, outputs, taskVars, entries, serverVars>>

\* Mutant: the stop leaves the pending responses alone and goes on with the server.
CancelNone ==
  /\ actor = Idle /\ inbox # <<>> /\ Head(inbox) = Stop
  /\ inbox' = Tail(inbox)
  /\ actor' = Canceling({})
  /\ UNCHANGED <<entries, outputs, missed, taskVars, futureVars, serverVars>>

\* on_stop: cancel_all clears the store ...
CancelAll ==
  /\ actor = Idle /\ inbox # <<>> /\ Head(inbox) = Stop
  /\ inbox' = Tail(inbox)
  /\ actor' = Canceling(entries)
  /\ entries' = {}
  /\ UNCHANGED <<outputs, missed, taskVars, futureVars, serverVars>>

\* ... and cancels what it held, one by one.
CancelOne ==
  /\ actor.pc = "canceling"
  /\ \E r \in actor.left :
       /\ actor' = Canceling(actor.left \ {r})
       /\ IF Done(future[r]) THEN UNCHANGED <<future, calls>> ELSE Finish(r, Cancelled)
  /\ UNCHANGED <<wrapped, inbox, outputs, missed, taskVars, entries, serverVars>>

\* The server is told to exit; the actor waits for it a second and ends.
StopServer ==
  /\ actor = Canceling({})
  /\ actor' = Ended
  /\ should_exit' = TRUE
  /\ UNCHANGED <<server, inbox, outputs, missed, taskVars, futureVars, entries>>

----------------------------------------------------------------------------
(* The server thread: uvicorn *)

\* A server that cannot bind, or is told to exit while it starts, ends at once.
ServerStarts ==
  /\ server = "starting"
  /\ \/ server' = "running" /\ ~should_exit
     \/ server' = "ended"
  /\ UNCHANGED <<should_exit, taskVars, futureVars, entries, actorVars>>

\* No more requests are accepted.
ServerExits ==
  /\ server = "running" /\ should_exit
  /\ server' = "exiting"
  /\ UNCHANGED <<should_exit, taskVars, futureVars, entries, actorVars>>

\* The thread ends after its tasks.
ServerEnds ==
  /\ server = "exiting"
  /\ \A r \in Requests : task[r] \in {"none", "done"}
  /\ server' = "ended"
  /\ UNCHANGED <<should_exit, taskVars, futureVars, entries, actorVars>>

----------------------------------------------------------------------------
TaskStep(r) ==
  \/ Register(r) \/ Put(r) \/ PutFails(r) \/ Wait(r)
  \/ Answered(r) \/ TimedOut(r) \/ Aborted(r)
LoopStep(r) == SetState(r) \/ CheckCancel(r)
ActorStep == StartUp \/ StartUpFails \/ Resolve \/ CheckDone \/ SetResult \/ CancelAll \/ CancelOne \/ StopServer
ServerStep == ServerStarts \/ ServerExits \/ ServerEnds

Next ==
  \/ \E r \in Requests : \/ Refuse(r) \/ Accept(r) \/ TaskStep(r) \/ LoopStep(r) \/ Expire(r)
                         \/ GraphEmits(r)
  \/ RequestStop \/ ActorStep \/ ServerStep

\* The two threads run; nobody has to answer, to ask, to stop or to time out.
Fairness ==
  /\ \A r \in Requests : WF_vars(TaskStep(r)) /\ WF_vars(LoopStep(r))
  /\ WF_vars(ActorStep) /\ WF_vars(ServerStep)

Spec == Init /\ [][Next]_vars
FairSpec == Spec /\ Fairness

----------------------------------------------------------------------------
(* Properties *)

\* The store holds a future only while its request waits for it: no timeout, failed
\* put, answer, stop or failed start leaves one behind, also when it comes between
\* registration and wait.
EntriesAreOpen ==
  \A r \in entries : task[r] \in {"registered", "put", "waiting"} /\ future[r] \in {Pending, Cancelled}

\* A response is what happened to its request: the first output for it, 504 only after
\* its timeout, 503 only when the actor stops, and 500 or a refusal only if it never reached the graph.
RepliesAreExplained ==
  \A r \in Requests :
    /\ \A k \in 1..MaxOutputs : reply[r] = Answer(k) => k = 1
    /\ reply[r] = GatewayTimeout => r \in expired
    /\ reply[r] = ServiceUnavailable => Stopping
    /\ reply[r] \in {Refused, ServerError} => outputs[r] = 0

\* The first output for a request that the actor handles is its response unless the
\* request timed out: it is registered before its output can arrive, and neither the stop
\* of the actor nor a late copying of a future gets in between.  An output that comes
\* behind the stop in the inbox is not handled.
FirstOutputCounts ==
  \A r \in Requests :
    /\ r \notin missed
    /\ reply[r] # NoReply /\ future[r] = Answer(1) => reply[r] = Answer(1) \/ r \in expired

Replied(r) == reply[r] # NoReply
Queued(e) == \E i \in DOMAIN inbox : inbox[i] = e

\* A registered request whose output, or the stop of the actor, is on its way to an actor
\* that has started and runs is answered without its timeout; and with the timeout every accepted
\* request is, also one that came too late for cancel_all.
EveryRequestReplied ==
  \A r \in Requests :
    /\ (r \in entries /\ Serving /\ (Queued(Stop) \/ Queued(Output(r, 1)))) ~> Replied(r)
    /\ (task[r] = "waiting" ~> r \in expired \/ Replied(r))
         => (task[r] # "none" ~> Replied(r))
============================================================================
