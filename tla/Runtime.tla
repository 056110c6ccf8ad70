------------------------------- MODULE Runtime -------------------------------
(***************************************************************************)
(* The actor runtime: actors, each with a thread and an inbox, exchange    *)
(* messages through one event bus whose thread appends every message to    *)
(* its context's log and passes it on.  The primary target of a source     *)
(* continues on the message's context; each tap gets a fresh child         *)
(* context.  The model is generic in the graph; a handler may answer with  *)
(* any output the graph lists for its sink.                                *)
(*                                                                         *)
(* Contexts and messages are numbered in the order of their creation and   *)
(* of their logging; a payload is the number of the message that carried   *)
(* it, and user data the number of the message whose handler last wrote    *)
(* it.  What is persisted is ctxs; every other part of the state is lost   *)
(* in a crash.  Recovery passes the last message of every context          *)
(* downstream again, as pass_message_downstream documents.                 *)
(***************************************************************************)
EXTENDS Naturals, FiniteSets, Sequences

CONSTANTS Sources, Sinks, Actors,
          Primary,      \* Source -> its primary sink, or NoSink
          Taps,         \* Source -> the sinks that tap it
          Owner,        \* Sink -> the actor whose handler serves it
          Outputs,      \* Sink -> what its handler may return: sequences of
                        \*   [source, on], on the "same" context or on a "child"
          Deferred,     \* Sink -> sources a side thread of the actor may emit
                        \*   from later, on the context of the handled message
          Producers,    \* sources of producer actors
          MaxProduced,  \* bound: messages produced
          MaxCrashes,   \* bound: crashes
          NoSink, StopSource, StopSink

\* One event a handler returns: the source it leaves by, and the context it is on.
Pieces == [source : Sources, on : {"same", "child"}]

\* What a finished graph guarantees: a source has at most one primary, which does
\* not also tap it.
Pipes ==
  /\ Primary \in [Sources -> Sinks \cup {NoSink}]
  /\ Taps \in [Sources -> SUBSET Sinks]
  /\ \A s \in Sources : Primary[s] \notin Taps[s]

ASSUME GraphAssumption ==
  /\ Pipes /\ IsFiniteSet(Sinks)
  /\ Owner \in [Sinks -> Actors]
  /\ Deferred \in [Sinks -> SUBSET Sources]
  /\ \A k \in Sinks : Outputs[k] \subseteq Seq(Pieces)
  /\ Producers \subseteq Sources
  /\ MaxProduced \in Nat /\ MaxCrashes \in Nat
  /\ NoSink \notin Sinks /\ StopSink \notin Sinks /\ StopSource \notin Sources

VARIABLES
  ctxs,      \* the contexts: [payload, data, sent], sent once a message is logged
  messages,  \* the sources of the messages logged so far
  pipe,      \* pipe_to_bus
  bus,       \* the bus thread: the message it is passing downstream
  inbox,     \* pipe_from_bus of each actor
  actor,     \* each actor thread: [pc, event, out]
  parked,    \* events that side threads will put on the bus
  producer,  \* the context each producer has created and not used yet, or 0
  stopAsked, \* request_stop was called
  replay,    \* contexts whose last message recovery has still to pass on
  produced,  \* messages produced
  crashes,   \* crashes so far
  done       \* history: <<message, sink>> handled, with every output logged

graphVars == <<pipe, bus, inbox, actor, parked, producer, stopAsked, replay>>
vars == <<ctxs, messages, graphVars, produced, crashes, done>>

----------------------------------------------------------------------------
(* Types *)

CtxIds == 1..Len(ctxs)
MsgIds == 1..Len(messages)
Causes == [msg : Nat, sink : Sinks \cup {NoSink}]
NoCause == [msg |-> 0, sink |-> NoSink]

SendEvents == [ctx : CtxIds, source : Sources, cause : Causes, closes : BOOLEAN]
StopBusEvent == [ctx |-> 0, source |-> StopSource, cause |-> NoCause, closes |-> FALSE]

\* data is the user data the context had when the message was emitted (history).
ReceiveEvents == [target : Sinks, ctx : CtxIds, msg : MsgIds, data : Nat]
StopActorEvent == [target |-> StopSink, ctx |-> 0, msg |-> 0, data |-> 0]

Idle == [pc |-> "idle", event |-> StopActorEvent, out |-> <<>>]
BusIdle == [up |-> TRUE, ctx |-> 0, msg |-> 0, data |-> 0, todo |-> {}, out |-> <<>>]

TypeOK ==
  /\ ctxs \in Seq([payload : 0..Len(messages), data : 0..Len(messages), sent : BOOLEAN])
  /\ messages \in Seq(Sources)
  /\ pipe \in Seq(SendEvents \cup {StopBusEvent})
  /\ bus \in [up : BOOLEAN, ctx : 0..Len(ctxs), msg : 0..Len(messages), data : Nat,
              todo : SUBSET Sinks, out : Seq(ReceiveEvents)]
  /\ inbox \in [Actors -> Seq(ReceiveEvents \cup {StopActorEvent})]
  /\ actor \in [Actors -> [pc : {"idle", "handling", "emitting", "stopped"},
                           event : ReceiveEvents \cup {StopActorEvent}, out : Seq(SendEvents)]]
  /\ parked \subseteq SendEvents
  /\ producer \in [Producers -> 0..Len(ctxs)]
  /\ stopAsked \in BOOLEAN
  /\ replay \subseteq CtxIds
  /\ produced \in 0..MaxProduced /\ crashes \in 0..MaxCrashes
  /\ done \subseteq Causes

----------------------------------------------------------------------------
Init ==
  /\ ctxs = <<>> /\ messages = <<>>
  /\ pipe = <<>>
  /\ bus = BusIdle
  /\ inbox = [a \in Actors |-> <<>>]
  /\ actor = [a \in Actors |-> Idle]
  /\ parked = {}
  /\ producer = [s \in Producers |-> 0]
  /\ stopAsked = FALSE
  /\ replay = {}
  /\ produced = 0 /\ crashes = 0
  /\ done = {}

\* A new context, or a child of context p, which inherits its payload and data.
Root == [payload |-> 0, data |-> 0, sent |-> FALSE]
ChildOf(p) == [p EXCEPT !.sent = FALSE]

\* Nobody is inside a handler for context c: its lock can be taken.
CtxFree(c) == \A a \in Actors : ~(actor[a].pc = "handling" /\ actor[a].event.ctx = c)

\* The processes run once recovery has rebuilt the contexts and replayed.
Running == replay = {}

----------------------------------------------------------------------------
(* The bus thread *)

BusFree == bus.up /\ bus.todo = {} /\ bus.out = <<>>

\* pass_message_downstream starts: the taps to create children for, and the
\* deliveries to make once they all exist.
PassDownstream(c, s, m) ==
  bus' = [up |-> TRUE, ctx |-> c, msg |-> m, data |-> ctxs[c].data, todo |-> Taps[s],
          out |-> IF Primary[s] = NoSink THEN <<>>
                  ELSE <<[target |-> Primary[s], ctx |-> c, msg |-> m, data |-> ctxs[c].data]>>]

\* Take a message, append it to its context (its lock is needed) and look up its
\* targets.
BusAppends ==
  /\ Running /\ BusFree
  /\ pipe # <<>> /\ Head(pipe) # StopBusEvent
  /\ LET e == Head(pipe)
         m == Len(messages) + 1
     IN /\ CtxFree(e.ctx)
        /\ ctxs' = [ctxs EXCEPT ![e.ctx].payload = m, ![e.ctx].sent = TRUE]
        /\ messages' = Append(messages, e.source)
        /\ PassDownstream(e.ctx, e.source, m)
        /\ done' = IF e.closes THEN done \cup {e.cause} ELSE done
  /\ pipe' = Tail(pipe)
  /\ UNCHANGED <<inbox, actor, parked, producer, stopAsked, replay, produced, crashes>>

\* Create the child context of one tap, in any order of the taps.
BusForks(k) ==
  /\ k \in bus.todo
  /\ CtxFree(bus.ctx)
  /\ ctxs' = Append(ctxs, ChildOf(ctxs[bus.ctx]))
  /\ bus' = [bus EXCEPT !.todo = @ \ {k},
       !.out = Append(@, [target |-> k, ctx |-> Len(ctxs'), msg |-> bus.msg, data |-> bus.data])]
  /\ UNCHANGED <<messages, pipe, inbox, actor, parked, producer, stopAsked, replay, produced,
                 crashes, done>>

\* Mutant: the primary is dispatched before the children exist.
BusPassesEarly ==
  /\ bus.out # <<>>
  /\ LET e == Head(bus.out) IN inbox' = [inbox EXCEPT ![Owner[e.target]] = Append(@, e)]
  /\ bus' = [bus EXCEPT !.out = Tail(@)]
  /\ UNCHANGED <<ctxs, messages, pipe, actor, parked, producer, stopAsked, replay, produced,
                 crashes, done>>

\* All children exist: put the next delivery in its actor's inbox.
BusPasses ==
  /\ bus.todo = {} /\ bus.out # <<>>
  /\ LET e == Head(bus.out) IN inbox' = [inbox EXCEPT ![Owner[e.target]] = Append(@, e)]
  /\ bus' = [bus EXCEPT !.out = Tail(@)]
  /\ UNCHANGED <<ctxs, messages, pipe, actor, parked, producer, stopAsked, replay, produced,
                 crashes, done>>

\* Mutant: the stop events overtake what the inboxes hold.
BusStopsAtOnce ==
  /\ Running /\ BusFree
  /\ pipe # <<>> /\ Head(pipe) = StopBusEvent
  /\ pipe' = Tail(pipe)
  /\ bus' = [bus EXCEPT !.up = FALSE]
  /\ inbox' = [a \in Actors |-> [i \in 1..Cardinality({k \in Sinks : Owner[k] = a}) |-> StopActorEvent] \o inbox[a]]
  /\ UNCHANGED <<ctxs, messages, actor, parked, producer, stopAsked, replay, produced, crashes, done>>

\* Mutant: only sinks that are somebody's primary hear of the stop.
BusStopsPrimaries ==
  /\ Running /\ BusFree
  /\ pipe # <<>> /\ Head(pipe) = StopBusEvent
  /\ pipe' = Tail(pipe)
  /\ bus' = [bus EXCEPT !.up = FALSE]
  /\ inbox' = [a \in Actors |-> inbox[a] \o
       [i \in 1..Cardinality({k \in Sinks : Owner[k] = a /\ \E s \in Sources : Primary[s] = k}) |-> StopActorEvent]]
  /\ UNCHANGED <<ctxs, messages, actor, parked, producer, stopAsked, replay, produced, crashes, done>>

\* StopBusEvent: one StopActorEvent per sink, so an actor may get several.
BusStops ==
  /\ Running /\ BusFree
  /\ pipe # <<>> /\ Head(pipe) = StopBusEvent
  /\ pipe' = Tail(pipe)
  /\ bus' = [bus EXCEPT !.up = FALSE]
  /\ inbox' = [a \in Actors |->
       inbox[a] \o [i \in 1..Cardinality({k \in Sinks : Owner[k] = a}) |-> StopActorEvent]]
  /\ UNCHANGED <<ctxs, messages, actor, parked, producer, stopAsked, replay, produced, crashes, done>>

----------------------------------------------------------------------------
(* An actor thread *)

\* Take an event and the lock of its context, and enter its handler.
StartHandling(a) ==
  /\ Running
  /\ actor[a].pc = "idle"
  /\ inbox[a] # <<>> /\ Head(inbox[a]) # StopActorEvent
  /\ CtxFree(Head(inbox[a]).ctx)
  /\ actor' = [actor EXCEPT ![a] = [Idle EXCEPT !.pc = "handling", !.event = Head(inbox[a])]]
  /\ inbox' = [inbox EXCEPT ![a] = Tail(@)]
  /\ UNCHANGED <<ctxs, messages, pipe, bus, parked, producer, stopAsked, replay, produced, crashes,
                 done>>

\* The context after its handler wrote user data, or not.
Written(c, m, writes) == IF writes THEN [ctxs EXCEPT ![c].data = m] ELSE ctxs

Children(o, n) == {i \in 1..n : o[i].on = "child"}

\* Mutant: the events leave in the opposite order.
SendEventsOfReversed(o, e) ==
  [j \in 1..Len(o) |-> LET i == Len(o) + 1 - j IN
     [ctx |-> IF o[i].on = "same" THEN e.ctx ELSE Len(ctxs) + Cardinality(Children(o, i)),
      source |-> o[i].source, cause |-> [msg |-> e.msg, sink |-> e.target], closes |-> j = Len(o)]]

\* The events a handler of e returns for output o; its children follow the
\* existing contexts.
SendEventsOf(o, e) ==
  [i \in 1..Len(o) |->
     [ctx |-> IF o[i].on = "same" THEN e.ctx ELSE Len(ctxs) + Cardinality(Children(o, i)),
      source |-> o[i].source, cause |-> [msg |-> e.msg, sink |-> e.target], closes |-> i = Len(o)]]

\* The handler returns output o and releases the context; an exception in it is
\* logged and returns nothing.
HandlerReturns(a, o, writes) ==
  LET e == actor[a].event
      written == Written(e.ctx, e.msg, writes)
  IN /\ actor[a].pc = "handling"
     /\ o \in Outputs[e.target] \cup {<<>>}
     /\ ctxs' = written \o [i \in 1..Cardinality(Children(o, Len(o))) |-> ChildOf(written[e.ctx])]
     /\ actor' = [actor EXCEPT ![a] = IF o = <<>> THEN Idle
          ELSE [Idle EXCEPT !.pc = "emitting", !.out = SendEventsOf(o, e)]]
     /\ done' = IF o = <<>> THEN done \cup {[msg |-> e.msg, sink |-> e.target]} ELSE done
     /\ UNCHANGED <<messages, pipe, bus, inbox, parked, producer, stopAsked, replay, produced, crashes>>

\* The handler returns nothing, and leaves a side thread (a communicator's thread
\* or a retry timer) to emit from source s on the context later.
HandlerDefers(a, s, writes) ==
  LET e == actor[a].event
  IN /\ actor[a].pc = "handling"
     /\ s \in Deferred[e.target]
     /\ ctxs' = Written(e.ctx, e.msg, writes)
     /\ actor' = [actor EXCEPT ![a] = Idle]
     /\ parked' = parked \cup {[ctx |-> e.ctx, source |-> s, closes |-> TRUE,
                                cause |-> [msg |-> e.msg, sink |-> e.target]]}
     /\ UNCHANGED <<messages, pipe, bus, inbox, producer, stopAsked, replay, produced, crashes, done>>

\* The side thread takes the context's lock for a moment, in which a retry timer
\* also counts the attempt in the user data, and puts its event.
SideThreadEmits(e, writes) ==
  /\ e \in parked
  /\ CtxFree(e.ctx)
  /\ parked' = parked \ {e}
  /\ ctxs' = Written(e.ctx, e.cause.msg, writes)
  /\ pipe' = Append(pipe, e)
  /\ UNCHANGED <<messages, bus, inbox, actor, producer, stopAsked, replay, produced, crashes,
                 done>>

\* Put the next returned event on the bus.
ActorEmits(a) ==
  /\ actor[a].pc = "emitting"
  /\ pipe' = Append(pipe, Head(actor[a].out))
  /\ actor' = [actor EXCEPT ![a] = IF Len(actor[a].out) = 1 THEN Idle
                                   ELSE [actor[a] EXCEPT !.out = Tail(@)]]
  /\ UNCHANGED <<ctxs, messages, bus, inbox, parked, producer, stopAsked, replay, produced, crashes,
                 done>>

ActorStops(a) ==
  /\ Running
  /\ actor[a].pc = "idle"
  /\ inbox[a] # <<>> /\ Head(inbox[a]) = StopActorEvent
  /\ inbox' = [inbox EXCEPT ![a] = Tail(@)]
  /\ actor' = [actor EXCEPT ![a].pc = "stopped"]
  /\ UNCHANGED <<ctxs, messages, pipe, bus, parked, producer, stopAsked, replay, produced, crashes,
                 done>>

----------------------------------------------------------------------------
(* Producer threads, and the runtime *)

\* A producer creates the context of its next product ...
ProducerCreates(s) ==
  /\ Running
  /\ producer[s] = 0 /\ produced < MaxProduced
  /\ ctxs' = Append(ctxs, Root)
  /\ producer' = [producer EXCEPT ![s] = Len(ctxs')]
  /\ produced' = produced + 1
  /\ UNCHANGED <<messages, pipe, bus, inbox, actor, parked, stopAsked, replay, crashes, done>>

\* ... and puts the product on the bus.
ProducerPuts(s) ==
  /\ producer[s] # 0
  /\ pipe' = Append(pipe, [ctx |-> producer[s], source |-> s, cause |-> NoCause, closes |-> FALSE])
  /\ producer' = [producer EXCEPT ![s] = 0]
  /\ UNCHANGED <<ctxs, messages, bus, inbox, actor, parked, stopAsked, replay, produced, crashes, done>>

RequestStop ==
  /\ Running /\ ~stopAsked
  /\ stopAsked' = TRUE
  /\ pipe' = Append(pipe, StopBusEvent)
  /\ UNCHANGED <<ctxs, messages, bus, inbox, actor, parked, producer, replay, produced, crashes, done>>

\* Mutant: the queue to the bus survives, so its events come back with the replay.
CrashKeepsPipe ==
  /\ crashes < MaxCrashes
  /\ crashes' = crashes + 1
  /\ bus' = BusIdle
  /\ inbox' = [a \in Actors |-> <<>>]
  /\ actor' = [a \in Actors |-> Idle]
  /\ parked' = {}
  /\ producer' = [s \in Producers |-> 0]
  /\ stopAsked' = FALSE
  /\ replay' = {c \in CtxIds : ctxs[c].sent}
  /\ UNCHANGED <<ctxs, messages, pipe, produced, done>>

\* The process dies: what is not in the contexts' log is gone.  A new process
\* recovers the contexts and knows the last message of each that has one.
Crash ==
  /\ crashes < MaxCrashes
  /\ crashes' = crashes + 1
  /\ pipe' = <<>>
  /\ bus' = BusIdle
  /\ inbox' = [a \in Actors |-> <<>>]
  /\ actor' = [a \in Actors |-> Idle]
  /\ parked' = {}
  /\ producer' = [s \in Producers |-> 0]
  /\ stopAsked' = FALSE
  /\ replay' = {c \in CtxIds : ctxs[c].sent}
  /\ UNCHANGED <<ctxs, messages, produced, done>>

\* Recovery passes the last message of context c downstream again.
Replay(c) ==
  /\ c \in replay
  /\ BusFree
  /\ replay' = replay \ {c}
  /\ PassDownstream(c, messages[ctxs[c].payload], ctxs[c].payload)
  /\ UNCHANGED <<ctxs, messages, pipe, inbox, actor, parked, producer, stopAsked, produced, crashes,
                 done>>

----------------------------------------------------------------------------
BusStep == \/ BusAppends \/ BusPasses \/ BusStops
           \/ \E k \in bus.todo : BusForks(k)
           \/ \E c \in replay : Replay(c)

HandlerEnds(a) == \E writes \in BOOLEAN :
  \/ \E o \in Outputs[actor[a].event.target] \cup {<<>>} : HandlerReturns(a, o, writes)
  \/ \E s \in Deferred[actor[a].event.target] : HandlerDefers(a, s, writes)

ActorStep(a) == \/ StartHandling(a) \/ ActorEmits(a) \/ ActorStops(a)
                \/ actor[a].pc = "handling" /\ HandlerEnds(a)

Next ==
  \/ BusStep
  \/ \E a \in Actors : ActorStep(a)
  \/ \E e \in parked, writes \in BOOLEAN : SideThreadEmits(e, writes)
  \/ \E s \in Producers : ProducerCreates(s) \/ ProducerPuts(s)
  \/ RequestStop
  \/ Crash

\* Threads run and handlers return; a side thread emits in the end (for the
\* communicator, AsyncHttpCommunicator!EventuallyAnswered).  Nothing obliges a
\* producer to produce, the owner to stop the runtime, or the process to crash.
Fairness ==
  /\ WF_vars(BusStep)
  /\ \A a \in Actors : WF_vars(ActorStep(a))
  /\ WF_vars(\E e \in parked, writes \in BOOLEAN : SideThreadEmits(e, writes))

Spec == Init /\ [][Next]_vars
FairSpec == Spec /\ Fairness

----------------------------------------------------------------------------
(* Properties *)

\* The places that hold context c: an event that will continue on it, or a thread
\* that processes it.
At(q, c) == {i \in DOMAIN q : q[i].ctx = c}
Claims(c) ==
  {<<"pipe", i>> : i \in At(pipe, c)} \cup {<<"bus", i>> : i \in At(bus.out, c)}
  \cup (UNION {{<<a, "inbox", i>> : i \in At(inbox[a], c)} : a \in Actors})
  \cup (UNION {{<<a, "out", i>> : i \in At(actor[a].out, c)} : a \in Actors})
  \cup {<<a, "handling">> : a \in {b \in Actors : actor[b].pc = "handling" /\ actor[b].event.ctx = c}}
  \cup {<<"parked", e>> : e \in {d \in parked : d.ctx = c}}
  \cup {<<"producer", s>> : s \in {p \in Producers : producer[p] = c}}
  \cup {<<"replay", d>> : d \in replay \cap {c}}

\* A context is in one place at a time, so no two threads ever process it at once,
\* whatever is tapped, deferred, replayed or produced meanwhile (the ownership rule
\* of context_store.py:296-302).
SingleOwner == \A c \in CtxIds : Cardinality(Claims(c)) <= 1

\* The events delivered and not handled to the end.
Deliveries ==
  {bus.out[i] : i \in DOMAIN bus.out}
  \cup (UNION {{inbox[a][i] : i \in DOMAIN inbox[a]} : a \in Actors})
  \cup {actor[a].event : a \in {b \in Actors : actor[b].pc = "handling"}}

\* From the emission of a message to the end of its handler, nothing changes the
\* state its target sees: the payload of the delivery's context is that message and
\* its user data is what it was when the message was emitted, for the primary and
\* for every tap (docs/nexus.md:102-106).
DeliveredStateIsEmissionState ==
  \A e \in Deliveries \ {StopActorEvent} :
    ctxs[e.ctx].payload = e.msg /\ ctxs[e.ctx].data = e.data

\* A graceful stop drops nothing that was delivered: what an actor leaves unread
\* when it stops is stop events (event_bus.py:74-79, actor.py:61-65).
StopDrainsInboxes ==
  \A a \in Actors : actor[a].pc = "stopped" =>
    \A i \in DOMAIN inbox[a] : inbox[a][i] = StopActorEvent

\* No crash loses the linear flow: a message that was logged is handled by its
\* primary, and every output of that handler is logged, unless the runtime is asked
\* to stop.  Handlers emit on their own context last, so a crash among the outputs
\* runs the handler again (event_bus.py:88-92, task_result_dispatcher.py:120-131).
MaxTracked == 4
Logged(m) == m \in MsgIds
Completed(m, k) == [msg |-> m, sink |-> k] \in done
PrimaryWorkSurvives ==
  \A m \in 1..MaxTracked : Logged(m) ~>
    \/ stopAsked
    \/ Logged(m) /\ (Primary[messages[m]] = NoSink \/ Completed(m, Primary[messages[m]]))

\* The events on their way to the bus.
Emissions ==
  {pipe[i] : i \in DOMAIN pipe} \cup parked
  \cup (UNION {{actor[a].out[i] : i \in DOMAIN actor[a].out} :
                a \in {b \in Actors : actor[b].pc = "emitting"}})

\* Why it survives, at every moment: as long as the primary of a logged message has
\* not completed, the message is the last one of some context, so that a crash replays
\* it, and the work goes on without one: recovery has still to replay it, it is
\* delivered, or the last output of its handler is on its way to the bus.
Carries(c, m, k) ==
  /\ ctxs[c].sent /\ ctxs[c].payload = m
  /\ \/ c \in replay
     \/ \E e \in Deliveries : e.target = k /\ e.ctx = c /\ e.msg = m
     \/ \E e \in Emissions : e.closes /\ e.cause = [msg |-> m, sink |-> k]
PrimaryWorkIsKept ==
  \A m \in MsgIds :
    LET k == Primary[messages[m]]
    IN k = NoSink \/ Completed(m, k) \/ \E c \in CtxIds : Carries(c, m, k)

\* The same for taps: what the documentation promises of every restart
\* (docs/nexus.md:226).
TapWorkSurvives ==
  \A m \in 1..MaxTracked : Logged(m) ~>
    \/ stopAsked
    \/ Logged(m) /\ \A k \in Taps[messages[m]] : Completed(m, k)

\* A requested stop ends the bus and every actor, those that are nobody's target
\* included, unless the process crashes first (event_bus.py:74-79,
\* subnet_runtime.py:48-72).
StopEndsThreads ==
  stopAsked ~> \/ ~stopAsked
               \/ ~bus.up /\ \A a \in Actors : actor[a].pc = "stopped"
=============================================================================
