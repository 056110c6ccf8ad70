-------------------------- MODULE ValidatorProcess --------------------------
(***************************************************************************)
(* A program that declares task graphs and runs them: flows and a          *)
(* SubnetBuilder used by hand, or a NexusValidator.  Its connect()         *)
(* declares connections on the subnet flow and discovers the nodes and     *)
(* tasks that own their endpoints; start_runtime() taps the clock for      *)
(* every task, builds the graph and runs it until its body ends, then      *)
(* stops it and waits a bounded time for its threads.  It may be started   *)
(* again.  How a runtime works is module Runtime; here it is its threads.  *)
(***************************************************************************)
EXTENDS TaskGraph

CONSTANTS Clock,          \* the source of the subnet clock
          Tasks,
          TaskNodes,      \* Task -> its internal nodes
          TaskPipes,      \* Task -> the connections of its internal flow
          OwnerNode,      \* endpoint -> its owner_node, or NoOwner
          OwnerTask,      \* endpoint -> its owner_task, or NoOwner
          NoOwner,
          BlockBeat,      \* Task -> its block beat sink
          Bus,            \* the bus thread
          Wiring,         \* bound: the declarations a validator may make
          MaxStarts       \* bound: starts of a runtime

ASSUME ValidatorAssumption ==
  /\ Clock \in Sources /\ Bus \notin Nodes /\ MaxStarts \in Nat
  /\ TaskNodes \in [Tasks -> SUBSET Nodes]
  /\ TaskPipes \in [Tasks -> [Sources -> Targets]]
  /\ OwnerNode \in [Sources \cup Sinks -> Nodes \cup {NoOwner}]
  /\ OwnerTask \in [Sources \cup Sinks -> Tasks \cup {NoOwner}]
  /\ NoOwner \notin Nodes \cup Tasks
  /\ BlockBeat \in [Tasks -> Sinks]
  /\ Wiring \subseteq Wires

\* The flow of a task connects the sinks of its own nodes.
ASSUME TaskAssumption ==
  \A t \in Tasks : \A s \in Sources :
    /\ TaskPipes[t][s].taps \subseteq UNION {SinksOf[n] : n \in TaskNodes[t]}
    /\ TaskPipes[t][s].primary \in {NoSink} \cup UNION {SinksOf[n] : n \in TaskNodes[t]}

VARIABLES
  nodes,    \* _connected_nodes
  tasks,    \* _connected_tasks
  phase,    \* where start_runtime is
  served,   \* connected_tasks of the last start: those that were there when it began
  actors,   \* the nodes whose actors the runtime has
  threads,  \* those of its threads that are alive
  outcome,  \* how the last start_runtime ended
  starts,   \* starts so far
  byHand    \* whether the program declares flows itself, or makes a NexusValidator

validatorVars == <<nodes, tasks>>
runtimeVars == <<phase, served, actors, threads, outcome, starts, byHand>>
vars == <<graphVars, validatorVars, runtimeVars>>

\* An endpoint names its owners itself.  Its owner_node need not be a node that lists it
\* (a DoubleTransform lists the endpoints its inner Transforms own), and a node may list
\* an endpoint that names no owner (a SinkNode does).
Owners(e) == {n \in Nodes : OwnerNode[e] = n}
OwnerTasks(e) == {t \in Tasks : OwnerTask[e] = t}

ProcessTypeOK ==
  /\ TypeOK
  /\ nodes \subseteq Nodes /\ tasks \subseteq Tasks /\ served \subseteq Tasks
  /\ phase \in {"none", "tapping", "tapped", "building", "running", "stopping", "joining"}
  /\ actors \subseteq Nodes /\ threads \subseteq actors \cup {Bus}
  /\ outcome \in {"none", "refused", "stopped", "timed out"}
  /\ starts \in 0..MaxStarts /\ byHand \in BOOLEAN

ProcessInit ==
  /\ Init
  /\ nodes = {} /\ tasks = {}
  /\ phase = "none" /\ served = {} /\ actors = {} /\ threads = {} /\ outcome = "none" /\ starts = 0
  /\ byHand \in BOOLEAN

----------------------------------------------------------------------------
(* NexusValidator.connect *)

\* Called by the thread that starts the runtime: before, between and in the bodies of
\* start_runtime.  A graph that runs does not change for it.
Connect(w) ==
  /\ phase \in {"none", "running"} /\ call = NoCall
  /\ Begin(Subnet, Ranked(0, {w}), FALSE, NotCreated)
  /\ UNCHANGED <<pipes, shape, builder, calls, validatorVars, runtimeVars>>

EndpointsOf(w) == {w.source} \cup ({w.targets.primary} \ {NoSink}) \cup w.targets.taps

\* Mutant: the owners of taps are not registered.
MergeAndRegisterPrimary(i) ==
  /\ call.on = Subnet /\ Merge(i)
  /\ LET es == {i.wire.source} \cup ({i.wire.targets.primary} \ {NoSink}) IN
       /\ nodes' = nodes \cup UNION {Owners(e) : e \in es}
       /\ tasks' = tasks \cup UNION {OwnerTasks(e) : e \in es}
  /\ UNCHANGED runtimeVars

\* What was connected is registered.
MergeAndRegister(i) ==
  /\ call.on = Subnet /\ Merge(i)
  /\ nodes' = nodes \cup UNION {Owners(e) : e \in EndpointsOf(i.wire)}
  /\ tasks' = tasks \cup UNION {OwnerTasks(e) : e \in EndpointsOf(i.wire)}
  /\ UNCHANGED runtimeVars

\* A refused connection also ends a start that needs it; a body may go on or end.
RaiseFromConnect(i) ==
  /\ call.on = Subnet /\ Raise(i)
  /\ IF phase = "tapping" THEN phase' = "none" /\ outcome' = "refused"
                          ELSE UNCHANGED <<phase, outcome>>
  /\ UNCHANGED <<validatorVars, served, actors, threads, starts, byHand>>

Connected ==
  /\ call.on = Subnet /\ call.todo = {}
  /\ call' = NoCall
  /\ phase' = IF phase = "tapping" THEN "tapped" ELSE phase
  /\ UNCHANGED <<pipes, shape, builder, calls, validatorVars, served, actors, threads, outcome, starts, byHand>>

----------------------------------------------------------------------------
(* NexusValidator.start_runtime *)

Start ==
  /\ phase = "none" /\ call = NoCall /\ starts < MaxStarts
  /\ starts' = starts + 1
  /\ phase' = "tapping" /\ served' = tasks
  /\ call' = [on |-> Subnet, raises |-> FALSE, leaves |-> NotCreated,
              todo |-> Ranked(0, {[source |-> Clock,
                                   targets |-> [primary |-> NoSink, taps |-> {BlockBeat[t]}]] : t \in tasks})]
  /\ UNCHANGED <<pipes, shape, builder, calls, validatorVars, actors, threads, outcome, byHand>>

\* A builder of its own: its nodes, the subnet flow and the flows of the tasks.
BuildRuntime ==
  /\ phase = "tapped"
  /\ phase' = "building"
  /\ builder' = NewBuilder(nodes \cup UNION {TaskNodes[t] : t \in served})
  /\ pipes' = [pipes EXCEPT ![Piping] = EmptyPipes]
  /\ call' = [on |-> Piping, raises |-> FALSE, leaves |-> NotCreated,
              todo |-> Ranked(0, Items(pipes[Subnet]) \cup UNION {Items(TaskPipes[t]) : t \in served})]
  /\ UNCHANGED <<shape, calls, validatorVars, served, actors, threads, outcome, starts, byHand>>

RaiseFromBuild(i) ==
  /\ call.on = Piping /\ Raise(i)
  /\ phase' = "none"
  /\ outcome' = IF phase = "building" THEN "refused" ELSE outcome
  /\ UNCHANGED <<validatorVars, served, actors, threads, starts, byHand>>

\* run_loop: one thread per actor, and the bus.
RunLoop ==
  /\ phase = "building" /\ Built
  /\ \/ /\ builder'.built
        /\ phase' = "running"
        /\ actors' = builder.nodes /\ threads' = builder.nodes \cup {Bus}
        /\ UNCHANGED outcome
     \/ /\ ~builder'.built
        /\ phase' = "none" /\ outcome' = "refused"
        /\ UNCHANGED <<actors, threads>>
  /\ UNCHANGED <<validatorVars, served, starts, byHand>>

\* The bus knows the sinks the actors handle.
Served == UNION {SinksOf[n] : n \in actors}
TargetsOf(s) == ({pipes[Piping][s].primary} \ {NoSink}) \cup pipes[Piping][s].taps

\* A message for a sink that no actor handles is an exception in the bus thread.
BusDies ==
  /\ phase = "running" /\ Bus \in threads
  /\ \E n \in actors : \E s \in SourcesOf[n] : ~(TargetsOf(s) \subseteq Served)
  /\ threads' = threads \ {Bus}
  /\ UNCHANGED <<graphVars, validatorVars, served, phase, actors, outcome, starts, byHand>>

\* on_start raises.
ActorDies(n) ==
  /\ phase = "running" /\ n \in threads \ {Bus}
  /\ threads' = threads \ {n}
  /\ UNCHANGED <<graphVars, validatorVars, served, phase, actors, outcome, starts, byHand>>

\* The body ends or raises; either way the bus is asked to stop.
RequestStop ==
  /\ phase = "running" /\ call = NoCall
  /\ phase' = "stopping"
  /\ UNCHANGED <<graphVars, validatorVars, served, actors, threads, outcome, starts, byHand>>

\* The bus tells the actors and ends.
BusStops ==
  /\ phase = "stopping" /\ Bus \in threads
  /\ phase' = "joining"
  /\ threads' = threads \ {Bus}
  /\ UNCHANGED <<graphVars, validatorVars, served, actors, outcome, starts, byHand>>

\* Only an actor that handles some sink is told.
ActorStops(n) ==
  /\ phase = "joining" /\ n \in threads /\ SinksOf[n] # {}
  /\ threads' = threads \ {n}
  /\ UNCHANGED <<graphVars, validatorVars, served, phase, actors, outcome, starts, byHand>>

\* wait_for_stop joins every thread, or gives up on those that are left.
WaitForStop ==
  /\ phase \in {"stopping", "joining"}
  /\ phase' = "none"
  /\ outcome' = IF threads = {} THEN "stopped" ELSE "timed out"
  /\ actors' = {} /\ threads' = {}
  /\ UNCHANGED <<graphVars, validatorVars, served, starts, byHand>>

----------------------------------------------------------------------------
FlowStep ==
  /\ byHand
  /\ \/ \E f \in Flows :
          \/ \E c \in Given : FromConnectable(f, c)
          \/ call = NoCall /\ \E p \in Primaries, T \in Taps : Then(f, p, T)
          \/ call = NoCall /\ \E r, q \in Routes : ThenRoutes(f, r, q)
     \/ \E i \in call.todo : call.on \in Flows \cup {Piping} /\ (Merge(i) \/ Raise(i))
     \/ Return
     \/ \E f \in Created : AddFlows({f})
     \/ Build \/ Built
  /\ UNCHANGED <<validatorVars, runtimeVars>>

ConnectStep ==
  /\ ~byHand
  /\ \/ \E w \in Wiring : Connect(w)
     \/ \E i \in call.todo : MergeAndRegister(i) \/ RaiseFromConnect(i)
     \/ Connected

BuildStep ==
  /\ ~byHand
  /\ \/ Start \/ BuildRuntime
     \/ \E i \in call.todo : \/ call.on = Piping /\ Merge(i) /\ UNCHANGED <<validatorVars, runtimeVars>>
                             \/ RaiseFromBuild(i)
     \/ RunLoop

ThreadStep == BusDies \/ BusStops \/ \E n \in Nodes : ActorDies(n) \/ ActorStops(n)

Next == FlowStep \/ ConnectStep \/ BuildStep \/ ThreadStep \/ RequestStop \/ WaitForStop

Spec == ProcessInit /\ [][Next]_vars

----------------------------------------------------------------------------
(* Properties *)

\* Whatever calls are made, refused, repeated or absorbed in each other, every graph is
\* the union of what its calls declared, with one primary per source and one role per
\* target; a call is refused only for a declaration that does not fit (nodes.py:316-384,
\* flow.py:124-167, piping.py:24-28).
C == INSTANCE Connections WITH
       NoGraph <- Nobody,
       Possible <- [source : Sources, sink : Sinks, role : {"primary", "tap"}],
       graph <- [g \in Graphs |-> ConnectionsOf(pipes[g])],
       on <- call.on,
       pending <- UNION {Connections(i.wire.source, i.wire.targets) : i \in call.todo}
GraphsAreUnions == C!Spec

\* A validator that runs serves what it had connected when it was started, however often
\* it was started, whatever was connected since and whichever endpoints led to an owner.
\* A sink whose owner_node handles it has its actor; so has the owner_node of a source that
\* connect() wired; every task has its nodes, a clock and its block beat.  The bus dies of
\* nothing but a sink without handler that no owner_node vouches for: one that names none,
\* or names a node that does not handle it (nexus_validator.py:84-129, event_bus.py:118).
Claimed(k) == \E n \in Owners(k) : k \in SinksOf[n]
InTaskFlow(s) == \E t \in served : TaskPipes[t][s] # NoTargets
Up == phase \in {"running", "stopping", "joining"}
RunningGraphIsServed ==
  Up =>
    /\ \A s \in Sources : \A k \in TargetsOf(s) : Claimed(k) => k \in Served
    /\ \A s \in Sources : TargetsOf(s) # {} /\ ~InTaskFlow(s) => Owners(s) \subseteq actors
    /\ \A t \in served : /\ TaskNodes[t] \cup Owners(Clock) \subseteq actors
                         /\ BlockBeat[t] \in pipes[Piping][Clock].taps
    /\ phase = "running" /\ Bus \notin threads =>
         \E s \in Sources : \E k \in TargetsOf(s) \ Served : ~Claimed(k)
=============================================================================
