------------------------------ MODULE TaskGraph ------------------------------
(***************************************************************************)
(* The DSL that declares a task graph, and the builder that turns it into  *)
(* a runtime.  A Flow collects connections: then() connects its exits to   *)
(* targets and absorbs the flows among them; build() merges the flows that *)
(* were added into the piping of a runtime.  All of it runs on one thread, *)
(* but a call is a series of Pipes.connect, any of which may raise, and    *)
(* what was merged before one raises stays merged.                         *)
(*                                                                         *)
(* Calls that raise before they change anything are left out.              *)
(***************************************************************************)
EXTENDS Pipes, FiniteSets, Naturals

CONSTANTS Flows,          \* flow objects of the program
          Subnet,         \* the subnet flow of a NexusValidator
          Piping,         \* the graph of the runtime that is being built
          Nobody,         \* no graph: no call is running
          Nodes,
          SinksOf, SourcesOf,  \* Node -> its endpoints
          DefaultSource,  \* Node -> the default among several sources, or NoSource
          NoSource,
          Buildable,      \* the nodes that are ActorBuilders
          BuilderNodes,   \* bound: the nodes a SubnetBuilder may be made with
          Given,          \* bound: the nodes and endpoints a flow is made of
          MaxTaps,        \* bound: taps of one call
          MaxCalls        \* bound: calls of then()

Graphs == Flows \cup {Subnet, Piping}

ASSUME GraphAssumption ==
  /\ SinksOf \in [Nodes -> SUBSET Sinks] /\ SourcesOf \in [Nodes -> SUBSET Sources]
  /\ \A n \in Nodes : IsFiniteSet(SinksOf[n]) /\ IsFiniteSet(SourcesOf[n])
  /\ \A n \in Nodes : DefaultSource[n] \in SourcesOf[n] \cup {NoSource}
  /\ NoSource \notin Sources
  /\ Nodes \cap (Sinks \cup Sources) = {} /\ Sinks \cap Sources = {}
  /\ Given \subseteq Nodes \cup Sinks \cup Sources /\ Given \cap Flows = {}
  /\ Buildable \subseteq Nodes /\ BuilderNodes \subseteq SUBSET Nodes
  /\ Piping \notin Flows \cup {Subnet} /\ Subnet \notin Flows /\ Nobody \notin Graphs
  /\ MaxTaps \in Nat /\ MaxCalls \in Nat

VARIABLES
  pipes,    \* the Pipes of each flow, and of the piping
  shape,    \* entry_sinks and exit_sources of each flow, as far as then() reads them
  call,     \* the call that is running
  builder,  \* the SubnetBuilder
  calls     \* calls of then() so far

graphVars == <<pipes, shape, call, builder, calls>>

\* The default entry sink, the exit sources and the default one among them.
Shapes == [entry : Sinks \cup {NoSink}, exits : SUBSET Sources, default : Sources \cup {NoSource}]
NotCreated == [entry |-> NoSink, exits |-> {}, default |-> NoSource]

\* The graph a call changes, the declarations it has still to merge (those of a lower
\* rank first), whether it raises after them, and the shape it leaves its flow.
NoCall == [on |-> Nobody, todo |-> {}, raises |-> FALSE, leaves |-> NotCreated]
Items(p) == {[source |-> s, targets |-> p[s]] : s \in {t \in Sources : p[t] # NoTargets}}
Ranked(rank, wires) == {[rank |-> rank, wire |-> w] : w \in wires}
Todos == [rank : Nat, wire : Wires]

Created == {f \in Flows : shape[f] # NotCreated}

TypeOK ==
  /\ pipes \in [Graphs -> [Sources -> Targets]]
  /\ shape \in [Flows -> Shapes]
  /\ call \in [on : Graphs \cup {Nobody}, todo : SUBSET Todos, raises : BOOLEAN, leaves : Shapes]
  /\ builder \in [flows : SUBSET Flows, nodes : SUBSET Nodes, built : BOOLEAN]
  /\ calls \in Nat

NewBuilder(N) == [flows |-> {}, nodes |-> N, built |-> FALSE]

Init ==
  /\ pipes = [g \in Graphs |-> EmptyPipes]
  /\ shape = [f \in Flows |-> NotCreated]
  /\ call = NoCall
  /\ \E N \in BuilderNodes : builder = NewBuilder(N)
  /\ calls = 0

----------------------------------------------------------------------------
(* Flow *)

\* The only endpoint is the default one.
Only(endpoints, default) ==
  IF Cardinality(endpoints) = 1 THEN CHOOSE e \in endpoints : TRUE ELSE default

\* A flow of one node, sink or source.
Connectable(c) ==
  IF c \in Nodes THEN [entry |-> Only(SinksOf[c], NoSink), exits |-> SourcesOf[c],
                       default |-> Only(SourcesOf[c], DefaultSource[c])]
  ELSE IF c \in Sinks THEN [NotCreated EXCEPT !.entry = c]
  ELSE [NotCreated EXCEPT !.exits = {c}, !.default = c]

FlowTargets == Given \cup Created
ShapeOf(t) == IF t \in Flows THEN shape[t] ELSE Connectable(t)
PipesOf(t) == IF t \in Flows THEN pipes[t] ELSE EmptyPipes

\* What connecting a source to a primary (or none) and taps declares, and absorbs.
Primaries == {{}} \cup {{t} : t \in FlowTargets}
Taps == {T \in SUBSET FlowTargets : Cardinality(T) <= MaxTaps}
Enterable(T) == \A t \in T : ShapeOf(t).entry # NoSink
SinksFor(p, T) == [primary |-> IF p = {} THEN NoSink ELSE ShapeOf(CHOOSE t \in p : TRUE).entry,
                   taps |-> {ShapeOf(t).entry : t \in T}]
ConnectTargets(rank, s, p, T) ==
  Ranked(rank, {[source |-> s, targets |-> SinksFor(p, T)]})
  \cup Ranked(rank + 1, UNION {Items(PipesOf(t)) : t \in p})
  \cup Ranked(rank + 2, UNION {Items(PipesOf(t)) : t \in T})

\* Only a primary continues the flow.
Continuation(f, p) ==
  [shape[f] EXCEPT !.exits = UNION {ShapeOf(t).exits : t \in p},
     !.default = IF p = {} THEN NoSource ELSE ShapeOf(CHOOSE t \in p : TRUE).default]

Begin(g, todo, raises, leaves) ==
  call' = [on |-> g, todo |-> todo, raises |-> raises, leaves |-> leaves]

Called == call = NoCall /\ calls < MaxCalls /\ calls' = calls + 1

FromConnectable(f, c) ==
  /\ call = NoCall
  /\ f \notin Created
  /\ shape' = [shape EXCEPT ![f] = Connectable(c)]
  /\ UNCHANGED <<pipes, call, builder, calls>>

\* then(primary, taps=[...]) on the default exit.
Then(f, p, T) ==
  /\ Called
  /\ f \in Created /\ shape[f].default # NoSource
  /\ p \cup T # {} /\ Enterable(p \cup T)
  /\ Begin(f, ConnectTargets(0, shape[f].default, p, T), FALSE, Continuation(f, p))
  /\ UNCHANGED <<pipes, shape, builder>>

\* then(name=Targets(...), ...): the routes in the order they are written, up to one
\* that names no exit, or has no targets or one that cannot be entered.  Bound: one or
\* two routes, of one target each.
Routes == [source : Sources, primary : Primaries, taps : {{}}]
            \cup [source : Sources, primary : {{}}, taps : Primaries]
Routable(f, r) ==
  r.source \in shape[f].exits /\ r.primary \cup r.taps # {} /\ Enterable(r.primary \cup r.taps)
ThenRoutes(f, r, q) ==
  /\ Called
  /\ f \in Created
  /\ Routable(f, r)
  /\ LET first == ConnectTargets(0, r.source, r.primary, r.taps)
         second == ConnectTargets(3, q.source, q.primary, q.taps)
         leaves == [shape[f] EXCEPT !.exits = {}, !.default = NoSource]
     IN \/ Begin(f, first, FALSE, leaves)
        \/ /\ r.source # q.source
           /\ IF Routable(f, q) THEN Begin(f, first \cup second, FALSE, leaves)
                                ELSE Begin(f, first, TRUE, leaves)
  /\ UNCHANGED <<pipes, shape, builder>>

----------------------------------------------------------------------------
(* Pipes.connect, called in a row *)

Pending(i) == i \in call.todo /\ \A j \in call.todo : i.rank <= j.rank

Merge(i) ==
  LET s == i.wire.source IN
  /\ Pending(i)
  /\ ~Refuses(pipes[call.on][s], i.wire.targets)
  /\ pipes' = [pipes EXCEPT ![call.on][s] = Merged(@, i.wire.targets)]
  /\ call' = [call EXCEPT !.todo = @ \ {i}]
  /\ UNCHANGED <<shape, builder, calls>>

\* The exception leaves the call; its flow keeps its exits.
Raise(i) ==
  /\ Pending(i)
  /\ Refuses(pipes[call.on][i.wire.source], i.wire.targets)
  /\ call' = NoCall
  /\ UNCHANGED <<pipes, shape, builder, calls>>

Return ==
  /\ call.on \in Flows /\ call.todo = {}
  /\ shape' = IF call.raises THEN shape ELSE [shape EXCEPT ![call.on] = call.leaves]
  /\ call' = NoCall
  /\ UNCHANGED <<pipes, builder, calls>>

----------------------------------------------------------------------------
(* SubnetBuilder *)

AddFlows(F) ==
  /\ call = NoCall
  /\ ~builder.built
  /\ builder' = [builder EXCEPT !.flows = @ \cup F]
  /\ UNCHANGED <<pipes, shape, call, calls>>

\* A fresh Piping takes the flows in; the order in which they were added is left out.
Build ==
  /\ call = NoCall
  /\ ~builder.built /\ builder.flows # {}
  /\ Begin(Piping, Ranked(0, UNION {Items(pipes[f]) : f \in builder.flows}), FALSE, NotCreated)
  /\ pipes' = [pipes EXCEPT ![Piping] = EmptyPipes]
  /\ UNCHANGED <<shape, builder, calls>>

\* With a node that is no ActorBuilder the build raises, and may be tried again.
Built ==
  /\ call.on = Piping /\ call.todo = {}
  /\ builder' = [builder EXCEPT !.built = builder.nodes \subseteq Buildable]
  /\ call' = NoCall
  /\ UNCHANGED <<pipes, shape, calls>>
=============================================================================
