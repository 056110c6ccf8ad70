--------------------------- MODULE TaskGraphProofs ---------------------------
(***************************************************************************)
(* Proofs about ValidatorProcess and TaskGraph, for any nodes, endpoints,  *)
(* flows and tasks and any number of calls: the type invariant, that every *)
(* graph is declared the way Connections promises, and that what runs      *)
(* serves what was connected when it was started.                          *)
(***************************************************************************)
EXTENDS ValidatorProcess, FiniteSetTheorems, TLAPS

\* What the refinement needs beyond types: merged targets have one role each, a
\* declaration of a call that makes several is never empty, and a program that makes
\* its flows by hand starts no validator, so that nothing runs between the taps of the
\* clock and the build.
GraphInv ==
  /\ \A g \in Graphs, s \in Sources : ~RolesOverlap(pipes[g][s])
  /\ \A i \in call.todo : i.wire.targets # NoTargets \/ call.todo = {i}
  /\ byHand => phase = "none"
  /\ phase = "tapped" => call = NoCall

IInv == ProcessTypeOK /\ GraphInv

----------------------------------------------------------------------------
(* Targets and their connections *)

\* The connections of targets are possible ones.
LEMMA ConnectionsArePossible ==
  ASSUME NEW s \in Sources, NEW t \in Targets
  PROVE  Connections(s, t) \subseteq [source : Sources, sink : Sinks, role : {"primary", "tap"}]
BY DEF Connections, Targets

\* Merging keeps the type.
LEMMA MergedType ==
  ASSUME NEW e \in Targets, NEW t \in Targets
  PROVE  Merged(e, t) \in Targets
BY DEF Merged, Targets

\* Targets whose primaries agree merge to the union of their connections.
LEMMA ConnectionsMerge ==
  ASSUME NEW s \in Sources, NEW e \in Targets, NEW t \in Targets, ~PrimariesClash(e, t)
  PROVE  Connections(s, Merged(e, t)) = Connections(s, e) \cup Connections(s, t)
<1> DEFINE m == Merged(e, t)
<1>1. {m.primary} \ {NoSink} = ({e.primary} \ {NoSink}) \cup ({t.primary} \ {NoSink})
  BY DEF Merged, PrimariesClash, Targets
<1>2. m.taps = e.taps \cup t.taps
  BY DEF Merged
<1> QED
  BY <1>1, <1>2 DEF Connections

\* Targets with one role each are well-formed connections.
LEMMA PipesAreWellFormed ==
  ASSUME NEW p \in [Sources -> Targets], \A s \in Sources : ~RolesOverlap(p[s])
  PROVE  C!WellFormed(ConnectionsOf(p))
<1> SUFFICES ASSUME NEW c \in ConnectionsOf(p), NEW d \in ConnectionsOf(p), c.source = d.source
             PROVE  /\ c.role = "primary" /\ d.role = "primary" => c.sink = d.sink
                    /\ c.sink = d.sink => c.role = d.role
  BY DEF C!WellFormed
<1>1. PICK s \in Sources : c \in Connections(s, p[s])
  BY DEF ConnectionsOf
<1>2. PICK t \in Sources : d \in Connections(t, p[t])
  BY DEF ConnectionsOf
<1>3. c.source = s /\ d.source = s /\ t = s
  BY <1>1, <1>2 DEF Connections
<1>4. \/ c.role = "primary" /\ c.sink = p[s].primary
      \/ c.role = "tap" /\ c.sink \in p[s].taps
  BY <1>1 DEF Connections
<1>5. \/ d.role = "primary" /\ d.sink = p[s].primary
      \/ d.role = "tap" /\ d.sink \in p[s].taps
  BY <1>2, <1>3 DEF Connections
<1>6. p[s].primary \notin p[s].taps
  BY DEF RolesOverlap
<1> QED
  BY <1>4, <1>5, <1>6

\* Adding a declaration that fits adds its connections.
LEMMA MergeAddsConnections ==
  ASSUME NEW p \in [Sources -> Targets], NEW s \in Sources, NEW t \in Targets,
         ~PrimariesClash(p[s], t)
  PROVE  ConnectionsOf([p EXCEPT ![s] = Merged(@, t)]) = ConnectionsOf(p) \cup Connections(s, t)
<1> DEFINE q == [p EXCEPT ![s] = Merged(@, t)]
<1>1. q[s] = Merged(p[s], t) /\ \A r \in Sources \ {s} : q[r] = p[r]
  OBVIOUS
<1>2. Connections(s, q[s]) = Connections(s, p[s]) \cup Connections(s, t)
  BY <1>1, ConnectionsMerge
<1>3. \A r \in Sources \ {s} : Connections(r, q[r]) = Connections(r, p[r])
  BY <1>1
<1> HIDE DEF q
<1>4. \A c : c \in ConnectionsOf(q) <=> c \in ConnectionsOf(p) \cup Connections(s, t)
  BY <1>2, <1>3 DEF ConnectionsOf
<1> QED
  BY <1>4 DEF q

\* A declaration is refused only if it cannot be added to the graph.
LEMMA RefusedDoesNotFit ==
  ASSUME NEW p \in [Sources -> Targets], NEW s \in Sources, NEW t \in Targets,
         Refuses(p[s], t), t # NoTargets,
         NEW g, ConnectionsOf(p) \cup Connections(s, t) \subseteq g
  PROVE  ~C!WellFormed(g)
<1> DEFINE link(k, r) == [source |-> s, sink |-> k, role |-> r]
<1>1. Connections(s, p[s]) \subseteq g /\ Connections(s, t) \subseteq g
  BY DEF ConnectionsOf
<1>2. p[s] \in Targets
  OBVIOUS
<1>3. CASE PrimariesClash(p[s], t)
  <2>1. link(p[s].primary, "primary") \in g /\ link(t.primary, "primary") \in g
    BY <1>1, <1>3 DEF PrimariesClash, Connections
  <2> QED
    BY <2>1, <1>3 DEF PrimariesClash, C!WellFormed
<1>4. CASE ~PrimariesClash(p[s], t)
  <2> DEFINE m == Merged(p[s], t)
  <2>1. m.primary \in m.taps /\ m \in Targets
    BY <1>4, <1>2, MergedType DEF Refuses, RolesOverlap
  <2>2. m.primary # NoSink
    BY <2>1, SinkAssumption DEF Targets
  <2>3. Connections(s, m) \subseteq g
    BY <1>1, <1>2, <1>4, ConnectionsMerge
  <2> HIDE DEF m
  <2>4. link(m.primary, "primary") \in g /\ link(m.primary, "tap") \in g
    BY <2>1, <2>2, <2>3 DEF Connections
  <2> QED
    BY <2>4 DEF C!WellFormed
<1> QED
  BY <1>3, <1>4

----------------------------------------------------------------------------
(* What then() reads of its targets *)

\* The only endpoint, or the default one.
LEMMA OnlyIsMember ==
  ASSUME NEW S, IsFiniteSet(S), NEW d
  PROVE  Only(S, d) \in S \cup {d}
<1>1. CASE S = {}
  BY <1>1, FS_EmptySet DEF Only
<1>2. CASE S # {}
  BY <1>2 DEF Only
<1> QED
  BY <1>1, <1>2

\* Every target has a shape.
LEMMA ShapeOfTarget ==
  ASSUME TypeOK, NEW t \in FlowTargets
  PROVE  ShapeOf(t) \in Shapes
<1>1. CASE t \in Flows
  BY <1>1 DEF TypeOK, ShapeOf
<1>2. CASE t \notin Flows
  <2>1. t \in Given /\ ShapeOf(t) = Connectable(t)
    BY <1>2 DEF FlowTargets, Created, ShapeOf
  <2>2. CASE t \in Nodes
    <3>1. /\ SinksOf[t] \subseteq Sinks /\ IsFiniteSet(SinksOf[t])
          /\ SourcesOf[t] \subseteq Sources /\ IsFiniteSet(SourcesOf[t])
          /\ DefaultSource[t] \in Sources \cup {NoSource}
      BY <2>2, GraphAssumption
    <3> DEFINE e == Only(SinksOf[t], NoSink)
               d == Only(SourcesOf[t], DefaultSource[t])
    <3>2. e \in Sinks \cup {NoSink} /\ d \in Sources \cup {NoSource}
      BY <3>1, OnlyIsMember
    <3>3. ShapeOf(t) = [entry |-> e, exits |-> SourcesOf[t], default |-> d]
      BY <2>1, <2>2 DEF Connectable
    <3> HIDE DEF e, d
    <3> QED
      BY <3>1, <3>2, <3>3 DEF Shapes
  <2>3. CASE t \in Sinks
    BY <2>1, <2>3, GraphAssumption DEF Connectable, NotCreated, Shapes
  <2>4. CASE t \in Sources
    <3>1. t \notin Nodes /\ t \notin Sinks
      BY <2>4, GraphAssumption
    <3>2. ShapeOf(t) = [entry |-> NoSink, exits |-> {t}, default |-> t]
      BY <2>1, <3>1 DEF Connectable, NotCreated
    <3> QED
      BY <2>4, <3>2 DEF Shapes
  <2> QED
    BY <2>1, <2>2, <2>3, <2>4, GraphAssumption
<1> QED
  BY <1>1, <1>2

\* Items of a call that declares something.
Declared == {i \in Todos : i.wire.targets # NoTargets}

\* The connections a graph declares.
LEMMA ItemsAreDeclared ==
  ASSUME NEW p \in [Sources -> Targets], NEW rank \in Nat
  PROVE  Items(p) \subseteq Wires /\ Ranked(rank, Items(p)) \subseteq Declared
BY DEF Items, Wires, Ranked, Declared, Todos

\* What connecting a source declares.
LEMMA ConnectTargetsDeclares ==
  ASSUME TypeOK, NEW rank \in Nat, NEW s \in Sources,
         NEW p \in Primaries, NEW T \in SUBSET FlowTargets, p \cup T # {}, Enterable(p \cup T)
  PROVE  ConnectTargets(rank, s, p, T) \subseteq Declared
<1>1. p \subseteq FlowTargets /\ (p # {} => \E t \in FlowTargets : p = {t})
  BY DEF Primaries
<1>2. \A t \in p \cup T : ShapeOf(t).entry \in Sinks
  BY <1>1, ShapeOfTarget DEF Enterable, Shapes
<1>3. SinksFor(p, T) \in Targets /\ SinksFor(p, T) # NoTargets
  <2>1. CASE p = {}
    <3>1. {ShapeOf(t).entry : t \in T} \subseteq Sinks /\ {ShapeOf(t).entry : t \in T} # {}
      BY <1>2, <2>1
    <3> QED
      BY <2>1, <3>1 DEF SinksFor, Targets, NoTargets
  <2>2. CASE p # {}
    <3>1. (CHOOSE t \in p : TRUE) \in p
      BY <2>2
    <3>2. ShapeOf(CHOOSE t \in p : TRUE).entry \in Sinks /\ {ShapeOf(t).entry : t \in T} \subseteq Sinks
      BY <1>2, <3>1
    <3> QED
      BY <2>2, <3>2, SinkAssumption DEF SinksFor, Targets, NoTargets
  <2> QED
    BY <2>1, <2>2
<1>4. Ranked(rank, {[source |-> s, targets |-> SinksFor(p, T)]}) \subseteq Declared
  BY <1>3 DEF Ranked, Declared, Todos, Wires
<1>5. ASSUME NEW r \in Nat, NEW U \in SUBSET FlowTargets
      PROVE  Ranked(r, UNION {Items(PipesOf(t)) : t \in U}) \subseteq Declared
  <2>1. \A t \in U : PipesOf(t) \in [Sources -> Targets]
    BY DEF PipesOf, EmptyPipes, NoTargets, Targets, TypeOK, Graphs
  <2>2. \A t \in U : Items(PipesOf(t)) \subseteq Wires
                     /\ \A w \in Items(PipesOf(t)) : w.targets # NoTargets
    BY <2>1 DEF Items, Wires
  <2> QED
    BY <2>2 DEF Ranked, Declared, Todos
<1>6. rank + 1 \in Nat /\ rank + 2 \in Nat
  OBVIOUS
<1> QED
  BY <1>1, <1>4, <1>5, <1>6 DEF ConnectTargets

\* The shape a call leaves its flow.
LEMMA ContinuationIsShape ==
  ASSUME TypeOK, NEW f \in Flows, NEW p \in Primaries
  PROVE  Continuation(f, p) \in Shapes
<1>1. shape[f] \in Shapes
  BY DEF TypeOK
<1>2. CASE p = {}
  BY <1>1, <1>2 DEF Continuation, Shapes
<1>3. CASE p # {}
  <2>1. PICK t \in FlowTargets : p = {t}
    BY <1>3 DEF Primaries
  <2>2. ShapeOf(t) \in Shapes
    BY <2>1, ShapeOfTarget
  <2>3. (CHOOSE u \in p : TRUE) = t /\ UNION {ShapeOf(u).exits : u \in p} = ShapeOf(t).exits
    BY <2>1
  <2> QED
    BY <1>1, <1>3, <2>2, <2>3 DEF Continuation, Shapes
<1> QED
  BY <1>2, <1>3

----------------------------------------------------------------------------
(* What a step does to the graphs and the running call *)

CallTypes == [on : Graphs, todo : SUBSET Todos, raises : BOOLEAN, leaves : Shapes]

CallBegins ==
  /\ call.on = Nobody
  /\ call' \in CallTypes
  /\ call'.todo \subseteq Declared \/ \E i \in Todos : call'.todo = {i}
  /\ pipes' = pipes \/ pipes' = [pipes EXCEPT ![call'.on] = EmptyPipes]
CallMerges ==
  /\ call.on \in Graphs
  /\ \E i \in call.todo :
       /\ ~Refuses(pipes[call.on][i.wire.source], i.wire.targets)
       /\ pipes' = [pipes EXCEPT ![call.on][i.wire.source] = Merged(@, i.wire.targets)]
       /\ call' = [call EXCEPT !.todo = @ \ {i}]
CallRaises ==
  /\ call.on \in Graphs
  /\ \E i \in call.todo : Refuses(pipes[call.on][i.wire.source], i.wire.targets)
  /\ call' = NoCall /\ UNCHANGED pipes
CallEnds == call.on \in Graphs /\ call.todo = {} /\ call' = NoCall /\ UNCHANGED pipes
CallStays == UNCHANGED <<pipes, call>>
CallStep == CallBegins \/ CallMerges \/ CallRaises \/ CallEnds \/ CallStays

\* No call is a call on no graph.
LEMMA NobodyCalls == NoCall.on = Nobody /\ NoCall.todo = {}
BY DEF NoCall

\* A call of declarations begins.
LEMMA BeginsDeclared ==
  ASSUME call = NoCall, NEW g \in Graphs, NEW todo \in SUBSET Declared, NEW raises \in BOOLEAN,
         NEW leaves \in Shapes,
         call' = [on |-> g, todo |-> todo, raises |-> raises, leaves |-> leaves],
         pipes' = pipes \/ pipes' = [pipes EXCEPT ![g] = EmptyPipes]
  PROVE  CallStep
<1>1. call' \in CallTypes
  BY DEF CallTypes, Declared
<1> QED
  BY <1>1, NobodyCalls DEF CallStep, CallBegins

\* The shape of nothing is a shape.
LEMMA NotCreatedIsShape == NotCreated \in Shapes
BY DEF NotCreated, Shapes

\* then() begins a call of declarations.
LEMMA ThenBegins ==
  ASSUME TypeOK, NEW f \in Flows, NEW p \in Primaries, NEW T \in Taps, Then(f, p, T)
  PROVE  CallStep
<1>1. shape[f].default \in Sources /\ T \in SUBSET FlowTargets
  BY DEF Then, TypeOK, Shapes, Taps
<1>2. ConnectTargets(0, shape[f].default, p, T) \subseteq Declared
  BY <1>1, ConnectTargetsDeclares DEF Then
<1>3. Continuation(f, p) \in Shapes
  BY ContinuationIsShape
<1> QED
  BY <1>2, <1>3, BeginsDeclared DEF Then, Called, Begin, Graphs

\* And so does then() with routes.
LEMMA ThenRoutesBegins ==
  ASSUME TypeOK, NEW f \in Flows, NEW r \in Routes, NEW q \in Routes, ThenRoutes(f, r, q)
  PROVE  CallStep
<1>1. ASSUME NEW x \in Routes, Routable(f, x), NEW rank \in Nat
      PROVE  ConnectTargets(rank, x.source, x.primary, x.taps) \subseteq Declared
  <2>1. x.source \in Sources /\ x.primary \in Primaries /\ x.taps \in SUBSET FlowTargets
    BY DEF Routes, Primaries
  <2> QED
    BY <1>1, <2>1, ConnectTargetsDeclares DEF Routable
<1> DEFINE first == ConnectTargets(0, r.source, r.primary, r.taps)
           second == ConnectTargets(3, q.source, q.primary, q.taps)
           leaves == [shape[f] EXCEPT !.exits = {}, !.default = NoSource]
<1>2. first \subseteq Declared
  BY <1>1 DEF ThenRoutes
<1>3. leaves \in Shapes
  BY DEF TypeOK, Shapes
<1>4. CASE Routable(f, q) /\ Begin(f, first \cup second, FALSE, leaves)
  <2>1. first \cup second \subseteq Declared
    BY <1>1, <1>2, <1>4
  <2> HIDE DEF first, second, leaves
  <2> QED
    BY <1>3, <1>4, <2>1, BeginsDeclared DEF ThenRoutes, Called, Begin, Graphs
<1>5. CASE Begin(f, first, FALSE, leaves) \/ Begin(f, first, TRUE, leaves)
  <2> HIDE DEF first, second, leaves
  <2> QED
    BY <1>2, <1>3, <1>5, BeginsDeclared DEF ThenRoutes, Called, Begin, Graphs
<1> QED
  BY <1>4, <1>5 DEF ThenRoutes

\* Several graphs declare what each of them does.
LEMMA UnionIsDeclared ==
  ASSUME NEW P, P \subseteq [Sources -> Targets]
  PROVE  Ranked(0, UNION {Items(p) : p \in P}) \subseteq Declared
BY ItemsAreDeclared DEF Ranked, Declared, Todos

\* Both builds begin a call of declarations.
LEMMA BuildsBegin ==
  ASSUME IInv, Build \/ BuildRuntime
  PROVE  CallStep
<1>1. \A g \in Graphs : pipes[g] \in [Sources -> Targets]
  BY DEF IInv, ProcessTypeOK, TypeOK
<1>2. call = NoCall /\ Piping \in Graphs
  BY DEF IInv, GraphInv, Build, BuildRuntime, Graphs
<1>3. CASE Build
  <2> DEFINE P == {pipes[f] : f \in builder.flows}
  <2>1. P \subseteq [Sources -> Targets]
    BY <1>1 DEF IInv, ProcessTypeOK, TypeOK, Graphs
  <2>2. UNION {Items(pipes[f]) : f \in builder.flows} = UNION {Items(p) : p \in P}
    OBVIOUS
  <2>3. Ranked(0, UNION {Items(pipes[f]) : f \in builder.flows}) \subseteq Declared
    BY <2>1, <2>2, UnionIsDeclared
  <2> QED
    BY <1>2, <1>3, <2>3, NotCreatedIsShape, BeginsDeclared DEF Build, Begin
<1>4. CASE BuildRuntime
  <2> DEFINE P == {pipes[Subnet]} \cup {TaskPipes[t] : t \in served}
             all == Items(pipes[Subnet]) \cup UNION {Items(TaskPipes[t]) : t \in served}
  <2>1. P \subseteq [Sources -> Targets]
    <3>1. pipes[Subnet] \in [Sources -> Targets]
      BY <1>1 DEF Graphs
    <3>2. \A t \in served : TaskPipes[t] \in [Sources -> Targets]
      BY ValidatorAssumption DEF IInv, ProcessTypeOK
    <3> QED
      BY <3>1, <3>2
  <2>2. all = UNION {Items(p) : p \in P}
    OBVIOUS
  <2>3. Ranked(0, all) \subseteq Declared
    BY <2>1, <2>2, UnionIsDeclared
  <2>4. call' = [on |-> Piping, todo |-> Ranked(0, all), raises |-> FALSE, leaves |-> NotCreated]
        /\ pipes' = [pipes EXCEPT ![Piping] = EmptyPipes]
    BY <1>4 DEF BuildRuntime
  <2> HIDE DEF all
  <2> QED
    BY <1>2, <2>3, <2>4, NotCreatedIsShape, BeginsDeclared
<1> QED
  BY <1>3, <1>4

\* The taps of the clock are declarations.
LEMMA StartBegins ==
  ASSUME IInv, Start
  PROVE  CallStep
<1> DEFINE tap(t) == [source |-> Clock, targets |-> [primary |-> NoSink, taps |-> {BlockBeat[t]}]]
           todo == Ranked(0, {tap(t) : t \in tasks})
<1>1. \A t \in tasks : tap(t) \in Wires /\ tap(t).targets # NoTargets
  <2>1. Clock \in Sources /\ \A t \in tasks : BlockBeat[t] \in Sinks
    BY ValidatorAssumption DEF IInv, ProcessTypeOK
  <2> QED
    BY <2>1 DEF Wires, Targets, NoTargets
<1>2. todo \subseteq Declared
  BY <1>1 DEF Ranked, Declared, Todos
<1>3. call' = [on |-> Subnet, todo |-> todo, raises |-> FALSE, leaves |-> NotCreated]
      /\ call = NoCall /\ pipes' = pipes
  BY DEF Start
<1> HIDE DEF todo
<1> QED
  BY <1>2, <1>3, NotCreatedIsShape, BeginsDeclared DEF Graphs

\* A declaration of connect() may be empty, but it comes alone.
LEMMA ConnectBegins ==
  ASSUME NEW w \in Wiring, Connect(w)
  PROVE  CallStep
<1> DEFINE i == [rank |-> 0, wire |-> w]
<1>1. i \in Todos /\ Ranked(0, {w}) = {i}
  BY ValidatorAssumption DEF Todos, Ranked
<1>2. call' = [on |-> Subnet, todo |-> {i}, raises |-> FALSE, leaves |-> NotCreated]
  BY <1>1 DEF Connect, Begin
<1> HIDE DEF i
<1>3. call' \in CallTypes
  BY <1>1, <1>2, NotCreatedIsShape DEF CallTypes, Graphs
<1> QED
  BY <1>1, <1>2, <1>3, NobodyCalls DEF Connect, CallStep, CallBegins

\* Every step of the program is a step of a call, or leaves graphs and call alone.
LEMMA StepIsCallStep ==
  ASSUME IInv, [Next]_vars
  PROVE  CallStep
<1> USE DEF IInv, ProcessTypeOK
<1>1. CASE FlowStep
  <2>1. ASSUME NEW f \in Flows, NEW c \in Given, FromConnectable(f, c)  PROVE  CallStep
    BY <2>1 DEF FromConnectable, CallStep, CallStays
  <2>2. ASSUME NEW i \in call.todo, call.on \in Flows \cup {Piping}, Merge(i)  PROVE  CallStep
    BY <2>2 DEF Merge, CallStep, CallMerges, Graphs
  <2>3. ASSUME NEW i \in call.todo, call.on \in Flows \cup {Piping}, Raise(i)  PROVE  CallStep
    BY <2>3 DEF Raise, CallStep, CallRaises, Graphs
  <2>4. CASE Return
    BY <2>4 DEF Return, CallStep, CallEnds, Graphs
  <2>5. CASE Built
    BY <2>5 DEF Built, CallStep, CallEnds, Graphs
  <2>6. ASSUME NEW F, AddFlows(F)  PROVE  CallStep
    BY <2>6 DEF AddFlows, CallStep, CallStays
  <2> QED
    BY <1>1, <2>1, <2>2, <2>3, <2>4, <2>5, <2>6, ThenBegins, ThenRoutesBegins, BuildsBegin DEF FlowStep
<1>2. CASE ConnectStep
  <2>1. ASSUME NEW i \in call.todo, MergeAndRegister(i)  PROVE  CallStep
    BY <2>1 DEF MergeAndRegister, Merge, CallStep, CallMerges, Graphs
  <2>2. ASSUME NEW i \in call.todo, RaiseFromConnect(i)  PROVE  CallStep
    BY <2>2 DEF RaiseFromConnect, Raise, CallStep, CallRaises, Graphs
  <2>3. CASE Connected
    BY <2>3 DEF Connected, CallStep, CallEnds, Graphs
  <2> QED
    BY <1>2, <2>1, <2>2, <2>3, ConnectBegins DEF ConnectStep
<1>3. CASE BuildStep
  <2>1. ASSUME NEW i \in call.todo, call.on = Piping, Merge(i)  PROVE  CallStep
    BY <2>1 DEF Merge, CallStep, CallMerges, Graphs
  <2>2. ASSUME NEW i \in call.todo, RaiseFromBuild(i)  PROVE  CallStep
    BY <2>2 DEF RaiseFromBuild, Raise, CallStep, CallRaises, Graphs
  <2>3. CASE RunLoop
    BY <2>3 DEF RunLoop, Built, CallStep, CallEnds, Graphs
  <2> QED
    BY <1>3, <2>1, <2>2, <2>3, StartBegins, BuildsBegin DEF BuildStep
<1>4. CASE ThreadStep \/ RequestStop \/ WaitForStop \/ UNCHANGED vars
  BY <1>4 DEF ThreadStep, BusDies, BusStops, ActorDies, ActorStops, RequestStop, WaitForStop,
              CallStep, CallStays, graphVars, vars
<1> QED
  BY <1>1, <1>2, <1>3, <1>4 DEF Next

----------------------------------------------------------------------------
(* The inductive invariant *)

Calls == [on : Graphs \cup {Nobody}, todo : SUBSET Todos, raises : BOOLEAN, leaves : Shapes]

\* Nothing is connected in an empty graph.
LEMMA EmptyPipesType ==
  EmptyPipes \in [Sources -> Targets] /\ \A s \in Sources : ~RolesOverlap(EmptyPipes[s])
BY DEF EmptyPipes, NoTargets, Targets, RolesOverlap

\* A step of a call keeps graphs and call what they are.
LEMMA CallStepKeepsGraphs ==
  ASSUME IInv, CallStep
  PROVE  /\ pipes' \in [Graphs -> [Sources -> Targets]] /\ call' \in Calls
         /\ \A g \in Graphs, s \in Sources : ~RolesOverlap(pipes'[g][s])
         /\ \A i \in call'.todo : i.wire.targets # NoTargets \/ call'.todo = {i}
<1>1. /\ pipes \in [Graphs -> [Sources -> Targets]] /\ call \in Calls
      /\ \A g \in Graphs, s \in Sources : ~RolesOverlap(pipes[g][s])
      /\ \A i \in call.todo : i.wire.targets # NoTargets \/ call.todo = {i}
  BY DEF IInv, ProcessTypeOK, TypeOK, GraphInv, Calls
<1>2. NoCall \in Calls
  BY NotCreatedIsShape DEF NoCall, Calls
<1>3. CASE CallBegins
  <2>1. call' \in Calls
    BY <1>3 DEF CallBegins, CallTypes, Calls
  <2>2. \A i \in call'.todo : i.wire.targets # NoTargets \/ call'.todo = {i}
    BY <1>3 DEF CallBegins, Declared
  <2>3. call'.on \in Graphs
    BY <1>3 DEF CallBegins, CallTypes
  <2> QED
    BY <1>1, <1>3, <2>1, <2>2, <2>3, EmptyPipesType DEF CallBegins
<1>4. CASE CallMerges
  <2>1. PICK i \in call.todo :
          /\ ~Refuses(pipes[call.on][i.wire.source], i.wire.targets)
          /\ pipes' = [pipes EXCEPT ![call.on][i.wire.source] = Merged(@, i.wire.targets)]
          /\ call' = [call EXCEPT !.todo = @ \ {i}]
    BY <1>4 DEF CallMerges
  <2> DEFINE m == Merged(pipes[call.on][i.wire.source], i.wire.targets)
  <2>2. call.on \in Graphs /\ i.wire.source \in Sources /\ i.wire.targets \in Targets
    BY <1>1, <1>4 DEF CallMerges, Calls, Todos, Wires
  <2>3. m \in Targets /\ ~RolesOverlap(m)
    BY <1>1, <2>1, <2>2, MergedType DEF Refuses
  <2>4. call' \in Calls /\ call'.todo = call.todo \ {i}
    BY <1>1, <2>1 DEF Calls
  <2>5. pipes' = [pipes EXCEPT ![call.on][i.wire.source] = m]
    BY <2>1
  <2> HIDE DEF m
  <2>6. /\ pipes' \in [Graphs -> [Sources -> Targets]]
        /\ \A g \in Graphs, s \in Sources : ~RolesOverlap(pipes'[g][s])
    BY <1>1, <2>2, <2>3, <2>5
  <2> QED
    BY <1>1, <2>4, <2>6
<1>5. CASE CallRaises \/ CallEnds
  BY <1>1, <1>2, <1>5, NobodyCalls DEF CallRaises, CallEnds
<1>6. CASE CallStays
  BY <1>1, <1>6 DEF CallStays
<1> QED
  BY <1>3, <1>4, <1>5, <1>6 DEF CallStep

\* The rest of the types, of flows and builder.
FlowTypes ==
  /\ shape \in [Flows -> Shapes]
  /\ builder \in [flows : SUBSET Flows, nodes : SUBSET Nodes, built : BOOLEAN]
  /\ calls \in Nat

\* ... and of the validator and its runtime.
RuntimeTypes ==
  /\ nodes \subseteq Nodes /\ tasks \subseteq Tasks /\ served \subseteq Tasks
  /\ phase \in {"none", "tapping", "tapped", "building", "running", "stopping", "joining"}
  /\ actors \subseteq Nodes /\ threads \subseteq actors \cup {Bus}
  /\ outcome \in {"none", "refused", "stopped", "timed out"}
  /\ starts \in 0..MaxStarts /\ byHand \in BOOLEAN

\* They are what is left of the type invariant.
LEMMA TypesSplit ==
  ProcessTypeOK <=> /\ pipes \in [Graphs -> [Sources -> Targets]] /\ call \in Calls
                    /\ FlowTypes /\ RuntimeTypes
BY DEF ProcessTypeOK, TypeOK, Calls, FlowTypes, RuntimeTypes

\* Flows and builder keep their types.
LEMMA StepKeepsFlowTypes ==
  ASSUME IInv, [Next]_vars
  PROVE  FlowTypes'
<1> USE DEF FlowTypes
<1>0. FlowTypes /\ RuntimeTypes /\ call \in Calls
  BY TypesSplit DEF IInv
<1>1. CASE FlowStep
  <2>1. ASSUME NEW f \in Flows, NEW c \in Given, FromConnectable(f, c)  PROVE  FlowTypes'
    <3>1. Connectable(c) \in Shapes
      BY ShapeOfTarget, GraphAssumption DEF IInv, ProcessTypeOK, FlowTargets, ShapeOf
    <3> QED
      BY <1>0, <2>1, <3>1 DEF FromConnectable
  <2>2. ASSUME NEW f \in Flows, NEW p, NEW T, Then(f, p, T)  PROVE  FlowTypes'
    BY <1>0, <2>2 DEF Then, Called
  <2>3. ASSUME NEW f \in Flows, NEW r, NEW q, ThenRoutes(f, r, q)  PROVE  FlowTypes'
    BY <1>0, <2>3 DEF ThenRoutes, Called
  <2>4. ASSUME NEW i, Merge(i) \/ Raise(i)  PROVE  FlowTypes'
    BY <1>0, <2>4 DEF Merge, Raise
  <2>5. CASE Return
    BY <1>0, <2>5 DEF Return, Calls
  <2>6. ASSUME NEW f \in Created, AddFlows({f})  PROVE  FlowTypes'
    BY <1>0, <2>6 DEF AddFlows, Created
  <2>7. CASE Build
    BY <1>0, <2>7 DEF Build
  <2>8. CASE Built
    BY <1>0, <2>8 DEF Built
  <2> QED
    BY <1>1, <2>1, <2>2, <2>3, <2>4, <2>5, <2>6, <2>7, <2>8 DEF FlowStep
<1>2. CASE ConnectStep
  BY <1>0, <1>2 DEF ConnectStep, Connect, MergeAndRegister, Merge, RaiseFromConnect, Raise, Connected
<1>3. CASE BuildStep
  <2>1. CASE BuildRuntime
    <3>1. \A t \in served : TaskNodes[t] \subseteq Nodes
      BY <1>0, ValidatorAssumption DEF RuntimeTypes
    <3>2. nodes \cup UNION {TaskNodes[t] : t \in served} \subseteq Nodes
      <4>1. UNION {TaskNodes[t] : t \in served} \subseteq Nodes
        BY <3>1
      <4>2. nodes \subseteq Nodes
        BY <1>0 DEF RuntimeTypes
      <4> QED
        BY <4>1, <4>2
    <3> QED
      BY <1>0, <2>1, <3>2 DEF BuildRuntime, NewBuilder
  <2>2. CASE Start
    BY <1>0, <2>2 DEF Start
  <2>3. ASSUME NEW i, Merge(i) \/ RaiseFromBuild(i)  PROVE  FlowTypes'
    BY <1>0, <2>3 DEF Merge, RaiseFromBuild, Raise
  <2>4. CASE RunLoop
    BY <1>0, <2>4 DEF RunLoop, Built
  <2> QED
    BY <1>3, <2>1, <2>2, <2>3, <2>4 DEF BuildStep
<1>4. CASE ThreadStep \/ RequestStop \/ WaitForStop \/ UNCHANGED vars
  BY <1>0, <1>4 DEF ThreadStep, BusDies, BusStops, ActorDies, ActorStops, RequestStop, WaitForStop,
                    graphVars, vars
<1> QED
  BY <1>1, <1>2, <1>3, <1>4 DEF Next

\* A call to the validator's own graphs comes from the validator.
RuntimeInv ==
  /\ byHand => phase = "none"
  /\ phase = "tapped" => call = NoCall

\* Validator and runtime keep their types, and nothing else runs in a start.
LEMMA StepKeepsRuntime ==
  ASSUME IInv, [Next]_vars
  PROVE  RuntimeTypes' /\ RuntimeInv'
<1> USE DEF RuntimeTypes, RuntimeInv
<1>0. FlowTypes /\ RuntimeTypes /\ RuntimeInv /\ call \in Calls
  BY TypesSplit DEF IInv, GraphInv
<1>1. CASE FlowStep
  BY <1>0, <1>1 DEF FlowStep, validatorVars, runtimeVars
<1>2. CASE ConnectStep
  <2>1. ASSUME NEW w, Connect(w)  PROVE  RuntimeTypes' /\ RuntimeInv'
    BY <1>0, <2>1 DEF Connect, validatorVars, runtimeVars
  <2>2. ASSUME NEW i \in call.todo, MergeAndRegister(i)  PROVE  RuntimeTypes' /\ RuntimeInv'
    <3>1. UNION {Owners(e) : e \in EndpointsOf(i.wire)} \subseteq Nodes
          /\ UNION {OwnerTasks(e) : e \in EndpointsOf(i.wire)} \subseteq Tasks
      BY DEF Owners, OwnerTasks
    <3>2. phase # "tapped"
      BY <1>0, <2>2, NobodyCalls
    <3> QED
      BY <1>0, <2>2, <3>1, <3>2 DEF MergeAndRegister, runtimeVars
  <2>3. ASSUME NEW i, RaiseFromConnect(i)  PROVE  RuntimeTypes' /\ RuntimeInv'
    BY <1>0, <2>3 DEF RaiseFromConnect, Raise, validatorVars
  <2>4. CASE Connected
    BY <1>0, <1>2, <2>4 DEF ConnectStep, Connected, validatorVars
  <2> QED
    BY <1>2, <2>1, <2>2, <2>3, <2>4 DEF ConnectStep
<1>3. CASE BuildStep
  <2>0. ~byHand
    BY <1>3 DEF BuildStep
  <2>1. CASE Start
    <3>1. starts' \in 0..MaxStarts
      <4>1. MaxStarts \in Nat
        BY ValidatorAssumption
      <4>2. starts \in 0..MaxStarts /\ starts < MaxStarts /\ starts' = starts + 1
        BY <1>0, <2>1 DEF Start
      <4> QED
        BY <4>1, <4>2
    <3> QED
      BY <1>0, <2>0, <2>1, <3>1 DEF Start, validatorVars
  <2>2. CASE BuildRuntime
    BY <1>0, <2>0, <2>2 DEF BuildRuntime, validatorVars
  <2>3. ASSUME NEW i \in call.todo, Merge(i), UNCHANGED <<validatorVars, runtimeVars>>
        PROVE  RuntimeTypes' /\ RuntimeInv'
    BY <1>0, <2>3, NobodyCalls DEF validatorVars, runtimeVars
  <2>4. ASSUME NEW i, RaiseFromBuild(i)  PROVE  RuntimeTypes' /\ RuntimeInv'
    BY <1>0, <2>4 DEF RaiseFromBuild, validatorVars
  <2>5. CASE RunLoop
    BY <1>0, <2>0, <2>5 DEF RunLoop, validatorVars, FlowTypes
  <2> QED
    BY <1>3, <2>1, <2>2, <2>3, <2>4, <2>5 DEF BuildStep
<1>4. CASE ThreadStep \/ RequestStop \/ WaitForStop
  <2>1. UNCHANGED <<call, validatorVars, served, starts, byHand>>
    BY <1>4 DEF ThreadStep, BusDies, BusStops, ActorDies, ActorStops, RequestStop, WaitForStop,
                graphVars
  <2>2. phase # "none" /\ phase' \in {"none", "running", "stopping", "joining"}
    BY <1>4 DEF ThreadStep, BusDies, BusStops, ActorDies, ActorStops, RequestStop, WaitForStop
  <2>3. actors' \subseteq Nodes /\ threads' \subseteq actors' \cup {Bus}
        /\ outcome' \in {"none", "refused", "stopped", "timed out"}
    BY <1>0, <1>4 DEF ThreadStep, BusDies, BusStops, ActorDies, ActorStops, RequestStop, WaitForStop
  <2> QED
    BY <1>0, <2>1, <2>2, <2>3 DEF validatorVars
<1>5. CASE UNCHANGED vars
  BY <1>0, <1>5 DEF vars, graphVars, validatorVars, runtimeVars
<1> QED
  BY <1>1, <1>2, <1>3, <1>4, <1>5 DEF Next

\* A program starts with empty graphs.
LEMMA InitIInv == ProcessInit => IInv
<1> SUFFICES ASSUME ProcessInit PROVE IInv
  OBVIOUS
<1>1. pipes \in [Graphs -> [Sources -> Targets]]
      /\ \A g \in Graphs, s \in Sources : ~RolesOverlap(pipes[g][s])
  BY EmptyPipesType DEF ProcessInit, Init
<1>2. call \in Calls /\ call.todo = {}
  BY NotCreatedIsShape, NobodyCalls DEF ProcessInit, Init, NoCall, Calls
<1>3. FlowTypes
  BY NotCreatedIsShape, GraphAssumption DEF ProcessInit, Init, NewBuilder, FlowTypes
<1>4. RuntimeTypes
  BY ValidatorAssumption DEF ProcessInit, RuntimeTypes
<1> QED
  BY <1>1, <1>2, <1>3, <1>4, TypesSplit DEF IInv, GraphInv, ProcessInit, Init

\* Every step keeps the invariant.
LEMMA NextIInv == IInv /\ [Next]_vars => IInv'
<1> SUFFICES ASSUME IInv, [Next]_vars PROVE IInv'
  OBVIOUS
<1>1. /\ pipes' \in [Graphs -> [Sources -> Targets]] /\ call' \in Calls
      /\ \A g \in Graphs, s \in Sources : ~RolesOverlap(pipes'[g][s])
      /\ \A i \in call'.todo : i.wire.targets # NoTargets \/ call'.todo = {i}
  BY StepIsCallStep, CallStepKeepsGraphs
<1>2. FlowTypes' /\ RuntimeTypes' /\ RuntimeInv'
  BY StepKeepsFlowTypes, StepKeepsRuntime
<1>3. ProcessTypeOK'
  BY <1>1, <1>2 DEF ProcessTypeOK, TypeOK, Calls, FlowTypes, RuntimeTypes
<1> QED
  BY <1>1, <1>2, <1>3 DEF IInv, GraphInv, RuntimeInv

\* Graphs, calls, flows, validator and runtime stay what they are in every program.
THEOREM Invariance == Spec => []IInv
BY InitIInv, NextIInv, PTL DEF Spec

\* Every variable keeps its type.
THEOREM ProcessTypeCorrectness == Spec => []ProcessTypeOK
<1>1. IInv => ProcessTypeOK
  BY DEF IInv
<1> QED
  BY <1>1, Invariance, PTL

----------------------------------------------------------------------------
(* TaskGraph and ValidatorProcess implement Connections *)

Possible == [source : Sources, sink : Sinks, role : {"primary", "tap"}]
graphs == [g \in Graphs |-> ConnectionsOf(pipes[g])]
pending == UNION {Connections(i.wire.source, i.wire.targets) : i \in call.todo}

\* What is left to declare is possible.
LEMMA PendingIsPossible ==
  ASSUME call \in Calls
  PROVE  pending \subseteq Possible
<1>1. \A i \in call.todo : Connections(i.wire.source, i.wire.targets) \subseteq Possible
  BY ConnectionsArePossible DEF Calls, Todos, Wires, Possible
<1> QED
  BY <1>1 DEF pending

\* An empty graph has no connections.
LEMMA NoConnections == ConnectionsOf(EmptyPipes) = {}
BY DEF ConnectionsOf, EmptyPipes, NoTargets, Connections

\* A call that begins is a call that begins.
LEMMA BeginsSimulates ==
  ASSUME IInv, [Next]_vars, CallBegins
  PROVE  \E g \in Graphs : C!Begin(g)
<1>1. call.on = Nobody /\ call'.on \in Graphs /\ call' \in Calls
  BY DEF CallBegins, CallTypes, Calls
<1>2. pending' \subseteq Possible
  BY <1>1, PendingIsPossible, NextIInv DEF pending, Possible, Connections, Calls, Todos, Wires, Targets
<1>3. graphs' = graphs \/ graphs' = [graphs EXCEPT ![call'.on] = {}]
  <2>1. CASE pipes' = pipes
    BY <2>1 DEF graphs
  <2>2. CASE pipes' = [pipes EXCEPT ![call'.on] = EmptyPipes]
    <3>1. graphs' = [g \in Graphs |-> IF g = call'.on THEN {} ELSE ConnectionsOf(pipes[g])]
      BY <1>1, <2>2, NoConnections DEF graphs, IInv, ProcessTypeOK, TypeOK
    <3> QED
      BY <3>1 DEF graphs
  <2> QED
    BY <2>1, <2>2 DEF CallBegins
<1> QED
  BY <1>1, <1>2, <1>3 DEF C!Begin, graphs, pending, Possible

\* A declaration that fits adds what it declares.
LEMMA MergesSimulates ==
  ASSUME IInv, CallMerges
  PROVE  C!Add
<1>1. PICK i \in call.todo :
        /\ ~Refuses(pipes[call.on][i.wire.source], i.wire.targets)
        /\ pipes' = [pipes EXCEPT ![call.on][i.wire.source] = Merged(@, i.wire.targets)]
        /\ call' = [call EXCEPT !.todo = @ \ {i}]
  BY DEF CallMerges
<1> DEFINE on == call.on
           new == Connections(i.wire.source, i.wire.targets)
<1>2. on \in Graphs /\ on # Nobody /\ call'.on = on /\ call'.todo = call.todo \ {i}
  BY <1>1, GraphAssumption DEF CallMerges, Graphs, IInv, ProcessTypeOK, TypeOK
<1>3. /\ i.wire.source \in Sources /\ i.wire.targets \in Targets
      /\ pipes \in [Graphs -> [Sources -> Targets]]
  BY DEF IInv, ProcessTypeOK, TypeOK, Todos, Wires
<1>4. pipes'[on] = [pipes[on] EXCEPT ![i.wire.source] = Merged(@, i.wire.targets)]
      /\ \A g \in Graphs \ {on} : pipes'[g] = pipes[g]
  BY <1>1, <1>2, <1>3
<1>5. ConnectionsOf(pipes'[on]) = graphs[on] \cup new
  <2>1. ~PrimariesClash(pipes[on][i.wire.source], i.wire.targets)
    BY <1>1 DEF Refuses
  <2>2. pipes[on] \in [Sources -> Targets] /\ graphs[on] = ConnectionsOf(pipes[on])
    BY <1>2, <1>3 DEF graphs
  <2>3. PICK p \in [Sources -> Targets], s \in Sources, t \in Targets :
          p = pipes[on] /\ s = i.wire.source /\ t = i.wire.targets
    BY <1>3, <2>2
  <2>4. ~PrimariesClash(p[s], t)
    BY <2>1, <2>3
  <2>5. ConnectionsOf([p EXCEPT ![s] = Merged(@, t)]) = ConnectionsOf(p) \cup Connections(s, t)
    BY <2>4, MergeAddsConnections
  <2> QED
    BY <1>4, <2>2, <2>3, <2>5
<1>6. pending' \subseteq pending /\ pending \subseteq pending' \cup new /\ new \subseteq pending
  BY <1>2 DEF pending
<1>7. C!WellFormed(ConnectionsOf(pipes'[on]))
  <2>1. CallStep
    BY DEF CallStep
  <2>2. pipes'[on] \in [Sources -> Targets] /\ \A s \in Sources : ~RolesOverlap(pipes'[on][s])
    BY <1>2, <2>1, CallStepKeepsGraphs
  <2> QED
    BY <2>2, PipesAreWellFormed
<1>8. graphs' = [graphs EXCEPT ![on] = graphs'[on]] /\ graphs'[on] = ConnectionsOf(pipes'[on])
  BY <1>2, <1>4 DEF graphs
<1> HIDE DEF new
<1> QED
  BY <1>2, <1>5, <1>6, <1>7, <1>8 DEF C!Add, graphs, pending

\* A refused call had something left that does not fit, or declared nothing.
LEMMA RaisesSimulates ==
  ASSUME IInv, CallRaises
  PROVE  C!End
<1>1. PICK i \in call.todo : Refuses(pipes[call.on][i.wire.source], i.wire.targets)
  BY DEF CallRaises
<1>2. call.on \in Graphs /\ call.on # Nobody /\ call' = NoCall /\ UNCHANGED pipes
  BY GraphAssumption DEF CallRaises, Graphs
<1>3. /\ i.wire.source \in Sources /\ i.wire.targets \in Targets
      /\ pipes[call.on] \in [Sources -> Targets]
  BY <1>2 DEF IInv, ProcessTypeOK, TypeOK, Todos, Wires
<1>4. pending = {} \/ ~C!WellFormed(graphs[call.on] \cup pending)
  <2>1. CASE i.wire.targets = NoTargets
    <3>1. call.todo = {i}
      BY <2>1 DEF IInv, GraphInv
    <3> QED
      BY <2>1, <3>1 DEF pending, Connections, NoTargets
  <2>2. CASE i.wire.targets # NoTargets
    <3>1. Connections(i.wire.source, i.wire.targets) \subseteq pending
          /\ graphs[call.on] = ConnectionsOf(pipes[call.on])
      BY <1>2 DEF pending, graphs
    <3> QED
      BY <1>1, <1>3, <2>2, <3>1, RefusedDoesNotFit
  <2> QED
    BY <2>1, <2>2
<1>5. pending' = {} /\ call'.on = Nobody /\ graphs' = graphs
  BY <1>2, NobodyCalls DEF pending, graphs
<1> QED
  BY <1>2, <1>4, <1>5 DEF C!End, graphs, pending

\* A call that has merged all it declares ends.
LEMMA EndsSimulates ==
  ASSUME CallEnds
  PROVE  C!End
<1>1. call.on # Nobody /\ call' = NoCall /\ UNCHANGED pipes
  BY GraphAssumption DEF CallEnds, Graphs
<1>2. pending = {} /\ pending' = {} /\ call'.on = Nobody /\ graphs' = graphs
  BY <1>1, NobodyCalls DEF CallEnds, pending, graphs
<1> QED
  BY <1>1, <1>2 DEF C!End, graphs, pending

\* Every step of a program is a step of Connections, or none of it.
LEMMA StepSimulation == IInv /\ [Next]_vars => [C!Next]_(C!vars)
<1> SUFFICES ASSUME IInv, [Next]_vars PROVE C!Next \/ UNCHANGED C!vars
  OBVIOUS
<1>1. CASE CallStays
  BY <1>1 DEF CallStays, C!vars
<1> QED
  BY <1>1, StepIsCallStep, BeginsSimulates, MergesSimulates, RaisesSimulates, EndsSimulates
     DEF CallStep, C!Next

\* Whatever is declared, routed, absorbed, refused, merged and built: every graph is the
\* union of its declarations, and a call is refused only for one that does not fit.
THEOREM ImplementsConnections == Spec => GraphsAreUnions
<1>1. ProcessInit => C!Init
  BY NoConnections, NobodyCalls DEF ProcessInit, Init, C!Init
<1> QED
  BY <1>1, StepSimulation, Invariance, PTL DEF Spec, GraphsAreUnions, C!Spec

----------------------------------------------------------------------------
(* A validator that runs serves what it connected *)

\* Sinks and the nodes that handle them.
SinksIn(t) == ({t.primary} \ {NoSink}) \cup t.taps
Handled(N, t) == \A k \in SinksIn(t) : Claimed(k) => k \in UNION {SinksOf[n] : n \in N}
Tap(t) == [rank |-> 0, wire |-> [source |-> Clock,
                                 targets |-> [primary |-> NoSink, taps |-> {BlockBeat[t]}]]]

\* Which calls may run where start_runtime is.
CallsInPhases ==
  /\ call.on = Subnet => ~byHand /\ phase \in {"none", "tapping", "running"}
  /\ phase = "tapping" => call.on = Subnet
  /\ ~byHand => (phase = "building" <=> call.on = Piping) /\ call.on \notin Flows

\* What was connected has its nodes.
Registered ==
  \A s \in Sources : /\ Handled(nodes, pipes[Subnet][s])
                     /\ SinksIn(pipes[Subnet][s]) # {} => Owners(s) \subseteq nodes

\* The taps of the clock, made or yet to be made.
Tapped ==
  /\ phase = "tapping" =>
       /\ call.todo \subseteq {Tap(t) : t \in served}
       /\ \A t \in served : BlockBeat[t] \in pipes[Subnet][Clock].taps \/ Tap(t) \in call.todo
  /\ phase = "tapped" => \A t \in served : BlockBeat[t] \in pipes[Subnet][Clock].taps

\* What is built is handled by the nodes it is built with.
ToBuild(s) == SinksIn(pipes[Piping][s]) # {} \/ \E i \in call.todo : i.wire.source = s
BuildsAll ==
  phase = "building" =>
    /\ \A s \in Sources : Handled(builder.nodes, pipes[Piping][s])
    /\ \A i \in call.todo : Handled(builder.nodes, i.wire.targets)
    /\ \A s \in Sources : ToBuild(s) /\ ~InTaskFlow(s) => Owners(s) \subseteq builder.nodes
    /\ \A t \in served :
         /\ TaskNodes[t] \cup Owners(Clock) \subseteq builder.nodes
         /\ \/ BlockBeat[t] \in pipes[Piping][Clock].taps
            \/ \E i \in call.todo : i.wire.source = Clock /\ BlockBeat[t] \in i.wire.targets.taps

ServedInv == CallsInPhases /\ Registered /\ Tapped /\ BuildsAll /\ RunningGraphIsServed

\* More nodes handle more sinks.
LEMMA HandledGrows ==
  ASSUME NEW N, NEW M, N \subseteq M, NEW t, Handled(N, t)
  PROVE  Handled(M, t)
BY DEF Handled

\* What handles two targets handles them merged.
LEMMA HandledMerges ==
  ASSUME NEW N, NEW e \in Targets, NEW t \in Targets, Handled(N, e), Handled(N, t)
  PROVE  Handled(N, Merged(e, t))
<1>1. SinksIn(Merged(e, t)) \subseteq SinksIn(e) \cup SinksIn(t)
  BY DEF SinksIn, Merged
<1> QED
  BY <1>1 DEF Handled

\* Nodes that own the sinks of some targets handle those they claim.
LEMMA OwnersHandle ==
  ASSUME NEW N, NEW t, \A k \in SinksIn(t) : Owners(k) \subseteq N
  PROVE  Handled(N, t)
BY DEF Handled, Claimed

\* Nobody handles nothing.
LEMMA NothingToHandle == \A N : Handled(N, NoTargets)
BY DEF Handled, SinksIn, NoTargets

\* A task handles what its own flow connects.
LEMMA TasksHandleTheirFlows ==
  ASSUME NEW t \in Tasks, NEW s \in Sources
  PROVE  Handled(TaskNodes[t], TaskPipes[t][s])
BY TaskAssumption DEF Handled, SinksIn

\* The types the steps need.
GraphTypes ==
  /\ pipes \in [Graphs -> [Sources -> Targets]] /\ call \in Calls
  /\ builder \in [flows : SUBSET Flows, nodes : SUBSET Nodes, built : BOOLEAN]
  /\ RuntimeTypes

\* They are part of the invariant.
LEMMA GraphTypesHold == IInv => GraphTypes
BY TypesSplit DEF IInv, GraphTypes, FlowTypes

\* A program that declares its flows by hand leaves the subnet flow alone.
LEMMA FlowStepServes ==
  ASSUME IInv, ServedInv, FlowStep
  PROVE  ServedInv'
<1>0. GraphTypes /\ byHand /\ phase = "none"
  BY GraphTypesHold DEF FlowStep, IInv, GraphInv
<1>1. UNCHANGED <<nodes, tasks, phase, served, actors, threads, outcome, starts, byHand>>
  BY DEF FlowStep, validatorVars, runtimeVars
<1>2. pipes'[Subnet] = pipes[Subnet] /\ call'.on # Subnet
  <2>0. Subnet \in Graphs /\ Subnet \notin Flows /\ Piping # Subnet /\ Nobody # Subnet
    BY GraphAssumption DEF Graphs
  <2>1. call.on # Subnet /\ NoCall.on # Subnet
    BY <1>0, <2>0, NobodyCalls DEF ServedInv, CallsInPhases
  <2>2. ASSUME NEW f \in Flows, NEW c, FromConnectable(f, c)  PROVE  <1>2!1 /\ <1>2!2
    BY <2>1, <2>2 DEF FromConnectable
  <2>3. ASSUME NEW f \in Flows, NEW p, NEW T, Then(f, p, T)  PROVE  <1>2!1 /\ <1>2!2
    BY <2>0, <2>3 DEF Then, Begin
  <2>4. ASSUME NEW f \in Flows, NEW r, NEW q, ThenRoutes(f, r, q)  PROVE  <1>2!1 /\ <1>2!2
    BY <2>0, <2>4 DEF ThenRoutes, Begin
  <2>5. ASSUME NEW i \in call.todo, call.on \in Flows \cup {Piping}, Merge(i)
        PROVE  <1>2!1 /\ <1>2!2
    BY <1>0, <2>0, <2>5 DEF Merge, GraphTypes, Calls
  <2>6. ASSUME NEW i, Raise(i)  PROVE  <1>2!1 /\ <1>2!2
    BY <2>1, <2>6 DEF Raise
  <2>7. CASE Return
    BY <2>1, <2>7 DEF Return
  <2>8. ASSUME NEW F, AddFlows(F)  PROVE  <1>2!1 /\ <1>2!2
    BY <2>1, <2>8 DEF AddFlows
  <2>9. CASE Build
    BY <1>0, <2>0, <2>9 DEF Build, Begin, GraphTypes
  <2>10. CASE Built
    BY <2>1, <2>10 DEF Built
  <2> QED
    BY <2>2, <2>3, <2>4, <2>5, <2>6, <2>7, <2>8, <2>9, <2>10 DEF FlowStep
<1>3. CallsInPhases'
  BY <1>0, <1>1, <1>2 DEF CallsInPhases
<1>4. Registered'
  BY <1>1, <1>2 DEF ServedInv, Registered, Handled, SinksIn, Claimed
<1> QED
  BY <1>0, <1>1, <1>3, <1>4 DEF ServedInv, Tapped, BuildsAll, RunningGraphIsServed, Up

\* What merging into a graph leaves of it.
LEMMA MergeChangesOneSource ==
  ASSUME GraphTypes, NEW i \in call.todo, Merge(i), call.on \in Graphs
  PROVE  /\ i.wire.source \in Sources /\ i.wire.targets \in Targets
         /\ pipes'[call.on][i.wire.source] = Merged(pipes[call.on][i.wire.source], i.wire.targets)
         /\ \A s \in Sources \ {i.wire.source} : pipes'[call.on][s] = pipes[call.on][s]
         /\ \A g \in Graphs \ {call.on} : pipes'[g] = pipes[g]
         /\ call'.on = call.on /\ call'.todo = call.todo \ {i}
         /\ UNCHANGED builder
<1>1. i.wire.source \in Sources /\ i.wire.targets \in Targets
  BY DEF GraphTypes, Calls, Todos, Wires
<1>2. /\ pipes' = [pipes EXCEPT ![call.on][i.wire.source] = Merged(@, i.wire.targets)]
      /\ call' = [call EXCEPT !.todo = @ \ {i}] /\ UNCHANGED builder
  BY DEF Merge
<1> QED
  BY <1>1, <1>2 DEF GraphTypes, Calls

\* connect() registers the owners of what it connects.
LEMMA MergeAndRegisterServes ==
  ASSUME IInv, ServedInv, ~byHand, NEW i \in call.todo, MergeAndRegister(i)
  PROVE  ServedInv'
<1>0. GraphTypes /\ call.on = Subnet /\ Subnet \in Graphs /\ Merge(i)
  BY GraphTypesHold DEF MergeAndRegister, Graphs
<1> DEFINE s == i.wire.source
           t == i.wire.targets
<1>1. /\ s \in Sources /\ t \in Targets
      /\ pipes'[Subnet][s] = Merged(pipes[Subnet][s], t)
      /\ \A r \in Sources \ {s} : pipes'[Subnet][r] = pipes[Subnet][r]
      /\ call'.on = Subnet /\ call'.todo = call.todo \ {i}
  BY <1>0, MergeChangesOneSource
<1>2. UNCHANGED <<phase, served, actors, threads, outcome, starts, byHand>>
  BY DEF MergeAndRegister, runtimeVars
<1>3. /\ nodes' = nodes \cup UNION {Owners(e) : e \in EndpointsOf(i.wire)}
      /\ tasks' = tasks \cup UNION {OwnerTasks(e) : e \in EndpointsOf(i.wire)}
  BY DEF MergeAndRegister
<1>4. EndpointsOf(i.wire) = {s} \cup SinksIn(t)
  BY DEF EndpointsOf, SinksIn
<1>5. phase \in {"none", "tapping", "running"}
  BY <1>0 DEF ServedInv, CallsInPhases
<1>6. pipes[Subnet][s] \in Targets /\ Clock \in Sources
  BY <1>0, <1>1, ValidatorAssumption DEF GraphTypes
<1>7. CallsInPhases'
  <2>1. call'.on # Piping /\ call'.on \notin Flows
    BY <1>1, GraphAssumption
  <2> QED
    BY <1>1, <1>2, <1>5, <2>1, <1>0 DEF ServedInv, CallsInPhases
<1>8. Registered'
  <2>1. nodes \subseteq nodes' /\ Owners(s) \subseteq nodes'
        /\ \A k \in SinksIn(t) : Owners(k) \subseteq nodes'
    BY <1>3, <1>4
  <2>2. Handled(nodes', t) /\ Handled(nodes', pipes[Subnet][s])
    BY <1>1, <2>1, OwnersHandle, HandledGrows DEF ServedInv, Registered
  <2>3. Handled(nodes', pipes'[Subnet][s])
    BY <1>1, <1>6, <2>2, HandledMerges
  <2>4. \A r \in Sources \ {s} : Handled(nodes', pipes'[Subnet][r])
    BY <1>1, <2>1, HandledGrows DEF ServedInv, Registered
  <2>5. \A r \in Sources : SinksIn(pipes'[Subnet][r]) # {} => Owners(r) \subseteq nodes'
    BY <1>1, <2>1 DEF ServedInv, Registered
  <2> QED
    BY <2>3, <2>4, <2>5 DEF Registered, Handled, SinksIn, Claimed
<1>9. Tapped'
  <2> SUFFICES ASSUME phase = "tapping"
               PROVE  /\ call'.todo \subseteq {Tap(u) : u \in served}
                      /\ \A u \in served : \/ BlockBeat[u] \in pipes'[Subnet][Clock].taps
                                           \/ Tap(u) \in call'.todo
    BY <1>2, <1>5 DEF Tapped, Tap
  <2>1. PICK u \in served : i = Tap(u)
    BY DEF ServedInv, Tapped
  <2>2. s = Clock /\ t = [primary |-> NoSink, taps |-> {BlockBeat[u]}]
    BY <2>1 DEF Tap
  <2>3. pipes'[Subnet][Clock].taps = pipes[Subnet][Clock].taps \cup {BlockBeat[u]}
    BY <1>1, <2>2 DEF Merged
  <2>4. \A v \in served : BlockBeat[v] \in pipes[Subnet][Clock].taps \/ Tap(v) \in call.todo
    BY DEF ServedInv, Tapped
  <2>5. ASSUME NEW v \in served
        PROVE  BlockBeat[v] \in pipes'[Subnet][Clock].taps \/ Tap(v) \in call'.todo
    <3>1. CASE Tap(v) = i
      <4>1. BlockBeat[v] = BlockBeat[u]
        BY <2>1, <3>1 DEF Tap
      <4> QED
        BY <2>3, <4>1
    <3>2. CASE Tap(v) # i
      BY <1>1, <2>3, <2>4, <3>2
    <3> QED
      BY <3>1, <3>2
  <2> QED
    BY <1>1, <2>5 DEF ServedInv, Tapped
<1>10. RunningGraphIsServed'
  <2>1. pipes'[Piping] = pipes[Piping]
    BY <1>0, MergeChangesOneSource, GraphAssumption DEF Graphs
  <2> QED
    BY <1>2, <2>1 DEF ServedInv, RunningGraphIsServed, Up, TargetsOf, Served, Claimed, InTaskFlow
<1> HIDE DEF s, t
<1> QED
  BY <1>2, <1>5, <1>7, <1>8, <1>9, <1>10 DEF ServedInv, BuildsAll

\* A call that ends or is refused takes nothing back.
LEMMA CallEndServes ==
  ASSUME IInv, ServedInv, ~byHand, call' = NoCall, UNCHANGED <<pipes, nodes, tasks, served, byHand>>,
         \/ phase \in {"tapping", "building"} /\ phase' = "none"
         \/ phase \in {"none", "running"} /\ UNCHANGED <<phase, actors, threads>>
         \/ phase' = "tapped" /\ Tapped'
  PROVE  ServedInv'
<1>1. call'.on = Nobody /\ Nobody \notin Flows /\ Nobody # Subnet /\ Nobody # Piping
  BY NobodyCalls, GraphAssumption DEF Graphs
<1>2. CallsInPhases'
  BY <1>1 DEF CallsInPhases
<1>3. Registered'
  BY DEF ServedInv, Registered, Handled, SinksIn, Claimed
<1>4. Tapped' /\ BuildsAll'
  BY DEF Tapped, BuildsAll
<1>5. RunningGraphIsServed'
  BY DEF ServedInv, RunningGraphIsServed, Up, TargetsOf, Served, Claimed, InTaskFlow
<1> QED
  BY <1>2, <1>3, <1>4, <1>5 DEF ServedInv

\* connect() keeps what it connected served, refused or not, and what runs as it is.
LEMMA ConnectStepServes ==
  ASSUME IInv, ServedInv, ConnectStep
  PROVE  ServedInv'
<1>0. ~byHand /\ GraphTypes
  BY GraphTypesHold DEF ConnectStep
<1>1. ASSUME NEW w \in Wiring, Connect(w)  PROVE  ServedInv'
  <2>1. /\ phase \in {"none", "running"} /\ call'.on = Subnet
        /\ UNCHANGED <<pipes, nodes, tasks, phase, served, actors, threads, byHand>>
    BY <1>1 DEF Connect, Begin, validatorVars, runtimeVars
  <2>2. CallsInPhases'
    BY <1>0, <2>1, GraphAssumption DEF CallsInPhases
  <2>3. Registered' /\ Tapped' /\ BuildsAll'
    BY <2>1 DEF ServedInv, Registered, Handled, SinksIn, Claimed, Tapped, BuildsAll
  <2>4. RunningGraphIsServed'
    BY <2>1 DEF ServedInv, RunningGraphIsServed, Up, TargetsOf, Served, Claimed, InTaskFlow
  <2> QED
    BY <2>2, <2>3, <2>4 DEF ServedInv
<1>2. ASSUME NEW i \in call.todo, RaiseFromConnect(i)  PROVE  ServedInv'
  <2>1. /\ call.on = Subnet /\ call' = NoCall /\ UNCHANGED <<pipes, nodes, tasks, served, actors, threads, byHand>>
        /\ IF phase = "tapping" THEN phase' = "none" ELSE UNCHANGED phase
    BY <1>2 DEF RaiseFromConnect, Raise, validatorVars
  <2> QED
    BY <1>0, <2>1, CallEndServes DEF ServedInv, CallsInPhases
<1>3. CASE Connected
  <2>1. /\ call.on = Subnet /\ call.todo = {} /\ call' = NoCall
        /\ phase' = IF phase = "tapping" THEN "tapped" ELSE phase
        /\ UNCHANGED <<pipes, nodes, tasks, served, actors, threads, byHand>>
    BY <1>3 DEF Connected, validatorVars
  <2>2. phase \in {"none", "tapping", "running"}
    BY <2>1 DEF ServedInv, CallsInPhases
  <2>3. phase = "tapping" => Tapped'
    BY <2>1 DEF ServedInv, Tapped
  <2> QED
    BY <1>0, <2>1, <2>2, <2>3, CallEndServes
<1> QED
  BY <1>0, <1>1, <1>2, <1>3, MergeAndRegisterServes DEF ConnectStep

\* Every declaration of a build is handled, with those of the clock's taps among them.
LEMMA BuildRuntimeServes ==
  ASSUME IInv, ServedInv, ~byHand, BuildRuntime
  PROVE  ServedInv'
<1> DEFINE N == nodes \cup UNION {TaskNodes[t] : t \in served}
           all == Items(pipes[Subnet]) \cup UNION {Items(TaskPipes[t]) : t \in served}
<1>0. GraphTypes /\ Subnet \in Graphs /\ Piping \in Graphs /\ Subnet # Piping
  BY GraphTypesHold, GraphAssumption DEF Graphs
<1>1. /\ phase = "tapped" /\ phase' = "building" /\ builder'.nodes = N
      /\ pipes' = [pipes EXCEPT ![Piping] = EmptyPipes]
      /\ call'.on = Piping /\ call'.todo = Ranked(0, all)
      /\ UNCHANGED <<nodes, tasks, served, actors, threads, byHand>>
  BY DEF BuildRuntime, NewBuilder, validatorVars
<1>2. served \subseteq Tasks /\ Clock \in Sources /\ nodes \subseteq N
      /\ \A t \in served : TaskNodes[t] \subseteq N
  <2>1. served \subseteq Tasks /\ Clock \in Sources
    BY <1>0, ValidatorAssumption DEF GraphTypes, RuntimeTypes
  <2>2. nodes \subseteq N /\ \A t \in served : TaskNodes[t] \subseteq N
    OBVIOUS
  <2> QED
    BY <2>1, <2>2
<1>3. pipes'[Subnet] = pipes[Subnet] /\ pipes'[Piping] = EmptyPipes
  BY <1>0, <1>1 DEF GraphTypes
<1> HIDE DEF N
<1>4. \A w \in all : Handled(N, w.targets)
  <2>1. ASSUME NEW s \in Sources  PROVE  Handled(N, pipes[Subnet][s])
    BY <1>2, HandledGrows DEF ServedInv, Registered
  <2>2. ASSUME NEW t \in served, NEW s \in Sources  PROVE  Handled(N, TaskPipes[t][s])
    BY <1>2, TasksHandleTheirFlows, HandledGrows
  <2> QED
    BY <2>1, <2>2 DEF Items
<1>5. \A i \in call'.todo : Handled(N, i.wire.targets)
  BY <1>1, <1>4 DEF Ranked
<1>6. \A s \in Sources : Handled(N, pipes'[Piping][s])
  BY <1>3, NothingToHandle DEF EmptyPipes
<1>7. ASSUME NEW t \in served
      PROVE  /\ TaskNodes[t] \cup Owners(Clock) \subseteq N
             /\ \E i \in call'.todo : i.wire.source = Clock /\ BlockBeat[t] \in i.wire.targets.taps
  <2>1. BlockBeat[t] \in pipes[Subnet][Clock].taps
    BY <1>1 DEF ServedInv, Tapped
  <2>2. pipes[Subnet][Clock] # NoTargets /\ SinksIn(pipes[Subnet][Clock]) # {}
    BY <2>1 DEF NoTargets, SinksIn
  <2>3. Owners(Clock) \subseteq nodes
    BY <1>2, <2>2 DEF ServedInv, Registered
  <2> DEFINE w == [source |-> Clock, targets |-> pipes[Subnet][Clock]]
  <2>4. w \in all
    BY <1>2, <2>2 DEF Items
  <2>5. [rank |-> 0, wire |-> w] \in call'.todo
    BY <1>1, <2>4 DEF Ranked
  <2>6. [rank |-> 0, wire |-> w].wire.source = Clock
        /\ BlockBeat[t] \in [rank |-> 0, wire |-> w].wire.targets.taps
    BY <2>1
  <2> QED
    BY <1>2, <2>3, <2>5, <2>6
<1>8. ASSUME NEW s \in Sources, ToBuild(s)', ~InTaskFlow(s)
      PROVE  Owners(s) \subseteq N
  <2>1. SinksIn(pipes'[Piping][s]) = {}
    BY <1>3 DEF EmptyPipes, NoTargets, SinksIn
  <2>2. PICK w \in all : w.source = s
    BY <1>1, <1>8, <2>1 DEF ToBuild, SinksIn, Ranked
  <2>3. w \in Items(pipes[Subnet])
    BY <1>8, <2>2 DEF Items, InTaskFlow
  <2>4. pipes[Subnet][s] # NoTargets /\ pipes[Subnet][s] \in Targets
    BY <1>0, <2>2, <2>3 DEF Items, GraphTypes
  <2>5. SinksIn(pipes[Subnet][s]) # {}
    BY <2>4 DEF SinksIn, NoTargets, Targets
  <2> QED
    BY <1>2, <2>5 DEF ServedInv, Registered
<1> HIDE DEF all
<1>9. BuildsAll'
  BY <1>1, <1>5, <1>6, <1>7, <1>8 DEF BuildsAll, Handled, SinksIn, Claimed, ToBuild, InTaskFlow
<1>10. CallsInPhases'
  BY <1>0, <1>1, GraphAssumption DEF CallsInPhases
<1>11. Registered'
  BY <1>1, <1>3 DEF ServedInv, Registered, Handled, SinksIn, Claimed
<1> QED
  BY <1>1, <1>9, <1>10, <1>11 DEF ServedInv, Tapped, RunningGraphIsServed, Up

\* Merging what is built loses no tap.
LEMMA BuildMergeServes ==
  ASSUME IInv, ServedInv, ~byHand, NEW i \in call.todo, call.on = Piping, Merge(i),
         UNCHANGED <<validatorVars, runtimeVars>>
  PROVE  ServedInv'
<1> DEFINE s == i.wire.source
           t == i.wire.targets
<1>0. GraphTypes /\ Subnet \in Graphs /\ Piping \in Graphs /\ Subnet # Piping
  BY GraphTypesHold, GraphAssumption DEF Graphs
<1>1. /\ s \in Sources /\ t \in Targets
      /\ pipes'[Piping][s] = Merged(pipes[Piping][s], t)
      /\ \A r \in Sources \ {s} : pipes'[Piping][r] = pipes[Piping][r]
      /\ pipes'[Subnet] = pipes[Subnet]
      /\ call'.on = Piping /\ call'.todo = call.todo \ {i} /\ UNCHANGED builder
  BY <1>0, MergeChangesOneSource
<1>2. UNCHANGED <<nodes, tasks, phase, served, actors, threads, outcome, starts, byHand>>
  BY DEF validatorVars, runtimeVars
<1>3. phase = "building" /\ Clock \in Sources /\ pipes[Piping][s] \in Targets
  BY <1>0, <1>1, ValidatorAssumption DEF ServedInv, CallsInPhases, GraphTypes
<1>4. Handled(builder.nodes, t) /\ \A r \in Sources : Handled(builder.nodes, pipes[Piping][r])
  BY <1>3 DEF ServedInv, BuildsAll
<1>5. Handled(builder.nodes, pipes'[Piping][s])
  BY <1>1, <1>3, <1>4, HandledMerges
<1>6. \A r \in Sources : Handled(builder.nodes, pipes'[Piping][r])
  BY <1>1, <1>4, <1>5
<1>7. ASSUME NEW u \in served
      PROVE  /\ TaskNodes[u] \cup Owners(Clock) \subseteq builder.nodes
             /\ \/ BlockBeat[u] \in pipes'[Piping][Clock].taps
                \/ \E j \in call'.todo : j.wire.source = Clock /\ BlockBeat[u] \in j.wire.targets.taps
  <2>1. /\ TaskNodes[u] \cup Owners(Clock) \subseteq builder.nodes
        /\ \/ BlockBeat[u] \in pipes[Piping][Clock].taps
           \/ \E j \in call.todo : j.wire.source = Clock /\ BlockBeat[u] \in j.wire.targets.taps
    BY <1>3 DEF ServedInv, BuildsAll
  <2>2. pipes[Piping][Clock].taps \subseteq pipes'[Piping][Clock].taps
        /\ (s = Clock => t.taps \subseteq pipes'[Piping][Clock].taps)
    BY <1>1, <1>3 DEF Merged
  <2> QED
    BY <1>1, <2>1, <2>2
<1>8. BuildsAll'
  <2>1. \A j \in call'.todo : Handled(builder.nodes, j.wire.targets)
    BY <1>1, <1>3 DEF ServedInv, BuildsAll
  <2>2. \A r \in Sources : ToBuild(r)' => ToBuild(r)
    BY <1>1 DEF ToBuild, SinksIn
  <2>3. \A r \in Sources : ToBuild(r)' /\ ~InTaskFlow(r) => Owners(r) \subseteq builder.nodes
    BY <1>3, <2>2 DEF ServedInv, BuildsAll
  <2> QED
    BY <1>1, <1>2, <1>6, <1>7, <2>1, <2>3 DEF BuildsAll, Handled, SinksIn, Claimed, ToBuild, InTaskFlow
<1>9. CallsInPhases'
  BY <1>0, <1>1, <1>2, <1>3, GraphAssumption DEF CallsInPhases
<1>10. Registered'
  BY <1>1, <1>2 DEF ServedInv, Registered, Handled, SinksIn, Claimed
<1> QED
  BY <1>2, <1>3, <1>8, <1>9, <1>10 DEF ServedInv, Tapped, RunningGraphIsServed, Up

\* The runtime runs what was built, with the nodes it was built with.
LEMMA RunLoopServes ==
  ASSUME IInv, ServedInv, ~byHand, RunLoop
  PROVE  ServedInv'
<1>1. /\ phase = "building" /\ call.todo = {} /\ call' = NoCall
      /\ UNCHANGED <<pipes, nodes, tasks, served, byHand>>
  BY DEF RunLoop, Built, validatorVars
<1>2. CASE phase' = "none"
  BY <1>1, <1>2, CallEndServes
<1>3. CASE phase' # "none"
  <2>1. phase' = "running" /\ actors' = builder.nodes /\ threads' = builder.nodes \cup {Bus}
    BY <1>3 DEF RunLoop
  <2>2. /\ \A s \in Sources : Handled(actors', pipes'[Piping][s])
        /\ \A s \in Sources : SinksIn(pipes'[Piping][s]) # {} /\ ~InTaskFlow(s) => Owners(s) \subseteq actors'
        /\ \A t \in served : /\ TaskNodes[t] \cup Owners(Clock) \subseteq actors'
                            /\ BlockBeat[t] \in pipes'[Piping][Clock].taps
    BY <1>1, <2>1 DEF ServedInv, BuildsAll, ToBuild, SinksIn
  <2>3. RunningGraphIsServed'
    BY <1>1, <2>1, <2>2
       DEF RunningGraphIsServed, Served, TargetsOf, Handled, SinksIn, Claimed, InTaskFlow
  <2>4. CallsInPhases'
    BY <1>1, <2>1, NobodyCalls, GraphAssumption DEF CallsInPhases, Graphs
  <2> QED
    BY <1>1, <2>1, <2>3, <2>4 DEF ServedInv, Registered, Tapped, BuildsAll, Handled, SinksIn, Claimed
<1> QED
  BY <1>2, <1>3

\* The clock is tapped for every task before anything is built.
LEMMA BuildStepServes ==
  ASSUME IInv, ServedInv, BuildStep
  PROVE  ServedInv'
<1>0. ~byHand /\ GraphTypes
  BY GraphTypesHold DEF BuildStep
<1>1. CASE Start
  <2>1. phase = "none" /\ phase' = "tapping" /\ call'.on = Subnet
        /\ call'.todo = {Tap(t) : t \in tasks} /\ served' = tasks
        /\ UNCHANGED <<pipes, nodes, tasks, byHand>>
    BY <1>1 DEF Start, Ranked, Tap, validatorVars
  <2>2. CallsInPhases'
    BY <1>0, <2>1, GraphAssumption DEF CallsInPhases
  <2>3. Tapped'
    BY <2>1 DEF Tapped, Tap
  <2> QED
    BY <2>1, <2>2, <2>3 DEF ServedInv, Registered, BuildsAll, RunningGraphIsServed, Up
<1>2. ASSUME NEW i \in call.todo, RaiseFromBuild(i)  PROVE  ServedInv'
  <2>1. call.on = Piping /\ call' = NoCall /\ phase' = "none" /\ UNCHANGED <<pipes, nodes, tasks, served, byHand>>
    BY <1>2 DEF RaiseFromBuild, Raise, validatorVars
  <2>2. phase = "building"
    BY <1>0, <2>1 DEF ServedInv, CallsInPhases
  <2> QED
    BY <1>0, <2>1, <2>2, CallEndServes
<1> QED
  BY <1>0, <1>1, <1>2, BuildRuntimeServes, BuildMergeServes, RunLoopServes DEF BuildStep

\* A runtime that runs changes no graph, and its bus dies of a sink that nobody claims.
LEMMA ThreadStepServes ==
  ASSUME IInv, ServedInv, ThreadStep \/ RequestStop \/ WaitForStop
  PROVE  ServedInv'
<1>1. /\ UNCHANGED <<pipes, call, builder, nodes, tasks, served, starts, byHand>> /\ Up
      /\ phase' \in {"none", "running", "stopping", "joining"}
  BY DEF ThreadStep, BusDies, BusStops, ActorDies, ActorStops, RequestStop, WaitForStop,
         graphVars, validatorVars, Up
<1>2. CallsInPhases'
  <2>1. phase' = "running" \/ call.on # Subnet
    BY NobodyCalls, GraphAssumption
       DEF ThreadStep, BusDies, BusStops, ActorDies, ActorStops, RequestStop, WaitForStop, ServedInv,
           CallsInPhases, Graphs
  <2> QED
    BY <1>1, <2>1 DEF ServedInv, CallsInPhases, Up
<1>3. Registered' /\ Tapped' /\ BuildsAll'
  BY <1>1 DEF ServedInv, Registered, Tapped, BuildsAll, Handled, SinksIn, Claimed
<1>4. RunningGraphIsServed'
  <2>1. CASE BusDies
    <3>1. PICK n \in actors : \E s \in SourcesOf[n] : ~(TargetsOf(s) \subseteq Served)
      BY <2>1 DEF BusDies
    <3>2. PICK s \in SourcesOf[n] : ~(TargetsOf(s) \subseteq Served)
      BY <3>1
    <3>3. s \in Sources
      BY <3>2, GraphAssumption, GraphTypesHold DEF GraphTypes, RuntimeTypes
    <3>4. PICK k \in TargetsOf(s) \ Served : ~Claimed(k)
      BY <1>1, <3>2, <3>3 DEF ServedInv, RunningGraphIsServed
    <3>5. UNCHANGED <<phase, actors>>
      BY <2>1 DEF BusDies
    <3> QED
      BY <1>1, <3>3, <3>4, <3>5 DEF ServedInv, RunningGraphIsServed, TargetsOf, Served, Claimed, InTaskFlow, Up
  <2>2. CASE WaitForStop
    BY <2>2 DEF WaitForStop, RunningGraphIsServed, Up
  <2>3. CASE RequestStop \/ BusStops \/ \E n \in Nodes : ActorDies(n) \/ ActorStops(n)
    <3>1. UNCHANGED actors /\ (phase' = "running" => UNCHANGED phase /\ (Bus \in threads => Bus \in threads'))
      BY <2>3, ValidatorAssumption DEF RequestStop, BusStops, ActorDies, ActorStops
    <3> QED
      BY <1>1, <3>1 DEF ServedInv, RunningGraphIsServed, TargetsOf, Served, Claimed, InTaskFlow, Up
  <2> QED
    BY <2>1, <2>2, <2>3 DEF ThreadStep
<1> QED
  BY <1>2, <1>3, <1>4 DEF ServedInv

\* Every step of a program keeps what was connected served.
LEMMA NextServes ==
  ASSUME IInv, ServedInv, [Next]_vars
  PROVE  ServedInv'
<1>1. CASE UNCHANGED vars
  BY <1>1 DEF vars, graphVars, validatorVars, runtimeVars, ServedInv, CallsInPhases, Registered, Tapped,
              BuildsAll, RunningGraphIsServed, Up, TargetsOf, Served, Claimed, InTaskFlow, ToBuild, Handled, SinksIn, Tap
<1> QED
  BY <1>1, FlowStepServes, ConnectStepServes, BuildStepServes, ThreadStepServes DEF Next

\* Whatever was connected, before or while a runtime runs, refused, tapped and rebuilt, and
\* whichever owners the endpoints name: a runtime has an actor for every sink its owner_node
\* handles and for the owner_node of every source connect() wired, the nodes and the block
\* beat of every task there was when it was started, and its bus dies of nothing but a sink
\* no owner_node vouches for.
THEOREM RunningIsServed == Spec => []RunningGraphIsServed
<1>1. ProcessInit => ServedInv
  <2> SUFFICES ASSUME ProcessInit  PROVE  ServedInv
    OBVIOUS
  <2>1. /\ phase = "none" /\ call.on = Nobody /\ Nobody \notin Flows /\ Nobody # Subnet /\ Nobody # Piping
        /\ \A s \in Sources : pipes[Subnet][s] = NoTargets
    BY NobodyCalls, GraphAssumption DEF ProcessInit, Init, Graphs, EmptyPipes
  <2>2. SinksIn(NoTargets) = {}
    BY DEF SinksIn, NoTargets
  <2>3. Registered
    BY <2>1, <2>2, NothingToHandle DEF Registered
  <2> QED
    BY <2>1, <2>3 DEF ServedInv, CallsInPhases, Tapped, BuildsAll, RunningGraphIsServed, Up
<1>2. IInv /\ ServedInv /\ [Next]_vars => ServedInv'
  BY NextServes
<1>3. ServedInv => RunningGraphIsServed
  BY DEF ServedInv
<1> QED
  BY <1>1, <1>2, <1>3, Invariance, PTL DEF Spec
=============================================================================
