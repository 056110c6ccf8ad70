----------------------------- MODULE Connections -----------------------------
(***************************************************************************)
(* What declaring connections promises, whichever class of the DSL does    *)
(* it: a graph is a set of connections that only grows, every source has   *)
(* one primary at most and every target one role, a call that keeps this   *)
(* so is accepted whole, and a refused call leaves a graph that is still   *)
(* well formed and holds nothing the call did not declare.                 *)
(***************************************************************************)
CONSTANTS Graphs, NoGraph,
          Possible   \* the connections there can be

VARIABLES graph,    \* the connections of each graph
          on,       \* the graph that a call is changing, or NoGraph
          pending   \* connections the call has still to add

vars == <<graph, on, pending>>

WellFormed(g) ==
  \A c, d \in g : c.source = d.source =>
    /\ c.role = "primary" /\ d.role = "primary" => c.sink = d.sink
    /\ c.sink = d.sink => c.role = d.role

Init == graph = [g \in Graphs |-> {}] /\ on = NoGraph /\ pending = {}

\* A call declares connections; a graph that is made anew starts empty.
Begin(g) ==
  /\ on = NoGraph
  /\ on' = g
  /\ pending' \in SUBSET Possible
  /\ \/ UNCHANGED graph
     \/ graph' = [graph EXCEPT ![g] = {}]

\* Some of what the call declares is added, which leaves the graph well formed.
Add ==
  /\ on # NoGraph
  /\ pending' \subseteq pending
  /\ graph' = [graph EXCEPT ![on] = graph'[on]]
  /\ graph[on] \cup (pending \ pending') \subseteq graph'[on]
  /\ graph'[on] \subseteq graph[on] \cup pending
  /\ WellFormed(graph'[on])
  /\ UNCHANGED on

\* Accepted whole, or refused for a connection that does not fit.
End ==
  /\ on # NoGraph
  /\ pending = {} \/ ~WellFormed(graph[on] \cup pending)
  /\ on' = NoGraph /\ pending' = {}
  /\ UNCHANGED graph

Next == (\E g \in Graphs : Begin(g)) \/ Add \/ End

Spec == Init /\ [][Next]_vars
=============================================================================
