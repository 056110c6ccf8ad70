-------------------------------- MODULE Pipes --------------------------------
(***************************************************************************)
(* The connections of a task graph: the Targets of a source, how repeated  *)
(* declarations merge, and when a declaration is refused.                  *)
(***************************************************************************)
CONSTANTS Sources, Sinks,
          NoSink   \* no primary target

ASSUME SinkAssumption == NoSink \notin Sinks

Targets == [primary : Sinks \cup {NoSink}, taps : SUBSET Sinks]
NoTargets == [primary |-> NoSink, taps |-> {}]

\* Mutant: a primary that is declared again replaces the one there was, which stays a tap.
MergedLatest(existing, incoming) ==
  [primary |-> IF incoming.primary # NoSink THEN incoming.primary ELSE existing.primary,
   taps |-> existing.taps \cup incoming.taps \cup {existing.primary}]

Merged(existing, incoming) ==
  [primary |-> IF existing.primary # NoSink THEN existing.primary ELSE incoming.primary,
   taps |-> existing.taps \cup incoming.taps]

\* Two declarations disagree on the primary.
PrimariesClash(existing, incoming) ==
  /\ existing.primary # NoSink /\ incoming.primary # NoSink
  /\ existing.primary # incoming.primary

RolesOverlap(targets) == targets.primary \in targets.taps

\* Mutant: the roles of the declaration are checked, not those of the merged targets.
RefusesIncoming(existing, incoming) ==
  \/ incoming = NoTargets
  \/ PrimariesClash(existing, incoming)
  \/ RolesOverlap(incoming)

\* Pipes.connect raises.
Refuses(existing, incoming) ==
  \/ incoming = NoTargets
  \/ PrimariesClash(existing, incoming)
  \/ RolesOverlap(Merged(existing, incoming))

EmptyPipes == [s \in Sources |-> NoTargets]

\* One declaration.
Wires == [source : Sources, targets : Targets]

\* The connections of some targets, each with its role.
Connections(s, targets) ==
  {[source |-> s, sink |-> k, role |-> "primary"] : k \in {targets.primary} \ {NoSink}}
  \cup {[source |-> s, sink |-> k, role |-> "tap"] : k \in targets.taps}
ConnectionsOf(pipes) == UNION {Connections(s, pipes[s]) : s \in Sources}
=============================================================================
