----------------------------- MODULE MCTaskGraph -----------------------------
(* A small program for ValidatorProcess: the clock, a Transform worker, a task *)
(* of two nodes, and a DoubleTransform whose inner Transform owns its endpoint *)
(* and is no ActorBuilder.  Two sinks name no owner: one that no node lists,   *)
(* and one of a node that lists it and names itself only in its source.        *)
EXTENDS ValidatorProcess, TLC

CONSTANTS clock, worker, retry, storer, inner, double, logger,
          tick, ok, error, attempt, stored, noted,
          control, work, input, beat, store, show, external, note,
          task

MCNodes == {clock, worker, retry, storer, inner, double, logger}
MCSources == {tick, ok, error, attempt, stored, noted}
MCSinks == {control, work, input, beat, store, show, external, note}
MCSinksOf == [n \in MCNodes |-> CASE n = clock -> {control} [] n = worker -> {work}
                [] n = retry -> {input, beat} [] n = storer -> {store}
                [] n \in {inner, double} -> {show} [] n = logger -> {note}]
MCSourcesOf == [n \in MCNodes |-> CASE n = clock -> {tick} [] n = worker -> {ok, error}
                  [] n = retry -> {attempt} [] n = storer -> {stored}
                  [] n \in {inner, double} -> {} [] n = logger -> {noted}]
MCDefaultSource == [n \in MCNodes |-> IF n = worker THEN ok ELSE NoSource]
MCTaskNodes == [t \in {task} |-> {retry, storer}]
MCTaskPipes == [t \in {task} |-> [EmptyPipes EXCEPT ![attempt] = [primary |-> store, taps |-> {}]]]
MCOwnerNode == [e \in MCSources \cup MCSinks |->
                  CASE e \in {tick, control} -> clock [] e \in {ok, error, work} -> worker
                    [] e \in {attempt, input, beat} -> retry [] e \in {stored, store} -> storer
                    [] e = show -> inner [] e = noted -> logger [] e \in {external, note} -> NoOwner]
MCOwnerTask == [e \in MCSources \cup MCSinks |-> IF e \in {input, beat, stored} THEN task ELSE NoOwner]
MCBlockBeat == [t \in {task} |-> beat]

To(s, k, T) == [source |-> s, targets |-> [primary |-> k, taps |-> T]]
MCWiring == {To(ok, input, {}), To(ok, NoSink, {input}), To(stored, NoSink, {external, work}),
             To(tick, beat, {}), To(error, show, {}),
             To(error, NoSink, {note}), To(noted, work, {})}

Symmetry == Permutations(Flows)
=============================================================================
