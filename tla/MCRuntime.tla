------------------------------ MODULE MCRuntime ------------------------------
(* A graph for Runtime, with what the framework's graphs are made of: a      *)
(* producer with a control sink, a source with a primary and a tap, a worker *)
(* that either answers at once on a child and on its own context (as the     *)
(* task result dispatcher does) or later from a side thread (as a            *)
(* communicator does), a source with taps only, and an actor with two sinks. *)
EXTENDS Runtime

CONSTANTS beat, result, answer,
          control, work, record, finish,
          Clock, Worker, Recorder

MCSources == {beat, result, answer}
MCSinks == {control, work, record, finish}
MCActors == {Clock, Worker, Recorder}
MCPrimary == [s \in MCSources |-> CASE s = beat -> work [] s = answer -> finish [] OTHER -> NoSink]
MCTaps == [s \in MCSources |-> IF s = answer THEN {} ELSE {record}]
MCOwner == [k \in MCSinks |-> CASE k = control -> Clock [] k = work -> Worker [] OTHER -> Recorder]
MCOutputs == [k \in MCSinks |-> IF k # work THEN {<<>>}
  ELSE {<<[source |-> result, on |-> "child"], [source |-> answer, on |-> "same"]>>}]
MCDeferred == [k \in MCSinks |-> IF k = work THEN {answer} ELSE {}]
=============================================================================
