---------------------------- MODULE RequestOutcome ----------------------------
(***************************************************************************)
(* What a neuron communicator promises to the rest of the task graph,      *)
(* whatever protocol it speaks: every request it dispatches is answered by *)
(* at most one event, an answer on the processed source carries the input  *)
(* of the very request it answers, and a request that was never dispatched *)
(* is never answered.                                                      *)
(***************************************************************************)
EXTENDS Sequences

CONSTANTS Requests,   \* request identifiers, one per dispatch
          Kinds,      \* the kinds of answer a communicator can emit
          NoRequest   \* what an event without an input carries

VARIABLES dispatched, \* requests handed to the communicator
          answers     \* for each request, the events emitted for it, in order

vars == <<dispatched, answers>>

Answer(r) == [kind : Kinds \ {"internal_error"}, input : {r}]
Refusal == [kind |-> "internal_error", input |-> NoRequest]

Init == /\ dispatched = {}
        /\ answers = [r \in Requests |-> <<>>]

Dispatch(r) == /\ r \notin dispatched
               /\ dispatched' = dispatched \cup {r}
               /\ UNCHANGED answers

Resolve(r) == /\ r \in dispatched
              /\ answers[r] = <<>>
              /\ \E a \in Answer(r) : answers' = [answers EXCEPT ![r] = <<a>>]
              /\ UNCHANGED dispatched

\* A request the communicator refuses outright: dispatched and answered at once,
\* by an error that carries no input.
Refuse(r) == /\ r \notin dispatched
             /\ answers[r] = <<>>
             /\ dispatched' = dispatched \cup {r}
             /\ answers' = [answers EXCEPT ![r] = <<Refusal>>]

Next == \E r \in Requests : Dispatch(r) \/ Resolve(r) \/ Refuse(r)

Spec == Init /\ [][Next]_vars
=============================================================================
