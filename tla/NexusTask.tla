----------------------------- MODULE NexusTask -----------------------------
(***************************************************************************)
(* The pipeline of a NexusTask: retry strategy, payload creator, router,   *)
(* timestamper, communicator, preparer, converter, storers, dispatcher and *)
(* error mux, wired as NexusTask.__init__ wires them.  Each work runs on   *)
(* its own context; works meet in the timestamper only.                    *)
(*                                                                         *)
(* A handler is one step: it takes a message out of its actor's inbox,     *)
(* writes user data and puts its messages on the bus.  The bus logs a      *)
(* message on its context and hands it on in a step of its own (module     *)
(* Runtime models the bus in detail).  A crash loses everything but user   *)
(* data, the last logged message of each context and the stored results;   *)
(* recovery hands the last messages on again.                              *)
(***************************************************************************)
EXTENDS Naturals, FiniteSets, Sequences, SequencesExt

CONSTANTS Works,        \* contexts that carry an input of the task
          MaxAttempts,  \* RetryStrategy.max_attempts
          NumNeurons,   \* neurons the router can choose from
          MaxCrashes    \* bound: crashes

ASSUME TaskAssumption ==
  MaxAttempts \in Nat /\ NumNeurons \in Nat \ {0} /\ MaxCrashes \in Nat

VARIABLES
  bus,      \* per work: emitted messages the bus has not logged yet
  inbox,    \* per work: logged messages whose handler has not run yet
  last,     \* per work: the last message logged on its context
  data,     \* per work: user data of its context
  open,     \* works whose request the communicator has not answered
  timers,   \* works with a running retry timer
  beat,     \* the timestamper has seen a block beat
  queue,    \* outputs that wait in the timestamper for a beat
  old,      \* works that were started longer ago than QUEUE_AGE_ERROR_THRESHOLD
  stored,   \* per work: the results in the task result store
  out,      \* history, per work: what left the task, in the order of its logging
  issued,   \* history, per work: next_attempt messages logged
  ran,      \* history, per work: the neuron its last request was sent to
  lost,     \* history: works whose message a handler dropped without an answer
  crashes

flowVars == <<bus, inbox, last>>
stamperVars == <<beat, queue, old>>
sideVars == <<open, timers>>
historyVars == <<out, issued, ran>>
vars == <<flowVars, data, sideVars, stamperVars, stored, historyVars, lost, crashes>>

----------------------------------------------------------------------------
(* Messages *)

Neurons == 0..(NumNeurons - 1)
NoNeuron == NumNeurons

\* The sinks of the task, and the sources that leave it.
Actor == [input |-> "retry", failed_attempt |-> "retry", create |-> "payload_creator",
          route |-> "router", forward |-> "timestamper", executor_output |-> "timestamper",
          execute |-> "communicator", timestamped_result |-> "preparer",
          converted_public_output |-> "preparer", conversion_failed |-> "preparer",
          convert |-> "converter", store_success |-> "success_storer",
          store_failure |-> "failure_storer", success_input |-> "dispatcher",
          failure_input |-> "dispatcher", left |-> "error_mux", right |-> "error_mux"]
Sinks == DOMAIN Actor
OnChild == {"successful_task_result", "executor_failure"}
Verdicts == {"task_output", "error"}
Exits == OnChild \cup Verdicts

\* target is the neuron of a Routed payload, or of an output of it.
Bodies == {"value", "failure", "exception", "exhausted", "unconverted", "internal"}
Message(s, b, n) == [sink |-> s, body |-> b, target |-> n]
Messages == [sink : Sinks \cup Exits, body : Bodies, target : Neurons \cup {NoNeuron}]
NoMessage == Message("none", "value", NoNeuron)

\* Mutant: the error is sent to a sink the task does not have.
FailedAttemptNowhere == Message("failed", "exception", NoNeuron)

FailedAttempt == Message("failed_attempt", "exception", NoNeuron)

\* An output that waits in the timestamper.
Queued(w, m) == [work |-> w, body |-> m.body, target |-> m.target]

\* User data: attempts is the retry state (0 before the first attempt), routed the
\* router's count, started a start time, input the communicator's saved input,
\* pending the preparer's result, which may be absent or cleared.
FreshData == [attempts |-> 0, routed |-> 0, started |-> FALSE, input |-> NoNeuron,
              pending |-> "absent", of |-> NoNeuron]

Results == [kind : {"success", "failure"}, target : Neurons \cup {NoNeuron}]

TypeOK ==
  /\ bus \in [Works -> Seq(Messages)]
  /\ inbox \in [Works -> Seq(Messages)]
  /\ last \in [Works -> Messages \cup {NoMessage}]
  /\ data \in [Works -> [attempts : Nat, routed : Nat, started : BOOLEAN,
                         input : Neurons \cup {NoNeuron},
                         pending : {"absent", "set", "cleared"},
                         of : Neurons \cup {NoNeuron}]]
  /\ open \subseteq Works /\ timers \subseteq Works /\ old \subseteq Works
  /\ beat \in BOOLEAN
  /\ queue \in Seq([work : Works, body : {"value", "failure"}, target : Neurons \cup {NoNeuron}])
  /\ stored \in [Works -> Seq(Results)]
  /\ out \in [Works -> Seq([sink : Exits, body : Bodies])]
  /\ issued \in [Works -> Nat]
  /\ ran \in [Works -> Neurons \cup {NoNeuron}]
  /\ lost \subseteq Works
  /\ crashes \in 0..MaxCrashes

Init ==
  /\ bus = [w \in Works |-> <<>>] /\ inbox = [w \in Works |-> <<>>]
  /\ last = [w \in Works |-> NoMessage]
  /\ data = [w \in Works |-> FreshData]
  /\ open = {} /\ timers = {}
  /\ beat = FALSE /\ queue = <<>> /\ old = {}
  /\ stored = [w \in Works |-> <<>>]
  /\ out = [w \in Works |-> <<>>]
  /\ issued = [w \in Works |-> 0]
  /\ ran = [w \in Works |-> NoNeuron]
  /\ lost = {} /\ crashes = 0

----------------------------------------------------------------------------
(* The bus *)

\* An input of the task arrives on a context.
Input(w) ==
  /\ last[w] = NoMessage
  /\ last' = [last EXCEPT ![w] = Message("input", "value", NoNeuron)]
  /\ inbox' = [inbox EXCEPT ![w] = <<last'[w]>>]
  /\ UNCHANGED <<bus, data, sideVars, stamperVars, stored, historyVars, lost, crashes>>

\* The bus logs a message and delivers it.  What leaves the task on a child
\* context is logged there.
Deliver(w) ==
  /\ bus[w] # <<>>
  /\ bus' = [bus EXCEPT ![w] = Tail(@)]
  /\ LET m == Head(bus[w]) IN
     /\ last' = IF m.sink \in OnChild THEN last ELSE [last EXCEPT ![w] = m]
     /\ inbox' = IF m.sink \in Exits THEN inbox ELSE [inbox EXCEPT ![w] = Append(@, m)]
     /\ out' = IF m.sink \in Exits
               THEN [out EXCEPT ![w] = Append(@, [sink |-> m.sink, body |-> m.body])] ELSE out
     /\ issued' = IF m.sink = "create" THEN [issued EXCEPT ![w] = @ + 1] ELSE issued
  /\ UNCHANGED <<data, sideVars, stamperVars, stored, ran, lost, crashes>>

\* The messages of w for sink s whose turn it is in the inbox of the sink's actor.
Turns(w, s) ==
  {i \in DOMAIN inbox[w] : /\ inbox[w][i].sink = s
                           /\ \A j \in 1..(i - 1) : Actor[inbox[w][j].sink] # Actor[s]}

\* The handler of the i-th message of w returns msgs.
Answer(w, i, msgs) ==
  /\ inbox' = [inbox EXCEPT ![w] = RemoveAt(@, i)]
  /\ bus' = [bus EXCEPT ![w] = @ \o msgs]
  /\ UNCHANGED <<last, out, issued, crashes>>

\* A handler that returns one message and touches nothing else.
Pass(w, i, m) ==
  /\ Answer(w, i, <<m>>)
  /\ UNCHANGED <<data, sideVars, stamperVars, stored, ran, lost>>

\* A handler that raises: the actor loop logs the exception and goes on.
Raise(w, i) ==
  /\ Answer(w, i, <<>>)
  /\ lost' = lost \cup {w}
  /\ UNCHANGED <<data, sideVars, stamperVars, stored, ran>>

----------------------------------------------------------------------------
(* Retry strategy *)

NextAttempt(w) == data' = [data EXCEPT ![w].attempts = @ + 1]
FirstOrNext == Message("create", "value", NoNeuron)

\* The input starts the attempts; a retry state that is there already is kept.
RetryInput(w) ==
  \E i \in Turns(w, "input") :
    /\ Answer(w, i, <<FirstOrNext>>)
    /\ NextAttempt(w)
    /\ UNCHANGED <<sideVars, stamperVars, stored, ran, lost>>

\* Mutant: one attempt too many.
RetryFailedAttemptLate(w) ==
  \E i \in Turns(w, "failed_attempt") :
    \/ /\ data[w].attempts > MaxAttempts
       /\ Pass(w, i, Message("left", "exhausted", NoNeuron))
    \/ /\ data[w].attempts <= MaxAttempts
       /\ Answer(w, i, <<>>)
       /\ timers' = timers \cup {w}
       /\ UNCHANGED <<data, open, stamperVars, stored, ran, lost>>

\* Mutant: one attempt too few.
RetryFailedAttemptEarly(w) ==
  \E i \in Turns(w, "failed_attempt") :
    \/ /\ data[w].attempts + 1 >= MaxAttempts
       /\ Pass(w, i, Message("left", "exhausted", NoNeuron))
    \/ /\ data[w].attempts + 1 < MaxAttempts
       /\ Answer(w, i, <<>>)
       /\ timers' = timers \cup {w}
       /\ UNCHANGED <<data, open, stamperVars, stored, ran, lost>>

\* A failed attempt is the last one, or starts the timer of the next.
RetryFailedAttempt(w) ==
  \E i \in Turns(w, "failed_attempt") :
    \/ /\ data[w].attempts = 0
       /\ Raise(w, i)
    \/ /\ data[w].attempts > 0 /\ data[w].attempts >= MaxAttempts
       /\ Pass(w, i, Message("left", "exhausted", NoNeuron))
    \/ /\ data[w].attempts > 0 /\ data[w].attempts < MaxAttempts
       /\ Answer(w, i, <<>>)
       /\ timers' = timers \cup {w}
       /\ UNCHANGED <<data, open, stamperVars, stored, ran, lost>>

TimerFires(w) ==
  /\ w \in timers
  /\ timers' = timers \ {w}
  /\ NextAttempt(w)
  /\ bus' = [bus EXCEPT ![w] = Append(@, FirstOrNext)]
  /\ UNCHANGED <<inbox, last, open, stamperVars, stored, historyVars, lost, crashes>>

----------------------------------------------------------------------------
(* Payload creator, router, converter: transforms *)

\* A transform that yields nothing makes its handler raise.
CreatePayload(w) ==
  \E i \in Turns(w, "create") :
    \/ Pass(w, i, Message("route", "value", NoNeuron))
    \/ Pass(w, i, FailedAttempt)
    \/ Raise(w, i)

\* The router takes the neurons in turn, in an order of the context's own.
Route(w) ==
  \E i \in Turns(w, "route") :
    \/ /\ Answer(w, i, <<Message("forward", "value", data[w].routed % NumNeurons)>>)
       /\ data' = [data EXCEPT ![w].routed = @ + 1]
       /\ UNCHANGED <<sideVars, stamperVars, stored, ran, lost>>
    \/ Pass(w, i, FailedAttempt)

Convert(w) ==
  \E i \in Turns(w, "convert") :
    \/ Pass(w, i, Message("converted_public_output", "value", NoNeuron))
    \/ Pass(w, i, Message("conversion_failed", "exception", NoNeuron))
    \/ Raise(w, i)

----------------------------------------------------------------------------
(* Communicator: the promise of RequestOutcome *)

\* Mutant: an input that is saved already is kept.
ExecuteFirstInput(w) ==
  \E i \in Turns(w, "execute") :
    /\ data' = [data EXCEPT ![w].input = IF @ = NoNeuron THEN inbox[w][i].target ELSE @]
    /\ Answer(w, i, <<>>)
    /\ open' = open \cup {w}
    /\ ran' = [ran EXCEPT ![w] = inbox[w][i].target]
    /\ UNCHANGED <<timers, stamperVars, stored, lost>>

\* The input is saved; the request is answered later, or refused at once.
Execute(w) ==
  \E i \in Turns(w, "execute") :
    /\ data' = [data EXCEPT ![w].input = inbox[w][i].target]
    /\ \/ /\ Answer(w, i, <<>>)
          /\ open' = open \cup {w}
          /\ ran' = [ran EXCEPT ![w] = inbox[w][i].target]
       \/ /\ Answer(w, i, <<FailedAttempt>>)
          /\ UNCHANGED <<open, ran>>
    /\ UNCHANGED <<timers, stamperVars, stored, lost>>

\* An output of the neuron or its failure goes on with the saved input, an internal
\* error is a failed attempt.
Resolve(w) ==
  /\ w \in open
  /\ open' = open \ {w}
  /\ \E m \in {Message("executor_output", b, data[w].input) : b \in {"value", "failure"}}
              \cup {FailedAttempt} :
       bus' = [bus EXCEPT ![w] = Append(@, m)]
  /\ UNCHANGED <<inbox, last, data, timers, stamperVars, stored, historyVars, lost, crashes>>

----------------------------------------------------------------------------
(* Timestamper *)

\* More than QUEUE_AGE_ERROR_THRESHOLD passes without anything being started.
TimePasses ==
  /\ old' = {w \in Works : data[w].started}
  /\ old' # old
  /\ UNCHANGED <<flowVars, data, sideVars, beat, queue, stored, historyVars, lost, crashes>>

\* Mutant: the start is not recorded in the context.
StampInputUnrecorded(w) ==
  \E i \in Turns(w, "forward") : Pass(w, i, [inbox[w][i] EXCEPT !.sink = "execute"])

\* The start of the latest attempt counts.
StampInput(w) ==
  \E i \in Turns(w, "forward") :
    /\ Answer(w, i, <<[inbox[w][i] EXCEPT !.sink = "execute"]>>)
    /\ data' = [data EXCEPT ![w].started = TRUE]
    /\ old' = old \ {w}
    /\ UNCHANGED <<sideVars, beat, queue, stored, ran, lost>>

\* The entries of q of some works, in their order.
OfWorks(q, works) ==
  LET kept[n \in 0..Len(q)] ==
        IF n = 0 THEN <<>>
        ELSE IF q[n].work \in works THEN Append(kept[n - 1], q[n]) ELSE kept[n - 1]
  IN kept[Len(q)]

\* Once the head of the queue is too old, every entry that is too old is dropped.
Retained(q) == IF Head(q).work \in old THEN OfWorks(q, Works \ old) ELSE q

InQueue(q) == {q[j].work : j \in DOMAIN q}

\* An output waits for a beat if there was none yet.
StampOutput(w) ==
  \E i \in Turns(w, "executor_output") :
    LET m == inbox[w][i]
        q == Retained(Append(queue, Queued(w, m)))
    IN \/ /\ beat /\ data[w].started
          /\ Pass(w, i, [m EXCEPT !.sink = "timestamped_result"])
       \/ /\ beat /\ ~data[w].started
          /\ Raise(w, i)
       \/ /\ ~beat
          /\ Answer(w, i, <<>>)
          /\ queue' = q
          /\ lost' = lost \cup ((InQueue(queue) \cup {w}) \ InQueue(q))
          /\ UNCHANGED <<data, sideVars, beat, old, stored, ran>>

\* Mutant: a beat sends nothing, only later outputs are stamped.
BlockBeatLeavesQueue ==
  /\ ~beat
  /\ beat' = TRUE
  /\ UNCHANGED <<flowVars, data, sideVars, queue, old, stored, historyVars, lost, crashes>>

Stamped(q) == [j \in DOMAIN q |-> Message("timestamped_result", q[j].body, q[j].target)]

\* A beat stamps and sends every output that waits.
BlockBeat ==
  /\ ~beat
  /\ beat' = TRUE
  /\ bus' = [w \in Works |-> bus[w] \o Stamped(OfWorks(queue, {w}))]
  /\ queue' = <<>>
  /\ UNCHANGED <<inbox, last, data, sideVars, old, stored, historyVars, lost, crashes>>

----------------------------------------------------------------------------
(* Preparer *)

PreparationError(b) == Message("right", b, NoNeuron)

\* A failure is ready to be stored; an output is kept until it has been converted.
PrepareResult(w) ==
  \E i \in Turns(w, "timestamped_result") :
    LET m == inbox[w][i]
    IN \/ /\ m.body = "failure"
          /\ Pass(w, i, [m EXCEPT !.sink = "store_failure"])
       \/ /\ m.body = "value" /\ data[w].pending = "set"
          /\ Pass(w, i, PreparationError("internal"))
       \/ /\ m.body = "value" /\ data[w].pending # "set"
          /\ Answer(w, i, <<Message("convert", "value", NoNeuron)>>)
          /\ data' = [data EXCEPT ![w].pending = "set", ![w].of = m.target]
          /\ UNCHANGED <<sideVars, stamperVars, stored, ran, lost>>

ClearPending(w) == data' = [data EXCEPT ![w].pending = "cleared", ![w].of = NoNeuron]

PrepareConverted(w) ==
  \E i \in Turns(w, "converted_public_output") :
    \/ /\ data[w].pending # "set"
       /\ Pass(w, i, PreparationError("internal"))
    \/ /\ data[w].pending = "set"
       /\ Answer(w, i, <<Message("store_success", "value", data[w].of)>>)
       /\ ClearPending(w)
       /\ UNCHANGED <<sideVars, stamperVars, stored, ran, lost>>

PrepareUnconverted(w) ==
  \E i \in Turns(w, "conversion_failed") :
    /\ Answer(w, i, <<PreparationError("unconverted")>>)
    /\ IF data[w].pending = "absent" THEN UNCHANGED data ELSE ClearPending(w)
    /\ UNCHANGED <<sideVars, stamperVars, stored, ran, lost>>

----------------------------------------------------------------------------
(* Storers, dispatcher and error mux *)

Store(w, kind, m) ==
  stored' = [stored EXCEPT ![w] = Append(@, [kind |-> kind, target |-> m.target])]

\* Mutant: the result is in the store when storing it is reported to have failed.
StoreSuccessUnsure(w) ==
  \E i \in Turns(w, "store_success") :
    /\ Store(w, "success", inbox[w][i])
    /\ \E m \in {Message("success_input", "value", NoNeuron), FailedAttempt} :
         Answer(w, i, <<m>>)
    /\ UNCHANGED <<data, sideVars, stamperVars, ran, lost>>

\* A result that cannot be stored is a failed attempt.
StoreSuccess(w) ==
  \E i \in Turns(w, "store_success") :
    \/ /\ Store(w, "success", inbox[w][i])
       /\ Answer(w, i, <<Message("success_input", "value", NoNeuron)>>)
       /\ UNCHANGED <<data, sideVars, stamperVars, ran, lost>>
    \/ Pass(w, i, FailedAttempt)

\* A stored failure is dispatched and is a failed attempt as well.
StoreFailure(w) ==
  \E i \in Turns(w, "store_failure") :
    \/ /\ Store(w, "failure", inbox[w][i])
       /\ Answer(w, i, <<Message("failure_input", "failure", NoNeuron), FailedAttempt>>)
       /\ UNCHANGED <<data, sideVars, stamperVars, ran, lost>>
    \/ Pass(w, i, FailedAttempt)

\* The result leaves on a child context, the output on the context of the work.
DispatchSuccess(w) ==
  \E i \in Turns(w, "success_input") :
    /\ Answer(w, i, <<Message("successful_task_result", "value", NoNeuron),
                      Message("task_output", "value", NoNeuron)>>)
    /\ UNCHANGED <<data, sideVars, stamperVars, stored, ran, lost>>

\* Mutant: the dispatcher asks for the next attempt as well.
DispatchFailureRetries(w) ==
  \E i \in Turns(w, "failure_input") :
    /\ Answer(w, i, <<Message("executor_failure", "failure", NoNeuron), FailedAttempt>>)
    /\ UNCHANGED <<data, sideVars, stamperVars, stored, ran, lost>>

DispatchFailure(w) ==
  \E i \in Turns(w, "failure_input") :
    Pass(w, i, Message("executor_failure", "failure", NoNeuron))

ForwardError(w) ==
  \E s \in {"left", "right"} : \E i \in Turns(w, s) :
    Pass(w, i, [inbox[w][i] EXCEPT !.sink = "error"])

----------------------------------------------------------------------------
\* The process crashes and a new one replays the last message of each context.
Crash ==
  /\ crashes < MaxCrashes
  /\ crashes' = crashes + 1
  /\ bus' = [w \in Works |-> <<>>]
  /\ inbox' = [w \in Works |-> IF last[w].sink \in Sinks THEN <<last[w]>> ELSE <<>>]
  /\ open' = {} /\ timers' = {}
  /\ beat' = FALSE /\ queue' = <<>>
  /\ lost' = {}
  /\ UNCHANGED <<last, data, old, stored, historyVars>>

Handle(w) ==
  \/ RetryInput(w) \/ RetryFailedAttempt(w) \/ CreatePayload(w) \/ Route(w)
  \/ StampInput(w) \/ Execute(w) \/ StampOutput(w)
  \/ PrepareResult(w) \/ Convert(w) \/ PrepareConverted(w) \/ PrepareUnconverted(w)
  \/ StoreSuccess(w) \/ StoreFailure(w) \/ DispatchSuccess(w) \/ DispatchFailure(w)
  \/ ForwardError(w)

Next ==
  \/ \E w \in Works : Input(w) \/ Deliver(w) \/ Handle(w) \/ TimerFires(w) \/ Resolve(w)
  \/ TimePasses \/ BlockBeat \/ Crash

\* Bus, actors and timers run, the communicator answers, blocks go on.
Fairness ==
  /\ \A w \in Works : /\ WF_vars(Deliver(w)) /\ WF_vars(Handle(w))
                      /\ WF_vars(TimerFires(w)) /\ WF_vars(Resolve(w))
  /\ WF_vars(BlockBeat)

Spec == Init /\ [][Next]_vars
FairSpec == Spec /\ Fairness

----------------------------------------------------------------------------
(* Properties *)

Count(q, Test(_)) == Cardinality({i \in DOMAIN q : Test(q[i])})

\* What moves a work on, as opposed to what reports a result of it.
Moves(m) == m.sink \notin OnChild \cup {"failure_input"}
IsVerdict(e) == e.sink \in Verdicts
One(b) == IF b THEN 1 ELSE 0

\* The places a work is in.
Tokens(w) ==
  Count(bus[w], Moves) + Count(inbox[w], Moves) + Count(out[w], IsVerdict)
  + Count(queue, LAMBDA e : e.work = w)
  + One(w \in open) + One(w \in timers) + One(w \in lost) + One(last[w] = NoMessage)

\* A work is in one place: waiting for its input, in one message, request, timer or
\* queue entry, or at its only verdict.  Only a crash can make one vanish.
OneFlow == \A w \in Works : Tokens(w) <= 1 /\ (crashes = 0 => Tokens(w) = 1)

\* Also with crashes, at most MaxAttempts attempts are issued (the first, if
\* MaxAttempts is 0).
AttemptsBounded ==
  \A w \in Works : issued[w] <= IF MaxAttempts = 0 THEN 1 ELSE MaxAttempts

IsExhausted(e) == e.body = "exhausted"
IsInternal(e) == e.body = "internal"

\* Without crashes, "retries exhausted" is said only after all attempts were issued.
ExhaustedAfterAllAttempts ==
  \A w \in Works : crashes = 0 /\ Count(out[w], IsExhausted) > 0 => issued[w] >= MaxAttempts

IsSuccess(e) == e.sink = "successful_task_result"
IsFailure(e) == e.sink = "executor_failure"
IsOutput(e) == e.sink = "task_output"
IsStoredSuccess(r) == r.kind = "success"
IsStoredFailure(r) == r.kind = "failure"
IsFailureInput(m) == m.sink = "failure_input"

\* Without crashes, what left the task is what was stored: a success once and with its
\* output, each failure once or still on its way; an error comes without a success, and
\* it is never that the preparer found a result twice or none at all.
ReportsAgreeWithStore ==
  crashes = 0 => \A w \in Works :
    /\ Count(out[w], IsFailure) + Count(bus[w], IsFailure)
         + Count(bus[w], IsFailureInput) + Count(inbox[w], IsFailureInput)
       = Count(stored[w], IsStoredFailure)
    /\ Count(stored[w], IsStoredSuccess) <= 1
    /\ Count(out[w], IsOutput) <= Count(out[w], IsSuccess)
    /\ Count(out[w], IsSuccess) <= Count(stored[w], IsStoredSuccess)
    /\ Count(out[w], IsInternal) = 0
    /\ Count(out[w], LAMBDA e : e.sink = "error") > 0 => Count(stored[w], IsStoredSuccess) = 0

\* A result is stored for the neuron that was asked last, the one it came from.
CreditGoesToExecutor ==
  [][\A w \in Works : stored'[w] # stored[w] => stored'[w][Len(stored'[w])].target = ran[w]]_vars

\* A replayed or delayed message never finds the state it needs missing: what a
\* handler raises for is never "no retry state" or "no start time".
NoStateCorruption ==
  \A w \in Works : \A i \in DOMAIN inbox[w] :
    /\ inbox[w][i].sink = "failed_attempt" => data[w].attempts > 0
    /\ inbox[w][i].sink = "executor_output" => data[w].started

\* A process can be restarted without losing work: there is always something that
\* moves an accepted work on.
WorkSurvivesRestart == \A w \in Works : Tokens(w) >= 1

\* A work the task has accepted gets its verdict, whatever fails, crashes or waits in
\* the timestamper, unless a handler gave it up or a restart forgot it.
EventuallyVerdict ==
  \A w \in Works :
    last[w] # NoMessage ~> (Count(out[w], IsVerdict) = 1 \/ w \in lost \/ Tokens(w) = 0)
============================================================================
