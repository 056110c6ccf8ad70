---------------------------- MODULE Facilitator ----------------------------
(***************************************************************************)
(* The cat-images facilitator.  A job goes to a pool of workers, each of   *)
(* which posts it to a validator, with retries, while a ticker thread of   *)
(* its own appends waiting messages to the status log of the job; streams  *)
(* on the event loop poll the log and send it to browsers.                 *)
(***************************************************************************)
EXTENDS Naturals, FiniteSets, Sequences

LOCAL INSTANCE SequencesExt

CONSTANTS Jobs, Streams,
          PoolSize,      \* max_workers
          MaxRetries,    \* max_retries of the submitter
          MaxTicks       \* bound: waiting messages for one job

ASSUME FacilitatorAssumption ==
  PoolSize \in Nat \ {0} /\ MaxRetries \in Nat \ {0} /\ MaxTicks \in Nat

VARIABLES
  facilitator,  \* whether it runs
  log,          \* per job: the liveness of its status_updates
  jobQueue,     \* jobs the pool has not begun
  run,          \* per job: where its worker is in _run, and what it holds
  ticker,       \* per job: its ticker thread
  stopTicker,   \* jobs whose ticker has been told to stop
  ticks,        \* bound: waiting messages appended or refused
  stream        \* per stream: its job, what it has sent, and where it is

jobVars == <<log, jobQueue, run, ticker, stopTicker, ticks>>
facilitatorVars == <<facilitator, jobVars, stream>>

At(pc) == [pc |-> pc]
Working(j) == run[j].pc \notin {"none", "queued", "done"}

NoJobs ==
  /\ log = [j \in Jobs |-> <<>>]
  /\ jobQueue = <<>>
  /\ run = [j \in Jobs |-> At("none")]
  /\ ticker = [j \in Jobs |-> "none"] /\ stopTicker = {}
  /\ ticks = [j \in Jobs |-> 0]
  /\ stream = [s \in Streams |-> At("none")]

FacilitatorInit == NoJobs /\ facilitator = "up"

----------------------------------------------------------------------------
(* The job store *)

\* Job.liveness and is_terminal.
Liveness(j) == IF log[j] = <<>> THEN "in_progress" ELSE log[j][Len(log[j])]
IsTerminal(j) == Liveness(j) # "in_progress"

\* Mutant: a job that has ended takes further updates.
AppendAnyway(j, l) == log' = [log EXCEPT ![j] = Append(@, l)]

\* append_status, under the lock of the store.
AppendStatus(j, l) == log' = IF IsTerminal(j) THEN log ELSE [log EXCEPT ![j] = Append(@, l)]

----------------------------------------------------------------------------
(* Jobs *)

\* A request for which no validator is available makes no job.
Catify(j) ==
  /\ facilitator = "up" /\ run[j].pc = "none"
  /\ run' = [run EXCEPT ![j] = At("queued")]
  /\ jobQueue' = Append(jobQueue, j)
  /\ UNCHANGED <<facilitator, log, ticker, stopTicker, ticks, stream>>

\* A worker of the pool tells that the job is sent and starts its ticker.
BeginJob ==
  /\ jobQueue # <<>>
  /\ Cardinality({j \in Jobs : Working(j)}) < PoolSize
  /\ LET j == Head(jobQueue) IN
     /\ jobQueue' = Tail(jobQueue)
     /\ AppendStatus(j, "in_progress")
     /\ ticker' = [ticker EXCEPT ![j] = "waiting"]
     /\ run' = [run EXCEPT ![j] = [pc |-> "posting", attempt |-> 1]]
  /\ UNCHANGED <<facilitator, stopTicker, ticks, stream>>

\* An attempt that times out may have reached the validator, which then works for nobody.
SubmitSucceeds(j) ==
  /\ run[j].pc = "posting"
  /\ run' = [run EXCEPT ![j] = [pc |-> "stopping", outcome |-> "success"]]
  /\ UNCHANGED <<facilitator, log, jobQueue, ticker, stopTicker, ticks, stream>>

\* Mutant: the last error is raised as it is, which nobody catches.
SubmitFailsUncaught(j) ==
  /\ run[j].pc = "posting"
  /\ run' = [run EXCEPT ![j] = IF @.attempt < MaxRetries
                               THEN [pc |-> "posting", attempt |-> @.attempt + 1]
                               ELSE At("lost")]
  /\ UNCHANGED <<facilitator, log, jobQueue, ticker, stopTicker, ticks, stream>>

SubmitFails(j) ==
  /\ run[j].pc = "posting"
  /\ run' = [run EXCEPT ![j] = IF @.attempt < MaxRetries
                               THEN [pc |-> "posting", attempt |-> @.attempt + 1]
                               ELSE [pc |-> "stopping", outcome |-> "failed"]]
  /\ UNCHANGED <<facilitator, log, jobQueue, ticker, stopTicker, ticks, stream>>

StopTicker(j) ==
  /\ run[j].pc = "stopping"
  /\ stopTicker' = stopTicker \cup {j}
  /\ run' = [run EXCEPT ![j] = [pc |-> "joining", outcome |-> @.outcome]]
  /\ UNCHANGED <<facilitator, log, jobQueue, ticker, ticks, stream>>

\* The join gives up after two seconds: the ticker may still be about to append.
JoinTicker(j) ==
  /\ run[j].pc = "joining"
  /\ run' = [run EXCEPT ![j] = [pc |-> "ending", outcome |-> @.outcome]]
  /\ UNCHANGED <<facilitator, log, jobQueue, ticker, stopTicker, ticks, stream>>

EndJob(j) ==
  /\ run[j].pc = "ending"
  /\ AppendStatus(j, run[j].outcome)
  /\ run' = [run EXCEPT ![j] = [pc |-> "done", outcome |-> @.outcome]]
  /\ UNCHANGED <<facilitator, jobQueue, ticker, stopTicker, ticks, stream>>

----------------------------------------------------------------------------
(* Tickers *)

\* The wait for the stop ends without one, or with one.
TickerWakes(j) ==
  /\ ticker[j] = "waiting"
  /\ \/ j \in stopTicker /\ ticker' = [ticker EXCEPT ![j] = "ended"]
     \/ j \notin stopTicker /\ ticks[j] < MaxTicks /\ ticker' = [ticker EXCEPT ![j] = "ticking"]
  /\ UNCHANGED <<facilitator, log, jobQueue, run, stopTicker, ticks, stream>>

Tick(j) ==
  /\ ticker[j] = "ticking"
  /\ AppendStatus(j, "in_progress")
  /\ ticker' = [ticker EXCEPT ![j] = "waiting"]
  /\ ticks' = [ticks EXCEPT ![j] = @ + 1]
  /\ UNCHANGED <<facilitator, jobQueue, run, stopTicker, stream>>

----------------------------------------------------------------------------
(* Streams *)

Becomes(s, st) == stream' = [stream EXCEPT ![s] = st] /\ UNCHANGED <<facilitator, jobVars>>

\* A page that shows a job opens a stream of it.
OpenStream(s, j) ==
  /\ stream[s].pc = "none" /\ run[j].pc # "none"
  /\ Becomes(s, [pc |-> "polling", job |-> j, seen |-> 0, batch |-> <<>>, sent |-> <<>>, end |-> "none"])

\* The updates that were not seen are copied out of the log, without its lock.
PollLog(s) ==
  LET st == stream[s] IN
  /\ st.pc = "polling"
  /\ Becomes(s, [st EXCEPT !.pc = "sending",
                           !.batch = SubSeq(log[st.job], st.seen + 1, Len(log[st.job]))])

\* Mutant: what has come since the copy counts as seen.
SendUpdateSeeingAll(s) ==
  LET st == stream[s] IN
  /\ st.pc = "sending" /\ st.batch # <<>>
  /\ Becomes(s, [st EXCEPT !.sent = Append(@, Head(st.batch)), !.batch = Tail(@),
                           !.seen = Len(log[st.job])])

\* Each update sent lets the rest of the loop run.
SendUpdate(s) ==
  LET st == stream[s] IN
  /\ st.pc = "sending" /\ st.batch # <<>>
  /\ Becomes(s, [st EXCEPT !.sent = Append(@, Head(st.batch)), !.batch = Tail(@), !.seen = @ + 1])

\* A job that has ended is rendered as it is now; otherwise the stream sleeps.
EndBatch(s) ==
  LET st == stream[s] IN
  /\ st.pc = "sending" /\ st.batch = <<>>
  /\ Becomes(s, IF IsTerminal(st.job) THEN [st EXCEPT !.pc = "closing", !.end = Liveness(st.job)]
                ELSE [st EXCEPT !.pc = "polling"])

\* The close event, after which the browser does not come back.
CloseStream(s) ==
  /\ stream[s].pc = "closing"
  /\ Becomes(s, [stream[s] EXCEPT !.pc = "closed"])

\* The browser goes away.
Disconnect(s) ==
  /\ stream[s].pc \notin {"none", "closed", "gone"}
  /\ Becomes(s, [stream[s] EXCEPT !.pc = "gone"])

----------------------------------------------------------------------------
JobStep(j) ==
  \/ SubmitSucceeds(j) \/ SubmitFails(j) \/ StopTicker(j) \/ JoinTicker(j) \/ EndJob(j)
StreamStep(s) == PollLog(s) \/ SendUpdate(s) \/ EndBatch(s) \/ CloseStream(s)

FacilitatorNext ==
  \/ \E j \in Jobs : Catify(j) \/ JobStep(j) \/ TickerWakes(j) \/ Tick(j)
  \/ BeginJob
  \/ \E s \in Streams : \/ StreamStep(s) \/ Disconnect(s)
                        \/ \E j \in Jobs : OpenStream(s, j)

\* The pool and the event loop run and an attempt ends (its client has a timeout); nobody
\* has to ask for a job or a stream, and a ticker may be late for ever.
FacilitatorFairness ==
  /\ \A j \in Jobs : WF_facilitatorVars(JobStep(j))
  /\ \A s \in Streams : WF_facilitatorVars(StreamStep(s))
  /\ WF_facilitatorVars(BeginJob)

FacilitatorSpec == FacilitatorInit /\ [][FacilitatorNext]_facilitatorVars /\ FacilitatorFairness

----------------------------------------------------------------------------
(* Properties *)

\* The log of a job ends with its only final status, whatever its ticker does after the
\* join gave up; and a stream sends the log in its order, without a gap, and closes with
\* the outcome of the job also when it has not seen its last updates
\* (worker.py:77-95, stores.py:80-87, ui.py:48-63).
StreamsAreFaithful ==
  /\ \A j \in Jobs :
       /\ \A i \in DOMAIN log[j] : log[j][i] # "in_progress" => i = Len(log[j])
       /\ run[j].pc = "done" => Liveness(j) = run[j].outcome
  /\ \A s \in Streams : stream[s].pc # "none" =>
       LET full == log[stream[s].job] IN
       /\ IsPrefix(stream[s].sent, full)
       /\ stream[s].end # "none" =>
            stream[s].end = Liveness(stream[s].job) /\ stream[s].end # "in_progress"

\* Every job ends, although jobs wait for workers and validators do not answer, and every
\* stream of it closes unless its browser goes away (worker.py:62-86, ui.py:48-63).
StreamsClose ==
  /\ \A j \in Jobs : run[j].pc # "none" ~> IsTerminal(j)
  /\ \A s \in Streams : stream[s].pc # "none" ~> stream[s].pc \in {"closed", "gone"}
============================================================================
