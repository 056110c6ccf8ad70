------------------------- MODULE HttpServicesProofs -------------------------
(***************************************************************************)
(* Proofs about the services that speak HTTP.  Miner: whatever becomes of  *)
(* its updates, the axon updater follows main(), for any number of updates *)
(* and any depth of the queue of its pool.  Facilitator: logs end with     *)
(* their only final status and streams send them faithfully, for any       *)
(* number of jobs, streams, workers, retries and ticks.  REST entry point: *)
(* the type invariant and the safety of the store of pending responses,    *)
(* for any number of requests and of outputs for each.                     *)
(***************************************************************************)
EXTENDS RestEntryPoint, Miner, Facilitator, TLAPS

LOCAL INSTANCE SequencesExt

----------------------------------------------------------------------------
(* The miner *)

Ordered(q) == \A i, j \in DOMAIN q : i < j => q[i] < q[j]

\* Updates go through the pool in the order they were submitted, each once.
PoolInv ==
  /\ update \in Nat /\ finished \subseteq 1..update
  /\ backlog \in Seq(1..update) /\ taken \in Seq(1..update)
  /\ Ordered(backlog) /\ Ordered(taken)
  /\ \A i \in DOMAIN taken, j \in DOMAIN backlog : taken[i] < backlog[j]
  /\ \A u \in finished : ~InPool(u)

\* The loop exists with its pool; while the miner serves, nobody has shut the pool or
\* told the loop to stop, and what the loop waits for is in the pool, has ended, or was
\* lost with it; a pool that is shut down has no backlog.
LoopInv ==
  /\ loop = "none" => update = 0 /\ backlog = <<>> /\ taken = <<>>
  /\ main = "start" => loop = "none" /\ pool = "none" /\ ~stopEvent
  /\ main = "serving" => pool # "shut" /\ ~stopEvent
  /\ main = "serving" /\ loop = "waiting" => update \in finished \/ InPool(update) \/ pool = "broken"
  /\ main = "join_loop" => pool \in {"shut", "broken"} /\ backlog = <<>>

MinerInv == PoolInv /\ LoopInv /\ UpdaterFollowsMain

----------------------------------------------------------------------------
(* The pool *)

\* An update is in the pool when it is in the backlog or taken up.
LEMMA InPoolIs ==
  ASSUME NEW u
  PROVE  InPool(u) <=> \/ \E i \in DOMAIN backlog : backlog[i] = u
                       \/ \E i \in DOMAIN taken : taken[i] = u
BY DEF InPool

\* The parts of a sequence are made of its elements, in their order.
LEMMA Parts ==
  ASSUME NEW S, NEW q \in Seq(S)
  PROVE  /\ Len(q) \in Nat /\ DOMAIN q = 1..Len(q)
         /\ \A i \in DOMAIN q : q[i] \in S
         /\ q # <<>> => /\ 1 \in DOMAIN q /\ Head(q) = q[1] /\ Head(q) \in S
                        /\ Tail(q) \in Seq(S) /\ DOMAIN Tail(q) = 1..(Len(q) - 1)
                        /\ \A i \in DOMAIN Tail(q) : i + 1 \in DOMAIN q /\ Tail(q)[i] = q[i + 1]
         /\ \A e \in S : /\ Append(q, e) \in Seq(S) /\ DOMAIN Append(q, e) = 1..(Len(q) + 1)
                         /\ \A i \in DOMAIN q : Append(q, e)[i] = q[i]
                         /\ Append(q, e)[Len(q) + 1] = e
OBVIOUS

\* A new update is later than all others and nowhere in the pool.
LEMMA SubmitKeepsPool ==
  ASSUME PoolInv, SubmitUpdate, update' = update + 1
  PROVE  /\ PoolInv'
         /\ \A u \in 1..update' : InPool(u)' <=> InPool(u) \/ u = update'
<1>1. /\ update \in Nat /\ backlog \in Seq(1..update') /\ taken \in Seq(1..update')
      /\ update' \in 1..update' /\ finished \subseteq 1..update'
      /\ backlog' = Append(backlog, update') /\ UNCHANGED <<taken, finished>>
  BY DEF PoolInv, SubmitUpdate, serviceVars
<1>2. /\ Len(backlog) \in Nat /\ DOMAIN backlog = 1..Len(backlog)
      /\ DOMAIN backlog' = 1..(Len(backlog) + 1) /\ backlog' \in Seq(1..update')
      /\ \A i \in DOMAIN backlog : backlog'[i] = backlog[i]
      /\ backlog'[Len(backlog) + 1] = update'
  BY <1>1, Parts
<1>3. /\ \A i \in DOMAIN backlog : backlog[i] \in 1..update
      /\ \A i \in DOMAIN taken : taken[i] \in 1..update
  BY Parts DEF PoolInv
<1>4. Ordered(backlog')
  BY <1>1, <1>2, <1>3 DEF PoolInv, Ordered
<1>5. \A i \in DOMAIN taken, j \in DOMAIN backlog' : taken[i] < backlog'[j]
  BY <1>1, <1>2, <1>3 DEF PoolInv
<1>6. ASSUME NEW u PROVE InPool(u)' <=> InPool(u) \/ u = update'
  <2>1. InPool(u)' <=> \/ \E i \in DOMAIN backlog' : backlog'[i] = u
                       \/ \E i \in DOMAIN taken' : taken'[i] = u
    BY DEF InPool
  <2>2. (\E i \in DOMAIN backlog' : backlog'[i] = u)
        <=> (\E i \in DOMAIN backlog : backlog[i] = u) \/ u = update'
    BY <1>2
  <2> QED
    BY <1>1, <2>1, <2>2, InPoolIs
<1>7. \A u \in finished' : ~InPool(u)'
  BY <1>1, <1>6 DEF PoolInv
<1> QED
  BY <1>1, <1>2, <1>4, <1>5, <1>6, <1>7 DEF PoolInv

\* The pool takes up the oldest of its backlog.
LEMMA TakeUpKeepsPool ==
  ASSUME PoolInv, TakeUp
  PROVE  /\ PoolInv' /\ \A u : InPool(u)' <=> InPool(u)
         /\ backlog # <<>>
<1>1. /\ update \in Nat /\ backlog \in Seq(1..update) /\ taken \in Seq(1..update)
      /\ backlog # <<>> /\ backlog' = Tail(backlog) /\ taken' = Append(taken, Head(backlog))
      /\ UNCHANGED <<update, finished>>
  BY DEF PoolInv, TakeUp
<1>2. /\ Len(backlog) \in Nat /\ DOMAIN backlog = 1..Len(backlog) /\ 1 \in DOMAIN backlog
      /\ Head(backlog) = backlog[1] /\ Head(backlog) \in 1..update
      /\ backlog' \in Seq(1..update) /\ DOMAIN backlog' = 1..(Len(backlog) - 1)
      /\ \A i \in DOMAIN backlog' : i + 1 \in DOMAIN backlog /\ backlog'[i] = backlog[i + 1]
      /\ \A i \in DOMAIN backlog : backlog[i] \in 1..update
  BY <1>1, Parts
<1>3. /\ Len(taken) \in Nat /\ DOMAIN taken = 1..Len(taken)
      /\ taken' \in Seq(1..update) /\ DOMAIN taken' = 1..(Len(taken) + 1)
      /\ \A i \in DOMAIN taken : taken'[i] = taken[i] /\ taken[i] \in 1..update
      /\ taken'[Len(taken) + 1] = backlog[1]
  BY <1>1, <1>2, Parts
<1>4. Ordered(backlog')
  <2>1. ASSUME NEW i \in DOMAIN backlog', NEW j \in DOMAIN backlog', i < j
        PROVE  backlog'[i] < backlog'[j]
    <3>1. i + 1 \in DOMAIN backlog /\ j + 1 \in DOMAIN backlog /\ i + 1 < j + 1
      BY <1>2, <2>1
    <3> QED
      BY <1>2, <3>1 DEF PoolInv, Ordered
  <2> QED
    BY <2>1 DEF Ordered
<1>5. Ordered(taken')
  <2>1. ASSUME NEW i \in DOMAIN taken', NEW j \in DOMAIN taken', i < j
        PROVE  taken'[i] < taken'[j]
    <3>1. i \in DOMAIN taken
      BY <1>3, <2>1
    <3>2. CASE j \in DOMAIN taken
      BY <1>3, <2>1, <3>1, <3>2 DEF PoolInv, Ordered
    <3>3. CASE j = Len(taken) + 1
      BY <1>2, <1>3, <3>1, <3>3 DEF PoolInv
    <3> QED
      BY <1>3, <3>2, <3>3
  <2> QED
    BY <2>1 DEF Ordered
<1>6. \A i \in DOMAIN taken', j \in DOMAIN backlog' : taken'[i] < backlog'[j]
  <2>1. ASSUME NEW i \in DOMAIN taken', NEW j \in DOMAIN backlog'
        PROVE  taken'[i] < backlog'[j]
    <3>1. j + 1 \in DOMAIN backlog /\ 1 < j + 1 /\ backlog'[j] = backlog[j + 1]
      BY <1>2
    <3>2. backlog[1] < backlog[j + 1]
      BY <1>2, <3>1 DEF PoolInv, Ordered
    <3>3. i \in DOMAIN taken \/ i = Len(taken) + 1
      BY <1>3
    <3> QED
      BY <1>3, <3>1, <3>2, <3>3 DEF PoolInv
  <2> QED
    BY <2>1
<1>7. ASSUME NEW u PROVE InPool(u)' <=> InPool(u)
  <2>1. InPool(u)' <=> \/ \E i \in DOMAIN backlog' : backlog'[i] = u
                       \/ \E i \in DOMAIN taken' : taken'[i] = u
    BY DEF InPool
  <2>2. (\E i \in DOMAIN taken' : taken'[i] = u)
        <=> (\E i \in DOMAIN taken : taken[i] = u) \/ u = backlog[1]
    BY <1>3
  <2>3. (\E i \in DOMAIN backlog : backlog[i] = u)
        <=> (\E i \in DOMAIN backlog' : backlog'[i] = u) \/ u = backlog[1]
    <3>1. ASSUME NEW i \in DOMAIN backlog, backlog[i] = u, i # 1
          PROVE  \E k \in DOMAIN backlog' : backlog'[k] = u
      <4>1. i - 1 \in DOMAIN backlog' /\ (i - 1) + 1 = i
        BY <1>2, <3>1
      <4> QED
        BY <1>2, <3>1, <4>1
    <3> QED
      BY <1>2, <3>1
  <2> QED
    BY <2>1, <2>2, <2>3, InPoolIs
<1>8. \A u \in finished' : ~InPool(u)'
  BY <1>1, <1>7 DEF PoolInv
<1> QED
  BY <1>1, <1>2, <1>3, <1>4, <1>5, <1>6, <1>7, <1>8 DEF PoolInv

\* The update that ends leaves the pool, and no other does.
LEMMA EndKeepsPool ==
  ASSUME PoolInv, UpdateEnds
  PROVE  /\ PoolInv'
         /\ \A u : InPool(u)' => InPool(u)
         /\ \A u : InPool(u) => InPool(u)' \/ u \in finished'
<1>1. /\ update \in Nat /\ backlog \in Seq(1..update) /\ taken \in Seq(1..update)
      /\ taken # <<>> /\ taken' = Tail(taken) /\ finished' = finished \cup {Head(taken)}
      /\ UNCHANGED <<update, backlog>>
  BY DEF PoolInv, UpdateEnds
<1>2. /\ Len(taken) \in Nat /\ DOMAIN taken = 1..Len(taken) /\ 1 \in DOMAIN taken
      /\ Head(taken) = taken[1] /\ Head(taken) \in 1..update
      /\ taken' \in Seq(1..update) /\ DOMAIN taken' = 1..(Len(taken) - 1)
      /\ \A i \in DOMAIN taken' : i + 1 \in DOMAIN taken /\ taken'[i] = taken[i + 1]
      /\ \A i \in DOMAIN taken : taken[i] \in 1..update
  BY <1>1, Parts
<1>3. \A j \in DOMAIN backlog : backlog[j] \in 1..update
  BY <1>1, Parts
<1>4. Ordered(taken')
  <2>1. ASSUME NEW i \in DOMAIN taken', NEW j \in DOMAIN taken', i < j
        PROVE  taken'[i] < taken'[j]
    <3>1. i + 1 \in DOMAIN taken /\ j + 1 \in DOMAIN taken /\ i + 1 < j + 1
      BY <1>2, <2>1
    <3> QED
      BY <1>2, <3>1 DEF PoolInv, Ordered
  <2> QED
    BY <2>1 DEF Ordered
<1>5. \A i \in DOMAIN taken', j \in DOMAIN backlog' : taken'[i] < backlog'[j]
  BY <1>1, <1>2 DEF PoolInv
<1>6. ASSUME NEW u PROVE InPool(u)' <=> \/ \E i \in DOMAIN backlog : backlog[i] = u
                                        \/ \E i \in DOMAIN taken' : taken'[i] = u
  BY <1>1 DEF InPool
<1>7. ASSUME NEW u PROVE (\E i \in DOMAIN taken : taken[i] = u)
                         <=> (\E i \in DOMAIN taken' : taken'[i] = u) \/ u = taken[1]
  <2>1. ASSUME NEW i \in DOMAIN taken, taken[i] = u, i # 1
        PROVE  \E k \in DOMAIN taken' : taken'[k] = u
    <3>1. i - 1 \in DOMAIN taken' /\ (i - 1) + 1 = i
      BY <1>2, <2>1
    <3> QED
      BY <1>2, <2>1, <3>1
  <2> QED
    BY <1>2, <2>1
<1>8. ASSUME NEW u, u = taken[1] PROVE ~InPool(u)'
  <2>1. ASSUME NEW j \in DOMAIN backlog PROVE backlog[j] # taken[1]
    <3>1. taken[1] \in Nat /\ backlog[j] \in Nat
      BY <1>1, <1>2, <1>3
    <3>2. taken[1] < backlog[j]
      BY <1>2 DEF PoolInv
    <3> QED
      BY <3>1, <3>2
  <2>2. \A i \in DOMAIN taken' : taken'[i] # taken[1]
    <3>1. ASSUME NEW i \in DOMAIN taken' PROVE taken'[i] # taken[1]
      <4>1. i + 1 \in DOMAIN taken /\ 1 < i + 1
        BY <1>2
      <4>2. taken[1] < taken[i + 1]
        BY <1>2, <4>1 DEF PoolInv, Ordered
      <4> QED
        BY <1>1, <1>2, <4>1, <4>2
    <3> QED
      BY <3>1
  <2> QED
    BY <1>6, <1>8, <2>1, <2>2
<1>9. \A u \in finished' : ~InPool(u)'
  BY <1>1, <1>2, <1>6, <1>7, <1>8, InPoolIs DEF PoolInv
<1> QED
  BY <1>1, <1>2, <1>4, <1>5, <1>6, <1>7, <1>9, InPoolIs DEF PoolInv

----------------------------------------------------------------------------
(* Steps *)

\* A pool that breaks, or a backlog that is cancelled, leaves nothing new behind.
LEMMA LossKeepsPool ==
  ASSUME PoolInv, UNCHANGED <<update, finished>>,
         backlog' \in {<<>>, backlog}, taken' \in {<<>>, taken}
  PROVE  PoolInv' /\ \A u : InPool(u)' => InPool(u)
<1>1. <<>> \in Seq(1..update) /\ Ordered(<<>>) /\ DOMAIN <<>> = {}
  BY DEF Ordered
<1>2. ASSUME NEW u, InPool(u)' PROVE InPool(u)
  BY <1>1, <1>2 DEF InPool
<1> QED
  BY <1>1, <1>2 DEF PoolInv

\* What neither main() nor the updater does leaves both alone.
LEMMA ServiceStep ==
  ASSUME NEW r \in Posts, PostArrives(r) \/ HandlerStep(r) \/ WorkerStep(r)
  PROVE  UNCHANGED <<main, updaterVars>>
BY DEF PostArrives, HandlerStep, RefusePost, AcceptPost, ReplyAccepted,
       WorkerStep, Process, PostCallback, EndWorker

\* The miner starts without an updater.
LEMMA InitMinerInv == MinerInit => MinerInv
<1> SUFFICES ASSUME MinerInit PROVE MinerInv
  OBVIOUS
<1>1. DOMAIN <<>> = {} /\ <<>> \in Seq(1..0)
  OBVIOUS
<1> QED
  BY <1>1 DEF MinerInit, NothingDone, MinerInv, PoolInv, LoopInv, UpdaterFollowsMain, Ordered, InPool

\* Steps of the loop.
LEMMA LoopStepKeepsIInv ==
  ASSUME MinerInv, LoopAction
  PROVE  MinerInv'
<1>0. PoolInv /\ LoopInv /\ UpdaterFollowsMain /\ update \in Nat /\ main' = main
  BY DEF MinerInv, PoolInv, LoopAction, SubmitUpdate, GetResult, UpdateTimesOut, UpdateLost, WakeUp
<1>1. CASE SubmitUpdate /\ update' = update + 1
  <2>1. /\ PoolInv' /\ \A u \in 1..update' : InPool(u)' <=> InPool(u) \/ u = update'
        /\ update' \in 1..update' /\ update' = update + 1
        /\ \A u \in 1..update' : u = update' \/ u \in 1..update
    BY <1>0, <1>1, SubmitKeepsPool
  <2>2. /\ loop = "submit" /\ loop' = "waiting" /\ pool = "open"
        /\ UNCHANGED <<main, pool, stopEvent, abandoned>>
    BY <1>0, <1>1 DEF SubmitUpdate
  <2>3. LoopInv'
    BY <1>0, <2>1, <2>2 DEF LoopInv
  <2>4. UpdaterFollowsMain'
    BY <1>0, <2>1, <2>2 DEF UpdaterFollowsMain, LoopInv
  <2> QED
    BY <2>1, <2>3, <2>4 DEF MinerInv
<1>2. CASE LoopAction /\ UNCHANGED <<update, backlog>>
  <2>1. UNCHANGED <<main, update, stopEvent, pool, backlog, taken, finished>>
    BY <1>0, <1>2 DEF LoopAction, SubmitUpdate, GetResult, UpdateTimesOut, UpdateLost, WakeUp, poolVars
  <2>2. PoolInv' /\ \A u : InPool(u)' <=> InPool(u)
    BY <1>0, <2>1 DEF PoolInv, InPool
  <2>3. loop # "none" /\ loop' \in {"sleeping", "submit", "dead"}
        /\ abandoned \subseteq abandoned' /\ (loop = "waiting" => loop' \in {"sleeping", "dead"})
    BY <1>0, <1>2 DEF LoopAction, SubmitUpdate, GetResult, UpdateTimesOut, UpdateLost, WakeUp
  <2>4. LoopInv'
    BY <1>0, <2>1, <2>2, <2>3 DEF LoopInv
  <2>5. loop = "waiting" /\ InPool(update) => update \in abandoned'
    BY <1>0, <1>2 DEF LoopAction, SubmitUpdate, GetResult, UpdateTimesOut, UpdateLost, WakeUp, PoolInv
  <2>6. loop' = "dead" /\ main = "serving" => pool = "broken"
    BY <1>0, <1>2 DEF LoopAction, SubmitUpdate, GetResult, UpdateTimesOut, UpdateLost, WakeUp, LoopInv
  <2>7. main \notin {"stop_service", "returned"}
    BY <1>0, <1>2 DEF LoopAction, SubmitUpdate, GetResult, UpdateTimesOut, UpdateLost, WakeUp, UpdaterFollowsMain
  <2>8. UpdaterFollowsMain'
    BY <1>0, <2>1, <2>2, <2>3, <2>5, <2>6, <2>7 DEF UpdaterFollowsMain
  <2> QED
    BY <2>2, <2>4, <2>8 DEF MinerInv
<1> QED
  BY <1>1, <1>2 DEF LoopAction, SubmitUpdate, GetResult, UpdateTimesOut, UpdateLost, WakeUp, poolVars

\* Steps of the pool.
LEMMA PoolStepKeepsIInv ==
  ASSUME MinerInv, TakeUp \/ UpdateEnds \/ PoolBreaks
  PROVE  MinerInv'
<1>0. PoolInv /\ LoopInv /\ UpdaterFollowsMain /\ UNCHANGED <<main, loop, update, stopEvent, abandoned>>
  BY DEF MinerInv, TakeUp, UpdateEnds, PoolBreaks
<1>1. CASE TakeUp
  <2>1. PoolInv' /\ (\A u : InPool(u)' <=> InPool(u)) /\ backlog # <<>>
        /\ UNCHANGED <<pool, finished>>
    BY <1>0, <1>1, TakeUpKeepsPool DEF TakeUp
  <2> QED
    BY <1>0, <2>1 DEF MinerInv, LoopInv, UpdaterFollowsMain
<1>2. CASE UpdateEnds
  <2>1. /\ PoolInv' /\ (\A u : InPool(u)' => InPool(u))
        /\ (\A u : InPool(u) => InPool(u)' \/ u \in finished')
        /\ finished \subseteq finished' /\ taken # <<>> /\ UNCHANGED <<pool, backlog>>
    BY <1>0, <1>2, EndKeepsPool DEF UpdateEnds
  <2> QED
    BY <1>0, <2>1 DEF MinerInv, LoopInv, UpdaterFollowsMain
<1>3. CASE PoolBreaks
  <2>1. PoolInv' /\ (\A u : InPool(u)' => InPool(u))
        /\ pool' = "broken" /\ backlog' = <<>> /\ taken # <<>>
    BY <1>0, <1>3, LossKeepsPool DEF PoolBreaks
  <2> QED
    BY <1>0, <2>1 DEF MinerInv, LoopInv, UpdaterFollowsMain
<1> QED
  BY <1>1, <1>2, <1>3

\* Steps of main().
LEMMA MainStepKeepsIInv ==
  ASSUME MinerInv, StartMiner \/ Interrupted \/ StopStep
  PROVE  MinerInv'
<1>0. PoolInv /\ LoopInv /\ UpdaterFollowsMain
      /\ UNCHANGED <<update, taken, finished, abandoned>> /\ backlog' \in {<<>>, backlog}
  BY DEF MinerInv, StartMiner, Interrupted, StopStep, ShutDownPool, JoinLoop, StopService, updaterVars, poolVars
<1>1. PoolInv' /\ \A u : InPool(u)' => InPool(u)
  BY <1>0, LossKeepsPool
<1>2. CASE StartMiner
  <2>1. /\ main = "start" /\ loop = "none" /\ update = 0 /\ backlog' = <<>> /\ taken' = <<>>
        /\ 1..update = {} /\ UNCHANGED stopEvent
    BY <1>0, <1>2 DEF StartMiner, LoopInv
  <2> QED
    BY <1>0, <1>1, <1>2, <2>1 DEF StartMiner, MinerInv, LoopInv, UpdaterFollowsMain
<1>3. CASE Interrupted
  <2>1. UNCHANGED <<loop, pool, backlog>> /\ main = "serving"
        /\ main' = IF loop = "none" THEN "stop_service" ELSE "stop_updater"
    BY <1>3 DEF Interrupted, poolVars
  <2> QED
    BY <1>0, <1>1, <2>1 DEF MinerInv, LoopInv, UpdaterFollowsMain
<1>4. CASE ShutDownPool
  BY <1>0, <1>1, <1>4 DEF ShutDownPool, MinerInv, LoopInv, UpdaterFollowsMain
<1>5. CASE JoinLoop
  BY <1>0, <1>1, <1>5 DEF JoinLoop, updaterVars, poolVars, MinerInv, LoopInv, UpdaterFollowsMain
<1>6. CASE StopService
  BY <1>0, <1>1, <1>6 DEF StopService, updaterVars, poolVars, MinerInv, LoopInv, UpdaterFollowsMain
<1> QED
  BY <1>2, <1>3, <1>4, <1>5, <1>6 DEF StopStep

\* Every step keeps the invariant.
LEMMA NextMinerInv == MinerInv /\ [MinerNext]_minerVars => MinerInv'
<1> SUFFICES ASSUME MinerInv, [MinerNext]_minerVars PROVE MinerInv'
  OBVIOUS
<1>1. CASE UNCHANGED <<main, updaterVars>>
  BY <1>1 DEF MinerInv, PoolInv, LoopInv, UpdaterFollowsMain, InPool, updaterVars, poolVars
<1>2. CASE StartMiner \/ Interrupted \/ StopStep
  BY <1>2, MainStepKeepsIInv
<1>3. CASE LoopAction
  BY <1>3, LoopStepKeepsIInv
<1>4. CASE TakeUp \/ UpdateEnds \/ PoolBreaks
  BY <1>4, PoolStepKeepsIInv
<1>5. CASE \E r \in Posts : PostArrives(r) \/ HandlerStep(r) \/ WorkerStep(r)
  BY <1>1, <1>5, ServiceStep
<1>6. CASE ServiceEnds
  BY <1>1, <1>6 DEF ServiceEnds
<1>7. CASE UNCHANGED minerVars
  BY <1>1, <1>7 DEF minerVars
<1> QED
  BY <1>2, <1>3, <1>4, <1>5, <1>6, <1>7 DEF MinerNext

\* The updater follows main() in every miner: the loop ends only with its pool or when it
\* is told to, updates that time out are all that piles up, and stop() leaves none
\* waiting (axon_updater.py:108-141).
THEOREM UpdaterIsFollowing == MinerSpec => []UpdaterFollowsMain
<1>1. MinerInv => UpdaterFollowsMain
  BY DEF MinerInv
<1> QED
  BY <1>1, InitMinerInv, NextMinerInv, PTL DEF MinerSpec

----------------------------------------------------------------------------
(* The facilitator *)

Outcomes == {"success", "failed"}
Statuses == {"in_progress"} \cup Outcomes
Runs == {At("none"), At("queued")} \cup [pc : {"posting"}, attempt : Nat]
        \cup [pc : {"stopping", "joining", "ending", "done"}, outcome : Outcomes]
OpenStreams == [pc : {"polling", "sending", "closing", "closed", "gone"}, job : Jobs, seen : Nat,
                batch : Seq(Statuses), sent : Seq(Statuses), end : Statuses \cup {"none"}]

FacilitatorTypes ==
  /\ log \in [Jobs -> Seq(Statuses)]
  /\ jobQueue \in Seq(Jobs)
  /\ run \in [Jobs -> Runs]
  /\ stream \in [Streams -> {At("none")} \cup OpenStreams]

\* Only the end of a job makes its log final, and nothing comes after it.
JobInv(j) ==
  /\ \A i \in DOMAIN log[j] : log[j][i] # "in_progress" => i = Len(log[j])
  /\ run[j].pc = "done" => Liveness(j) = run[j].outcome
  /\ run[j].pc # "done" => ~IsTerminal(j)

\* Jobs that wait were not begun, and wait once.
QueueInv ==
  /\ \A i \in DOMAIN jobQueue : run[jobQueue[i]].pc = "queued"
  /\ \A i, k \in DOMAIN jobQueue : i < k => jobQueue[i] # jobQueue[k]

\* A stream has sent what it has seen of its log, and is going to send what follows it.
Faithful(st, full) ==
  /\ st.seen = Len(st.sent) /\ st.seen + Len(st.batch) <= Len(full)
  /\ \A i \in 1..st.seen : st.sent[i] = full[i]
  /\ \A i \in 1..Len(st.batch) : st.batch[i] = full[st.seen + i]

StreamInv(s) ==
  stream[s].pc # "none" =>
    /\ Faithful(stream[s], log[stream[s].job])
    /\ stream[s].end # "none" =>
         IsTerminal(stream[s].job) /\ stream[s].end = Liveness(stream[s].job)

FacilitatorInv ==
  /\ FacilitatorTypes /\ QueueInv
  /\ \A j \in Jobs : JobInv(j)
  /\ \A s \in Streams : StreamInv(s)

----------------------------------------------------------------------------
(* Logs *)

\* What a log may become: it grows, and one that is final does not.
LogsGrow ==
  \A j \in Jobs :
    /\ Len(log[j]) <= Len(log'[j])
    /\ \A i \in 1..Len(log[j]) : log'[j][i] = log[j][i]
    /\ IsTerminal(j) => log'[j] = log[j]

\* Appending to the log of a job concerns that job only, and is refused when it ended.
LEMMA AppendGrows ==
  ASSUME FacilitatorTypes, NEW j \in Jobs, NEW l \in Statuses, AppendStatus(j, l)
  PROVE  /\ log' \in [Jobs -> Seq(Statuses)] /\ LogsGrow
         /\ \A k \in Jobs \ {j} : log'[k] = log[k]
         /\ IsTerminal(j) => log'[j] = log[j]
         /\ ~IsTerminal(j) => log'[j] = Append(log[j], l)
<1>1. log \in [Jobs -> Seq(Statuses)] /\ \A k \in Jobs : log[k] \in Seq(Statuses) /\ Len(log[k]) \in Nat
  BY DEF FacilitatorTypes
<1>2. CASE IsTerminal(j)
  BY <1>1, <1>2 DEF AppendStatus, LogsGrow
<1>3. CASE ~IsTerminal(j)
  <2>1. log' = [log EXCEPT ![j] = Append(@, l)]
    BY <1>3 DEF AppendStatus
  <2>2. /\ Append(log[j], l) \in Seq(Statuses) /\ Len(Append(log[j], l)) = Len(log[j]) + 1
        /\ \A i \in 1..Len(log[j]) : Append(log[j], l)[i] = log[j][i]
    BY <1>1
  <2>3. log' \in [Jobs -> Seq(Statuses)] /\ log'[j] = Append(log[j], l)
        /\ \A k \in Jobs \ {j} : log'[k] = log[k]
    BY <1>1, <2>1, <2>2
  <2>4. LogsGrow
    <3>1. ASSUME NEW k \in Jobs
          PROVE  /\ Len(log[k]) <= Len(log'[k])
                 /\ \A i \in 1..Len(log[k]) : log'[k][i] = log[k][i]
                 /\ IsTerminal(k) => log'[k] = log[k]
      <4>1. CASE k = j
        BY <1>1, <1>3, <2>2, <2>3, <4>1
      <4>2. CASE k # j
        BY <1>1, <2>3, <4>2
      <4> QED
        BY <4>1, <4>2
    <3> QED
      BY <3>1 DEF LogsGrow
  <2> QED
    BY <1>3, <2>3, <2>4
<1> QED
  BY <1>2, <1>3

\* A log that stays as it is has grown by nothing.
LEMMA SameLogsGrow ==
  ASSUME FacilitatorTypes, UNCHANGED log
  PROVE  LogsGrow
BY DEF FacilitatorTypes, LogsGrow

\* A log whose last status was not final stays well formed when one is appended.
LEMMA AppendedLog ==
  ASSUME NEW j \in Jobs, NEW l \in Statuses, FacilitatorTypes, ~IsTerminal(j),
         \A i \in DOMAIN log[j] : log[j][i] # "in_progress" => i = Len(log[j]),
         log'[j] = Append(log[j], l)
  PROVE  /\ \A i \in DOMAIN log'[j] : log'[j][i] # "in_progress" => i = Len(log'[j])
         /\ Liveness(j)' = l
<1>1. log[j] \in Seq(Statuses) /\ Len(log[j]) \in Nat /\ DOMAIN log[j] = 1..Len(log[j])
  BY DEF FacilitatorTypes
<1>2. /\ Len(log'[j]) = Len(log[j]) + 1 /\ DOMAIN log'[j] = 1..(Len(log[j]) + 1)
      /\ \A i \in DOMAIN log[j] : log'[j][i] = log[j][i]
      /\ log'[j][Len(log[j]) + 1] = l /\ log'[j] # <<>>
  BY <1>1
<1>3. \A i \in DOMAIN log[j] : log[j][i] = "in_progress"
  <2>1. ASSUME NEW i \in DOMAIN log[j], log[j][i] # "in_progress" PROVE FALSE
    <3>1. i = Len(log[j]) /\ log[j] # <<>>
      BY <1>1, <2>1
    <3> QED
      BY <2>1, <3>1 DEF IsTerminal, Liveness
  <2> QED
    BY <2>1
<1>4. \A i \in DOMAIN log'[j] : i \in DOMAIN log[j] \/ i = Len(log'[j])
  BY <1>1, <1>2
<1> QED
  BY <1>2, <1>3, <1>4 DEF Liveness

\* What was seen and what is to be sent lies within a log that is long enough.
LEMMA Within ==
  ASSUME NEW seen \in Nat, NEW rest \in Nat, NEW len \in Nat, NEW more \in Nat,
         seen + rest <= len, len <= more
  PROVE  /\ seen + rest <= more
         /\ \A i \in 1..seen : i \in 1..len
         /\ \A i \in 1..rest : seen + i \in 1..len
OBVIOUS

\* A stream stays faithful while its log grows.
LEMMA FaithfulKept ==
  ASSUME NEW st \in OpenStreams, NEW full \in Seq(Statuses), NEW grown \in Seq(Statuses),
         Faithful(st, full), Len(full) <= Len(grown),
         \A i \in 1..Len(full) : grown[i] = full[i]
  PROVE  Faithful(st, grown)
<1>1. st.seen \in Nat /\ Len(st.batch) \in Nat /\ Len(full) \in Nat /\ Len(grown) \in Nat
  BY DEF OpenStreams
<1>2. st.seen + Len(st.batch) <= Len(full)
  BY DEF Faithful
<1>3. /\ st.seen + Len(st.batch) <= Len(grown)
      /\ \A i \in 1..st.seen : i \in 1..Len(full)
      /\ \A i \in 1..Len(st.batch) : st.seen + i \in 1..Len(full)
  BY <1>1, <1>2, Within
<1> QED
  BY <1>3 DEF Faithful

\* So do all streams, while logs grow.
LEMMA StreamKept ==
  ASSUME FacilitatorTypes, NEW s \in Streams, StreamInv(s), LogsGrow, stream'[s] = stream[s],
         log' \in [Jobs -> Seq(Statuses)]
  PROVE  StreamInv(s)'
<1> SUFFICES ASSUME stream[s].pc # "none" PROVE StreamInv(s)'
  BY DEF StreamInv
<1>1. stream[s] \in OpenStreams /\ stream[s].job \in Jobs
  BY DEF FacilitatorTypes, OpenStreams, At
<1>2. /\ log[stream[s].job] \in Seq(Statuses) /\ log'[stream[s].job] \in Seq(Statuses)
      /\ Len(log[stream[s].job]) <= Len(log'[stream[s].job])
      /\ \A i \in 1..Len(log[stream[s].job]) : log'[stream[s].job][i] = log[stream[s].job][i]
      /\ IsTerminal(stream[s].job) => log'[stream[s].job] = log[stream[s].job]
  BY <1>1 DEF LogsGrow, FacilitatorTypes
<1>3. Faithful(stream[s], log'[stream[s].job])
  BY <1>1, <1>2, FaithfulKept DEF StreamInv
<1>4. stream[s].end # "none" =>
        IsTerminal(stream[s].job)' /\ stream'[s].end = Liveness(stream[s].job)'
  BY <1>2 DEF StreamInv, IsTerminal, Liveness
<1> QED
  BY <1>3, <1>4 DEF StreamInv

----------------------------------------------------------------------------
(* Steps *)

\* Jobs and streams start with nothing.
LEMMA InitFacilitatorInv == FacilitatorInit => FacilitatorInv
<1> SUFFICES ASSUME FacilitatorInit PROVE FacilitatorInv
  OBVIOUS
<1>1. <<>> \in Seq(Statuses) /\ <<>> \in Seq(Jobs) /\ DOMAIN <<>> = {} /\ At("none") \in Runs
      /\ At("none").pc = "none"
  BY DEF Runs, At
<1>2. FacilitatorTypes /\ QueueInv
  BY <1>1 DEF FacilitatorInit, NoJobs, FacilitatorTypes, QueueInv
<1>3. ASSUME NEW j \in Jobs PROVE JobInv(j)
  BY <1>1, <1>3 DEF FacilitatorInit, NoJobs, JobInv, IsTerminal, Liveness
<1>4. ASSUME NEW s \in Streams PROVE StreamInv(s)
  BY <1>1, <1>4 DEF FacilitatorInit, NoJobs, StreamInv
<1> QED
  BY <1>2, <1>3, <1>4 DEF FacilitatorInv

\* Whatever else a step does to jobs, their streams stay faithful.
LEMMA StreamsKept ==
  ASSUME FacilitatorInv, LogsGrow, log' \in [Jobs -> Seq(Statuses)], UNCHANGED stream
  PROVE  \A s \in Streams : StreamInv(s)'
<1>1. ASSUME NEW s \in Streams PROVE StreamInv(s)'
  <2>1. StreamInv(s) /\ FacilitatorTypes /\ stream'[s] = stream[s]
    BY DEF FacilitatorInv
  <2> QED
    BY <2>1, StreamKept
<1> QED
  BY <1>1

\* Where a job is.
LEMMA RunTypes ==
  ASSUME NEW p \in Runs
  PROVE  /\ p.pc = "posting" => p.attempt \in Nat
         /\ p.pc \in {"stopping", "joining", "ending", "done"} => p.outcome \in Outcomes
BY DEF Runs, At

\* A job that goes on, neither waiting nor ended, disturbs nothing.
LEMMA GoesOn ==
  ASSUME FacilitatorInv, NEW j \in Jobs, NEW p \in Runs, run' = [run EXCEPT ![j] = p],
         run[j].pc \notin {"queued", "done"}, p.pc \notin {"queued", "done"},
         UNCHANGED <<log, jobQueue, stream>>
  PROVE  FacilitatorInv'
<1>1. FacilitatorTypes /\ run \in [Jobs -> Runs] /\ jobQueue \in Seq(Jobs)
  BY DEF FacilitatorInv, FacilitatorTypes
<1>2. FacilitatorTypes'
  BY <1>1 DEF FacilitatorTypes
<1>3. \A i \in DOMAIN jobQueue : jobQueue[i] \in Jobs /\ jobQueue[i] # j
  BY <1>1 DEF FacilitatorInv, QueueInv
<1>4. QueueInv'
  BY <1>1, <1>3 DEF FacilitatorInv, QueueInv
<1>5. ASSUME NEW k \in Jobs PROVE JobInv(k)'
  BY <1>1, <1>5 DEF FacilitatorInv, JobInv, IsTerminal, Liveness
<1>6. \A s \in Streams : StreamInv(s)'
  BY <1>1, SameLogsGrow, StreamsKept DEF FacilitatorTypes
<1> QED
  BY <1>2, <1>4, <1>5, <1>6 DEF FacilitatorInv

\* A job is queued once, when it is new.
LEMMA CatifyStep ==
  ASSUME FacilitatorInv, NEW j \in Jobs, Catify(j)
  PROVE  FacilitatorInv'
<1>1. /\ FacilitatorTypes /\ run \in [Jobs -> Runs] /\ jobQueue \in Seq(Jobs)
      /\ run' = [run EXCEPT ![j] = At("queued")] /\ jobQueue' = Append(jobQueue, j)
      /\ run[j].pc = "none" /\ UNCHANGED <<log, stream>> /\ At("queued").pc = "queued"
      /\ At("queued") \in Runs
  BY DEF FacilitatorInv, FacilitatorTypes, Catify, At, Runs
<1>2. /\ Len(jobQueue) \in Nat /\ DOMAIN jobQueue = 1..Len(jobQueue)
      /\ jobQueue' \in Seq(Jobs) /\ DOMAIN jobQueue' = 1..(Len(jobQueue) + 1)
      /\ \A i \in DOMAIN jobQueue : jobQueue'[i] = jobQueue[i] /\ jobQueue[i] \in Jobs
      /\ jobQueue'[Len(jobQueue) + 1] = j
  BY <1>1
<1>3. FacilitatorTypes'
  BY <1>1, <1>2 DEF FacilitatorTypes
<1>4. \A i \in DOMAIN jobQueue : run[jobQueue[i]].pc = "queued" /\ jobQueue[i] # j
  BY <1>1 DEF FacilitatorInv, QueueInv
<1>5. QueueInv'
  <2>1. ASSUME NEW i \in DOMAIN jobQueue' PROVE run'[jobQueue'[i]].pc = "queued"
    <3>1. CASE i \in DOMAIN jobQueue
      BY <1>1, <1>2, <1>4, <3>1
    <3>2. CASE i = Len(jobQueue) + 1
      BY <1>1, <1>2, <3>2
    <3> QED
      BY <1>2, <3>1, <3>2
  <2>2. ASSUME NEW i \in DOMAIN jobQueue', NEW k \in DOMAIN jobQueue', i < k
        PROVE  jobQueue'[i] # jobQueue'[k]
    <3>1. i \in DOMAIN jobQueue
      BY <1>2, <2>2
    <3>2. CASE k \in DOMAIN jobQueue
      BY <1>2, <2>2, <3>1, <3>2 DEF FacilitatorInv, QueueInv
    <3>3. CASE k = Len(jobQueue) + 1
      BY <1>2, <1>4, <3>1, <3>3
    <3> QED
      BY <1>2, <3>2, <3>3
  <2> QED
    BY <2>1, <2>2 DEF QueueInv
<1>6. ASSUME NEW k \in Jobs PROVE JobInv(k)'
  BY <1>1, <1>6 DEF FacilitatorInv, JobInv, IsTerminal, Liveness
<1>7. \A s \in Streams : StreamInv(s)'
  BY <1>1, SameLogsGrow, StreamsKept DEF FacilitatorTypes
<1> QED
  BY <1>3, <1>5, <1>6, <1>7 DEF FacilitatorInv

\* The first of the queue begins, and is in the queue no more.
LEMMA BeginStep ==
  ASSUME FacilitatorInv, BeginJob
  PROVE  FacilitatorInv'
<1> DEFINE j == Head(jobQueue)
<1> DEFINE p == [pc |-> "posting", attempt |-> 1]
<1>1. /\ FacilitatorTypes /\ run \in [Jobs -> Runs] /\ jobQueue \in Seq(Jobs) /\ jobQueue # <<>>
      /\ run' = [run EXCEPT ![j] = p] /\ jobQueue' = Tail(jobQueue)
      /\ AppendStatus(j, "in_progress") /\ UNCHANGED stream
      /\ p \in Runs /\ p.pc = "posting"
  BY DEF FacilitatorInv, FacilitatorTypes, BeginJob, Runs
<1>2. /\ Len(jobQueue) \in Nat /\ DOMAIN jobQueue = 1..Len(jobQueue) /\ 1 \in DOMAIN jobQueue
      /\ j = jobQueue[1] /\ j \in Jobs
      /\ jobQueue' \in Seq(Jobs) /\ DOMAIN jobQueue' = 1..(Len(jobQueue) - 1)
      /\ \A i \in DOMAIN jobQueue' : i + 1 \in DOMAIN jobQueue /\ jobQueue'[i] = jobQueue[i + 1]
      /\ \A i \in DOMAIN jobQueue : jobQueue[i] \in Jobs
  BY <1>1
<1>3. run[j].pc = "queued" /\ JobInv(j) /\ ~IsTerminal(j)
  BY <1>2 DEF FacilitatorInv, QueueInv, JobInv
<1>4. /\ log' \in [Jobs -> Seq(Statuses)] /\ LogsGrow
      /\ \A k \in Jobs \ {j} : log'[k] = log[k]
      /\ log'[j] = Append(log[j], "in_progress")
  BY <1>1, <1>2, <1>3, AppendGrows DEF Statuses
<1>5. FacilitatorTypes'
  BY <1>1, <1>2, <1>4 DEF FacilitatorTypes
<1>6. QueueInv'
  <2>1. ASSUME NEW i \in DOMAIN jobQueue'
        PROVE  /\ i + 1 \in DOMAIN jobQueue /\ 1 < i + 1 /\ jobQueue'[i] = jobQueue[i + 1]
               /\ jobQueue[i + 1] # j /\ run'[jobQueue'[i]].pc = "queued"
    <3>1. i + 1 \in DOMAIN jobQueue /\ 1 < i + 1 /\ jobQueue'[i] = jobQueue[i + 1]
      BY <1>2, <2>1
    <3>2. jobQueue[i + 1] # j /\ jobQueue[i + 1] \in Jobs /\ run[jobQueue[i + 1]].pc = "queued"
      BY <1>2, <3>1 DEF FacilitatorInv, QueueInv
    <3> QED
      BY <1>1, <3>1, <3>2
  <2>2. ASSUME NEW i \in DOMAIN jobQueue', NEW k \in DOMAIN jobQueue', i < k
        PROVE  jobQueue'[i] # jobQueue'[k]
    <3>1. i + 1 \in DOMAIN jobQueue /\ k + 1 \in DOMAIN jobQueue /\ i + 1 < k + 1
      BY <1>2, <2>2
    <3> QED
      BY <1>2, <3>1 DEF FacilitatorInv, QueueInv
  <2> QED
    BY <2>1, <2>2 DEF QueueInv
<1>7. ASSUME NEW k \in Jobs PROVE JobInv(k)'
  <2>1. CASE k = j
    <3>1. /\ \A i \in DOMAIN log'[j] : log'[j][i] # "in_progress" => i = Len(log'[j])
          /\ Liveness(k)' = "in_progress"
      BY <1>1, <1>2, <1>3, <1>4, <2>1, AppendedLog DEF Statuses, JobInv
    <3>2. run'[k].pc = "posting"
      BY <1>1, <1>2, <2>1
    <3> QED
      BY <2>1, <3>1, <3>2 DEF JobInv, IsTerminal
  <2>2. CASE k # j
    BY <1>1, <1>2, <1>4, <1>7, <2>2 DEF FacilitatorInv, JobInv, IsTerminal, Liveness
  <2> QED
    BY <2>1, <2>2
<1>8. \A s \in Streams : StreamInv(s)'
  BY <1>1, <1>4, StreamsKept
<1> QED
  BY <1>5, <1>6, <1>7, <1>8 DEF FacilitatorInv

\* The end of a job is its status, which no other was before.
LEMMA EndStep ==
  ASSUME FacilitatorInv, NEW j \in Jobs, EndJob(j)
  PROVE  FacilitatorInv'
<1> DEFINE p == [pc |-> "done", outcome |-> run[j].outcome]
<1>1. /\ FacilitatorTypes /\ run \in [Jobs -> Runs] /\ jobQueue \in Seq(Jobs)
      /\ run[j].pc = "ending" /\ AppendStatus(j, run[j].outcome)
      /\ run' = [run EXCEPT ![j] = p] /\ p.pc = "done" /\ p.outcome = run[j].outcome
      /\ UNCHANGED <<jobQueue, stream>>
  BY DEF FacilitatorInv, FacilitatorTypes, EndJob
<1>2. /\ run[j].outcome \in Outcomes /\ run[j].outcome \in Statuses
      /\ run[j].outcome # "in_progress" /\ p \in Runs
  BY <1>1, RunTypes DEF Outcomes, Statuses, Runs
<1>3. JobInv(j) /\ ~IsTerminal(j)
  BY <1>1 DEF FacilitatorInv, JobInv
<1>4. /\ log' \in [Jobs -> Seq(Statuses)] /\ LogsGrow
      /\ \A k \in Jobs \ {j} : log'[k] = log[k]
      /\ log'[j] = Append(log[j], run[j].outcome)
  BY <1>1, <1>2, <1>3, AppendGrows
<1>5. FacilitatorTypes'
  BY <1>1, <1>2, <1>4 DEF FacilitatorTypes
<1>6. QueueInv'
  <2>1. \A i \in DOMAIN jobQueue : jobQueue[i] \in Jobs /\ jobQueue[i] # j
    BY <1>1 DEF FacilitatorInv, QueueInv
  <2> QED
    BY <1>1, <2>1 DEF FacilitatorInv, QueueInv
<1>7. ASSUME NEW k \in Jobs PROVE JobInv(k)'
  <2>1. CASE k = j
    <3>1. /\ \A i \in DOMAIN log'[j] : log'[j][i] # "in_progress" => i = Len(log'[j])
          /\ Liveness(k)' = run[j].outcome
      BY <1>1, <1>2, <1>3, <1>4, <2>1, AppendedLog DEF JobInv
    <3>2. run'[k].pc = "done" /\ run'[k].outcome = run[j].outcome
      BY <1>1, <2>1
    <3> QED
      BY <2>1, <3>1, <3>2 DEF JobInv
  <2>2. CASE k # j
    BY <1>1, <1>4, <1>7, <2>2 DEF FacilitatorInv, JobInv, IsTerminal, Liveness
  <2> QED
    BY <2>1, <2>2
<1>8. \A s \in Streams : StreamInv(s)'
  BY <1>1, <1>4, StreamsKept
<1> QED
  BY <1>5, <1>6, <1>7, <1>8 DEF FacilitatorInv

\* A ticker adds a waiting message to a job that has not ended, and nothing to one that has.
LEMMA TickStep ==
  ASSUME FacilitatorInv, NEW j \in Jobs, Tick(j)
  PROVE  FacilitatorInv'
<1>1. /\ FacilitatorTypes /\ AppendStatus(j, "in_progress") /\ UNCHANGED <<run, jobQueue, stream>>
      /\ JobInv(j)
  BY DEF FacilitatorInv, Tick
<1>2. /\ log' \in [Jobs -> Seq(Statuses)] /\ LogsGrow
      /\ \A k \in Jobs \ {j} : log'[k] = log[k]
      /\ IsTerminal(j) => log'[j] = log[j]
      /\ ~IsTerminal(j) => log'[j] = Append(log[j], "in_progress")
  BY <1>1, AppendGrows DEF Statuses
<1>3. FacilitatorTypes' /\ QueueInv'
  BY <1>1, <1>2 DEF FacilitatorInv, FacilitatorTypes, QueueInv
<1>4. ASSUME NEW k \in Jobs PROVE JobInv(k)'
  <2>1. CASE k = j /\ ~IsTerminal(j)
    <3>1. /\ \A i \in DOMAIN log'[j] : log'[j][i] # "in_progress" => i = Len(log'[j])
          /\ Liveness(k)' = "in_progress"
      BY <1>1, <1>2, <2>1, AppendedLog DEF Statuses, JobInv
    <3>2. run'[k].pc # "done"
      <4>1. CASE run[j].pc = "done"
        <5>1. run[j].outcome # "in_progress"
          BY <1>1, <4>1, RunTypes DEF FacilitatorTypes, Outcomes
        <5> QED
          BY <1>1, <2>1, <4>1, <5>1 DEF JobInv, IsTerminal
      <4> QED
        BY <1>1, <2>1, <4>1
    <3> QED
      BY <2>1, <3>1, <3>2 DEF JobInv, IsTerminal
  <2>2. CASE k # j \/ IsTerminal(j)
    <3>1. log'[k] = log[k] /\ run'[k] = run[k] /\ JobInv(k)
      BY <1>1, <1>2, <1>4, <2>2 DEF FacilitatorInv
    <3> QED
      BY <3>1 DEF JobInv, IsTerminal, Liveness
  <2> QED
    BY <2>1, <2>2
<1>5. \A s \in Streams : StreamInv(s)'
  BY <1>1, <1>2, StreamsKept
<1> QED
  BY <1>3, <1>4, <1>5 DEF FacilitatorInv

\* A stream that stays faithful disturbs nothing.
LEMMA BecomesKeeps ==
  ASSUME FacilitatorInv, NEW s \in Streams, NEW st \in OpenStreams, Becomes(s, st),
         Faithful(st, log[st.job]),
         st.end # "none" => IsTerminal(st.job) /\ st.end = Liveness(st.job)
  PROVE  FacilitatorInv'
<1>1. /\ stream' = [stream EXCEPT ![s] = st] /\ UNCHANGED <<log, jobQueue, run>>
      /\ FacilitatorTypes
  BY DEF Becomes, jobVars, FacilitatorInv
<1>2. FacilitatorTypes' /\ QueueInv'
  BY <1>1 DEF FacilitatorInv, FacilitatorTypes, QueueInv
<1>3. \A j \in Jobs : JobInv(j)'
  BY <1>1 DEF FacilitatorInv, JobInv, IsTerminal, Liveness
<1>4. ASSUME NEW t \in Streams PROVE StreamInv(t)'
  <2>1. CASE t = s
    <3>1. stream'[t] = st
      BY <1>1, <2>1 DEF FacilitatorTypes
    <3> QED
      BY <1>1, <3>1 DEF StreamInv, IsTerminal, Liveness
  <2>2. CASE t # s
    <3>1. stream'[t] = stream[t] /\ StreamInv(t)
      BY <1>1, <2>2 DEF FacilitatorTypes, FacilitatorInv
    <3> QED
      BY <1>1, <3>1 DEF StreamInv, IsTerminal, Liveness
  <2> QED
    BY <2>1, <2>2
<1> QED
  BY <1>2, <1>3, <1>4 DEF FacilitatorInv

\* What was copied out of the log, and what is sent of it, is what comes next in the log.
LEMMA BatchIsNext ==
  ASSUME NEW st \in OpenStreams, NEW full \in Seq(Statuses), Faithful(st, full)
  PROVE  /\ LET next == SubSeq(full, st.seen + 1, Len(full)) IN
              /\ next \in Seq(Statuses) /\ st.seen + Len(next) <= Len(full)
              /\ \A i \in 1..Len(next) : next[i] = full[st.seen + i]
         /\ st.batch # <<>> =>
              /\ Head(st.batch) \in Statuses /\ Tail(st.batch) \in Seq(Statuses)
              /\ Len(Tail(st.batch)) = Len(st.batch) - 1 /\ Len(st.batch) >= 1
              /\ Head(st.batch) = full[st.seen + 1]
              /\ \A i \in 1..Len(Tail(st.batch)) : Tail(st.batch)[i] = full[(st.seen + 1) + i]
<1>1. st.seen \in Nat /\ Len(full) \in Nat /\ st.batch \in Seq(Statuses) /\ Len(st.batch) \in Nat
  BY DEF OpenStreams
<1>2. st.seen + Len(st.batch) <= Len(full)
      /\ \A i \in 1..Len(st.batch) : st.batch[i] = full[st.seen + i]
  BY DEF Faithful
<1>3. ASSUME NEW seen \in Nat, seen <= Len(full)
      PROVE  LET next == SubSeq(full, seen + 1, Len(full)) IN
               /\ next \in Seq(Statuses) /\ seen + Len(next) <= Len(full)
               /\ \A i \in 1..Len(next) : next[i] = full[seen + i]
  BY <1>1, <1>3
<1>4. st.seen <= Len(full)
  BY <1>1, <1>2
<1>5. ASSUME NEW q \in Seq(Statuses), q # <<>>
      PROVE  /\ Head(q) \in Statuses /\ Head(q) = q[1] /\ Tail(q) \in Seq(Statuses)
             /\ Len(q) >= 1 /\ Len(Tail(q)) = Len(q) - 1
             /\ \A i \in 1..Len(Tail(q)) : i + 1 \in 1..Len(q) /\ Tail(q)[i] = q[i + 1]
  BY <1>5
<1>6. ASSUME NEW seen \in Nat, NEW i \in Nat PROVE seen + (i + 1) = (seen + 1) + i
  BY <1>6
<1>7. LET next == SubSeq(full, st.seen + 1, Len(full)) IN
        /\ next \in Seq(Statuses) /\ st.seen + Len(next) <= Len(full)
        /\ \A i \in 1..Len(next) : next[i] = full[st.seen + i]
  BY <1>1, <1>3, <1>4
<1>8. ASSUME st.batch # <<>>
      PROVE  /\ Head(st.batch) \in Statuses /\ Tail(st.batch) \in Seq(Statuses)
             /\ Len(Tail(st.batch)) = Len(st.batch) - 1 /\ Len(st.batch) >= 1
             /\ Head(st.batch) = full[st.seen + 1]
             /\ \A i \in 1..Len(Tail(st.batch)) : Tail(st.batch)[i] = full[(st.seen + 1) + i]
  <2>1. /\ Head(st.batch) \in Statuses /\ Head(st.batch) = st.batch[1]
        /\ Tail(st.batch) \in Seq(Statuses) /\ Len(st.batch) >= 1
        /\ Len(Tail(st.batch)) = Len(st.batch) - 1
        /\ \A i \in 1..Len(Tail(st.batch)) : i + 1 \in 1..Len(st.batch) /\ Tail(st.batch)[i] = st.batch[i + 1]
    BY <1>1, <1>5, <1>8
  <2>2. 1 \in 1..Len(st.batch)
    BY <1>1, <2>1
  <2>3. ASSUME NEW i \in 1..Len(Tail(st.batch))
        PROVE  Tail(st.batch)[i] = full[(st.seen + 1) + i]
    <3>1. i \in Nat /\ st.seen + (i + 1) = (st.seen + 1) + i
      BY <1>1, <1>6, <2>1
    <3> QED
      BY <1>2, <2>1, <3>1
  <2> QED
    BY <1>2, <2>1, <2>2, <2>3
<1> QED
  BY <1>7, <1>8

\* The updates that are polled are those that come next.
LEMMA PollStep ==
  ASSUME FacilitatorInv, NEW s \in Streams, PollLog(s)
  PROVE  FacilitatorInv'
<1> DEFINE st == stream[s]
<1> DEFINE next == SubSeq(log[st.job], st.seen + 1, Len(log[st.job]))
<1> DEFINE new == [st EXCEPT !.pc = "sending", !.batch = next]
<1>1. FacilitatorTypes /\ StreamInv(s) /\ Becomes(s, new) /\ st.pc # "none"
  BY DEF FacilitatorInv, PollLog
<1>2. st \in OpenStreams /\ log[st.job] \in Seq(Statuses)
  BY <1>1 DEF FacilitatorTypes, OpenStreams, At
<1>3. Faithful(st, log[st.job])
  BY <1>1 DEF StreamInv
<1>4. /\ next \in Seq(Statuses) /\ st.seen + Len(next) <= Len(log[st.job])
      /\ \A i \in 1..Len(next) : next[i] = log[st.job][st.seen + i]
  BY <1>2, <1>3, BatchIsNext
<1>5. /\ new \in OpenStreams /\ new.job = st.job /\ new.seen = st.seen /\ new.sent = st.sent
      /\ new.batch = next /\ new.end = st.end
  BY <1>2, <1>4 DEF OpenStreams
<1>6. Faithful(new, log[new.job])
  BY <1>3, <1>4, <1>5 DEF Faithful
<1>7. new.end # "none" => IsTerminal(new.job) /\ new.end = Liveness(new.job)
  BY <1>1, <1>5 DEF StreamInv
<1> QED
  BY <1>1, <1>5, <1>6, <1>7, BecomesKeeps

\* Sending moves one update from what is to be sent to what was seen.
LEMMA OneSent ==
  ASSUME NEW st \in OpenStreams, NEW full \in Seq(Statuses), Faithful(st, full), st.batch # <<>>
  PROVE  (st.seen + 1) + Len(Tail(st.batch)) <= Len(full)
<1>1. /\ st.seen \in Nat /\ Len(st.batch) \in Nat /\ Len(full) \in Nat
      /\ st.seen + Len(st.batch) <= Len(full)
  BY DEF OpenStreams, Faithful
<1>2. Len(Tail(st.batch)) = Len(st.batch) - 1
  BY BatchIsNext
<1>3. ASSUME NEW seen \in Nat, NEW rest \in Nat, NEW len \in Nat, seen + rest <= len
      PROVE  (seen + 1) + (rest - 1) <= len
  BY <1>3
<1> QED
  BY <1>1, <1>2, <1>3

\* The update that is sent is the next of the log.
LEMMA SendStep ==
  ASSUME FacilitatorInv, NEW s \in Streams, SendUpdate(s)
  PROVE  FacilitatorInv'
<1> DEFINE st == stream[s]
<1> DEFINE new == [st EXCEPT !.sent = Append(st.sent, Head(st.batch)), !.batch = Tail(st.batch),
                             !.seen = st.seen + 1]
<1>1. /\ FacilitatorTypes /\ StreamInv(s) /\ Becomes(s, new)
      /\ st.pc # "none" /\ st.batch # <<>>
  BY DEF FacilitatorInv, SendUpdate
<1>2. /\ st \in OpenStreams /\ log[st.job] \in Seq(Statuses) /\ st.seen \in Nat
      /\ st.sent \in Seq(Statuses)
  BY <1>1 DEF FacilitatorTypes, OpenStreams, At
<1>3. Faithful(st, log[st.job])
  BY <1>1 DEF StreamInv
<1>4. /\ Head(st.batch) \in Statuses /\ Tail(st.batch) \in Seq(Statuses)
      /\ Len(Tail(st.batch)) = Len(st.batch) - 1 /\ Len(st.batch) >= 1
      /\ Head(st.batch) = log[st.job][st.seen + 1]
      /\ \A i \in 1..Len(Tail(st.batch)) : Tail(st.batch)[i] = log[st.job][(st.seen + 1) + i]
  BY <1>1, <1>2, <1>3, BatchIsNext
<1>5. /\ Append(st.sent, Head(st.batch)) \in Seq(Statuses)
      /\ Len(Append(st.sent, Head(st.batch))) = Len(st.sent) + 1
      /\ \A i \in 1..Len(st.sent) : Append(st.sent, Head(st.batch))[i] = st.sent[i]
      /\ Append(st.sent, Head(st.batch))[Len(st.sent) + 1] = Head(st.batch)
  BY <1>2, <1>4
<1>6. /\ new \in OpenStreams /\ new.job = st.job /\ new.seen = st.seen + 1
      /\ new.sent = Append(st.sent, Head(st.batch)) /\ new.batch = Tail(st.batch)
      /\ new.end = st.end
  <2>1. PICK sent \in Seq(Statuses) : sent = Append(st.sent, Head(st.batch))
    BY <1>5
  <2>2. PICK batch \in Seq(Statuses) : batch = Tail(st.batch)
    BY <1>4
  <2>3. PICK seen \in Nat : seen = st.seen + 1
    BY <1>2
  <2>4. new = [st EXCEPT !.sent = sent, !.batch = batch, !.seen = seen]
    BY <2>1, <2>2, <2>3, Zenon
  <2> HIDE DEF new
  <2>5. /\ new \in OpenStreams /\ new.job = st.job /\ new.seen = seen
        /\ new.sent = sent /\ new.batch = batch /\ new.end = st.end
    BY <1>2, <2>1, <2>2, <2>3, <2>4 DEF OpenStreams
  <2> QED
    BY <2>1, <2>2, <2>3, <2>5
<1>7. Faithful(new, log[new.job])
  <2>1. /\ st.seen = Len(st.sent) /\ st.seen + Len(st.batch) <= Len(log[st.job])
        /\ \A i \in 1..st.seen : st.sent[i] = log[st.job][i]
    BY <1>3 DEF Faithful
  <2>2. (st.seen + 1) + Len(Tail(st.batch)) <= Len(log[st.job])
    BY <1>1, <1>2, <1>3, OneSent
  <2>3. ASSUME NEW i \in 1..(st.seen + 1)
        PROVE  Append(st.sent, Head(st.batch))[i] = log[st.job][i]
    <3>1. i \in 1..st.seen \/ i = st.seen + 1
      BY <1>2
    <3> QED
      BY <1>4, <1>5, <2>1, <3>1
  <2> QED
    BY <1>4, <1>5, <1>6, <2>1, <2>2, <2>3 DEF Faithful
<1>8. new.end # "none" => IsTerminal(new.job) /\ new.end = Liveness(new.job)
  BY <1>1, <1>6 DEF StreamInv
<1> QED
  BY <1>1, <1>6, <1>7, <1>8, BecomesKeeps

\* A stream that goes on to another state, with the outcome of a job that has ended.
LEMMA MoveStep ==
  ASSUME FacilitatorInv, NEW s \in Streams, EndBatch(s) \/ CloseStream(s) \/ Disconnect(s)
  PROVE  FacilitatorInv'
<1> DEFINE st == stream[s]
<1>1. FacilitatorTypes /\ StreamInv(s) /\ st.pc # "none"
  BY DEF FacilitatorInv, EndBatch, CloseStream, Disconnect
<1>2. st \in OpenStreams /\ st.job \in Jobs /\ log[st.job] \in Seq(Statuses)
  BY <1>1 DEF FacilitatorTypes, OpenStreams, At
<1>3. /\ Faithful(st, log[st.job])
      /\ st.end # "none" => IsTerminal(st.job) /\ st.end = Liveness(st.job)
  BY <1>1 DEF StreamInv
<1>4. Liveness(st.job) \in Statuses
  BY <1>2 DEF Liveness, Statuses
<1>5. ASSUME NEW pc \in {"polling", "sending", "closing", "closed", "gone"},
             NEW end \in Statuses \cup {"none"},
             end = st.end \/ (IsTerminal(st.job) /\ end = Liveness(st.job)),
             Becomes(s, [st EXCEPT !.pc = pc, !.end = end])
      PROVE  FacilitatorInv'
  <2> DEFINE new == [st EXCEPT !.pc = pc, !.end = end]
  <2>1. /\ new \in OpenStreams /\ new.job = st.job /\ new.seen = st.seen /\ new.sent = st.sent
        /\ new.batch = st.batch /\ new.end = end
    BY <1>2, <1>5 DEF OpenStreams
  <2>2. Faithful(new, log[new.job])
    BY <1>3, <2>1 DEF Faithful
  <2>3. new.end # "none" => IsTerminal(new.job) /\ new.end = Liveness(new.job)
    BY <1>3, <1>5, <2>1
  <2> QED
    BY <1>5, <2>1, <2>2, <2>3, BecomesKeeps
<1>6. ASSUME NEW pc \in {"polling", "sending", "closing", "closed", "gone"},
             Becomes(s, [st EXCEPT !.pc = pc])
      PROVE  FacilitatorInv'
  <2>1. [st EXCEPT !.pc = pc] = [st EXCEPT !.pc = pc, !.end = st.end] /\ st.end \in Statuses \cup {"none"}
    BY <1>2 DEF OpenStreams
  <2> QED
    BY <1>5, <1>6, <2>1
<1>7. CASE EndBatch(s)
  <2>1. CASE IsTerminal(st.job)
    BY <1>4, <1>5, <1>7, <2>1 DEF EndBatch
  <2>2. CASE ~IsTerminal(st.job)
    BY <1>6, <1>7, <2>2 DEF EndBatch
  <2> QED
    BY <2>1, <2>2
<1>8. CASE CloseStream(s)
  BY <1>6, <1>8 DEF CloseStream
<1>9. CASE Disconnect(s)
  BY <1>6, <1>9 DEF Disconnect
<1> QED
  BY <1>7, <1>8, <1>9

\* A new stream has sent nothing.
LEMMA OpenStep ==
  ASSUME FacilitatorInv, NEW s \in Streams, NEW j \in Jobs, OpenStream(s, j)
  PROVE  FacilitatorInv'
<1> DEFINE new == [pc |-> "polling", job |-> j, seen |-> 0, batch |-> <<>>, sent |-> <<>>, end |-> "none"]
<1>1. FacilitatorTypes /\ Becomes(s, new)
  BY DEF FacilitatorInv, OpenStream
<1>2. log[j] \in Seq(Statuses) /\ Len(log[j]) \in Nat /\ <<>> \in Seq(Statuses) /\ Len(<<>>) = 0
  BY <1>1 DEF FacilitatorTypes
<1>3. new \in OpenStreams
  BY <1>2 DEF OpenStreams
<1>4. Faithful(new, log[new.job])
  BY <1>2 DEF Faithful
<1> QED
  BY <1>1, <1>3, <1>4, BecomesKeeps

\* Every step keeps the invariant.
LEMMA NextFacilitatorInv == FacilitatorInv /\ [FacilitatorNext]_facilitatorVars => FacilitatorInv'
<1> SUFFICES ASSUME FacilitatorInv, [FacilitatorNext]_facilitatorVars PROVE FacilitatorInv'
  OBVIOUS
<1>1. ASSUME NEW j \in Jobs, Catify(j) PROVE FacilitatorInv'
  BY <1>1, CatifyStep
<1>2. ASSUME NEW j \in Jobs, SubmitSucceeds(j) \/ SubmitFails(j) \/ StopTicker(j) \/ JoinTicker(j)
      PROVE  FacilitatorInv'
  <2>1. /\ run[j] \in Runs /\ UNCHANGED <<log, jobQueue, stream>>
        /\ run[j].pc \notin {"queued", "done"}
    BY <1>2 DEF FacilitatorInv, FacilitatorTypes, SubmitSucceeds, SubmitFails, StopTicker, JoinTicker
  <2>2. ASSUME NEW n \in Nat, run' = [run EXCEPT ![j] = [pc |-> "posting", attempt |-> n]]
        PROVE  FacilitatorInv'
    <3>1. [pc |-> "posting", attempt |-> n] \in Runs
      BY DEF Runs
    <3> QED
      BY <2>1, <2>2, <3>1, GoesOn
  <2>3. ASSUME NEW pc \in {"stopping", "joining", "ending"}, NEW outcome \in Outcomes,
               run' = [run EXCEPT ![j] = [pc |-> pc, outcome |-> outcome]]
        PROVE  FacilitatorInv'
    <3>1. [pc |-> pc, outcome |-> outcome] \in Runs
      BY DEF Runs
    <3> QED
      BY <2>1, <2>3, <3>1, GoesOn
  <2>4. CASE SubmitSucceeds(j)
    BY <2>3, <2>4 DEF SubmitSucceeds, Outcomes
  <2>5. CASE SubmitFails(j)
    <3>1. run[j].attempt + 1 \in Nat
      BY <2>1, <2>5, RunTypes DEF SubmitFails
    <3>2. CASE run[j].attempt < MaxRetries
      BY <2>2, <2>5, <3>1, <3>2 DEF SubmitFails
    <3>3. CASE ~(run[j].attempt < MaxRetries)
      BY <2>3, <2>5, <3>3 DEF SubmitFails, Outcomes
    <3> QED
      BY <3>2, <3>3
  <2>6. CASE StopTicker(j)
    <3>1. run[j].outcome \in Outcomes
      BY <2>1, <2>6, RunTypes DEF StopTicker
    <3> QED
      BY <2>3, <2>6, <3>1 DEF StopTicker
  <2>7. CASE JoinTicker(j)
    <3>1. run[j].outcome \in Outcomes
      BY <2>1, <2>7, RunTypes DEF JoinTicker
    <3> QED
      BY <2>3, <2>7, <3>1 DEF JoinTicker
  <2> QED
    BY <1>2, <2>4, <2>5, <2>6, <2>7
<1>3. ASSUME NEW j \in Jobs, EndJob(j) PROVE FacilitatorInv'
  BY <1>3, EndStep
<1>4. ASSUME NEW j \in Jobs, Tick(j) PROVE FacilitatorInv'
  BY <1>4, TickStep
<1>5. CASE BeginJob
  BY <1>5, BeginStep
<1>6. ASSUME NEW s \in Streams, StreamStep(s) \/ Disconnect(s) PROVE FacilitatorInv'
  BY <1>6, PollStep, SendStep, MoveStep DEF StreamStep
<1>7. ASSUME NEW s \in Streams, NEW j \in Jobs, OpenStream(s, j) PROVE FacilitatorInv'
  BY <1>7, OpenStep
<1>8. ASSUME UNCHANGED <<log, jobQueue, run, stream>> PROVE FacilitatorInv'
  BY <1>8 DEF FacilitatorInv, FacilitatorTypes, QueueInv, JobInv, StreamInv, IsTerminal, Liveness
<1>9. ASSUME NEW j \in Jobs, TickerWakes(j) PROVE FacilitatorInv'
  BY <1>8, <1>9 DEF TickerWakes
<1>10. CASE UNCHANGED facilitatorVars
  BY <1>8, <1>10 DEF facilitatorVars, jobVars
<1> QED
  BY <1>1, <1>2, <1>3, <1>4, <1>5, <1>6, <1>7, <1>9, <1>10 DEF FacilitatorNext, JobStep

\* A log ends with its only final status, and streams send their log in its order, without
\* a gap, and close with the outcome of the job, in every facilitator
\* (worker.py:62-95, stores.py:80-87, ui.py:48-63).
THEOREM StreamsStayFaithful == FacilitatorSpec => []StreamsAreFaithful
<1>1. FacilitatorInv => StreamsAreFaithful
  <2> SUFFICES ASSUME FacilitatorInv PROVE StreamsAreFaithful
    OBVIOUS
  <2>1. ASSUME NEW s \in Streams, stream[s].pc # "none"
        PROVE  /\ IsPrefix(stream[s].sent, log[stream[s].job])
               /\ stream[s].end # "none" =>
                    stream[s].end = Liveness(stream[s].job) /\ stream[s].end # "in_progress"
    <3>1. /\ Faithful(stream[s], log[stream[s].job])
          /\ stream[s].end # "none" =>
               IsTerminal(stream[s].job) /\ stream[s].end = Liveness(stream[s].job)
      BY <2>1 DEF FacilitatorInv, StreamInv
    <3>2. stream[s] \in OpenStreams /\ log[stream[s].job] \in Seq(Statuses)
      BY <2>1 DEF FacilitatorInv, FacilitatorTypes, OpenStreams, At
    <3>3. ASSUME NEW sent \in Seq(Statuses), NEW full \in Seq(Statuses), Len(sent) <= Len(full),
                 \A i \in 1..Len(sent) : sent[i] = full[i]
          PROVE  IsPrefix(sent, full)
      BY <3>3 DEF IsPrefix
    <3>4. Len(stream[s].sent) <= Len(log[stream[s].job])
      <4>1. stream[s].seen \in Nat /\ Len(stream[s].batch) \in Nat /\ Len(log[stream[s].job]) \in Nat
        BY <3>2 DEF OpenStreams
      <4>2. stream[s].seen + Len(stream[s].batch) <= Len(log[stream[s].job])
        BY <3>1 DEF Faithful
      <4>3. stream[s].seen <= Len(log[stream[s].job])
        BY <4>1, <4>2
      <4> QED
        BY <3>1, <4>3 DEF Faithful
    <3>5. IsPrefix(stream[s].sent, log[stream[s].job])
      BY <3>1, <3>2, <3>3, <3>4 DEF Faithful, OpenStreams
    <3> QED
      BY <3>1, <3>5 DEF IsTerminal
  <2>2. \A j \in Jobs : JobInv(j)
    BY DEF FacilitatorInv
  <2> QED
    BY <2>1, <2>2 DEF StreamsAreFaithful, JobInv
<1> QED
  BY <1>1, InitFacilitatorInv, NextFacilitatorInv, PTL DEF FacilitatorSpec

----------------------------------------------------------------------------
(* The REST entry point *)


Answers == {Answer(k) : k \in 1..MaxOutputs}

\* Where a request is: the states of its task, its futures and its reply that go
\* together, who may have cancelled it, and that its first output finds its entry.
RequestInv(r) ==
  /\ task[r] \in {"none", "created", "registered"} =>
       wrapped[r] = <<>> /\ calls[r] = {} /\ r \notin expired /\ outputs[r] = 0
  /\ task[r] \in {"none", "created"} => future[r] = <<>>
  /\ task[r] \in {"registered", "put", "waiting"} => future[r] # <<>>
  /\ task[r] = "done" <=> reply[r] # NoReply
  /\ r \in entries => task[r] \in {"registered", "put", "waiting"}
                      /\ future[r] \in {Pending, Cancelled}
  /\ "set_state" \in calls[r] => Done(future[r])
  /\ "check_cancel" \in calls[r] => r \in expired
  /\ wrapped[r] \in Answers => future[r] = wrapped[r]
  /\ wrapped[r] = Cancelled => r \in expired \/ (Stopping /\ future[r] = Cancelled)
  /\ future[r] = Cancelled => r \in expired \/ Stopping
  /\ future[r] \in Answers => future[r] = Answer(1) /\ outputs[r] >= 1
  /\ reply[r] \in {Refused, ServerError} => outputs[r] = 0
  /\ reply[r] \in Answers => reply[r] = Answer(1) /\ future[r] = Answer(1)
  /\ reply[r] = GatewayTimeout => r \in expired
  /\ reply[r] = ServiceUnavailable => Stopping /\ future[r] = Cancelled
  /\ r \notin missed
  /\ /\ outputs[r] = 0 /\ r \notin expired /\ ~Stopping
     /\ task[r] \notin {"none", "created"} /\ reply[r] \notin {Refused, ServerError}
     => r \in entries

\* What the actor holds was taken out of the store, and was there.
ActorInv ==
  /\ actor.pc \in {"popped", "checked"} =>
       /\ actor.out.num = 1 /\ actor.out.req \notin entries
       /\ future[actor.out.req] \in {Pending, Cancelled} /\ outputs[actor.out.req] >= 1
  /\ actor.pc = "canceling" => \A r \in actor.left : future[r] # <<>>

\* The outputs of a request come in their order, and the first one while it is in the
\* store, unless it expired or the actor stops.
InboxInv ==
  /\ \A i \in DOMAIN inbox : inbox[i] # Stop =>
       /\ inbox[i].num <= outputs[inbox[i].req]
       /\ inbox[i].num = 1 => inbox[i].req \in entries \cup expired \/ Stopping
  /\ \A i, j \in DOMAIN inbox :
       i < j /\ inbox[i] # Stop /\ inbox[j] # Stop /\ inbox[i].req = inbox[j].req
         => inbox[i].num < inbox[j].num
  /\ \A r \in entries : outputs[r] >= 1 => \E i \in DOMAIN inbox : inbox[i] = Output(r, 1)

EntryPointInv == TypeOK /\ (\A r \in Requests : RequestInv(r)) /\ ActorInv /\ InboxInv

----------------------------------------------------------------------------
(* Values *)

\* Replies and states of a future are told apart.
LEMMA ValuesDiffer ==
  /\ Pending # Cancelled /\ Pending # <<>> /\ Cancelled # <<>>
  /\ \A k \in 1..MaxOutputs :
       Answer(k) \notin {<<>>, Pending, Cancelled, NoReply, Refused, ServerError,
                         ServiceUnavailable, GatewayTimeout}
  /\ \A j, k \in 1..MaxOutputs : Answer(j) = Answer(k) => j = k
  /\ NoReply \notin {Refused, ServerError, ServiceUnavailable, GatewayTimeout}
  /\ Refused \notin {ServerError, ServiceUnavailable, GatewayTimeout}
  /\ ServerError \notin {ServiceUnavailable, GatewayTimeout}
  /\ ServiceUnavailable # GatewayTimeout
BY DEF Pending, Cancelled, Answer, NoReply, Refused, ServerError, ServiceUnavailable, GatewayTimeout

\* The actor's states are told apart.
LEMMA ActorStates ==
  ASSUME TypeOK
  PROVE  /\ actor.pc \in {"starting", "idle", "popped", "checked", "canceling", "ended"}
         /\ actor.pc = "starting" => actor = Starting
         /\ actor.pc = "idle" => actor = Idle
         /\ actor.pc = "ended" => actor = Ended
         /\ actor.pc \in {"popped", "checked"} =>
              actor.out \in OutputEvents /\ actor = Resolving(actor.pc, actor.out)
         /\ actor.pc = "canceling" =>
              actor.left \in SUBSET Requests /\ actor = Canceling(actor.left)
BY DEF TypeOK, Places, Starting, Idle, Ended, Resolving, Canceling

\* What the constructors make.
LEMMA ActorValues ==
  /\ Starting.pc = "starting" /\ Idle.pc = "idle" /\ Ended.pc = "ended"
  /\ \A p, o : Resolving(p, o).pc = p /\ Resolving(p, o).out = o
  /\ \A s : Canceling(s).pc = "canceling" /\ Canceling(s).left = s
BY DEF Starting, Idle, Ended, Resolving, Canceling

\* Events of the inbox.
LEMMA EventValues ==
  /\ \A o \in OutputEvents : o # Stop /\ o.req \in Requests /\ o.num \in 1..MaxOutputs
                             /\ o = Output(o.req, o.num)
  /\ \A r \in Requests, k \in 1..MaxOutputs :
       Output(r, k) \in OutputEvents /\ Output(r, k).req = r /\ Output(r, k).num = k
BY DEF OutputEvents, Stop, Output

\* A finished future stays what it is.
LEMMA DoneValues ==
  ASSUME NEW f \in Futures
  PROVE  Done(f) <=> f = Cancelled \/ f \in Answers
BY ValuesDiffer DEF Done, Futures, Answers

----------------------------------------------------------------------------
(* Types *)

\* The types of what belongs to the requests, and of the rest.
RequestTypes ==
  /\ task \in [Requests -> {"none", "created", "registered", "put", "waiting", "done"}]
  /\ future \in [Requests -> Futures] /\ wrapped \in [Requests -> Futures]
  /\ calls \in [Requests -> Calls]
  /\ expired \subseteq Requests /\ entries \subseteq Requests
  /\ reply \in [Requests -> Replies]
  /\ outputs \in [Requests -> 0..MaxOutputs]
  /\ missed \subseteq Requests

ActorTypes ==
  /\ inbox \in Seq(Events)
  /\ actor \in Places
  /\ server \in {"starting", "running", "exiting", "ended"} /\ should_exit \in BOOLEAN

\* They are the type invariant.
LEMMA TypesSplit == TypeOK <=> RequestTypes /\ ActorTypes
BY Zenon DEF TypeOK, RequestTypes, ActorTypes

\* The values that steps assign have their types.
LEMMA FutureTypes ==
  /\ <<>> \in Futures /\ Pending \in Futures /\ Cancelled \in Futures
  /\ \A k \in 1..MaxOutputs : Answer(k) \in Futures
BY DEF Futures

LEMMA ReplyTypes ==
  /\ NoReply \in Replies /\ Refused \in Replies /\ ServerError \in Replies
  /\ ServiceUnavailable \in Replies /\ GatewayTimeout \in Replies
  /\ \A f \in Futures : Done(f) /\ f # Cancelled => f \in Replies
BY DoneValues DEF Replies, Answers

LEMMA CallTypes ==
  /\ {} \in Calls /\ {"set_state"} \in Calls
  /\ \A c \in Calls : c \cup {"set_state"} \in Calls /\ c \cup {"check_cancel"} \in Calls
  /\ \A c \in Calls, d \in {"set_state", "check_cancel"} : c \ {d} \in Calls
BY DEF Calls

\* Finishing a future.
LEMMA FinishTypes ==
  ASSUME RequestTypes, NEW r \in Requests, NEW v \in Futures, Finish(r, v)
  PROVE  future' \in [Requests -> Futures] /\ calls' \in [Requests -> Calls]
<1>1. future' \in [Requests -> Futures]
  BY DEF Finish, RequestTypes
<1>2. calls[r] \cup {"set_state"} \in Calls
  BY CallTypes DEF RequestTypes
<1>3. calls' = calls \/ calls' = [calls EXCEPT ![r] = calls[r] \cup {"set_state"}]
  BY DEF Finish, RequestTypes
<1> QED
  BY <1>1, <1>2, <1>3 DEF RequestTypes

LEMMA PlaceTypes ==
  /\ Starting \in Places /\ Idle \in Places /\ Ended \in Places
  /\ \A s \in SUBSET Requests : Canceling(s) \in Places
  /\ \A o \in OutputEvents : Resolving("popped", o) \in Places /\ Resolving("checked", o) \in Places
BY Zenon DEF Places

LEMMA EventTypes ==
  /\ Stop \in Events
  /\ \A o \in OutputEvents : o \in Events
  /\ \A e \in Events : e # Stop => e \in OutputEvents
BY Zenon DEF Events

\* Changing a function at one argument keeps its type.
LEMMA ExceptType ==
  ASSUME NEW S, NEW T, NEW f \in [S -> T], NEW x \in S, NEW v \in T
  PROVE  [f EXCEPT ![x] = v] \in [S -> T]
OBVIOUS

\* An element of a sequence is in its set.
LEMMA SeqParts ==
  ASSUME NEW S, NEW q \in Seq(S)
  PROVE  /\ \A e \in S : Append(q, e) \in Seq(S)
         /\ q # <<>> => Head(q) \in S /\ Tail(q) \in Seq(S)
         /\ \A i \in DOMAIN q : q[i] \in S
OBVIOUS

\* Steps of a request's task and of its loop keep the types.
LEMMA TaskTypes ==
  ASSUME TypeOK, NEW r \in Requests,
         Refuse(r) \/ Accept(r) \/ TaskStep(r) \/ LoopStep(r) \/ Expire(r)
  PROVE  TypeOK'
<1>0. RequestTypes /\ ActorTypes
  BY TypesSplit
<1>1. ActorTypes'
  BY <1>0 DEF Refuse, Accept, TaskStep, Register, Put, PutFails, Wait, Answered, TimedOut, Aborted,
              LoopStep, SetState, CheckCancel, Expire, actorVars, serverVars, ActorTypes
<1>2. outputs' = outputs /\ missed' = missed
  BY DEF Refuse, Accept, TaskStep, Register, Put, PutFails, Wait, Answered, TimedOut, Aborted,
         LoopStep, SetState, CheckCancel, Expire, actorVars
<1> SUFFICES RequestTypes'
  BY Zenon, <1>1 DEF TypeOK, RequestTypes, ActorTypes
<1>3. CASE Refuse(r)
  BY <1>0, <1>2, <1>3, ReplyTypes DEF Refuse, Reply, Goto, futureVars, RequestTypes
<1>4. CASE Accept(r)
  BY <1>0, <1>2, <1>4 DEF Accept, Goto, futureVars, RequestTypes
<1>5. CASE Register(r)
  BY <1>0, <1>2, <1>5, FutureTypes DEF Register, Goto, RequestTypes
<1>6. CASE Put(r)
  BY <1>0, <1>2, <1>6 DEF Put, Goto, futureVars, RequestTypes
<1>7. CASE PutFails(r)
  BY <1>0, <1>2, <1>7, ReplyTypes DEF PutFails, Reply, Goto, futureVars, RequestTypes
<1>8. CASE Wait(r)
  BY <1>0, <1>2, <1>8, FutureTypes, CallTypes DEF Wait, Goto, RequestTypes
<1>9. CASE Answered(r)
  BY <1>0, <1>2, <1>9, ReplyTypes DEF Answered, Awake, Reply, Goto, futureVars, RequestTypes
<1>10. CASE TimedOut(r) \/ Aborted(r)
  BY <1>0, <1>2, <1>10, FutureTypes, ReplyTypes DEF TimedOut, Aborted, Abandon, Reply, Goto, RequestTypes
<1>11. CASE SetState(r)
  BY <1>0, <1>2, <1>11, CallTypes DEF SetState, taskVars, RequestTypes
<1>12. CASE CheckCancel(r)
  <2>1. \A c \in Calls : (c \ {"check_cancel"}) \cup {} \in Calls
                        /\ (c \ {"check_cancel"}) \cup {"set_state"} \in Calls
    BY DEF Calls
  <2>2. calls' \in [Requests -> Calls]
    BY <1>0, <1>12, <2>1 DEF CheckCancel, RequestTypes
  <2>3. future' \in [Requests -> Futures]
    BY <1>0, <1>12, FutureTypes DEF CheckCancel, RequestTypes
  <2> QED
    BY <1>0, <1>2, <1>12, <2>2, <2>3 DEF CheckCancel, taskVars, RequestTypes
<1>13. CASE Expire(r)
  <2>1. calls' \in [Requests -> Calls] /\ wrapped' \in [Requests -> Futures]
    <3>1. calls[r] \cup {"check_cancel"} \in Calls
      BY <1>0, CallTypes DEF RequestTypes
    <3>2. \/ wrapped' = wrapped /\ calls' = calls
          \/ /\ wrapped' = [wrapped EXCEPT ![r] = Cancelled]
             /\ calls' = [calls EXCEPT ![r] = calls[r] \cup {"check_cancel"}]
      BY <1>0, <1>13 DEF Expire, RequestTypes
    <3> QED
      BY <1>0, <3>1, <3>2, FutureTypes DEF RequestTypes
  <2> QED
    BY <1>0, <1>2, <1>13, <2>1 DEF Expire, RequestTypes
<1> QED
  BY <1>3, <1>4, <1>5, <1>6, <1>7, <1>8, <1>9, <1>10, <1>11, <1>12, <1>13 DEF TaskStep, LoopStep

\* Steps of the graph, the actor and the server keep them.
LEMMA ActorTypesKept ==
  ASSUME TypeOK, (\E r \in Requests : GraphEmits(r)) \/ RequestStop \/ ActorStep \/ ServerStep
  PROVE  TypeOK'
<1> SUFFICES RequestTypes' /\ ActorTypes'
  BY Zenon DEF TypeOK, RequestTypes, ActorTypes
<1>0. RequestTypes /\ ActorTypes
  BY TypesSplit
<1>1. ASSUME NEW r \in Requests, GraphEmits(r)
      PROVE  RequestTypes' /\ ActorTypes'
  <2>1. outputs[r] + 1 \in 1..MaxOutputs /\ outputs' = [outputs EXCEPT ![r] = outputs[r] + 1]
    BY <1>0, <1>1, EntryAssumption DEF GraphEmits, RequestTypes
  <2>2. outputs'[r] = outputs[r] + 1
    BY <1>0, <2>1 DEF RequestTypes
  <2>3. Output(r, outputs'[r]) \in OutputEvents
    BY <2>1, <2>2, EventValues
  <2>4. inbox' \in Seq(Events)
    BY <1>0, <1>1, <2>3, SeqParts, EventTypes DEF GraphEmits, ActorTypes
  <2> QED
    BY <1>0, <1>1, <2>1, <2>4 DEF GraphEmits, RequestTypes, ActorTypes, taskVars, futureVars, serverVars
<1>2. CASE RequestStop
  <2>1. inbox' \in Seq(Events)
    BY <1>0, <1>2, SeqParts, EventTypes DEF RequestStop, ActorTypes
  <2> QED
    BY <1>0, <1>2, <2>1 DEF RequestStop, RequestTypes, ActorTypes, taskVars, futureVars, serverVars
<1>3. CASE StartUp \/ StartUpFails \/ StopServer
  BY <1>0, <1>3, PlaceTypes DEF StartUp, StartUpFails, StopServer, RequestTypes, ActorTypes, taskVars, futureVars,
                    serverVars
<1>4. CASE Resolve
  <2> DEFINE o == Head(inbox)
  <2>1. o \in OutputEvents /\ inbox' \in Seq(Events)
    BY <1>0, <1>4, SeqParts, EventTypes DEF Resolve, ActorTypes
  <2>2. o.req \in Requests
    BY <2>1, EventValues
  <2>3. missed' \subseteq Requests /\ entries' \subseteq Requests
    BY <1>0, <1>4, <2>2 DEF Resolve, Drop, RequestTypes
  <2>4. actor' = actor \/ actor' = Resolving("popped", o)
    BY <1>4 DEF Resolve
  <2> HIDE DEF o
  <2> QED
    BY <1>0, <1>4, <2>1, <2>3, <2>4, PlaceTypes DEF Resolve, RequestTypes, ActorTypes, taskVars, futureVars, serverVars
<1>5. CASE CheckDone \/ SetResult
  <2> DEFINE o == actor.out
  <2>1. o \in OutputEvents /\ o.req \in Requests /\ o.num \in 1..MaxOutputs
    BY <1>5, ActorStates, EventValues DEF CheckDone, SetResult
  <2>2. missed' \subseteq Requests
    BY <1>0, <1>5, <2>1 DEF CheckDone, SetResult, Drop, RequestTypes
  <2>3. future' \in [Requests -> Futures]
        /\ calls' \in [Requests -> Calls]
    <3>1. Answer(o.num) \in Futures
      BY <2>1, FutureTypes
    <3>2. UNCHANGED <<future, calls>> \/ Finish(o.req, Answer(o.num))
      BY <1>5 DEF CheckDone, SetResult, futureVars
    <3> QED
      BY <1>0, <2>1, <3>1, <3>2, FinishTypes DEF RequestTypes
  <2>4. actor' \in {Idle, Resolving("checked", o)}
    BY <1>5 DEF CheckDone, SetResult
  <2> HIDE DEF o
  <2> QED
    BY <1>0, <1>5, <2>1, <2>2, <2>3, <2>4, PlaceTypes
       DEF CheckDone, SetResult, RequestTypes, ActorTypes, taskVars, futureVars, serverVars
<1>6. CASE CancelAll
  <2>1. inbox' \in Seq(Events)
    BY <1>0, <1>6, SeqParts, EventTypes DEF CancelAll, ActorTypes
  <2> QED
    BY <1>0, <1>6, <2>1, PlaceTypes DEF CancelAll, RequestTypes, ActorTypes, taskVars, futureVars, serverVars
<1>7. CASE CancelOne
  <2>1. PICK r \in actor.left :
          /\ actor' = Canceling(actor.left \ {r})
          /\ IF Done(future[r]) THEN UNCHANGED <<future, calls>> ELSE Finish(r, Cancelled)
    BY <1>7 DEF CancelOne
  <2>2. actor.left \in SUBSET Requests
    BY <1>7, ActorStates DEF CancelOne
  <2>3. future' \in [Requests -> Futures]
        /\ calls' \in [Requests -> Calls]
    BY <1>0, <2>1, <2>2, FutureTypes, FinishTypes DEF RequestTypes
  <2>4. \E s \in SUBSET Requests : actor' = Canceling(s)
    BY <2>1, <2>2
  <2> QED
    BY <1>0, <1>7, <2>3, <2>4, PlaceTypes DEF CancelOne, RequestTypes, ActorTypes, taskVars, serverVars
<1>8. CASE ServerStep
  BY <1>0, <1>8 DEF ServerStep, ServerStarts, ServerExits, ServerEnds, RequestTypes, ActorTypes,
                    taskVars, futureVars, actorVars
<1> QED
  BY <1>1, <1>2, <1>3, <1>4, <1>5, <1>6, <1>7, <1>8 DEF ActorStep

\* Every step keeps the types.
LEMMA TypeStep == TypeOK /\ [Next]_vars => TypeOK'
<1> SUFFICES ASSUME TypeOK, [Next]_vars PROVE TypeOK'
  OBVIOUS
<1>1. CASE UNCHANGED vars
  BY <1>1 DEF vars, taskVars, futureVars, actorVars, serverVars, TypeOK
<1> QED
  BY <1>1, TaskTypes, ActorTypesKept DEF Next

\* The initial state has the types.
LEMMA InitTypes == Init => TypeOK
<1> SUFFICES ASSUME Init PROVE TypeOK
  OBVIOUS
<1>1. RequestTypes
  BY FutureTypes, ReplyTypes, CallTypes, EntryAssumption DEF Init, NoRequests, RequestTypes
<1>2. ActorTypes
  <2>1. inbox \in Seq(Events)
    BY DEF Init, NoRequests
  <2>2. actor \in Places
    BY Zenon, PlaceTypes DEF Init
  <2> QED
    BY <2>1, <2>2 DEF Init, NoRequests, ActorTypes
<1> QED
  BY <1>1, <1>2, TypesSplit

\* Every variable keeps its type.
THEOREM TypeCorrectness == Spec => []TypeOK
BY InitTypes, TypeStep, PTL DEF Spec

----------------------------------------------------------------------------
(* The invariant, one request at a time *)

\* All there is to know of futures and replies in the steps below.
LEMMA Values ==
  /\ Pending # Cancelled /\ Pending # <<>> /\ Cancelled # <<>>
  /\ NoReply \notin {Refused, ServerError, ServiceUnavailable, GatewayTimeout}
  /\ Refused \notin {ServerError, ServiceUnavailable, GatewayTimeout}
  /\ ServerError \notin {ServiceUnavailable, GatewayTimeout}
  /\ ServiceUnavailable # GatewayTimeout
  /\ \A a \in Answers : a \notin {<<>>, Pending, Cancelled, NoReply, Refused, ServerError,
                                  ServiceUnavailable, GatewayTimeout}
  /\ \A f \in Futures : f \in {<<>>, Pending, Cancelled} \/ f \in Answers
  /\ \A f \in Futures : Done(f) <=> f = Cancelled \/ f \in Answers
<1>1. \A f \in Futures : f \in {<<>>, Pending, Cancelled} \/ f \in Answers
  BY DEF Futures, Answers
<1>2. \A a \in Answers : a \notin {<<>>, Pending, Cancelled, NoReply, Refused, ServerError,
                                   ServiceUnavailable, GatewayTimeout}
  BY ValuesDiffer DEF Answers
<1> QED
  BY <1>1, <1>2, ValuesDiffer, DoneValues

\* The values of one request.
Same(q) ==
  /\ task'[q] = task[q] /\ future'[q] = future[q] /\ wrapped'[q] = wrapped[q]
  /\ calls'[q] = calls[q] /\ reply'[q] = reply[q] /\ outputs'[q] = outputs[q]
  /\ (q \in expired' <=> q \in expired) /\ (q \in entries' <=> q \in entries)
  /\ (q \in missed' <=> q \in missed)

\* A request a step does not touch keeps its part of the invariant.
LEMMA RequestFrame ==
  ASSUME NEW q \in Requests, RequestInv(q), Same(q), Stopping => Stopping'
  PROVE  RequestInv(q)'
BY DEF RequestInv, Same

\* The actor thread does nothing.
ActorRests == actor' = actor /\ inbox' = inbox /\ outputs' = outputs /\ missed' = missed

RequestStep(r) == Refuse(r) \/ Accept(r) \/ TaskStep(r) \/ LoopStep(r) \/ Expire(r)

\* A step of a request, of its loop callbacks or of its timer leaves the actor alone.
LEMMA RequestStepRests ==
  ASSUME NEW r \in Requests, RequestStep(r)
  PROVE  ActorRests
BY DEF RequestStep, Refuse, Accept, TaskStep, Register, Put, PutFails, Wait, Answered, TimedOut, Aborted,
       LoopStep, SetState, CheckCancel, Expire, actorVars, ActorRests

\* It leaves the other requests alone.
LEMMA OthersUntouched ==
  ASSUME TypeOK, NEW r \in Requests, RequestStep(r), NEW q \in Requests, q # r
  PROVE  Same(q)
<1>1. RequestTypes
  BY TypesSplit
<1>2. outputs' = outputs /\ missed' = missed
  BY RequestStepRests DEF ActorRests
<1>3. CASE Refuse(r) \/ Accept(r) \/ Answered(r) \/ Put(r)
  BY <1>1, <1>2, <1>3 DEF Refuse, Accept, Answered, Put, Reply, Goto, futureVars, Same, RequestTypes
<1>4. CASE Register(r) \/ Wait(r)
  BY <1>1, <1>2, <1>4 DEF Register, Wait, Goto, Same, RequestTypes
<1>5. CASE PutFails(r) \/ TimedOut(r) \/ Aborted(r)
  BY <1>1, <1>2, <1>5 DEF PutFails, TimedOut, Aborted, Abandon, Reply, Goto, futureVars, Same, RequestTypes
<1>6. CASE LoopStep(r) \/ Expire(r)
  BY <1>1, <1>2, <1>6 DEF LoopStep, SetState, CheckCancel, Expire, taskVars, Same, RequestTypes
<1> QED
  BY <1>3, <1>4, <1>5, <1>6 DEF RequestStep, TaskStep

\* It keeps the part of the invariant that is about its request.
LEMMA OwnRequest ==
  ASSUME TypeOK, NEW r \in Requests, RequestInv(r), RequestStep(r)
  PROVE  RequestInv(r)'
<1>0. RequestTypes
  BY TypesSplit
<1>1. outputs' = outputs /\ missed' = missed /\ (Stopping' <=> Stopping)
  BY RequestStepRests DEF ActorRests, Stopping
<1>2. CASE Refuse(r)
  BY <1>0, <1>1, <1>2, Values DEF Refuse, Reply, Goto, futureVars, RequestTypes, RequestInv
<1>3. CASE Accept(r)
  BY <1>0, <1>1, <1>3, Values DEF Accept, Goto, futureVars, RequestTypes, RequestInv
<1>4. CASE Register(r)
  BY <1>0, <1>1, <1>4, Values DEF Register, Goto, RequestTypes, RequestInv
<1>5. CASE Put(r)
  BY <1>0, <1>1, <1>5, Values DEF Put, Goto, futureVars, RequestTypes, RequestInv
<1>6. CASE PutFails(r)
  BY <1>0, <1>1, <1>6, Values DEF PutFails, Reply, Goto, futureVars, RequestTypes, RequestInv
<1>7. CASE Wait(r)
  BY <1>0, <1>1, <1>7, Values DEF Wait, Goto, RequestTypes, RequestInv
<1>8. CASE Answered(r)
  BY <1>0, <1>1, <1>8, Values DEF Answered, Awake, Reply, Goto, futureVars, RequestTypes, RequestInv
<1>9. CASE TimedOut(r)
  BY <1>0, <1>1, <1>9, Values DEF TimedOut, Awake, Abandon, Reply, Goto, RequestTypes, RequestInv
<1>10. CASE Aborted(r)
  BY <1>0, <1>1, <1>10, Values DEF Aborted, Awake, Abandon, Reply, Goto, RequestTypes, RequestInv
<1>11. CASE SetState(r)
  BY <1>0, <1>1, <1>11, Values DEF SetState, taskVars, RequestTypes, RequestInv
<1>12. CASE CheckCancel(r)
  <2>1. /\ "check_cancel" \in calls[r] /\ "check_cancel" \notin calls'[r]
        /\ "set_state" \in calls'[r] => "set_state" \in calls[r] \/ future'[r] = Cancelled
        /\ future'[r] = IF Done(future[r]) THEN future[r] ELSE Cancelled
    BY <1>0, <1>12 DEF CheckCancel, RequestTypes
  <2>2. /\ r \in expired /\ task[r] \notin {"none", "created", "registered"}
        /\ future[r] \in Answers => future'[r] = future[r]
        /\ future[r] \notin Answers => future'[r] = Cancelled
    <3>1. r \in expired /\ task[r] \notin {"none", "created", "registered"}
      BY <2>1 DEF RequestInv
    <3>2. future[r] \in Futures
      BY <1>0 DEF RequestTypes
    <3> QED
      BY <2>1, <3>1, <3>2, Values
  <2>3. /\ UNCHANGED <<task, reply, expired, wrapped, entries>>
    BY <1>12 DEF CheckCancel, taskVars
  <2>4. Done(Cancelled)
    BY Values, FutureTypes
  <2>5. task[r] = "waiting" \/ task[r] = "put" \/ task[r] = "done"
    BY <1>0, <2>2 DEF RequestTypes
  <2> QED
    BY <1>0, <1>1, <2>1, <2>2, <2>3, <2>4, <2>5, Values DEF RequestTypes, RequestInv
<1>13. CASE Expire(r)
  BY <1>0, <1>1, <1>13, Values DEF Expire, RequestTypes, RequestInv
<1> QED
  BY <1>2, <1>3, <1>4, <1>5, <1>6, <1>7, <1>8, <1>9, <1>10, <1>11, <1>12, <1>13
     DEF RequestStep, TaskStep, LoopStep

----------------------------------------------------------------------------
(* The actor's and the inbox's part *)

\* A step of a request cancels no future that has an answer, and starts none but for a
\* request that is new.
LEMMA FutureMoves ==
  ASSUME TypeOK, NEW r \in Requests, RequestInv(r), RequestStep(r), NEW q \in Requests
  PROVE  \/ future'[q] = future[q]
         \/ future[q] \notin Answers /\ future'[q] = Cancelled
         \/ q = r /\ task[q] = "created"
<1>0. RequestTypes
  BY TypesSplit
<1>1. CASE q # r
  BY <1>1, OthersUntouched DEF Same
<1>2. CASE q = r /\ (Refuse(r) \/ Accept(r) \/ Register(r) \/ Put(r) \/ PutFails(r) \/ Wait(r) \/ Answered(r))
  BY <1>0, <1>2 DEF Refuse, Accept, Register, Put, PutFails, Wait, Answered, futureVars, RequestTypes
<1>3. CASE q = r /\ (TimedOut(r) \/ Aborted(r) \/ LoopStep(r) \/ Expire(r))
  <2>1. future'[r] = future[r] \/ (~Done(future[r]) /\ future'[r] = Cancelled)
    BY <1>0, <1>3 DEF TimedOut, Aborted, Abandon, LoopStep, SetState, CheckCancel, Expire, RequestTypes
  <2>2. future[r] \in Futures
    BY <1>0 DEF RequestTypes
  <2> QED
    BY <1>3, <2>1, <2>2, Values
<1> QED
  BY <1>1, <1>2, <1>3 DEF RequestStep, TaskStep

\* It leaves what the actor holds as the actor found it.
LEMMA RequestKeepsActor ==
  ASSUME EntryPointInv, NEW r \in Requests, RequestStep(r)
  PROVE  ActorInv'
<1>0. TypeOK /\ RequestInv(r) /\ ActorInv /\ RequestTypes
  BY TypesSplit DEF EntryPointInv
<1>1. ActorRests
  BY RequestStepRests
<1>2. \A q \in Requests : q \in entries' => q \in entries \/ (q = r /\ task[q] = "created")
  <2>1. ASSUME NEW q \in Requests, q # r PROVE q \in entries' <=> q \in entries
    BY <1>0, <2>1, OthersUntouched DEF Same
  <2>2. r \in entries' => r \in entries \/ task[r] = "created"
    BY DEF RequestStep, Refuse, Accept, TaskStep, Register, Put, PutFails, Wait, Answered, TimedOut, Aborted,
           Abandon, LoopStep, SetState, CheckCancel, Expire
  <2> QED
    BY <2>1, <2>2
<1>3. ASSUME actor.pc \in {"popped", "checked"}
      PROVE  /\ actor.out.num = 1 /\ actor.out.req \notin entries'
             /\ future'[actor.out.req] \in {Pending, Cancelled} /\ outputs[actor.out.req] >= 1
  <2>1. actor.out.req \in Requests
    BY <1>0, <1>3, ActorStates, EventValues
  <2>2. ~(actor.out.req = r /\ task[r] = "created")
    BY <1>0, <1>3 DEF ActorInv, RequestInv
  <2> QED
    BY <1>0, <1>2, <1>3, <2>1, <2>2, FutureMoves DEF ActorInv
<1>4. ASSUME actor.pc = "canceling", NEW q \in actor.left
      PROVE  future'[q] # <<>>
  <2>1. q \in Requests /\ future[q] # <<>>
    BY <1>0, <1>4, ActorStates DEF ActorInv
  <2>2. ~(q = r /\ task[r] = "created")
    BY <1>0, <2>1 DEF RequestInv
  <2> QED
    BY <1>0, <2>1, <2>2, FutureMoves, Values
<1> QED
  BY <1>1, <1>3, <1>4 DEF ActorInv, ActorRests

\* The inbox's part depends on the entries, the timeouts and the stop.
LEMMA InboxFrame ==
  ASSUME TypeOK, InboxInv, inbox' = inbox, outputs' = outputs, Stopping => Stopping',
         \A q \in Requests : q \in entries \cup expired =>
           q \in entries' \cup expired' \/ Stopping' \/ outputs[q] = 0,
         \A q \in entries' : q \in entries \/ outputs[q] = 0
  PROVE  InboxInv'
<1>1. \A i \in DOMAIN inbox : inbox[i] # Stop => inbox[i] \in OutputEvents
  BY SeqParts, EventTypes DEF TypeOK
<1>2. ASSUME NEW i \in DOMAIN inbox, inbox[i] # Stop, inbox[i].num = 1
      PROVE  inbox[i].req \in entries' \cup expired' \/ Stopping'
  <2>1. inbox[i].req \in Requests /\ outputs[inbox[i].req] # 0
    BY <1>1, <1>2, EventValues DEF InboxInv
  <2> QED
    BY <1>2, <2>1 DEF InboxInv
<1> QED
  BY <1>2 DEF InboxInv

\* A step of a request keeps the inbox's part.
LEMMA RequestKeepsInbox ==
  ASSUME EntryPointInv, NEW r \in Requests, RequestStep(r)
  PROVE  InboxInv'
<1>0. TypeOK /\ RequestInv(r) /\ InboxInv /\ RequestTypes
  BY TypesSplit DEF EntryPointInv
<1>1. ActorRests /\ (Stopping' <=> Stopping)
  BY RequestStepRests DEF ActorRests, Stopping
<1>2. ASSUME NEW q \in Requests, q # r
      PROVE  (q \in entries' <=> q \in entries) /\ (q \in expired' <=> q \in expired)
  BY <1>0, <1>2, OthersUntouched DEF Same
<1>3. /\ r \in entries \cup expired => r \in entries' \cup expired' \/ Stopping' \/ outputs[r] = 0
      /\ r \in entries' => r \in entries \/ outputs[r] = 0
  <2>1. CASE Register(r) \/ PutFails(r)
    BY <1>0, <2>1 DEF Register, PutFails, RequestInv
  <2>2. CASE TimedOut(r) \/ Aborted(r)
    BY <1>0, <1>1, <2>2, Values DEF TimedOut, Aborted, Awake, Abandon, RequestInv
  <2>3. CASE Refuse(r) \/ Accept(r) \/ Put(r) \/ Wait(r) \/ Answered(r) \/ LoopStep(r) \/ Expire(r)
    BY <2>3 DEF Refuse, Accept, Put, Wait, Answered, LoopStep, SetState, CheckCancel, Expire, taskVars
  <2> QED
    BY <2>1, <2>2, <2>3 DEF RequestStep, TaskStep
<1>4. \A q \in Requests : q \in entries \cup expired => q \in entries' \cup expired' \/ Stopping' \/ outputs[q] = 0
  BY <1>2, <1>3
<1>5. \A q \in entries' : q \in entries \/ outputs[q] = 0
  <2>1. entries' \subseteq Requests
    BY <1>0, TaskTypes DEF RequestStep, TypeOK
  <2> QED
    BY <1>2, <1>3, <2>1
<1> QED
  BY <1>0, <1>1, <1>4, <1>5, InboxFrame DEF ActorRests

----------------------------------------------------------------------------
(* The graph, the actor and the server *)

\* An output of the graph is numbered after the others of its request, and the first one
\* is emitted while the request is in the store, has timed out or the actor stops.
LEMMA GraphKeepsInvariant ==
  ASSUME EntryPointInv, NEW r \in Requests, GraphEmits(r)
  PROVE  (\A q \in Requests : RequestInv(q)') /\ ActorInv' /\ InboxInv'
<1>0. TypeOK /\ RequestTypes /\ ActorTypes
  BY TypesSplit DEF EntryPointInv
<1>1. /\ outputs' = [outputs EXCEPT ![r] = outputs[r] + 1] /\ inbox' = Append(inbox, Output(r, outputs'[r]))
      /\ UNCHANGED <<actor, missed, task, expired, reply, future, wrapped, calls, entries>>
  BY DEF GraphEmits, taskVars, futureVars
<1>2. outputs[r] \in Nat /\ outputs'[r] = outputs[r] + 1 /\ outputs'[r] \in 1..MaxOutputs
  BY <1>0, <1>1, EntryAssumption DEF GraphEmits, RequestTypes
<1>3. \A q \in Requests : outputs[q] \in Nat /\ (q # r => outputs'[q] = outputs[q])
  BY <1>0, <1>1, EntryAssumption DEF RequestTypes
<1>4. Stopping' <=> Stopping
  BY <1>1 DEF Stopping
<1>5. ASSUME NEW q \in Requests PROVE RequestInv(q)'
  <2>1. RequestInv(q)
    BY DEF EntryPointInv
  <2>2. CASE q # r
    BY <1>1, <1>3, <1>4, <2>1, <2>2, RequestFrame DEF Same
  <2>3. CASE q = r
    BY <1>1, <1>2, <1>4, <2>1, <2>3 DEF RequestInv, GraphEmits
  <2> QED
    BY <2>2, <2>3
<1>6. ActorInv'
  <2>1. actor.pc \in {"popped", "checked"} => actor.out.req \in Requests
    BY <1>0, ActorStates, EventValues
  <2> QED
    BY <1>1, <1>2, <1>3, <2>1 DEF EntryPointInv, ActorInv
<1>7. InboxInv'
  <2> DEFINE new == Output(r, outputs'[r])
  <2>0. inbox \in Seq(Events) /\ Len(inbox) \in Nat
    BY <1>0 DEF ActorTypes
  <2>1. /\ DOMAIN inbox' = 1..(Len(inbox) + 1) /\ DOMAIN inbox = 1..Len(inbox)
        /\ inbox'[Len(inbox) + 1] = new
        /\ \A i \in DOMAIN inbox : inbox'[i] = inbox[i]
    BY <1>1, <2>0
  <2>2. new \in OutputEvents /\ new.req = r /\ new.num = outputs'[r]
    BY <1>2, EventValues
  <2>3. \A i \in DOMAIN inbox : inbox[i] # Stop => inbox[i] \in OutputEvents
    BY <2>0, SeqParts, EventTypes
  <2>4. \A i \in DOMAIN inbox : inbox[i] # Stop =>
          inbox[i].req \in Requests /\ inbox[i].num \in Nat /\ inbox[i].num <= outputs[inbox[i].req]
    BY <2>3, EventValues, EntryAssumption DEF EntryPointInv, InboxInv
  <2> HIDE DEF new
  <2>5. new.num = 1 => r \in entries \cup expired \/ Stopping
    <3>1. RequestInv(r)
      BY DEF EntryPointInv
    <3> QED
      BY <1>2, <2>2, <3>1 DEF RequestInv, GraphEmits
  <2>6. ASSUME NEW i \in DOMAIN inbox', inbox'[i] # Stop
        PROVE  /\ inbox'[i].num <= outputs'[inbox'[i].req]
               /\ inbox'[i].num = 1 => inbox'[i].req \in entries' \cup expired' \/ Stopping'
    <3>1. CASE i = Len(inbox) + 1
      BY <1>1, <1>2, <1>4, <2>1, <2>2, <2>5, <3>1
    <3>2. CASE i \in DOMAIN inbox
      BY <1>1, <1>2, <1>3, <1>4, <2>1, <2>4, <2>6, <3>2 DEF EntryPointInv, InboxInv
    <3> QED
      BY <2>0, <2>1, <3>1, <3>2
  <2>7. ASSUME NEW i \in DOMAIN inbox', NEW j \in DOMAIN inbox', i < j,
               inbox'[i] # Stop, inbox'[j] # Stop, inbox'[i].req = inbox'[j].req
        PROVE  inbox'[i].num < inbox'[j].num
    <3>0. i \in DOMAIN inbox
      BY <2>0, <2>1, <2>7
    <3>1. CASE j = Len(inbox) + 1
      BY <1>2, <2>1, <2>2, <2>4, <2>7, <3>0, <3>1
    <3>2. CASE j \in DOMAIN inbox
      BY <2>1, <2>7, <3>0, <3>2 DEF EntryPointInv, InboxInv
    <3> QED
      BY <2>0, <2>1, <3>1, <3>2
  <2>8. ASSUME NEW q \in entries', outputs'[q] >= 1
        PROVE  \E i \in DOMAIN inbox' : inbox'[i] = Output(q, 1)
    <3>0. q \in Requests /\ q \in entries
      BY <1>0, <1>1 DEF RequestTypes
    <3>1. CASE outputs[q] >= 1
      <4>1. PICK i \in DOMAIN inbox : inbox[i] = Output(q, 1)
        BY <3>0, <3>1 DEF EntryPointInv, InboxInv
      <4> QED
        BY <2>0, <2>1, <4>1
    <3>2. CASE ~(outputs[q] >= 1)
      <4>1. q = r /\ outputs'[r] = 1
        BY <1>2, <1>3, <2>8, <3>0, <3>2
      <4> QED
        BY <2>0, <2>1, <4>1 DEF new
    <3> QED
      BY <3>1, <3>2
  <2> QED
    BY <2>6, <2>7, <2>8 DEF InboxInv
<1> QED
  BY <1>5, <1>6, <1>7

\* What the actor does with neither a request nor its inbox.
LEMMA QuietKeepsInvariant ==
  ASSUME EntryPointInv, StartUp \/ StartUpFails \/ StopServer \/ ServerStep
  PROVE  (\A q \in Requests : RequestInv(q)') /\ ActorInv' /\ InboxInv'
<1>1. UNCHANGED <<task, expired, reply, future, wrapped, calls, entries, inbox, outputs, missed>>
  BY DEF StartUp, StartUpFails, StopServer, ServerStep, ServerStarts, ServerExits, ServerEnds,
         taskVars, futureVars, actorVars
<1>2. actor' = actor \/ actor'.pc \in {"idle", "ended"}
  BY ActorValues DEF StartUp, StartUpFails, StopServer, ServerStep, ServerStarts, ServerExits, ServerEnds,
                     actorVars
<1>3. Stopping => Stopping'
  BY ActorValues DEF Stopping, StartUp, StartUpFails, StopServer, ServerStep, ServerStarts, ServerExits,
                     ServerEnds, actorVars
<1>4. \A q \in Requests : RequestInv(q)'
  BY <1>1, <1>3, RequestFrame DEF EntryPointInv, Same
<1>5. ActorInv'
  BY <1>1, <1>2 DEF EntryPointInv, ActorInv
<1>6. InboxInv'
  BY <1>1, <1>3, InboxFrame DEF EntryPointInv
<1> QED
  BY <1>4, <1>5, <1>6

\* The stop joins the inbox.
LEMMA StopKeepsInvariant ==
  ASSUME EntryPointInv, RequestStop
  PROVE  (\A q \in Requests : RequestInv(q)') /\ ActorInv' /\ InboxInv'
<1>0. TypeOK /\ ActorTypes
  BY TypesSplit DEF EntryPointInv
<1>1. /\ UNCHANGED <<task, expired, reply, future, wrapped, calls, entries, actor, outputs, missed>>
      /\ inbox' = Append(inbox, Stop)
  BY DEF RequestStop, taskVars, futureVars
<1>2. Stopping' <=> Stopping
  BY <1>1 DEF Stopping
<1>3. \A q \in Requests : RequestInv(q)'
  BY <1>1, <1>2, RequestFrame DEF EntryPointInv, Same
<1>4. ActorInv'
  BY <1>1 DEF EntryPointInv, ActorInv
<1>5. inbox \in Seq(Events) /\ Len(inbox) \in Nat
  BY <1>0 DEF ActorTypes
<1>6. /\ DOMAIN inbox' = 1..(Len(inbox) + 1) /\ DOMAIN inbox = 1..Len(inbox)
      /\ inbox'[Len(inbox) + 1] = Stop
      /\ \A i \in DOMAIN inbox : inbox'[i] = inbox[i]
  BY <1>1, <1>5
<1>7. \A i \in DOMAIN inbox' : inbox'[i] # Stop => i \in DOMAIN inbox
  BY <1>5, <1>6
<1>8. \A i \in DOMAIN inbox : i \in DOMAIN inbox'
  BY <1>5, <1>6
<1>9. InboxInv'
  BY <1>1, <1>2, <1>6, <1>7, <1>8 DEF EntryPointInv, InboxInv
<1> QED
  BY <1>3, <1>4, <1>9

\* Taking the head off the inbox.
LEMMA InboxTail ==
  ASSUME TypeOK, InboxInv, inbox # <<>>, inbox' = Tail(inbox), UNCHANGED <<outputs, expired>>,
         Stopping => Stopping', entries' \subseteq entries,
         \A q \in entries' : inbox[1] # Output(q, 1),
         \A i \in DOMAIN inbox :
           i > 1 /\ inbox[i] # Stop /\ inbox[i].num = 1 /\ inbox[i].req \in entries
             => inbox[i].req \in entries' \/ Stopping'
  PROVE  InboxInv'
<1>1. inbox \in Seq(Events) /\ Len(inbox) \in Nat \ {0}
  BY DEF TypeOK
<1>2. /\ DOMAIN inbox = 1..Len(inbox) /\ DOMAIN inbox' = 1..(Len(inbox) - 1)
      /\ \A i \in DOMAIN inbox' : i + 1 \in DOMAIN inbox /\ i + 1 > 1 /\ inbox'[i] = inbox[i + 1]
  BY <1>1
<1>3. ASSUME NEW i \in DOMAIN inbox', inbox'[i] # Stop
      PROVE  /\ inbox'[i].num <= outputs'[inbox'[i].req]
             /\ inbox'[i].num = 1 => inbox'[i].req \in entries' \cup expired' \/ Stopping'
  BY <1>2, <1>3 DEF InboxInv
<1>4. ASSUME NEW i \in DOMAIN inbox', NEW j \in DOMAIN inbox', i < j,
             inbox'[i] # Stop, inbox'[j] # Stop, inbox'[i].req = inbox'[j].req
      PROVE  inbox'[i].num < inbox'[j].num
  <2>1. i + 1 \in DOMAIN inbox /\ j + 1 \in DOMAIN inbox /\ i + 1 < j + 1
    BY <1>1, <1>2, <1>4
  <2> QED
    BY <1>2, <1>4, <2>1 DEF InboxInv
<1>5. ASSUME NEW q \in entries', outputs'[q] >= 1
      PROVE  \E i \in DOMAIN inbox' : inbox'[i] = Output(q, 1)
  <2>1. PICK i \in DOMAIN inbox : inbox[i] = Output(q, 1)
    BY <1>5 DEF InboxInv
  <2>2. i # 1
    BY <2>1
  <2>3. i - 1 \in DOMAIN inbox' /\ (i - 1) + 1 = i
    BY <1>1, <1>2, <2>2
  <2> QED
    BY <1>2, <2>1, <2>3
<1> QED
  BY <1>3, <1>4, <1>5 DEF InboxInv

\* The output the actor takes is the first one of a request in the store, or comes too late.
LEMMA ResolveKeepsInvariant ==
  ASSUME EntryPointInv, Resolve
  PROVE  (\A q \in Requests : RequestInv(q)') /\ ActorInv' /\ InboxInv'
<1> DEFINE o == Head(inbox)
<1>0. TypeOK /\ ActorInv /\ InboxInv /\ RequestTypes /\ ActorTypes
  BY TypesSplit DEF EntryPointInv
<1>1. /\ UNCHANGED <<task, expired, reply, future, wrapped, calls, outputs>>
      /\ actor = Idle /\ inbox # <<>> /\ o # Stop /\ inbox' = Tail(inbox)
  BY DEF Resolve, taskVars, futureVars
<1>2. /\ inbox \in Seq(Events) /\ DOMAIN inbox = 1..Len(inbox) /\ Len(inbox) \in Nat \ {0}
      /\ o = inbox[1] /\ 1 \in DOMAIN inbox
  BY <1>0, <1>1 DEF ActorTypes
<1>3. o \in OutputEvents
  BY <1>1, <1>2, SeqParts, EventTypes
<1>4. /\ o.req \in Requests /\ o.num \in Nat /\ o.num >= 1 /\ o.num <= outputs[o.req]
      /\ o.num = 1 => o.req \in entries \cup expired
      /\ \A i \in DOMAIN inbox : i > 1 /\ inbox[i] # Stop /\ inbox[i].req = o.req => o.num < inbox[i].num
  <2>1. o.req \in Requests /\ o.num \in Nat /\ o.num >= 1
    BY <1>3, EventValues, EntryAssumption
  <2>2. ~Stopping
    BY <1>1, ActorValues DEF Stopping
  <2>3. /\ o.num <= outputs[o.req] /\ (o.num = 1 => o.req \in entries \cup expired)
        /\ \A i \in DOMAIN inbox : i > 1 /\ inbox[i] # Stop /\ inbox[i].req = o.req => o.num < inbox[i].num
    BY <1>0, <1>1, <1>2, <2>2 DEF InboxInv
  <2> QED
    BY <2>1, <2>3
<1> HIDE DEF o
<1>5. ~Stopping
  BY <1>1, ActorValues DEF Stopping
<1>6. CASE o.req \in entries
  <2>1. entries' = entries \ {o.req} /\ actor' = Resolving("popped", o) /\ missed' = missed
    BY <1>6 DEF Resolve, o
  <2>2. outputs[o.req] \in Nat /\ outputs[o.req] >= 1
    BY <1>0, <1>4, EntryAssumption DEF RequestTypes
  <2>3. o.num = 1
    <3>1. PICK i \in DOMAIN inbox : inbox[i] = Output(o.req, 1)
      BY <1>0, <1>6, <2>2 DEF InboxInv
    <3>2. MaxOutputs >= 1 /\ MaxOutputs \in Nat
      BY <1>0, <1>4, <2>2, EntryAssumption DEF RequestTypes
    <3>3. inbox[i] # Stop /\ inbox[i].req = o.req /\ inbox[i].num = 1
      BY <1>4, <3>1, <3>2, EventValues
    <3>4. CASE i > 1
      BY <1>4, <3>3, <3>4
    <3>5. CASE i = 1
      BY <1>2, <3>3, <3>5
    <3> QED
      BY <1>2, <3>4, <3>5
  <2>4. \A q \in Requests : RequestInv(q)'
    <3>1. ASSUME NEW q \in Requests, q # o.req PROVE RequestInv(q)'
      BY <1>1, <1>5, <2>1, <3>1, RequestFrame DEF EntryPointInv, Same
    <3>2. ASSUME NEW q \in Requests, q = o.req PROVE RequestInv(q)'
      <4>1. RequestInv(q)
        BY DEF EntryPointInv
      <4> QED
        BY <1>1, <1>5, <2>1, <2>2, <3>2, <4>1 DEF RequestInv
    <3> QED
      BY <3>1, <3>2
  <2>5. ActorInv'
    <3>1. future[o.req] \in {Pending, Cancelled}
      BY <1>4, <1>6 DEF EntryPointInv, RequestInv
    <3> QED
      BY <1>1, <2>1, <2>2, <2>3, <3>1, ActorValues DEF ActorInv
  <2>6. InboxInv'
    <3>1. \A q \in entries' : inbox[1] # Output(q, 1)
      <4>1. \A q \in entries' : q \in Requests /\ q # o.req
        BY <1>0, <2>1 DEF RequestTypes
      <4>2. 1 \in 1..MaxOutputs
        BY <1>0, <1>4, <2>2, EntryAssumption DEF RequestTypes
      <4> QED
        BY <1>2, <4>1, <4>2, EventValues
    <3>2. \A i \in DOMAIN inbox :
            i > 1 /\ inbox[i] # Stop /\ inbox[i].num = 1 /\ inbox[i].req \in entries => inbox[i].req \in entries'
      BY <1>4, <2>1, <2>3
    <3> QED
      BY <1>0, <1>1, <1>5, <2>1, <3>1, <3>2, InboxTail
  <2> QED
    BY <2>4, <2>5, <2>6
<1>7. CASE o.req \notin entries
  <2>1. entries' = entries /\ actor' = actor /\ Drop(o)
    BY <1>7 DEF Resolve, o
  <2>2. missed' = missed
    BY <1>4, <1>7, <2>1 DEF Drop
  <2>3. Stopping' <=> Stopping
    BY <2>1 DEF Stopping
  <2>4. \A q \in Requests : RequestInv(q)'
    BY <1>1, <2>1, <2>2, <2>3, RequestFrame DEF EntryPointInv, Same
  <2>5. ActorInv'
    BY <1>0, <1>1, <2>1 DEF ActorInv
  <2>6. InboxInv'
    <3>1. \A q \in entries' : inbox[1] # Output(q, 1)
      <4>1. \A q \in entries' : q \in Requests /\ q # o.req
        BY <1>0, <1>7, <2>1 DEF RequestTypes
      <4>2. 1 \in 1..MaxOutputs
        BY <1>0, <1>4, EntryAssumption DEF RequestTypes
      <4> QED
        BY <1>2, <4>1, <4>2, EventValues
    <3> QED
      BY <1>0, <1>1, <2>1, <2>3, <3>1, InboxTail
  <2> QED
    BY <2>4, <2>5, <2>6
<1> QED
  BY <1>6, <1>7

\* The output the actor holds is dropped only if its request timed out.
LEMMA CheckKeepsInvariant ==
  ASSUME EntryPointInv, CheckDone
  PROVE  (\A q \in Requests : RequestInv(q)') /\ ActorInv' /\ InboxInv'
<1> DEFINE o == actor.out
<1>0. TypeOK /\ ActorInv /\ RequestTypes
  BY TypesSplit DEF EntryPointInv
<1>1. /\ UNCHANGED <<task, expired, reply, future, wrapped, calls, entries, inbox, outputs>>
      /\ actor.pc = "popped"
      /\ \/ actor' = Resolving("checked", o) /\ missed' = missed
         \/ actor' = Idle /\ Drop(o) /\ Done(future[o.req])
  BY DEF CheckDone, taskVars, futureVars
<1>2. ~Stopping /\ ~Stopping'
  BY <1>1, ActorValues DEF Stopping
<1>3. /\ o.req \in Requests /\ o.num = 1 /\ future[o.req] \in {Pending, Cancelled}
      /\ o.req \notin entries /\ outputs[o.req] >= 1
  BY <1>0, <1>1, ActorStates, EventValues DEF ActorInv
<1>4. missed' = missed
  <2>1. Done(future[o.req]) => o.req \in expired
    BY <1>2, <1>3, Values, FutureTypes DEF EntryPointInv, RequestInv
  <2> QED
    BY <1>1, <2>1 DEF Drop
<1>5. \A q \in Requests : RequestInv(q)'
  BY <1>1, <1>2, <1>4, RequestFrame DEF EntryPointInv, Same
<1>6. ActorInv'
  BY <1>1, <1>3, ActorValues DEF ActorInv
<1>7. InboxInv'
  BY <1>1, <1>2, InboxFrame DEF EntryPointInv
<1> QED
  BY <1>5, <1>6, <1>7

\* Finishing a future that is pending, as the actor's answer or in its stop.
LEMMA FinishKeepsRequests ==
  ASSUME EntryPointInv, NEW r \in Requests, NEW v, Finish(r, v), future[r] = Pending,
         r \notin entries \/ v = Cancelled,
         (v = Answer(1) /\ v \in Answers /\ outputs[r] >= 1) \/ (v = Cancelled /\ Stopping'),
         UNCHANGED <<task, expired, reply, wrapped, entries, outputs, missed>>, Stopping => Stopping'
  PROVE  \A q \in Requests : RequestInv(q)'
<1>0. RequestTypes
  BY TypesSplit DEF EntryPointInv
<1>1. ASSUME NEW q \in Requests, q # r PROVE RequestInv(q)'
  BY <1>0, <1>1, RequestFrame DEF Finish, EntryPointInv, Same, RequestTypes
<1>2. RequestInv(r)'
  <2>1. RequestInv(r)
    BY DEF EntryPointInv
  <2>2. future'[r] = v /\ (wrapped[r] = <<>> => calls'[r] = calls[r])
        /\ ("check_cancel" \in calls'[r] => "check_cancel" \in calls[r])
    BY <1>0 DEF Finish, RequestTypes
  <2>3. v \in Futures /\ Done(v) /\ v # <<>> /\ v # Pending /\ (v \in Answers => v = Answer(1) /\ outputs[r] >= 1)
        /\ (v = Cancelled => Stopping')
    <3>1. \A a \in Answers : a \in Futures
      BY FutureTypes DEF Answers
    <3> QED
      BY <3>1, Values, FutureTypes
  <2>4. task[r] \notin {"none", "created"} /\ reply[r] \notin Answers /\ reply[r] # ServiceUnavailable
        /\ wrapped[r] \notin Answers
    BY <2>1, Values DEF RequestInv
  <2>5. task[r] = "registered" => wrapped[r] = <<>>
    BY <2>1 DEF RequestInv
  <2>6. wrapped[r] = Cancelled => r \in expired
    BY <2>1, Values DEF RequestInv
  <2>7. outputs[r] = 0 /\ r \notin expired /\ ~Stopping' /\ reply[r] \notin {Refused, ServerError} => FALSE
    BY <2>1, <2>4 DEF RequestInv
  <2> QED
    BY <2>1, <2>2, <2>3, <2>4, <2>5, <2>6, <2>7 DEF RequestInv
<1> QED
  BY <1>1, <1>2

\* set_result answers with the first output, or finds a future that its timeout cancelled.
LEMMA SetResultKeepsInvariant ==
  ASSUME EntryPointInv, SetResult
  PROVE  (\A q \in Requests : RequestInv(q)') /\ ActorInv' /\ InboxInv'
<1> DEFINE o == actor.out
<1>0. TypeOK /\ ActorInv /\ RequestTypes
  BY TypesSplit DEF EntryPointInv
<1>1. /\ UNCHANGED <<task, expired, reply, wrapped, entries, inbox, outputs>>
      /\ actor.pc = "checked" /\ actor' = Idle
      /\ \/ Done(future[o.req]) /\ Drop(o) /\ UNCHANGED <<future, calls>>
         \/ ~Done(future[o.req]) /\ Finish(o.req, Answer(o.num)) /\ missed' = missed
  BY DEF SetResult, taskVars
<1>2. ~Stopping /\ ~Stopping'
  BY <1>1, ActorValues DEF Stopping
<1>3. /\ o.req \in Requests /\ o.num = 1 /\ o.num \in 1..MaxOutputs /\ future[o.req] \in {Pending, Cancelled}
      /\ o.req \notin entries /\ outputs[o.req] >= 1
  BY <1>0, <1>1, ActorStates, EventValues DEF ActorInv
<1>4. \A q \in Requests : RequestInv(q)'
  <2>1. CASE Done(future[o.req])
    <3>1. o.req \in expired
      BY <1>2, <1>3, <2>1, Values, FutureTypes DEF EntryPointInv, RequestInv
    <3>2. missed' = missed /\ UNCHANGED <<future, calls>>
      BY <1>1, <2>1, <3>1 DEF Drop
    <3> QED
      BY <1>1, <1>2, <3>2, RequestFrame DEF EntryPointInv, Same
  <2>2. CASE ~Done(future[o.req])
    <3>1. future[o.req] = Pending
      BY <1>3, <2>2, Values, FutureTypes
    <3>2. Finish(o.req, Answer(1)) /\ missed' = missed
      BY <1>1, <1>3, <2>2
    <3>3. Answer(1) \in Answers
      BY <1>3 DEF Answers
    <3>4. UNCHANGED <<task, expired, reply, wrapped, entries, outputs, missed>>
      BY <1>1, <3>2
    <3>5. PICK r \in Requests : r = o.req
      BY <1>3
    <3>6. PICK v \in Answers : v = Answer(1)
      BY <3>3
    <3>7. Finish(r, v) /\ future[r] = Pending /\ r \notin entries /\ outputs[r] >= 1
      BY <1>3, <3>1, <3>2, <3>5, <3>6
    <3> QED
      BY <1>2, <3>4, <3>5, <3>6, <3>7, FinishKeepsRequests
  <2> QED
    BY <2>1, <2>2
<1>5. ActorInv'
  BY <1>1, ActorValues DEF ActorInv
<1>6. InboxInv'
  BY <1>1, <1>2, InboxFrame DEF EntryPointInv
<1> QED
  BY <1>4, <1>5, <1>6

\* The stop of the actor empties the store.
LEMMA CancelAllKeepsInvariant ==
  ASSUME EntryPointInv, CancelAll
  PROVE  (\A q \in Requests : RequestInv(q)') /\ ActorInv' /\ InboxInv'
<1>0. TypeOK /\ InboxInv /\ RequestTypes
  BY TypesSplit DEF EntryPointInv
<1>1. /\ UNCHANGED <<task, expired, reply, future, wrapped, calls, outputs, missed>>
      /\ actor = Idle /\ actor' = Canceling(entries) /\ entries' = {}
      /\ inbox # <<>> /\ inbox' = Tail(inbox)
  BY DEF CancelAll, taskVars, futureVars
<1>2. ~Stopping /\ Stopping'
  BY <1>1, ActorValues DEF Stopping
<1>3. ASSUME NEW q \in Requests PROVE RequestInv(q)'
  <2>1. RequestInv(q)
    BY DEF EntryPointInv
  <2> QED
    BY <1>1, <1>2, <2>1 DEF RequestInv
<1>4. ActorInv'
  <2>1. \A q \in entries : future[q] # <<>>
    BY <1>0, Values DEF EntryPointInv, RequestInv, RequestTypes
  <2> QED
    BY <1>1, <2>1, ActorValues DEF ActorInv
<1>5. InboxInv'
  BY <1>0, <1>1, <1>2, InboxTail
<1> QED
  BY <1>3, <1>4, <1>5

\* What it held is cancelled unless it is finished.
LEMMA CancelOneKeepsInvariant ==
  ASSUME EntryPointInv, CancelOne
  PROVE  (\A q \in Requests : RequestInv(q)') /\ ActorInv' /\ InboxInv'
<1>0. TypeOK /\ ActorInv /\ RequestTypes /\ actor.pc = "canceling"
  BY TypesSplit DEF EntryPointInv, CancelOne
<1>1. PICK r \in actor.left :
        /\ actor' = Canceling(actor.left \ {r})
        /\ IF Done(future[r]) THEN UNCHANGED <<future, calls>> ELSE Finish(r, Cancelled)
  BY DEF CancelOne
<1>2. UNCHANGED <<task, expired, reply, wrapped, entries, inbox, outputs, missed>>
  BY DEF CancelOne, taskVars
<1>3. Stopping /\ Stopping'
  BY <1>0, <1>1, ActorValues DEF Stopping
<1>4. r \in Requests /\ future[r] # <<>> /\ future[r] \in Futures /\ actor.left \subseteq Requests
  BY <1>0, ActorStates DEF ActorInv, RequestTypes
<1>5. CASE Done(future[r])
  <2>1. \A q \in Requests : RequestInv(q)'
    BY <1>1, <1>2, <1>3, <1>5, RequestFrame DEF EntryPointInv, Same
  <2>2. ActorInv'
    BY <1>0, <1>1, <1>5, ActorValues DEF ActorInv
  <2> QED
    BY <1>0, <1>2, <1>3, <2>1, <2>2, InboxFrame DEF EntryPointInv
<1>6. CASE ~Done(future[r])
  <2>1. future[r] = Pending /\ Finish(r, Cancelled)
    BY <1>1, <1>4, <1>6, Values
  <2>2. \A q \in Requests : RequestInv(q)'
    BY <1>2, <1>3, <1>4, <2>1, FinishKeepsRequests
  <2>3. ActorInv'
    <3>1. \A q \in Requests : future[q] # <<>> => future'[q] # <<>>
      BY <1>0, <1>4, <2>1, Values DEF Finish, RequestTypes
    <3> QED
      BY <1>0, <1>1, <1>4, <3>1, ActorValues DEF ActorInv
  <2> QED
    BY <1>0, <1>2, <1>3, <2>2, <2>3, InboxFrame DEF EntryPointInv
<1> QED
  BY <1>5, <1>6

\* Every step keeps the invariant.
LEMMA InvariantStep == EntryPointInv /\ [Next]_vars => EntryPointInv'
<1> SUFFICES ASSUME EntryPointInv, [Next]_vars PROVE EntryPointInv'
  OBVIOUS
<1>1. TypeOK'
  BY TypeStep DEF EntryPointInv
<1> DEFINE Rest == (\A q \in Requests : RequestInv(q)') /\ ActorInv' /\ InboxInv'
<1>2. CASE UNCHANGED vars
  <2>1. UNCHANGED <<task, future, wrapped, calls, expired, entries, inbox, actor, reply, outputs, missed>>
    BY <1>2 DEF vars, taskVars, futureVars, actorVars
  <2>2. Stopping' <=> Stopping
    BY <2>1 DEF Stopping
  <2>3. \A q \in Requests : RequestInv(q)'
    BY <2>1, <2>2, RequestFrame DEF EntryPointInv, Same
  <2>4. ActorInv'
    BY <2>1 DEF EntryPointInv, ActorInv
  <2>5. InboxInv'
    BY <2>1, <2>2, InboxFrame DEF EntryPointInv
  <2> QED
    BY <1>1, <2>3, <2>4, <2>5 DEF EntryPointInv
<1>3. ASSUME NEW r \in Requests, RequestStep(r) PROVE Rest
  <2>1. ASSUME NEW q \in Requests PROVE RequestInv(q)'
    <3>1. CASE q = r
      BY <1>3, <3>1, OwnRequest DEF EntryPointInv
    <3>2. CASE q # r
      <4>1. Stopping => Stopping'
        BY <1>3, RequestStepRests DEF ActorRests, Stopping
      <4> QED
        BY <1>3, <3>2, <4>1, OthersUntouched, RequestFrame DEF EntryPointInv
    <3> QED
      BY <3>1, <3>2
  <2> QED
    BY <1>3, <2>1, RequestKeepsActor, RequestKeepsInbox
<1>4. ASSUME NEW r \in Requests, GraphEmits(r) PROVE Rest
  BY <1>4, GraphKeepsInvariant
<1>5. ASSUME RequestStop \/ ActorStep \/ ServerStep PROVE Rest
  BY <1>5, StopKeepsInvariant, QuietKeepsInvariant, ResolveKeepsInvariant, CheckKeepsInvariant,
     SetResultKeepsInvariant, CancelAllKeepsInvariant, CancelOneKeepsInvariant DEF ActorStep
<1>6. CASE Next
  <2>1. Rest
    BY <1>3, <1>4, <1>5, <1>6 DEF Next, RequestStep
  <2> QED
    BY <1>1, <2>1 DEF EntryPointInv
<1> QED
  BY <1>2, <1>6

\* The invariant holds in every state the entry point reaches.
THEOREM EntryPointInvariance == Spec => []EntryPointInv
<1>1. Init => EntryPointInv
  <2> SUFFICES ASSUME Init PROVE EntryPointInv
    OBVIOUS
  <2>1. TypeOK
    BY InitTypes
  <2>2. ASSUME NEW r \in Requests PROVE RequestInv(r)
    BY Values DEF Init, NoRequests, RequestInv
  <2>3. ActorInv
    BY ActorValues DEF Init, ActorInv
  <2>4. InboxInv
    BY DEF Init, NoRequests, InboxInv
  <2> QED
    BY <2>1, <2>2, <2>3, <2>4 DEF EntryPointInv
<1> QED
  BY <1>1, InvariantStep, PTL DEF Spec

\* The store holds a future only while its request waits for it, whatever times out,
\* fails, answers or stops in between.
THEOREM NoEntryIsLeft == Spec => []EntriesAreOpen
<1>1. EntryPointInv => EntriesAreOpen
  BY DEF EntryPointInv, RequestInv, EntriesAreOpen, TypeOK
<1> QED
  BY <1>1, EntryPointInvariance, PTL

\* Every response has its reason: the first output, the timeout, the stop, or a request
\* that never reached the graph.
THEOREM RepliesHaveReasons == Spec => []RepliesAreExplained
<1>1. EntryPointInv => RepliesAreExplained
  <2> SUFFICES ASSUME EntryPointInv, NEW r \in Requests
               PROVE  /\ \A k \in 1..MaxOutputs : reply[r] = Answer(k) => k = 1
                      /\ reply[r] = GatewayTimeout => r \in expired
                      /\ reply[r] = ServiceUnavailable => Stopping
                      /\ reply[r] \in {Refused, ServerError} => outputs[r] = 0
    BY DEF RepliesAreExplained
  <2>1. RequestInv(r)
    BY DEF EntryPointInv
  <2>2. ASSUME NEW k \in 1..MaxOutputs, reply[r] = Answer(k) PROVE k = 1
    <3>1. reply[r] \in Answers
      BY <2>2 DEF Answers
    <3>2. 1 \in 1..MaxOutputs
      BY EntryAssumption
    <3> QED
      BY <2>1, <2>2, <3>1, <3>2, ValuesDiffer DEF RequestInv
  <2> QED
    BY <2>1, <2>2 DEF RequestInv
<1> QED
  BY <1>1, EntryPointInvariance, PTL

\* The first output for a request is its response unless it timed out, in every
\* interleaving of the actor's check and set_result with the loop, the timer and the stop.
THEOREM FirstOutputIsResponse == Spec => []FirstOutputCounts
<1>1. EntryPointInv => FirstOutputCounts
  <2> SUFFICES ASSUME EntryPointInv, NEW r \in Requests
               PROVE  /\ r \notin missed
                      /\ reply[r] # NoReply /\ future[r] = Answer(1) => reply[r] = Answer(1) \/ r \in expired
    BY DEF FirstOutputCounts
  <2>1. RequestInv(r)
    BY DEF EntryPointInv
  <2>2. reply[r] \in {NoReply, Refused, ServerError, ServiceUnavailable, GatewayTimeout} \cup Answers
    BY DEF EntryPointInv, TypeOK, Replies, Answers
  <2>3. future[r] = Answer(1) => future[r] \in Answers
    <3>1. Answer(1) \notin {<<>>, Pending, Cancelled}
      BY DEF Answer, Pending, Cancelled
    <3>2. future[r] \in Futures
      BY DEF EntryPointInv, TypeOK
    <3> QED
      BY <3>1, <3>2, Values
  <2> QED
    BY <2>1, <2>2, <2>3, Values DEF RequestInv
<1> QED
  BY <1>1, EntryPointInvariance, PTL
=============================================================================
