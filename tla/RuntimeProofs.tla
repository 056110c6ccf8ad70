---------------------------- MODULE RuntimeProofs ----------------------------
(***************************************************************************)
(* Proofs about Runtime, for any graph: a context is in one place at a     *)
(* time, what is delivered is the state at emission, a graceful stop       *)
(* drains the inboxes, and a crash loses no primary work.                  *)
(***************************************************************************)
EXTENDS Runtime, FiniteSetTheorems, SequenceTheorems, TLAPS

\* Handlers go on with the context they hold at most once.
LinearOutputs ==
  \A k \in Sinks : \A o \in Outputs[k] : \A i, j \in DOMAIN o :
    o[i].on = "same" /\ o[j].on = "same" => i = j

----------------------------------------------------------------------------
(* The invariant *)

\* What the types leave open: messages that are referred to were logged.
RefersToLogged ==
  /\ \A c \in CtxIds : ctxs[c].sent => ctxs[c].payload \in MsgIds
  /\ bus.todo # {} => bus.ctx \in CtxIds /\ bus.msg \in MsgIds
  /\ \A a \in Actors : actor[a].pc = "handling" => actor[a].event \in ReceiveEvents
  /\ \A a \in Actors : actor[a].pc = "emitting" => actor[a].out # <<>>
  /\ \A e \in parked : e.cause.msg \in MsgIds
  /\ \A c \in replay : ctxs[c].sent

\* The places a context can be in, and the contexts that are in each.
Places == ({"pipe", "bus", "parked", "replay"} \X {"all"})
          \cup ({"inbox", "out", "handling"} \X Actors) \cup ({"producer"} \X Producers)

InQueue(q) == {q[i].ctx : i \in DOMAIN q}

Held(p) ==
  CASE p[1] = "pipe" -> InQueue(pipe)
    [] p[1] = "bus" -> InQueue(bus.out) \cup (IF bus.todo # {} THEN {bus.ctx} ELSE {})
    [] p[1] = "parked" -> {e.ctx : e \in parked}
    [] p[1] = "replay" -> replay
    [] p[1] = "inbox" -> InQueue(inbox[p[2]])
    [] p[1] = "out" -> InQueue(actor[p[2]].out)
    [] p[1] = "handling" -> IF actor[p[2]].pc = "handling" THEN {actor[p[2]].event.ctx} ELSE {}
    [] p[1] = "producer" -> {producer[p[2]]}

OnePlace == \A p, q \in Places : \A c \in CtxIds : c \in Held(p) /\ c \in Held(q) => p = q

\* A queue holds a context once.
Once(q) == \A i, j \in DOMAIN q : q[i].ctx = q[j].ctx /\ q[i].ctx # 0 => i = j

OnceEach ==
  /\ Once(pipe) /\ Once(bus.out)
  /\ \A a \in Actors : Once(inbox[a]) /\ Once(actor[a].out)
  /\ \A d, e \in parked : d.ctx = e.ctx => d = e

\* What the bus is passing on is the state of its context.
BusHasState ==
  bus.todo # {} => ctxs[bus.ctx].payload = bus.msg /\ ctxs[bus.ctx].data = bus.data

\* The stop events are the last ones in every inbox.
StopsAreLast ==
  /\ ~bus.up => bus.todo = {} /\ bus.out = <<>>
  /\ bus.up => \A a \in Actors : /\ actor[a].pc # "stopped"
                                 /\ \A i \in DOMAIN inbox[a] : inbox[a][i] # StopActorEvent
  /\ \A a \in Actors : \A i, j \in DOMAIN inbox[a] :
       i < j /\ inbox[a][i] = StopActorEvent => inbox[a][j] = StopActorEvent

TypeInv == TypeOK /\ RefersToLogged
OwnerInv == TypeInv /\ OnePlace /\ OnceEach
StateInv == OwnerInv /\ BusHasState /\ DeliveredStateIsEmissionState
StopInv == TypeInv /\ StopsAreLast /\ StopDrainsInboxes

----------------------------------------------------------------------------
(* Types *)

Contexts == [payload : 0..Len(messages), data : 0..Len(messages), sent : BOOLEAN]
ToBus == SendEvents \cup {StopBusEvent}
FromBus == ReceiveEvents \cup {StopActorEvent}
BusStates == [up : BOOLEAN, ctx : 0..Len(ctxs), msg : 0..Len(messages), data : Nat,
              todo : SUBSET Sinks, out : Seq(ReceiveEvents)]
ActorStates == [pc : {"idle", "handling", "emitting", "stopped"}, event : FromBus,
                out : Seq(SendEvents)]

\* The type invariant in terms of these sets.
LEMMA TypesAre ==
  TypeOK <=>
    /\ ctxs \in Seq(Contexts) /\ messages \in Seq(Sources)
    /\ pipe \in Seq(ToBus) /\ bus \in BusStates /\ inbox \in [Actors -> Seq(FromBus)]
    /\ actor \in [Actors -> ActorStates] /\ parked \subseteq SendEvents
    /\ producer \in [Producers -> 0..Len(ctxs)] /\ stopAsked \in BOOLEAN
    /\ replay \subseteq CtxIds /\ produced \in 0..MaxProduced /\ crashes \in 0..MaxCrashes
    /\ done \subseteq Causes
BY DEF TypeOK, Contexts, ToBus, FromBus, BusStates, ActorStates

\* Contexts and messages are only ever added.
Grows ==
  /\ ctxs' \in Seq(Contexts') /\ messages' \in Seq(Sources)
  /\ Len(ctxs) <= Len(ctxs') /\ Len(messages) <= Len(messages')

\* What was typed stays typed when contexts or messages are added.
LEMMA Grown ==
  ASSUME TypeOK, Grows
  PROVE  /\ CtxIds \subseteq CtxIds' /\ MsgIds \subseteq MsgIds' /\ Contexts \subseteq Contexts'
         /\ SendEvents \subseteq SendEvents' /\ ReceiveEvents \subseteq ReceiveEvents'
         /\ pipe \in Seq(ToBus') /\ bus \in BusStates' /\ inbox \in [Actors -> Seq(FromBus')]
         /\ actor \in [Actors -> ActorStates'] /\ parked \subseteq SendEvents'
         /\ producer \in [Producers -> 0..Len(ctxs')] /\ replay \subseteq CtxIds'
<1>0. /\ Len(ctxs) \in Nat /\ Len(ctxs') \in Nat /\ Len(messages) \in Nat /\ Len(messages') \in Nat
      /\ Len(ctxs) <= Len(ctxs') /\ Len(messages) <= Len(messages')
  BY TypesAre DEF Grows
<1>1. /\ CtxIds \subseteq CtxIds' /\ MsgIds \subseteq MsgIds' /\ 0..Len(ctxs) \subseteq 0..Len(ctxs')
      /\ 0..Len(messages) \subseteq 0..Len(messages')
  BY <1>0 DEF CtxIds, MsgIds
<1>2. SendEvents \subseteq SendEvents' /\ ReceiveEvents \subseteq ReceiveEvents'
  BY <1>1 DEF SendEvents, ReceiveEvents, Causes
<1>3. Contexts \subseteq Contexts'
  BY <1>1 DEF Contexts
<1>4. ToBus \subseteq ToBus' /\ FromBus \subseteq FromBus'
  BY <1>2 DEF ToBus, FromBus, StopBusEvent, StopActorEvent, NoCause
<1>5. /\ \A q \in Seq(SendEvents) : q \in Seq(SendEvents')
      /\ \A q \in Seq(ReceiveEvents) : q \in Seq(ReceiveEvents')
      /\ \A q \in Seq(ToBus) : q \in Seq(ToBus')
      /\ \A q \in Seq(FromBus) : q \in Seq(FromBus')
  BY <1>2, <1>4, SeqMonotonic
<1>6. BusStates \subseteq BusStates'
  <2> DEFINE Q == Seq(ReceiveEvents)
  <2> DEFINE R == Seq(ReceiveEvents')
  <2>1. Q \subseteq R
    BY <1>5
  <2> HIDE DEF Q, R
  <2>2. BusStates = [up : BOOLEAN, ctx : 0..Len(ctxs), msg : 0..Len(messages), data : Nat,
                     todo : SUBSET Sinks, out : Q]
    BY DEF BusStates, Q
  <2>3. BusStates' = [up : BOOLEAN, ctx : 0..Len(ctxs'), msg : 0..Len(messages'), data : Nat,
                      todo : SUBSET Sinks, out : R]
    BY DEF BusStates, R
  <2> QED
    BY <1>1, <2>1, <2>2, <2>3
<1>7. ActorStates \subseteq ActorStates'
  <2> DEFINE Q == Seq(SendEvents)
  <2> DEFINE R == Seq(SendEvents')
  <2>1. Q \subseteq R
    BY <1>5
  <2> HIDE DEF Q, R
  <2>2. ActorStates = [pc : {"idle", "handling", "emitting", "stopped"}, event : FromBus, out : Q]
    BY DEF ActorStates, Q
  <2>3. ActorStates' = [pc : {"idle", "handling", "emitting", "stopped"}, event : FromBus', out : R]
    BY DEF ActorStates, R
  <2> QED
    BY <1>4, <2>1, <2>2, <2>3
<1> QED
  BY <1>1, <1>2, <1>3, <1>5, <1>6, <1>7, TypesAre

\* A step that adds neither.
LEMMA SameGrows ==
  ASSUME TypeOK, UNCHANGED <<ctxs, messages>>
  PROVE  Grows
BY TypesAre DEF Grows, Contexts

\* The elements of the record sets above.
LEMMA Fields ==
  /\ \A e \in SendEvents : e.ctx \in CtxIds /\ e.source \in Sources /\ e.cause \in Causes
  /\ \A e \in ReceiveEvents : e.target \in Sinks /\ e.ctx \in CtxIds /\ e.msg \in MsgIds /\ e.data \in Nat
  /\ \A b \in BusStates : b.up \in BOOLEAN /\ b.ctx \in 0..Len(ctxs) /\ b.msg \in 0..Len(messages)
                          /\ b.data \in Nat /\ b.todo \subseteq Sinks /\ b.out \in Seq(ReceiveEvents)
  /\ \A x \in ActorStates : x.pc \in {"idle", "handling", "emitting", "stopped"} /\ x.event \in FromBus
                            /\ x.out \in Seq(SendEvents)
  /\ \A c \in Contexts : c.payload \in 0..Len(messages) /\ c.data \in 0..Len(messages) /\ c.sent \in BOOLEAN
BY DEF SendEvents, ReceiveEvents, BusStates, ActorStates, Contexts

\* What is used of the graph.
LEMMA GraphIs ==
  /\ MaxProduced \in Nat /\ MaxCrashes \in Nat /\ Producers \subseteq Sources
  /\ \A k \in Sinks : Owner[k] \in Actors /\ Deferred[k] \subseteq Sources
  /\ \A k \in Sinks : \A o \in Outputs[k] : o \in Seq(Pieces)
  /\ \A s \in Sources : /\ Taps[s] \subseteq Sinks /\ Primary[s] \notin Taps[s]
                        /\ Primary[s] = NoSink \/ Primary[s] \in Sinks
BY GraphAssumption DEF Pipes

\* Stop events are neither of the others.
LEMMA StopsDiffer ==
  /\ StopBusEvent \notin SendEvents /\ StopActorEvent \notin ReceiveEvents
  /\ StopBusEvent.ctx = 0 /\ StopActorEvent.ctx = 0 /\ 0 \notin CtxIds
BY GraphAssumption DEF SendEvents, ReceiveEvents, StopBusEvent, StopActorEvent, CtxIds, MsgIds

LEMMA InitTypes == Init => TypeInv
<1> SUFFICES ASSUME Init PROVE TypeInv
  OBVIOUS
<1>1. ctxs = <<>> /\ messages = <<>> /\ Len(ctxs) = 0 /\ Len(messages) = 0 /\ CtxIds = {} /\ MsgIds = {}
  BY DEF Init, CtxIds, MsgIds
<1>2. BusIdle \in BusStates /\ Idle \in ActorStates
  BY <1>1 DEF BusIdle, Idle, BusStates, ActorStates, FromBus
<1>3. TypeOK
  <2>1. /\ ctxs \in Seq(Contexts) /\ messages \in Seq(Sources) /\ pipe \in Seq(ToBus)
        /\ inbox \in [Actors -> Seq(FromBus)]
    BY DEF Init
  <2>2. /\ bus \in BusStates /\ actor \in [Actors -> ActorStates] /\ parked \subseteq SendEvents
        /\ producer \in [Producers -> 0..Len(ctxs)] /\ stopAsked \in BOOLEAN
        /\ replay \subseteq CtxIds /\ done \subseteq Causes
    <3>1. bus \in BusStates /\ actor \in [Actors -> ActorStates]
      BY <1>2 DEF Init
    <3>2. producer \in [Producers -> 0..Len(ctxs)]
      <4>1. 0 \in 0..Len(ctxs)
        BY <1>1
      <4> QED
        BY <4>1 DEF Init
    <3> QED
      BY <3>1, <3>2 DEF Init
  <2>3. produced \in 0..MaxProduced /\ crashes \in 0..MaxCrashes
    BY GraphIs DEF Init
  <2> QED
    BY <2>1, <2>2, <2>3, TypesAre
<1> QED
  BY <1>1, <1>3 DEF TypeInv, RefersToLogged, Init, BusIdle, Idle

----------------------------------------------------------------------------
(* Every step keeps the types *)

\* The type invariant after a step, part by part.
LEMMA TypesHold ==
  ASSUME ctxs' \in Seq(Contexts'), messages' \in Seq(Sources),
         pipe' \in Seq(ToBus'), bus' \in BusStates', inbox' \in [Actors -> Seq(FromBus')],
         actor' \in [Actors -> ActorStates'], parked' \subseteq SendEvents',
         producer' \in [Producers -> 0..Len(ctxs')], stopAsked' \in BOOLEAN,
         replay' \subseteq CtxIds', produced' \in 0..MaxProduced, crashes' \in 0..MaxCrashes,
         done' \subseteq Causes
  PROVE  TypeOK'
BY DEF TypeOK, Contexts, ToBus, FromBus, BusStates, ActorStates

\* Where nothing is added, the sets are what they were.
LEMMA NothingAdded ==
  ASSUME UNCHANGED <<ctxs, messages>>
  PROVE  /\ CtxIds' = CtxIds /\ MsgIds' = MsgIds /\ Contexts' = Contexts
         /\ SendEvents' = SendEvents /\ ReceiveEvents' = ReceiveEvents
         /\ ToBus' = ToBus /\ FromBus' = FromBus /\ BusStates' = BusStates
         /\ ActorStates' = ActorStates
BY DEF CtxIds, MsgIds, Contexts, SendEvents, ReceiveEvents, ToBus, FromBus, BusStates, ActorStates

\* What is typed in a state.
LEMMA Typed ==
  ASSUME TypeInv
  PROVE  /\ TypeOK /\ RefersToLogged
         /\ ctxs \in Seq(Contexts) /\ messages \in Seq(Sources)
         /\ Len(ctxs) \in Nat /\ Len(messages) \in Nat
         /\ pipe \in Seq(ToBus) /\ bus \in BusStates /\ inbox \in [Actors -> Seq(FromBus)]
         /\ actor \in [Actors -> ActorStates] /\ parked \subseteq SendEvents
         /\ producer \in [Producers -> 0..Len(ctxs)] /\ stopAsked \in BOOLEAN
         /\ replay \subseteq CtxIds /\ produced \in 0..MaxProduced /\ crashes \in 0..MaxCrashes
         /\ done \subseteq Causes
         /\ \A c \in CtxIds : ctxs[c] \in Contexts
         /\ \A a \in Actors : inbox[a] \in Seq(FromBus) /\ actor[a] \in ActorStates
BY TypesAre DEF TypeInv, CtxIds

\* A message is passed downstream.
LEMMA Passing ==
  ASSUME TypeOK, Grows, NEW c \in CtxIds, NEW s \in Sources, NEW m \in MsgIds',
         PassDownstream(c, s, m)
  PROVE  /\ bus' \in BusStates' /\ bus'.up /\ bus'.ctx = c /\ bus'.msg = m
         /\ bus'.data = ctxs[c].data /\ bus'.todo = Taps[s]
         /\ \A i \in DOMAIN bus'.out :
              i = 1 /\ bus'.out[i] = [target |-> Primary[s], ctx |-> c, msg |-> m, data |-> ctxs[c].data]
<1>1. /\ c \in CtxIds' /\ c \in 0..Len(ctxs') /\ m \in 0..Len(messages')
  BY Grown DEF CtxIds, MsgIds, Grows
<1>2. ctxs[c].data \in Nat
  BY TypesAre, Fields DEF CtxIds
<1>3. Taps[s] \subseteq Sinks /\ (Primary[s] = NoSink \/ Primary[s] \in Sinks)
  BY GraphIs
<1> DEFINE e == [target |-> Primary[s], ctx |-> c, msg |-> m, data |-> ctxs[c].data]
<1> DEFINE out == IF Primary[s] = NoSink THEN <<>> ELSE <<e>>
<1>4. Primary[s] # NoSink => e \in ReceiveEvents'
  BY <1>1, <1>2, <1>3 DEF ReceiveEvents
<1>5. out \in Seq(ReceiveEvents')
  BY <1>4
<1>6. \A i \in DOMAIN out : i = 1 /\ out[i] = e
  OBVIOUS
<1>7. bus' = [up |-> TRUE, ctx |-> c, msg |-> m, data |-> ctxs[c].data, todo |-> Taps[s], out |-> out]
  BY DEF PassDownstream
<1> HIDE DEF e, out
<1>8. /\ bus'.up /\ bus'.ctx = c /\ bus'.msg = m /\ bus'.data = ctxs[c].data /\ bus'.todo = Taps[s]
      /\ bus'.out = out
  BY <1>7
<1>9. bus' \in BusStates'
  BY <1>1, <1>2, <1>3, <1>5, <1>7 DEF BusStates
<1> QED
  BY <1>6, <1>8, <1>9 DEF e

\* The head and the tail of a queue.
LEMMA HeadTail ==
  ASSUME NEW S, NEW q \in Seq(S), q # <<>>
  PROVE  /\ Head(q) \in S /\ Tail(q) \in Seq(S) /\ Head(q) = q[1] /\ 1 \in DOMAIN q
         /\ \A i \in DOMAIN Tail(q) : i + 1 \in DOMAIN q /\ Tail(q)[i] = q[i + 1]
OBVIOUS

\* What is in a queue after one more was put.
LEMMA AppendItems ==
  ASSUME NEW S, NEW q \in Seq(S), NEW e
  PROVE  \A i \in DOMAIN Append(q, e) : \/ i \in DOMAIN q /\ Append(q, e)[i] = q[i]
                                       \/ Append(q, e)[i] = e
OBVIOUS

LEMMA LastTail ==
  ASSUME NEW S, NEW q \in Seq(S), q # <<>>
  PROVE  Tail(q) = <<>> <=> Len(q) = 1
<1>1. Tail(q) \in Seq(S) /\ Len(Tail(q)) = Len(q) - 1 /\ Len(q) \in Nat
  BY HeadTailProperties
<1>2. Tail(q) = <<>> <=> Len(Tail(q)) = 0
  BY <1>1, EmptySeq
<1> QED
  BY <1>1, <1>2

\* A sequence after another.
LEMMA Concat ==
  ASSUME NEW S, NEW p \in Seq(S), NEW q \in Seq(S)
  PROVE  /\ p \o q \in Seq(S) /\ Len(p \o q) = Len(p) + Len(q)
         /\ DOMAIN (p \o q) = 1..(Len(p) + Len(q))
         /\ \A i \in 1..Len(p) : (p \o q)[i] = p[i]
         /\ \A i \in 1..Len(q) : (p \o q)[Len(p) + i] = q[i]
OBVIOUS

\* A function on an initial segment is a sequence.
LEMMA FunIsSeq ==
  ASSUME NEW S, NEW n \in Nat, NEW f \in [1..n -> S]
  PROVE  f \in Seq(S) /\ Len(f) = n
OBVIOUS

LEMMA ReplayTypes ==
  ASSUME TypeInv, NEW c \in replay, Replay(c)
  PROVE  TypeInv'
<1>1. /\ UNCHANGED <<ctxs, messages, pipe, inbox, actor, parked, producer, stopAsked, produced, crashes, done>>
      /\ replay' = replay \ {c} /\ PassDownstream(c, messages[ctxs[c].payload], ctxs[c].payload)
  BY DEF Replay
<1>2. c \in CtxIds /\ ctxs[c].payload \in MsgIds /\ messages[ctxs[c].payload] \in Sources
  BY Typed DEF RefersToLogged, MsgIds
<1>3. Grows
  BY <1>1, Typed, SameGrows
<1>4. bus' \in BusStates' /\ bus'.ctx = c /\ bus'.msg = ctxs[c].payload
  BY <1>1, <1>2, <1>3, Typed, Passing, NothingAdded
<1>5. TypeOK'
  BY <1>1, <1>4, Typed, NothingAdded, TypesHold
<1>6. RefersToLogged'
  BY <1>1, <1>2, <1>4, Typed, NothingAdded DEF RefersToLogged
<1> QED
  BY <1>5, <1>6 DEF TypeInv

LEMMA AppendsTypes ==
  ASSUME TypeInv, BusAppends
  PROVE  /\ TypeInv' /\ Grows /\ Len(ctxs') = Len(ctxs)
         /\ \A c \in CtxIds : c # Head(pipe).ctx => ctxs'[c] = ctxs[c]
         /\ ctxs'[Head(pipe).ctx].payload = Len(messages) + 1
         /\ ctxs'[Head(pipe).ctx].data = ctxs[Head(pipe).ctx].data
<1> DEFINE e == Head(pipe)
<1> DEFINE m == Len(messages) + 1
<1>1. /\ UNCHANGED <<inbox, actor, parked, producer, stopAsked, replay, produced, crashes>>
      /\ pipe # <<>> /\ e # StopBusEvent /\ pipe' = Tail(pipe) /\ messages' = Append(messages, e.source)
      /\ ctxs' = [ctxs EXCEPT ![e.ctx].payload = m, ![e.ctx].sent = TRUE]
      /\ PassDownstream(e.ctx, e.source, m)
      /\ done' = done \/ done' = done \cup {e.cause}
  BY DEF BusAppends
<1>2. e \in SendEvents /\ e.ctx \in CtxIds /\ e.source \in Sources /\ e.cause \in Causes
  BY <1>1, Typed, Fields, HeadTail DEF ToBus
<1>3. /\ messages' \in Seq(Sources) /\ Len(messages') = m /\ m \in MsgIds' /\ m \in 0..Len(messages')
      /\ \A i \in 0..Len(messages) : i \in 0..Len(messages')
  BY <1>1, <1>2, Typed DEF MsgIds
<1>4. /\ ctxs' \in Seq(Contexts') /\ Len(ctxs') = Len(ctxs)
      /\ \A c \in CtxIds : ctxs'[c] = IF c = e.ctx THEN [ctxs[c] EXCEPT !.payload = m, !.sent = TRUE] ELSE ctxs[c]
  <2>1. /\ DOMAIN ctxs = 1..Len(ctxs) /\ e.ctx \in 1..Len(ctxs) /\ Len(ctxs) \in Nat
    BY <1>2, Typed DEF CtxIds
  <2>2. ctxs' = [c \in 1..Len(ctxs) |->
                   IF c = e.ctx THEN [ctxs[c] EXCEPT !.payload = m, !.sent = TRUE] ELSE ctxs[c]]
    BY <1>1, <2>1
  <2>3. ASSUME NEW x \in Contexts PROVE x \in Contexts' /\ [x EXCEPT !.payload = m, !.sent = TRUE] \in Contexts'
    BY <1>3 DEF Contexts
  <2>4. \A c \in 1..Len(ctxs) : ctxs'[c] \in Contexts'
    BY <2>2, <2>3, Typed DEF CtxIds
  <2>5. ctxs' \in [1..Len(ctxs) -> Contexts']
    BY <2>2, <2>4
  <2>6. ctxs' \in Seq(Contexts') /\ Len(ctxs') = Len(ctxs)
    BY <2>1, <2>5, FunIsSeq
  <2> QED
    BY <2>2, <2>6 DEF CtxIds
<1>5. Grows
  <2>1. Len(ctxs) \in Nat /\ Len(messages) \in Nat
    BY Typed
  <2>2. Len(ctxs) <= Len(ctxs')
    <3>1. Len(ctxs') = Len(ctxs)
      BY <1>4, Zenon
    <3> QED
      BY <2>1, <3>1
  <2>3. Len(messages) <= Len(messages')
    BY <1>3, <2>1
  <2> QED
    BY <1>3, <1>4, <2>2, <2>3 DEF Grows
<1>6. bus' \in BusStates' /\ bus'.ctx = e.ctx /\ bus'.msg = m
  <2>1. TypeOK /\ PassDownstream(e.ctx, e.source, m)
    BY <1>1, Typed
  <2> HIDE DEF e, m
  <2> QED
    BY <1>2, <1>3, <1>5, <2>1, Passing
<1>7. pipe' \in Seq(ToBus')
  BY <1>1, <1>5, Grown, Typed, HeadTail
<1>8. TypeOK'
  BY <1>1, <1>2, <1>3, <1>4, <1>5, <1>6, <1>7, Grown, Typed, TypesHold
<1>9. RefersToLogged'
  <2>1. CtxIds' = CtxIds /\ MsgIds \subseteq MsgIds' /\ ReceiveEvents \subseteq ReceiveEvents'
    BY <1>4, <1>5, Grown, Typed DEF CtxIds
  <2>2. ASSUME NEW c \in CtxIds
        PROVE  /\ ctxs'[c].sent => ctxs'[c].payload \in MsgIds'
               /\ ctxs[c].sent => ctxs'[c].sent
    <3>1. /\ ctxs[c] \in Contexts
          /\ ctxs'[c] = IF c = e.ctx THEN [ctxs[c] EXCEPT !.payload = m, !.sent = TRUE] ELSE ctxs[c]
          /\ ctxs[c].sent => ctxs[c].payload \in MsgIds
      BY <1>4, Typed DEF RefersToLogged
    <3>2. CASE c = e.ctx
      <4>1. ctxs'[c].payload = m /\ ctxs'[c].sent
        BY <3>1, <3>2 DEF Contexts
      <4> QED
        BY <1>3, <4>1
    <3>3. CASE c # e.ctx
      BY <2>1, <3>1, <3>3
    <3> QED
      BY <3>2, <3>3
  <2>3. \A c \in replay' : ctxs'[c].sent
    BY <1>1, <2>2, Typed DEF RefersToLogged
  <2> QED
    BY <1>1, <1>2, <1>3, <1>6, <2>1, <2>2, <2>3, Typed DEF RefersToLogged
<1>10. ctxs'[e.ctx].payload = m /\ ctxs'[e.ctx].data = ctxs[e.ctx].data
  <2>1. ctxs[e.ctx] \in Contexts /\ ctxs'[e.ctx] = [ctxs[e.ctx] EXCEPT !.payload = m, !.sent = TRUE]
    BY <1>2, <1>4, Typed
  <2> QED
    BY <2>1 DEF Contexts
<1>11. Len(ctxs') = Len(ctxs)
  BY <1>4, Zenon
<1>12. \A c \in CtxIds : c # e.ctx => ctxs'[c] = ctxs[c]
  BY <1>4
<1> QED
  BY <1>5, <1>8, <1>9, <1>10, <1>11, <1>12 DEF TypeInv

\* The bus creates a child.
LEMMA ForksTypes ==
  ASSUME TypeInv, NEW k \in bus.todo, BusForks(k)
  PROVE  /\ TypeInv' /\ Grows
         /\ Len(ctxs') = Len(ctxs) + 1 /\ ctxs'[Len(ctxs) + 1] = ChildOf(ctxs[bus.ctx])
         /\ \A c \in CtxIds : ctxs'[c] = ctxs[c]
<1> DEFINE child == ChildOf(ctxs[bus.ctx])
<1> DEFINE n == Len(ctxs) + 1
<1> DEFINE e == [target |-> k, ctx |-> n, msg |-> bus.msg, data |-> bus.data]
<1>1. /\ UNCHANGED <<messages, pipe, inbox, actor, parked, producer, stopAsked, replay, produced, crashes, done>>
      /\ ctxs' = Append(ctxs, child)
      /\ bus' = [bus EXCEPT !.todo = @ \ {k},
                               !.out = Append(@, [target |-> k, ctx |-> Len(ctxs'), msg |-> bus.msg,
                                                  data |-> bus.data])]
  BY DEF BusForks
<1>2. /\ bus.ctx \in CtxIds /\ bus.msg \in MsgIds /\ bus.data \in Nat /\ bus.todo \subseteq Sinks
      /\ bus.out \in Seq(ReceiveEvents) /\ k \in Sinks
  BY Typed, Fields DEF RefersToLogged
<1>3. child \in Contexts /\ child.sent = FALSE
  BY <1>2, Typed DEF ChildOf, Contexts
<1>4. /\ ctxs' \in Seq(Contexts) /\ Len(ctxs') = n /\ ctxs'[n] = child
      /\ \A c \in CtxIds : ctxs'[c] = ctxs[c]
  BY <1>1, <1>3, Typed DEF CtxIds
<1>5. MsgIds' = MsgIds /\ Contexts' = Contexts /\ messages' = messages
  BY <1>1 DEF MsgIds, Contexts
<1>6. Grows
  <2>1. Len(ctxs) <= n
    BY Typed
  <2> QED
    BY <1>4, <1>5, <2>1, Typed DEF Grows
<1>7. CtxIds \subseteq CtxIds' /\ CtxIds' = CtxIds \cup {n} /\ n \in CtxIds'
  BY <1>4, Typed DEF CtxIds
<1>8. bus' \in BusStates' /\ bus'.ctx = bus.ctx /\ bus'.msg = bus.msg
  <2>1. e \in ReceiveEvents'
    BY <1>2, <1>5, <1>7 DEF ReceiveEvents
  <2>2. bus.out \in Seq(ReceiveEvents')
    BY <1>6, Grown, Typed, Fields DEF BusStates
  <2>3. bus' = [bus EXCEPT !.todo = bus.todo \ {k}, !.out = Append(bus.out, e)]
    BY <1>1, <1>4
  <2>4. Append(bus.out, e) \in Seq(ReceiveEvents')
    BY <2>1, <2>2
  <2> HIDE DEF e
  <2> DEFINE out == Append(bus.out, e)
  <2> HIDE DEF out
  <2>5. bus \in BusStates'
    BY <1>6, Grown, Typed
  <2>6. bus' = [bus EXCEPT !.todo = bus.todo \ {k}, !.out = out] /\ out \in Seq(ReceiveEvents')
    BY <2>3, <2>4 DEF out
  <2> QED
    BY <1>2, <2>5, <2>6 DEF BusStates
<1>9. TypeOK'
  BY <1>1, <1>4, <1>5, <1>6, <1>8, Grown, Typed, TypesHold
<1>10. RefersToLogged'
  <2>1. \A c \in CtxIds' : ctxs'[c].sent => ctxs'[c].payload \in MsgIds'
    BY <1>3, <1>4, <1>5, <1>7, Typed DEF RefersToLogged
  <2>2. \A c \in replay' : ctxs'[c].sent
    BY <1>1, <1>4, Typed DEF RefersToLogged
  <2>3. ReceiveEvents \subseteq ReceiveEvents'
    BY <1>6, Grown, Typed
  <2>4. bus'.todo # {} => bus'.ctx \in CtxIds' /\ bus'.msg \in MsgIds'
    BY <1>2, <1>5, <1>7, <1>8
  <2>5. /\ \A a \in Actors : actor'[a].pc = "handling" => actor'[a].event \in ReceiveEvents'
        /\ \A a \in Actors : actor'[a].pc = "emitting" => actor'[a].out # <<>>
        /\ \A d \in parked' : d.cause.msg \in MsgIds'
    BY <1>1, <1>5, <2>3, Typed DEF RefersToLogged
  <2> QED
    BY <2>1, <2>2, <2>4, <2>5 DEF RefersToLogged
<1> QED
  BY <1>4, <1>6, <1>9, <1>10 DEF TypeInv

\* The bus passes a delivery on.
LEMMA PassesTypes ==
  ASSUME TypeInv, BusPasses
  PROVE  TypeInv'
<1> DEFINE e == Head(bus.out)
<1> DEFINE o == Owner[e.target]
<1>1. /\ UNCHANGED <<ctxs, messages, pipe, actor, parked, producer, stopAsked, replay, produced, crashes, done>>
      /\ bus.out # <<>> /\ inbox' = [inbox EXCEPT ![o] = Append(inbox[o], e)]
      /\ bus' = [bus EXCEPT !.out = Tail(bus.out)]
  BY DEF BusPasses
<1>2. e \in ReceiveEvents /\ Tail(bus.out) \in Seq(ReceiveEvents) /\ o \in Actors
  BY <1>1, Typed, Fields, HeadTail, GraphIs
<1>3. Append(inbox[o], e) \in Seq(FromBus)
  BY <1>2, Typed DEF FromBus
<1>4. inbox' \in [Actors -> Seq(FromBus)]
  BY <1>1, <1>2, <1>3, Typed
<1>5. bus' \in BusStates /\ bus'.todo = bus.todo /\ bus'.ctx = bus.ctx /\ bus'.msg = bus.msg
  BY <1>1, <1>2, Typed DEF BusStates
<1>6. TypeOK'
  BY <1>1, <1>4, <1>5, Typed, NothingAdded, TypesHold
<1>7. RefersToLogged'
  BY <1>1, <1>5, Typed, NothingAdded DEF RefersToLogged
<1> QED
  BY <1>6, <1>7 DEF TypeInv

\* The stop events that follow what an inbox holds.
Stops(a) == [i \in 1..Cardinality({k \in Sinks : Owner[k] = a}) |-> StopActorEvent]

LEMMA StopsAre ==
  ASSUME NEW a \in Actors
  PROVE  /\ Stops(a) \in Seq({StopActorEvent})
         /\ \A i \in DOMAIN Stops(a) : Stops(a)[i] = StopActorEvent
<1> DEFINE n == Cardinality({k \in Sinks : Owner[k] = a})
<1>1. n \in Nat
  <2>1. IsFiniteSet(Sinks) /\ {k \in Sinks : Owner[k] = a} \in SUBSET Sinks
    BY GraphAssumption
  <2> QED
    BY <2>1, FS_Subset, FS_CardinalityType
<1> HIDE DEF n
<1>2. [i \in 1..n |-> StopActorEvent] \in Seq({StopActorEvent})
  BY <1>1, FunIsSeq
<1> QED
  BY <1>1, <1>2 DEF Stops, n

LEMMA StopsTypes ==
  ASSUME TypeInv, BusStops
  PROVE  TypeInv'
<1>1. /\ UNCHANGED <<ctxs, messages, actor, parked, producer, stopAsked, replay, produced, crashes, done>>
      /\ pipe # <<>> /\ pipe' = Tail(pipe) /\ bus' = [bus EXCEPT !.up = FALSE]
      /\ inbox' = [a \in Actors |-> inbox[a] \o Stops(a)]
  BY DEF BusStops, Stops
<1>2. pipe' \in Seq(ToBus)
  BY <1>1, Typed, HeadTail
<1>3. ASSUME NEW a \in Actors PROVE inbox[a] \o Stops(a) \in Seq(FromBus)
  <2>1. Stops(a) \in Seq(FromBus)
    BY StopsAre, SeqMonotonic DEF FromBus
  <2> QED
    BY <2>1, Typed, ConcatProperties
<1>4. inbox' \in [Actors -> Seq(FromBus)]
  BY <1>1, <1>3
<1>5. bus' \in BusStates /\ bus'.todo = bus.todo /\ bus'.ctx = bus.ctx /\ bus'.msg = bus.msg
  BY <1>1, Typed DEF BusStates
<1>6. TypeOK'
  BY <1>1, <1>2, <1>4, <1>5, Typed, NothingAdded, TypesHold
<1>7. RefersToLogged'
  BY <1>1, <1>5, Typed, NothingAdded DEF RefersToLogged
<1> QED
  BY <1>6, <1>7 DEF TypeInv

\* A step that adds neither contexts nor messages keeps the types of what it changes.
LEMMA PlainStep ==
  ASSUME TypeInv, UNCHANGED <<ctxs, messages, produced, crashes>>,
         pipe' \in Seq(ToBus), bus' \in BusStates, inbox' \in [Actors -> Seq(FromBus)],
         actor' \in [Actors -> ActorStates], parked' \subseteq SendEvents,
         producer' \in [Producers -> 0..Len(ctxs)], stopAsked' \in BOOLEAN,
         replay' \subseteq CtxIds, done' \subseteq Causes,
         bus'.todo # {} => bus'.ctx \in CtxIds /\ bus'.msg \in MsgIds,
         \A a \in Actors : actor'[a].pc = "handling" => actor'[a].event \in ReceiveEvents,
         \A a \in Actors : actor'[a].pc = "emitting" => actor'[a].out # <<>>,
         \A e \in parked' : e.cause.msg \in MsgIds,
         \A c \in replay' : ctxs[c].sent
  PROVE  TypeInv'
<1>1. TypeOK'
  BY Typed, NothingAdded, TypesHold
<1>2. RefersToLogged'
  BY Typed, NothingAdded DEF RefersToLogged
<1> QED
  BY <1>1, <1>2 DEF TypeInv

LEMMA IdleIs ==
  Idle \in ActorStates /\ Idle.pc = "idle" /\ Idle.out = <<>>
BY DEF Idle, ActorStates, FromBus

LEMMA HandlingTypes ==
  ASSUME TypeInv, NEW a \in Actors, StartHandling(a)
  PROVE  /\ TypeInv' /\ Head(inbox[a]) \in ReceiveEvents
         /\ actor' = [actor EXCEPT ![a] = [Idle EXCEPT !.pc = "handling", !.event = Head(inbox[a])]]
         /\ actor'[a].pc = "handling" /\ actor'[a].event = Head(inbox[a]) /\ actor'[a].out = <<>>
<1> DEFINE e == Head(inbox[a])
<1> DEFINE x == [Idle EXCEPT !.pc = "handling", !.event = e]
<1>1. /\ UNCHANGED <<ctxs, messages, pipe, bus, parked, producer, stopAsked, replay, produced, crashes, done>>
      /\ inbox[a] # <<>> /\ e # StopActorEvent
      /\ actor' = [actor EXCEPT ![a] = x] /\ inbox' = [inbox EXCEPT ![a] = Tail(inbox[a])]
  BY DEF StartHandling
<1>2. e \in ReceiveEvents /\ e \in FromBus /\ Tail(inbox[a]) \in Seq(FromBus)
  BY <1>1, Typed, HeadTail DEF FromBus
<1> HIDE DEF e
<1>3. x \in ActorStates /\ x.pc = "handling" /\ x.event = e /\ x.out = <<>>
  BY <1>2, IdleIs DEF ActorStates
<1> HIDE DEF x
<1>4. /\ actor' \in [Actors -> ActorStates] /\ inbox' \in [Actors -> Seq(FromBus)]
      /\ actor'[a] = x /\ \A b \in Actors \ {a} : actor'[b] = actor[b]
  BY <1>1, <1>2, <1>3, Typed
<1>5. \A b \in Actors : /\ actor'[b].pc = "handling" => actor'[b].event \in ReceiveEvents
                        /\ actor'[b].pc = "emitting" => actor'[b].out # <<>>
  BY <1>2, <1>3, <1>4, Typed DEF RefersToLogged
<1>6. TypeInv'
  BY <1>1, <1>4, <1>5, Typed, PlainStep DEF RefersToLogged
<1> QED
  BY <1>1, <1>2, <1>3, <1>4, <1>6 DEF e, x

\* What the bus and the actor have on the bus.
LEMMA EmitsTypes ==
  ASSUME TypeInv, NEW a \in Actors, ActorEmits(a)
  PROVE  /\ TypeInv' /\ actor[a].out # <<>> /\ Head(actor[a].out) \in SendEvents
         /\ actor'[a].out = Tail(actor[a].out) /\ actor'[a].pc \in {"idle", "emitting"}
<1> DEFINE e == Head(actor[a].out)
<1>1. /\ UNCHANGED <<ctxs, messages, bus, inbox, parked, producer, stopAsked, replay, produced, crashes, done>>
      /\ actor[a].pc = "emitting" /\ pipe' = Append(pipe, e)
      /\ actor' = [actor EXCEPT ![a] = IF Len(actor[a].out) = 1 THEN Idle
                                       ELSE [actor[a] EXCEPT !.out = Tail(actor[a].out)]]
  BY DEF ActorEmits
<1>2. actor[a].out \in Seq(SendEvents) /\ actor[a].out # <<>> /\ actor[a] \in ActorStates
  BY <1>1, Typed, Fields DEF RefersToLogged
<1>3. e \in SendEvents /\ Tail(actor[a].out) \in Seq(SendEvents)
  BY <1>2, HeadTail
<1>4. /\ Len(actor[a].out) = 1 => Tail(actor[a].out) = <<>>
      /\ Len(actor[a].out) # 1 => Tail(actor[a].out) # <<>>
  BY <1>2, LastTail
<1> DEFINE out == Tail(actor[a].out)
<1> HIDE DEF e, out
<1>5. /\ actor'[a] \in ActorStates /\ actor'[a].out = out
      /\ actor'[a].pc = "idle" \/ (actor'[a].pc = "emitting" /\ out # <<>>)
  <2>1. CASE Len(actor[a].out) = 1
    <3>1. actor'[a] = Idle
      BY <1>1, <2>1, Typed
    <3> QED
      BY <1>4, <2>1, <3>1, IdleIs DEF out
  <2>2. CASE Len(actor[a].out) # 1
    <3>1. actor'[a] = [actor[a] EXCEPT !.out = out] /\ out \in Seq(SendEvents) /\ out # <<>>
      BY <1>1, <1>3, <1>4, <2>2, Typed DEF out
    <3> QED
      BY <1>1, <1>2, <3>1 DEF ActorStates
  <2> QED
    BY <2>1, <2>2
<1>6. /\ actor' \in [Actors -> ActorStates] /\ \A b \in Actors \ {a} : actor'[b] = actor[b]
  BY <1>1, <1>5, Typed
<1>7. pipe' \in Seq(ToBus)
  BY <1>1, <1>3, Typed DEF ToBus
<1>8. \A b \in Actors : /\ actor'[b].pc = "handling" => actor'[b].event \in ReceiveEvents
                        /\ actor'[b].pc = "emitting" => actor'[b].out # <<>>
  BY <1>5, <1>6, Typed DEF RefersToLogged
<1>9. TypeInv'
  BY <1>1, <1>6, <1>7, <1>8, Typed, PlainStep DEF RefersToLogged
<1> QED
  BY <1>2, <1>3, <1>5, <1>9 DEF e, out

LEMMA ActorStopsTypes ==
  ASSUME TypeInv, NEW a \in Actors, ActorStops(a)
  PROVE  /\ TypeInv' /\ actor'[a].pc = "stopped" /\ actor'[a].out = actor[a].out
<1>1. /\ UNCHANGED <<ctxs, messages, pipe, bus, parked, producer, stopAsked, replay, produced, crashes, done>>
      /\ inbox[a] # <<>> /\ actor' = [actor EXCEPT ![a] = [actor[a] EXCEPT !.pc = "stopped"]]
      /\ inbox' = [inbox EXCEPT ![a] = Tail(inbox[a])]
  BY DEF ActorStops
<1>2. Tail(inbox[a]) \in Seq(FromBus)
  BY <1>1, Typed, HeadTail
<1> DEFINE x == [actor[a] EXCEPT !.pc = "stopped"]
<1>3. x \in ActorStates /\ x.pc = "stopped" /\ x.out = actor[a].out
  BY Typed DEF ActorStates
<1> HIDE DEF x
<1>4. /\ actor' \in [Actors -> ActorStates] /\ inbox' \in [Actors -> Seq(FromBus)]
      /\ actor'[a] = x /\ \A b \in Actors \ {a} : actor'[b] = actor[b]
  BY <1>1, <1>2, <1>3, Typed DEF x
<1>5. \A b \in Actors : /\ actor'[b].pc = "handling" => actor'[b].event \in ReceiveEvents
                        /\ actor'[b].pc = "emitting" => actor'[b].out # <<>>
  BY <1>3, <1>4, Typed DEF RefersToLogged
<1>6. TypeInv'
  BY <1>1, <1>4, <1>5, Typed, PlainStep DEF RefersToLogged
<1> QED
  BY <1>3, <1>4, <1>6

\* A handler wrote user data, or did not: who reads anything else sees the same.
LEMMA WrittenIs ==
  ASSUME TypeInv, NEW c \in CtxIds, NEW m \in MsgIds, NEW writes
  PROVE  /\ Written(c, m, writes) \in Seq(Contexts) /\ Len(Written(c, m, writes)) = Len(ctxs)
         /\ \A d \in CtxIds : /\ Written(c, m, writes)[d] \in Contexts
                              /\ Written(c, m, writes)[d].payload = ctxs[d].payload
                              /\ Written(c, m, writes)[d].sent = ctxs[d].sent
                              /\ d # c => Written(c, m, writes)[d] = ctxs[d]
<1>1. /\ ctxs \in Seq(Contexts) /\ Len(ctxs) \in Nat /\ DOMAIN ctxs = 1..Len(ctxs)
      /\ c \in 1..Len(ctxs) /\ CtxIds = 1..Len(ctxs) /\ \A d \in CtxIds : ctxs[d] \in Contexts
  BY Typed DEF CtxIds
<1>2. m \in 0..Len(messages)
  BY Typed DEF MsgIds
<1> DEFINE w == [ctxs EXCEPT ![c].data = m]
<1>3. ASSUME NEW x \in Contexts
      PROVE  /\ [x EXCEPT !.data = m] \in Contexts /\ [x EXCEPT !.data = m].payload = x.payload
             /\ [x EXCEPT !.data = m].sent = x.sent
  BY <1>2 DEF Contexts
<1>4. w = [d \in 1..Len(ctxs) |-> IF d = c THEN [ctxs[d] EXCEPT !.data = m] ELSE ctxs[d]]
  BY <1>1
<1>5. w \in [1..Len(ctxs) -> Contexts]
  BY <1>1, <1>3, <1>4
<1>6. w \in Seq(Contexts) /\ Len(w) = Len(ctxs)
  BY <1>1, <1>5, FunIsSeq
<1>7. \A d \in CtxIds : /\ w[d] \in Contexts /\ w[d].payload = ctxs[d].payload /\ w[d].sent = ctxs[d].sent
                        /\ d # c => w[d] = ctxs[d]
  BY <1>1, <1>3, <1>4
<1> HIDE DEF w
<1>8. Written(c, m, writes) = w \/ Written(c, m, writes) = ctxs
  BY DEF Written, w
<1> QED
  BY <1>1, <1>6, <1>7, <1>8

\* The children of an output are numbered in the order of their events.
LEMMA ChildrenCount ==
  ASSUME NEW o, NEW i \in Nat, NEW j \in Nat, i <= j
  PROVE  /\ Cardinality(Children(o, i)) \in Nat /\ Cardinality(Children(o, j)) \in Nat
         /\ Cardinality(Children(o, i)) <= Cardinality(Children(o, j))
         /\ i < j /\ o[j].on = "child" => Cardinality(Children(o, i)) < Cardinality(Children(o, j))
<1>1. IsFiniteSet(1..j) /\ Children(o, j) \in SUBSET (1..j) /\ Children(o, i) \in SUBSET Children(o, j)
  BY FS_Interval DEF Children
<1>2. IsFiniteSet(Children(o, j)) /\ IsFiniteSet(Children(o, i))
  BY <1>1, FS_Subset
<1>3. /\ Cardinality(Children(o, i)) <= Cardinality(Children(o, j))
      /\ Cardinality(Children(o, j)) = Cardinality(Children(o, i)) => Children(o, j) = Children(o, i)
  BY <1>1, <1>2, FS_Subset
<1>4. Cardinality(Children(o, i)) \in Nat /\ Cardinality(Children(o, j)) \in Nat
  BY <1>2, FS_CardinalityType
<1>5. i < j /\ o[j].on = "child" => j \in Children(o, j) /\ j \notin Children(o, i)
  BY DEF Children
<1> QED
  BY <1>3, <1>4, <1>5

\* An event on a child has a number of its own among the children.
LEMMA ChildNumber ==
  ASSUME NEW o, NEW n \in Nat, NEW i \in 1..n, o[i].on = "child"
  PROVE  Cardinality(Children(o, i)) \in 1..Cardinality(Children(o, n))
<1>1. i - 1 \in Nat /\ i \in Nat /\ i - 1 < i /\ i - 1 <= i /\ i <= n
  OBVIOUS
<1>2. /\ Cardinality(Children(o, i - 1)) \in Nat /\ Cardinality(Children(o, i)) \in Nat
      /\ Cardinality(Children(o, i - 1)) < Cardinality(Children(o, i))
  BY <1>1, ChildrenCount
<1>3. /\ Cardinality(Children(o, n)) \in Nat /\ Cardinality(Children(o, i)) <= Cardinality(Children(o, n))
  BY <1>1, ChildrenCount
<1> QED
  BY <1>2, <1>3

\* A handler returns: contexts are added for the children of its output, and the
\* events are on these or on its own.
LEMMA ReturnsTypes ==
  ASSUME TypeInv, NEW a \in Actors, NEW o \in Outputs[actor[a].event.target] \cup {<<>>},
         NEW writes, HandlerReturns(a, o, writes)
  PROVE  LET e == actor[a].event
             n == Cardinality(Children(o, Len(o)))
             w == Written(e.ctx, e.msg, writes)
         IN /\ TypeInv' /\ Grows /\ e \in ReceiveEvents /\ n \in Nat /\ Len(ctxs') = Len(ctxs) + n
            /\ \A c \in CtxIds : ctxs'[c] = w[c]
            /\ actor'[a].pc \in {"idle", "emitting"}
            /\ DOMAIN actor'[a].out = 1..Len(o) /\ Len(o) \in Nat /\ o \in Seq(Pieces)
            /\ \A i \in 1..Len(o) : actor'[a].out[i].ctx =
                 IF o[i].on = "same" THEN e.ctx ELSE Len(ctxs) + Cardinality(Children(o, i))
<1> DEFINE e == actor[a].event
<1> DEFINE n == Cardinality(Children(o, Len(o)))
<1> DEFINE w == Written(e.ctx, e.msg, writes)
<1> DEFINE kids == [i \in 1..n |-> ChildOf(w[e.ctx])]
<1>1. /\ UNCHANGED <<messages, pipe, bus, inbox, parked, producer, stopAsked, replay, produced, crashes>>
      /\ actor[a].pc = "handling" /\ ctxs' = w \o kids
      /\ actor' = [actor EXCEPT ![a] = IF o = <<>> THEN Idle
                                       ELSE [Idle EXCEPT !.pc = "emitting", !.out = SendEventsOf(o, e)]]
      /\ done' = IF o = <<>> THEN done \cup {[msg |-> e.msg, sink |-> e.target]} ELSE done
  BY DEF HandlerReturns
<1>2. e \in ReceiveEvents /\ e.target \in Sinks /\ e.ctx \in CtxIds /\ e.msg \in MsgIds
  BY <1>1, Typed, Fields DEF RefersToLogged
<1>3. [msg |-> e.msg, sink |-> e.target] \in Causes
  BY <1>2 DEF Causes, MsgIds
<1>4. o \in Seq(Pieces) /\ Len(o) \in Nat /\ DOMAIN o = 1..Len(o)
  <2>1. o \in Seq(Pieces)
    <3>1. CASE o = <<>>
      BY <3>1, EmptySeq
    <3>2. CASE o \in Outputs[e.target]
      BY <1>2, <3>2, GraphIs
    <3> QED
      BY <3>1, <3>2
  <2> QED
    BY <2>1
<1>5. n \in Nat
  BY <1>4, ChildrenCount
<1>6. /\ w \in Seq(Contexts) /\ Len(w) = Len(ctxs) /\ Len(ctxs) \in Nat /\ CtxIds = 1..Len(ctxs)
      /\ w[e.ctx] \in Contexts /\ \A c \in CtxIds : w[c].payload = ctxs[c].payload /\ w[c].sent = ctxs[c].sent
  BY <1>2, WrittenIs, Typed DEF CtxIds
<1>7. ChildOf(w[e.ctx]) \in Contexts /\ ChildOf(w[e.ctx]).sent = FALSE
  BY <1>6 DEF ChildOf, Contexts
<1> HIDE DEF n, w
<1>8. kids \in Seq(Contexts) /\ Len(kids) = n
  BY <1>5, <1>7, FunIsSeq
<1>9. \A i \in 1..n : kids[i].sent = FALSE
  BY <1>7
<1> HIDE DEF kids
<1>10. /\ ctxs' \in Seq(Contexts) /\ Len(ctxs') = Len(ctxs) + n
       /\ \A c \in CtxIds : ctxs'[c] = w[c]
       /\ \A c \in (Len(ctxs) + 1)..(Len(ctxs) + n) : ctxs'[c].sent = FALSE
  <2>1. w \in Seq(Contexts) /\ kids \in Seq(Contexts)
    BY <1>6, <1>8
  <2>2. /\ w \o kids \in Seq(Contexts) /\ Len(w \o kids) = Len(w) + Len(kids)
        /\ \A i \in 1..Len(w) : (w \o kids)[i] = w[i]
        /\ \A i \in 1..Len(kids) : (w \o kids)[Len(w) + i] = kids[i]
    BY <2>1
  <2>3. \A c \in (Len(ctxs) + 1)..(Len(ctxs) + n) :
          c - Len(ctxs) \in 1..n /\ c = Len(ctxs) + (c - Len(ctxs))
    BY <1>5, <1>6
  <2> HIDE DEF e
  <2> DEFINE s == w \o kids
  <2> HIDE DEF s
  <2>4. /\ s \in Seq(Contexts) /\ Len(s) = Len(ctxs) + n /\ \A i \in CtxIds : s[i] = w[i]
        /\ \A i \in 1..n : s[Len(ctxs) + i] = kids[i]
    BY <1>6, <1>8, <2>2 DEF s
  <2>5. \A c \in (Len(ctxs) + 1)..(Len(ctxs) + n) : s[c].sent = FALSE
    BY <1>9, <2>3, <2>4
  <2>6. ctxs' = s
    BY <1>1 DEF s
  <2> QED
    BY <2>4, <2>5, <2>6
<1>11. MsgIds' = MsgIds /\ Contexts' = Contexts /\ messages' = messages /\ CtxIds' = 1..(Len(ctxs) + n)
  BY <1>1, <1>10 DEF MsgIds, Contexts, CtxIds
<1>12. Grows
  <2>1. Len(ctxs) <= Len(ctxs') /\ Len(messages) <= Len(messages')
    BY <1>5, <1>10, <1>11, Typed
  <2> QED
    BY <1>10, <1>11, <2>1, Typed DEF Grows
<1>13. SendEventsOf(o, e) \in Seq(SendEvents') /\ Len(SendEventsOf(o, e)) = Len(o)
  <2> DEFINE ev(i) == [ctx |-> IF o[i].on = "same" THEN e.ctx ELSE Len(ctxs) + Cardinality(Children(o, i)),
                       source |-> o[i].source, cause |-> [msg |-> e.msg, sink |-> e.target],
                       closes |-> i = Len(o)]
  <2>1. ASSUME NEW i \in 1..Len(o) PROVE ev(i) \in SendEvents'
    <3>1. o[i] \in Pieces
      BY <1>4
    <3>2. o[i].source \in Sources /\ (o[i].on = "same" \/ o[i].on = "child")
      BY <3>1 DEF Pieces
    <3>3. o[i].on = "child" => Cardinality(Children(o, i)) \in 1..n
      BY <1>4, ChildNumber DEF n
    <3>4. e.ctx \in CtxIds' /\ \A x \in 1..n : Len(ctxs) + x \in CtxIds'
      BY <1>2, <1>5, <1>6, <1>11
    <3>5. (IF o[i].on = "same" THEN e.ctx ELSE Len(ctxs) + Cardinality(Children(o, i))) \in CtxIds'
      BY <3>2, <3>3, <3>4
    <3>6. (i = Len(o)) \in BOOLEAN
      OBVIOUS
    <3>7. SendEvents' = [ctx : CtxIds', source : Sources, cause : Causes, closes : BOOLEAN]
      BY DEF SendEvents, Causes
    <3> QED
      BY <1>3, <3>2, <3>5, <3>6, <3>7
  <2>2. SendEventsOf(o, e) = [i \in 1..Len(o) |-> ev(i)]
    BY DEF SendEventsOf
  <2> HIDE DEF ev
  <2>3. SendEventsOf(o, e) \in [1..Len(o) -> SendEvents']
    BY <2>1, <2>2
  <2> QED
    BY <1>4, <2>3, FunIsSeq
<1>14. \A i \in 1..Len(o) : SendEventsOf(o, e)[i].ctx =
         IF o[i].on = "same" THEN e.ctx ELSE Len(ctxs) + Cardinality(Children(o, i))
  BY DEF SendEventsOf
<1> DEFINE out == SendEventsOf(o, e)
<1> HIDE DEF out, e
<1>15. /\ actor'[a] \in ActorStates' /\ actor'[a].out = (IF o = <<>> THEN <<>> ELSE out)
       /\ actor'[a].pc \in {"idle", "emitting"} /\ (actor'[a].pc = "emitting" => o # <<>>)
       /\ actor' \in [Actors -> ActorStates'] /\ \A b \in Actors \ {a} : actor'[b] = actor[b]
  <2>1. actor \in [Actors -> ActorStates'] /\ Idle \in ActorStates'
    BY <1>12, Grown, Typed, IdleIs DEF ActorStates, Idle, FromBus
  <2>2. CASE o = <<>>
    <3>1. actor' = [actor EXCEPT ![a] = Idle]
      BY <1>1, <2>2
    <3> QED
      BY <2>1, <2>2, <3>1, IdleIs
  <2>3. CASE o # <<>>
    <3>1. actor' = [actor EXCEPT ![a] = [Idle EXCEPT !.pc = "emitting", !.out = out]]
      BY <1>1, <2>3 DEF out, e
    <3>2. /\ [Idle EXCEPT !.pc = "emitting", !.out = out] \in ActorStates'
          /\ [Idle EXCEPT !.pc = "emitting", !.out = out].out = out
          /\ [Idle EXCEPT !.pc = "emitting", !.out = out].pc = "emitting"
      BY <1>13, <2>1 DEF out, ActorStates
    <3> QED
      BY <2>1, <2>3, <3>1, <3>2
  <2> QED
    BY <2>2, <2>3
<1>16. /\ DOMAIN actor'[a].out = 1..Len(o)
       /\ \A i \in 1..Len(o) : actor'[a].out[i].ctx =
            IF o[i].on = "same" THEN e.ctx ELSE Len(ctxs) + Cardinality(Children(o, i))
  <2>1. CASE o = <<>>
    BY <1>15, <2>1
  <2>2. CASE o # <<>>
    BY <1>13, <1>14, <1>15, <2>2 DEF out, e
  <2> QED
    BY <2>1, <2>2
<1>17. TypeOK'
  <2>1. done' \subseteq Causes
    BY <1>1, <1>3, Typed DEF e
  <2> QED
    BY <1>1, <1>10, <1>11, <1>12, <1>15, <2>1, Grown, Typed, TypesHold
<1>18. RefersToLogged'
  <2>1. \A c \in CtxIds' : ctxs'[c].sent => ctxs'[c].payload \in MsgIds'
    <3>1. \A c \in CtxIds' : c \in CtxIds \/ c \in (Len(ctxs) + 1)..(Len(ctxs) + n)
      BY <1>5, <1>6, <1>11
    <3> QED
      BY <1>6, <1>10, <1>11, <3>1, Typed DEF RefersToLogged
  <2>2. \A c \in replay' : ctxs'[c].sent
    BY <1>1, <1>6, <1>10, Typed DEF RefersToLogged
  <2>3. ReceiveEvents \subseteq ReceiveEvents' /\ CtxIds \subseteq CtxIds'
    BY <1>12, Grown, Typed
  <2>4. /\ \A b \in Actors : actor'[b].pc = "handling" => actor'[b].event \in ReceiveEvents'
        /\ \A b \in Actors : actor'[b].pc = "emitting" => actor'[b].out # <<>>
    <3>1. actor'[a].pc = "emitting" => actor'[a].out # <<>>
      <4>1. o # <<>> => Len(o) # 0
        BY <1>4
      <4> QED
        BY <1>4, <1>15, <1>16, <4>1
    <3> QED
      BY <1>15, <2>3, <3>1, Typed DEF RefersToLogged
  <2>5. /\ bus'.todo # {} => bus'.ctx \in CtxIds' /\ bus'.msg \in MsgIds'
        /\ \A d \in parked' : d.cause.msg \in MsgIds'
    BY <1>1, <1>11, <2>3, Typed DEF RefersToLogged
  <2> QED
    BY <2>1, <2>2, <2>4, <2>5 DEF RefersToLogged
<1> QED
  BY <1>2, <1>4, <1>5, <1>10, <1>12, <1>15, <1>16, <1>17, <1>18 DEF TypeInv, e, n, w

\* Writing user data adds nothing and changes no message of a context.
LEMMA WritingStep ==
  ASSUME TypeInv, NEW c \in CtxIds, NEW m \in MsgIds, NEW writes,
         ctxs' = Written(c, m, writes), UNCHANGED messages
  PROVE  /\ Grows /\ Len(ctxs') = Len(ctxs) /\ CtxIds' = CtxIds /\ MsgIds' = MsgIds
         /\ SendEvents' = SendEvents /\ ReceiveEvents' = ReceiveEvents /\ ToBus' = ToBus
         /\ FromBus' = FromBus /\ BusStates' = BusStates /\ ActorStates' = ActorStates
         /\ ctxs' \in Seq(Contexts') /\ replay \subseteq CtxIds
         /\ \A d \in CtxIds : /\ ctxs'[d].payload = ctxs[d].payload /\ ctxs'[d].sent = ctxs[d].sent
                              /\ d # c => ctxs'[d] = ctxs[d]
<1>1. /\ ctxs' \in Seq(Contexts) /\ Len(ctxs') = Len(ctxs)
      /\ \A d \in CtxIds : /\ ctxs'[d].payload = ctxs[d].payload /\ ctxs'[d].sent = ctxs[d].sent
                           /\ d # c => ctxs'[d] = ctxs[d]
  BY WrittenIs
<1>2. CtxIds' = CtxIds /\ MsgIds' = MsgIds /\ Contexts' = Contexts /\ messages' = messages
  <2>1. Len(ctxs') = Len(ctxs)
    BY <1>1, Zenon
  <2> QED
    BY <2>1 DEF CtxIds, MsgIds, Contexts
<1>3. SendEvents' = SendEvents /\ ReceiveEvents' = ReceiveEvents
  BY <1>2 DEF SendEvents, ReceiveEvents, Causes
<1>4. /\ ToBus' = ToBus /\ FromBus' = FromBus /\ ActorStates' = ActorStates
  BY <1>3 DEF ToBus, FromBus, ActorStates, StopBusEvent, StopActorEvent, NoCause
<1>5. BusStates' = BusStates
  <2>1. Len(ctxs') = Len(ctxs) /\ messages' = messages
    BY <1>1, <1>2, Zenon
  <2> QED
    BY <1>3, <2>1, Zenon DEF BusStates
<1>6. Grows
  <2>1. Len(ctxs) <= Len(ctxs') /\ Len(messages) <= Len(messages')
    <3>1. Len(ctxs') = Len(ctxs) /\ messages' = messages
      BY <1>1, <1>2, Zenon
    <3> QED
      BY <3>1, Typed
  <2> QED
    BY <1>1, <1>2, <2>1, Typed DEF Grows
<1> QED
  BY <1>1, <1>2, <1>3, <1>4, <1>5, <1>6, Typed

LEMMA DefersTypes ==
  ASSUME TypeInv, NEW a \in Actors, NEW s \in Deferred[actor[a].event.target], NEW writes,
         HandlerDefers(a, s, writes)
  PROVE  /\ TypeInv' /\ actor[a].event \in ReceiveEvents
         /\ \E d \in SendEvents : d.ctx = actor[a].event.ctx /\ parked' = parked \cup {d}
<1> DEFINE e == actor[a].event
<1> DEFINE d == [ctx |-> e.ctx, source |-> s, closes |-> TRUE, cause |-> [msg |-> e.msg, sink |-> e.target]]
<1>1. /\ UNCHANGED <<messages, pipe, bus, inbox, producer, stopAsked, replay, produced, crashes, done>>
      /\ actor[a].pc = "handling" /\ ctxs' = Written(e.ctx, e.msg, writes)
      /\ actor' = [actor EXCEPT ![a] = Idle] /\ parked' = parked \cup {d}
  BY DEF HandlerDefers
<1>2. e \in ReceiveEvents /\ e.target \in Sinks /\ e.ctx \in CtxIds /\ e.msg \in MsgIds
  BY <1>1, Typed, Fields DEF RefersToLogged
<1>3. d \in SendEvents /\ d.cause.msg = e.msg /\ d.ctx = e.ctx
  <2>1. s \in Sources /\ [msg |-> e.msg, sink |-> e.target] \in Causes
    BY <1>2, GraphIs DEF Causes, MsgIds
  <2> QED
    BY <1>2, <2>1 DEF SendEvents
<1> HIDE DEF e, d
<1>4. /\ actor' \in [Actors -> ActorStates] /\ actor'[a] = Idle
      /\ \A b \in Actors \ {a} : actor'[b] = actor[b]
  BY <1>1, IdleIs, Typed
<1>5. /\ CtxIds' = CtxIds /\ MsgIds' = MsgIds /\ SendEvents' = SendEvents /\ ReceiveEvents' = ReceiveEvents
      /\ ToBus' = ToBus /\ FromBus' = FromBus /\ BusStates' = BusStates /\ ActorStates' = ActorStates
      /\ ctxs' \in Seq(Contexts') /\ Len(ctxs') = Len(ctxs)
      /\ \A x \in CtxIds : ctxs'[x].payload = ctxs[x].payload /\ ctxs'[x].sent = ctxs[x].sent
  BY <1>1, <1>2, WritingStep
<1>6. TypeOK'
  <2>1. parked' \subseteq SendEvents' /\ producer' \in [Producers -> 0..Len(ctxs')]
    BY <1>1, <1>3, <1>5, Typed
  <2> QED
    BY <1>1, <1>4, <1>5, <2>1, Typed, TypesHold
<1>7. RefersToLogged'
  <2>1. \A x \in parked' : x.cause.msg \in MsgIds'
    BY <1>1, <1>2, <1>3, <1>5, Typed DEF RefersToLogged
  <2>2. /\ \A b \in Actors : actor'[b].pc = "handling" => actor'[b].event \in ReceiveEvents'
        /\ \A b \in Actors : actor'[b].pc = "emitting" => actor'[b].out # <<>>
    BY <1>4, <1>5, IdleIs, Typed DEF RefersToLogged
  <2>3. /\ \A x \in CtxIds' : ctxs'[x].sent => ctxs'[x].payload \in MsgIds'
        /\ \A x \in replay' : ctxs'[x].sent
    BY <1>1, <1>5, Typed DEF RefersToLogged
  <2> QED
    BY <1>1, <1>5, <2>1, <2>2, <2>3, Typed DEF RefersToLogged
<1> QED
  BY <1>1, <1>2, <1>3, <1>6, <1>7 DEF TypeInv, e

LEMMA SideThreadTypes ==
  ASSUME TypeInv, NEW e \in parked, NEW writes, SideThreadEmits(e, writes)
  PROVE  TypeInv' /\ e \in SendEvents /\ e.ctx \in CtxIds /\ e.cause.msg \in MsgIds
<1>1. /\ UNCHANGED <<messages, bus, inbox, actor, producer, stopAsked, replay, produced, crashes, done>>
      /\ ctxs' = Written(e.ctx, e.cause.msg, writes) /\ pipe' = Append(pipe, e) /\ parked' = parked \ {e}
  BY DEF SideThreadEmits
<1>2. e \in SendEvents /\ e.ctx \in CtxIds /\ e.cause.msg \in MsgIds
  BY Typed, Fields DEF RefersToLogged
<1>3. /\ CtxIds' = CtxIds /\ MsgIds' = MsgIds /\ SendEvents' = SendEvents /\ ReceiveEvents' = ReceiveEvents
      /\ ToBus' = ToBus /\ FromBus' = FromBus /\ BusStates' = BusStates /\ ActorStates' = ActorStates
      /\ ctxs' \in Seq(Contexts') /\ Len(ctxs') = Len(ctxs)
      /\ \A x \in CtxIds : ctxs'[x].payload = ctxs[x].payload /\ ctxs'[x].sent = ctxs[x].sent
  BY <1>1, <1>2, WritingStep
<1>4. pipe' \in Seq(ToBus)
  BY <1>1, <1>2, Typed DEF ToBus
<1>5. TypeOK'
  <2>1. parked' \subseteq SendEvents' /\ producer' \in [Producers -> 0..Len(ctxs')]
    BY <1>1, <1>3, Typed
  <2> QED
    BY <1>1, <1>3, <1>4, <2>1, Typed, TypesHold
<1>6. RefersToLogged'
  <2>1. /\ \A x \in CtxIds' : ctxs'[x].sent => ctxs'[x].payload \in MsgIds'
        /\ \A x \in replay' : ctxs'[x].sent
    BY <1>1, <1>3, Typed DEF RefersToLogged
  <2> QED
    BY <1>1, <1>3, <2>1, Typed DEF RefersToLogged
<1> QED
  BY <1>2, <1>5, <1>6 DEF TypeInv

LEMMA CreatesTypes ==
  ASSUME TypeInv, NEW s \in Producers, ProducerCreates(s)
  PROVE  /\ TypeInv' /\ Grows /\ Len(ctxs') = Len(ctxs) + 1 /\ producer' = [producer EXCEPT ![s] = Len(ctxs) + 1]
         /\ \A c \in CtxIds : ctxs'[c] = ctxs[c]
<1> DEFINE n == Len(ctxs) + 1
<1>1. /\ UNCHANGED <<messages, pipe, bus, inbox, actor, parked, stopAsked, replay, crashes, done>>
      /\ ctxs' = Append(ctxs, Root) /\ producer' = [producer EXCEPT ![s] = Len(ctxs')]
      /\ produced < MaxProduced /\ produced' = produced + 1
  BY DEF ProducerCreates
<1>2. Root \in Contexts /\ Root.sent = FALSE
  BY Typed DEF Root, Contexts
<1>3. /\ ctxs' \in Seq(Contexts) /\ Len(ctxs') = n /\ ctxs'[n] = Root
      /\ \A c \in CtxIds : ctxs'[c] = ctxs[c]
  BY <1>1, <1>2, Typed DEF CtxIds
<1>4. MsgIds' = MsgIds /\ Contexts' = Contexts /\ messages' = messages
  BY <1>1 DEF MsgIds, Contexts
<1>5. Grows
  <2>1. Len(ctxs) <= n
    BY Typed
  <2> QED
    BY <1>3, <1>4, <2>1, Typed DEF Grows
<1>6. CtxIds \subseteq CtxIds' /\ CtxIds' = CtxIds \cup {n}
  BY <1>3, Typed DEF CtxIds
<1>7. producer' \in [Producers -> 0..Len(ctxs')] /\ producer' = [producer EXCEPT ![s] = n]
  <2>1. n \in 0..Len(ctxs')
    BY <1>3, Typed
  <2> QED
    BY <1>1, <1>3, <1>5, <2>1, Grown, Typed
<1>8. produced' \in 0..MaxProduced
  BY <1>1, Typed, GraphIs
<1>9. TypeOK'
  BY <1>1, <1>3, <1>4, <1>5, <1>7, <1>8, Grown, Typed, TypesHold
<1>10. RefersToLogged'
  <2>1. \A c \in CtxIds' : ctxs'[c].sent => ctxs'[c].payload \in MsgIds'
    BY <1>2, <1>3, <1>4, <1>6, Typed DEF RefersToLogged
  <2>2. \A c \in replay' : ctxs'[c].sent
    BY <1>1, <1>3, Typed DEF RefersToLogged
  <2>3. ReceiveEvents \subseteq ReceiveEvents'
    BY <1>5, Grown, Typed
  <2> QED
    BY <1>1, <1>4, <1>6, <2>1, <2>2, <2>3, Typed DEF RefersToLogged
<1> QED
  BY <1>3, <1>5, <1>7, <1>9, <1>10 DEF TypeInv

LEMMA PutsTypes ==
  ASSUME TypeInv, NEW s \in Producers, ProducerPuts(s)
  PROVE  TypeInv'
<1> DEFINE e == [ctx |-> producer[s], source |-> s, cause |-> NoCause, closes |-> FALSE]
<1>1. /\ UNCHANGED <<ctxs, messages, bus, inbox, actor, parked, stopAsked, replay, produced, crashes, done>>
      /\ producer[s] # 0 /\ pipe' = Append(pipe, e) /\ producer' = [producer EXCEPT ![s] = 0]
  BY DEF ProducerPuts
<1>2. e \in SendEvents
  <2>1. producer[s] \in CtxIds /\ s \in Sources
    BY <1>1, Typed, GraphIs DEF CtxIds
  <2>2. NoCause \in Causes
    BY DEF NoCause, Causes
  <2> QED
    BY <2>1, <2>2 DEF SendEvents
<1>3. pipe' \in Seq(ToBus)
  BY <1>1, <1>2, Typed DEF ToBus
<1>4. producer' \in [Producers -> 0..Len(ctxs)]
  BY <1>1, Typed
<1> QED
  BY <1>1, <1>3, <1>4, Typed, PlainStep DEF RefersToLogged

LEMMA RequestStopTypes ==
  ASSUME TypeInv, RequestStop
  PROVE  TypeInv'
<1>1. /\ UNCHANGED <<ctxs, messages, bus, inbox, actor, parked, producer, replay, produced, crashes, done>>
      /\ stopAsked' = TRUE /\ pipe' = Append(pipe, StopBusEvent)
  BY DEF RequestStop
<1>2. pipe' \in Seq(ToBus)
  BY <1>1, Typed DEF ToBus
<1>3. stopAsked' \in BOOLEAN
  BY <1>1
<1> QED
  BY <1>1, <1>2, <1>3, Typed, PlainStep DEF RefersToLogged

LEMMA CrashTypes ==
  ASSUME TypeInv, Crash
  PROVE  TypeInv'
<1>1. /\ UNCHANGED <<ctxs, messages, produced, done>>
      /\ crashes < MaxCrashes /\ crashes' = crashes + 1 /\ pipe' = <<>> /\ bus' = BusIdle
      /\ inbox' = [a \in Actors |-> <<>>] /\ actor' = [a \in Actors |-> Idle] /\ parked' = {}
      /\ producer' = [s \in Producers |-> 0] /\ stopAsked' = FALSE
      /\ replay' = {c \in CtxIds : ctxs[c].sent}
  BY DEF Crash
<1>2. BusIdle \in BusStates /\ BusIdle.todo = {}
  BY Typed DEF BusIdle, BusStates
<1>3. /\ pipe' \in Seq(ToBus) /\ inbox' \in [Actors -> Seq(FromBus)] /\ actor' \in [Actors -> ActorStates]
  BY <1>1, IdleIs
<1>4. producer' \in [Producers -> 0..Len(ctxs)]
  BY <1>1, Typed
<1>5. crashes' \in 0..MaxCrashes
  BY <1>1, Typed, GraphIs
<1>6. stopAsked' \in BOOLEAN
  BY <1>1
<1>7. TypeOK'
  BY <1>1, <1>2, <1>3, <1>4, <1>5, <1>6, Typed, NothingAdded, TypesHold
<1>8. RefersToLogged'
  BY <1>1, <1>2, IdleIs, Typed, NothingAdded DEF RefersToLogged
<1> QED
  BY <1>7, <1>8 DEF TypeInv

\* Every step keeps the type invariant.
LEMMA NextTypes == TypeInv /\ [Next]_vars => TypeInv'
<1> SUFFICES ASSUME TypeInv, [Next]_vars PROVE TypeInv'
  OBVIOUS
<1>1. CASE BusStep
  BY <1>1, AppendsTypes, PassesTypes, StopsTypes, ForksTypes, ReplayTypes DEF BusStep
<1>2. ASSUME NEW a \in Actors, ActorStep(a) PROVE TypeInv'
  <2>1. CASE HandlerEnds(a)
    BY <2>1, ReturnsTypes, DefersTypes DEF HandlerEnds
  <2> QED
    BY <1>2, <2>1, HandlingTypes, EmitsTypes, ActorStopsTypes DEF ActorStep
<1>3. ASSUME NEW e \in parked, NEW writes \in BOOLEAN, SideThreadEmits(e, writes) PROVE TypeInv'
  BY <1>3, SideThreadTypes
<1>4. ASSUME NEW s \in Producers, ProducerCreates(s) \/ ProducerPuts(s) PROVE TypeInv'
  BY <1>4, CreatesTypes, PutsTypes
<1>5. CASE RequestStop
  BY <1>5, RequestStopTypes
<1>6. CASE Crash
  BY <1>6, CrashTypes
<1>7. CASE UNCHANGED vars
  BY <1>7, Typed, PlainStep DEF vars, graphVars, RefersToLogged
<1> QED
  BY <1>1, <1>2, <1>3, <1>4, <1>5, <1>6, <1>7 DEF Next

\* Every variable keeps its type, for any graph and any number of products and crashes.
THEOREM TypeCorrectness == Spec => []TypeOK
<1>1. TypeInv => TypeOK
  BY DEF TypeInv
<1> QED
  BY <1>1, InitTypes, NextTypes, PTL DEF Spec

----------------------------------------------------------------------------
(* A context is in one place at a time *)

ThePipe == <<"pipe", "all">>
TheBus == <<"bus", "all">>
TheParked == <<"parked", "all">>
TheReplay == <<"replay", "all">>
Inbox(a) == <<"inbox", a>>
Out(a) == <<"out", a>>
Handling(a) == <<"handling", a>>
Product(s) == <<"producer", s>>

LEMMA PlacesAre ==
  /\ ThePipe \in Places /\ TheBus \in Places /\ TheParked \in Places /\ TheReplay \in Places
  /\ \A a \in Actors : Inbox(a) \in Places /\ Out(a) \in Places /\ Handling(a) \in Places
  /\ \A s \in Producers : Product(s) \in Places
BY DEF Places, ThePipe, TheBus, TheParked, TheReplay, Inbox, Out, Handling, Product

LEMMA PlaceCases ==
  ASSUME NEW p \in Places
  PROVE  \/ p \in {ThePipe, TheBus, TheParked, TheReplay}
         \/ \E a \in Actors : p \in {Inbox(a), Out(a), Handling(a)}
         \/ \E s \in Producers : p = Product(s)
BY DEF Places, ThePipe, TheBus, TheParked, TheReplay, Inbox, Out, Handling, Product

\* Places differ.
LEMMA PlacesDiffer ==
  /\ ThePipe # TheBus /\ ThePipe # TheParked /\ ThePipe # TheReplay /\ TheBus # TheParked
  /\ TheBus # TheReplay /\ TheParked # TheReplay
  /\ \A a : \A p \in {ThePipe, TheBus, TheParked, TheReplay} :
       p # Inbox(a) /\ p # Out(a) /\ p # Handling(a) /\ p # Product(a)
  /\ \A a, b : /\ Inbox(a) # Out(b) /\ Inbox(a) # Handling(b) /\ Inbox(a) # Product(b)
               /\ Out(a) # Handling(b) /\ Out(a) # Product(b) /\ Handling(a) # Product(b)
               /\ (Inbox(a) = Inbox(b) => a = b) /\ (Out(a) = Out(b) => a = b)
               /\ (Handling(a) = Handling(b) => a = b) /\ (Product(a) = Product(b) => a = b)
BY DEF ThePipe, TheBus, TheParked, TheReplay, Inbox, Out, Handling, Product

\* What is in each place.
LEMMA HeldIs ==
  /\ Held(ThePipe) = InQueue(pipe)
  /\ Held(TheBus) = InQueue(bus.out) \cup (IF bus.todo # {} THEN {bus.ctx} ELSE {})
  /\ Held(TheParked) = {e.ctx : e \in parked}
  /\ Held(TheReplay) = replay
  /\ \A a : /\ Held(Inbox(a)) = InQueue(inbox[a]) /\ Held(Out(a)) = InQueue(actor[a].out)
            /\ Held(Handling(a)) = (IF actor[a].pc = "handling" THEN {actor[a].event.ctx} ELSE {})
  /\ \A s : Held(Product(s)) = {producer[s]}
BY DEF Held, ThePipe, TheBus, TheParked, TheReplay, Inbox, Out, Handling, Product

\* And after a step.
LEMMA HeldBecomes ==
  /\ Held(ThePipe)' = InQueue(pipe')
  /\ Held(TheBus)' = InQueue(bus'.out) \cup (IF bus'.todo # {} THEN {bus'.ctx} ELSE {})
  /\ Held(TheParked)' = {e.ctx : e \in parked'}
  /\ Held(TheReplay)' = replay'
  /\ \A a : /\ Held(Inbox(a))' = InQueue(inbox'[a]) /\ Held(Out(a))' = InQueue(actor'[a].out)
            /\ Held(Handling(a))' = (IF actor'[a].pc = "handling" THEN {actor'[a].event.ctx} ELSE {})
  /\ \A s : Held(Product(s))' = {producer'[s]}
BY DEF Held, ThePipe, TheBus, TheParked, TheReplay, Inbox, Out, Handling, Product

\* What a step leaves alone.
LEMMA HeldSame ==
  /\ pipe' = pipe => Held(ThePipe)' = Held(ThePipe)
  /\ bus' = bus => Held(TheBus)' = Held(TheBus)
  /\ parked' = parked => Held(TheParked)' = Held(TheParked)
  /\ replay' = replay => Held(TheReplay)' = Held(TheReplay)
  /\ \A a : /\ inbox'[a] = inbox[a] => Held(Inbox(a))' = Held(Inbox(a))
            /\ actor'[a] = actor[a] => Held(Out(a))' = Held(Out(a)) /\ Held(Handling(a))' = Held(Handling(a))
  /\ \A s : producer'[s] = producer[s] => Held(Product(s))' = Held(Product(s))
<1>1. /\ pipe' = pipe => Held(ThePipe)' = Held(ThePipe)
      /\ bus' = bus => Held(TheBus)' = Held(TheBus)
      /\ parked' = parked => Held(TheParked)' = Held(TheParked)
      /\ replay' = replay => Held(TheReplay)' = Held(TheReplay)
  <2>1. pipe' = pipe => Held(ThePipe)' = Held(ThePipe)
    BY HeldIs, HeldBecomes
  <2>2. bus' = bus => Held(TheBus)' = Held(TheBus)
    BY HeldIs, HeldBecomes
  <2>3. parked' = parked => Held(TheParked)' = Held(TheParked)
    BY HeldIs, HeldBecomes
  <2>4. replay' = replay => Held(TheReplay)' = Held(TheReplay)
    BY HeldIs, HeldBecomes
  <2> QED
    BY <2>1, <2>2, <2>3, <2>4
<1>2. ASSUME NEW a, inbox'[a] = inbox[a] PROVE Held(Inbox(a))' = Held(Inbox(a))
  BY <1>2, HeldIs, HeldBecomes
<1>3. ASSUME NEW a, actor'[a] = actor[a]
      PROVE  Held(Out(a))' = Held(Out(a)) /\ Held(Handling(a))' = Held(Handling(a))
  <2>1. Held(Out(a))' = Held(Out(a))
    <3>1. Held(Out(a)) = InQueue(actor[a].out) /\ Held(Out(a))' = InQueue(actor'[a].out)
      BY HeldIs, HeldBecomes
    <3> QED
      BY <1>3, <3>1
  <2>2. Held(Handling(a))' = Held(Handling(a))
    <3>1. /\ Held(Handling(a)) = IF actor[a].pc = "handling" THEN {actor[a].event.ctx} ELSE {}
          /\ Held(Handling(a))' = IF actor'[a].pc = "handling" THEN {actor'[a].event.ctx} ELSE {}
      BY HeldIs, HeldBecomes
    <3> QED
      BY <1>3, <3>1
  <2> QED
    BY <2>1, <2>2
<1>4. ASSUME NEW s, producer'[s] = producer[s] PROVE Held(Product(s))' = Held(Product(s))
  BY <1>4, HeldIs, HeldBecomes
<1> QED
  BY <1>1, <1>2, <1>3, <1>4

\* Contexts in queues.
LEMMA QueueHolds ==
  ASSUME NEW S, NEW q \in Seq(S), \A x \in S : x.ctx \in CtxIds \cup {0}
  PROVE  InQueue(q) \subseteq CtxIds \cup {0}
BY DEF InQueue

\* Places hold contexts that exist.
LEMMA HeldExists ==
  ASSUME TypeInv, NEW p \in Places
  PROVE  Held(p) \subseteq CtxIds \cup {0}
<1>1. /\ \A e \in ToBus : e.ctx \in CtxIds \cup {0}
      /\ \A e \in FromBus : e.ctx \in CtxIds \cup {0}
      /\ \A e \in SendEvents : e.ctx \in CtxIds \cup {0}
      /\ \A e \in ReceiveEvents : e.ctx \in CtxIds \cup {0}
  BY Fields, StopsDiffer DEF ToBus, FromBus
<1>2. CASE p \in {ThePipe, TheBus, TheParked, TheReplay}
  <2>1. InQueue(pipe) \subseteq CtxIds \cup {0}
    BY <1>1, QueueHolds, Typed
  <2>2. InQueue(bus.out) \subseteq CtxIds \cup {0}
    BY <1>1, QueueHolds, Typed, Fields
  <2>3. bus.todo # {} => bus.ctx \in CtxIds
    BY Typed DEF RefersToLogged
  <2>4. {e.ctx : e \in parked} \subseteq CtxIds /\ replay \subseteq CtxIds
    BY Typed, Fields
  <2> QED
    BY <1>2, <2>1, <2>2, <2>3, <2>4, HeldIs
<1>3. ASSUME NEW a \in Actors, p \in {Inbox(a), Out(a), Handling(a)}
      PROVE  Held(p) \subseteq CtxIds \cup {0}
  <2>1. InQueue(inbox[a]) \subseteq CtxIds \cup {0}
    BY <1>1, QueueHolds, Typed
  <2>2. InQueue(actor[a].out) \subseteq CtxIds \cup {0}
    BY <1>1, QueueHolds, Typed, Fields
  <2>3. actor[a].event.ctx \in CtxIds \cup {0}
    BY <1>1, Typed, Fields
  <2> QED
    BY <1>3, <2>1, <2>2, <2>3, HeldIs
<1>4. ASSUME NEW s \in Producers, p = Product(s) PROVE Held(p) \subseteq CtxIds \cup {0}
  <2>1. producer[s] \in CtxIds \cup {0}
    BY Typed DEF CtxIds
  <2> QED
    BY <1>4, <2>1, HeldIs
<1> QED
  BY <1>2, <1>3, <1>4, PlaceCases

\* What arrives in a place is new, or has left the place where it was.
LEMMA Moved ==
  ASSUME TypeInv, OnePlace, NEW to \in Places, NEW N,
         \A p \in Places \ {to} : Held(p)' \subseteq Held(p) \cup {0},
         Held(to)' \subseteq Held(to) \cup N \cup {0},
         \A c \in N : c \in CtxIds =>
           \E from \in Places : c \in Held(from) /\ (from = to \/ c \notin Held(from)')
  PROVE  OnePlace'
<1> SUFFICES ASSUME NEW p \in Places, NEW q \in Places, NEW c \in CtxIds', c \in Held(p)', c \in Held(q)',
                    p # q
             PROVE  FALSE
  BY DEF OnePlace
<1>1. c # 0
  BY DEF CtxIds
<1>2. \A r \in Places \ {to} : c \in Held(r)' => c \in Held(r) /\ c \in CtxIds
  BY <1>1, HeldExists
<1>3. p # to /\ q # to => FALSE
  BY <1>2 DEF OnePlace
<1>4. ASSUME NEW r \in Places, r # to, c \in Held(r)', c \in Held(to)' PROVE FALSE
  <2>1. c \in Held(r) /\ c \in CtxIds
    BY <1>2, <1>4
  <2>2. c \notin Held(to)
    BY <1>4, <2>1 DEF OnePlace
  <2>3. c \in N
    BY <1>1, <1>4, <2>2
  <2>4. PICK from \in Places : c \in Held(from) /\ (from = to \/ c \notin Held(from)')
    BY <2>1, <2>3
  <2>5. from = r
    BY <2>1, <2>4 DEF OnePlace
  <2> QED
    BY <1>4, <2>4, <2>5
<1> QED
  BY <1>3, <1>4

\* A context that is nowhere: no event and no thread will continue on it.
Nowhere(c) == \A p \in Places : c \notin Held(p)
NoneComesBack == \A c \in CtxIds : Nowhere(c) => Nowhere(c)'

LEMMA Unmoved ==
  ASSUME NEW to \in Places, NEW N,
         \A p \in Places \ {to} : Held(p)' \subseteq Held(p) \cup {0},
         Held(to)' \subseteq Held(to) \cup N \cup {0},
         \A c \in N : c \in CtxIds => \E from \in Places : c \in Held(from)
  PROVE  NoneComesBack
<1> SUFFICES ASSUME NEW c \in CtxIds, Nowhere(c), NEW p \in Places, c \in Held(p)' PROVE FALSE
  BY DEF NoneComesBack, Nowhere
<1>1. c # 0 /\ \A q \in Places : c \notin Held(q)
  BY DEF CtxIds, Nowhere
<1>2. p = to /\ c \in N
  BY <1>1
<1> QED
  BY <1>1, <1>2

\* Queues hold what they held, and what is put last.
LEMMA TailHolds ==
  ASSUME NEW S, NEW q \in Seq(S), q # <<>>, Once(q)
  PROVE  /\ InQueue(Tail(q)) \subseteq InQueue(q) /\ Once(Tail(q)) /\ Head(q).ctx \in InQueue(q)
         /\ Head(q).ctx # 0 => Head(q).ctx \notin InQueue(Tail(q))
<1>1. /\ Head(q) = q[1] /\ 1 \in DOMAIN q
      /\ \A i \in DOMAIN Tail(q) : i \in Nat /\ i >= 1 /\ i + 1 \in DOMAIN q /\ Tail(q)[i] = q[i + 1]
  OBVIOUS
<1>2. \A i \in DOMAIN Tail(q) : i + 1 # 1
  BY <1>1
<1>3. InQueue(Tail(q)) \subseteq InQueue(q) /\ Head(q).ctx \in InQueue(q)
  BY <1>1 DEF InQueue
<1>4. Once(Tail(q))
  <2>1. ASSUME NEW i \in DOMAIN Tail(q), NEW j \in DOMAIN Tail(q),
               Tail(q)[i].ctx = Tail(q)[j].ctx, Tail(q)[i].ctx # 0
        PROVE  i = j
    <3>1. i + 1 = j + 1
      BY <1>1, <2>1 DEF Once
    <3> QED
      BY <1>1, <3>1
  <2> QED
    BY <2>1 DEF Once
<1>5. Head(q).ctx # 0 => Head(q).ctx \notin InQueue(Tail(q))
  BY <1>1, <1>2 DEF InQueue, Once
<1> QED
  BY <1>3, <1>4, <1>5

LEMMA AppendHolds ==
  ASSUME NEW S, NEW q \in Seq(S), NEW e \in S, Once(q), e.ctx # 0 => e.ctx \notin InQueue(q)
  PROVE  InQueue(Append(q, e)) = InQueue(q) \cup {e.ctx} /\ Once(Append(q, e))
<1>1. /\ DOMAIN Append(q, e) = DOMAIN q \cup {Len(q) + 1} /\ Append(q, e)[Len(q) + 1] = e
      /\ \A i \in DOMAIN q : Append(q, e)[i] = q[i]
  OBVIOUS
<1>2. InQueue(Append(q, e)) = InQueue(q) \cup {e.ctx}
  BY <1>1 DEF InQueue
<1>3. Once(Append(q, e))
  BY <1>1 DEF Once, InQueue
<1> QED
  BY <1>2, <1>3

\* A place from which a step only takes.
Shrinks(p) == Held(p)' \subseteq Held(p) \cup {0}

LEMMA SameShrinks ==
  /\ pipe' = pipe => Shrinks(ThePipe)
  /\ bus' = bus => Shrinks(TheBus)
  /\ parked' = parked => Shrinks(TheParked)
  /\ replay' = replay => Shrinks(TheReplay)
  /\ \A a : inbox'[a] = inbox[a] => Shrinks(Inbox(a))
  /\ \A a : actor'[a] = actor[a] => Shrinks(Out(a)) /\ Shrinks(Handling(a))
  /\ \A s : producer'[s] = producer[s] => Shrinks(Product(s))
BY HeldSame DEF Shrinks

\* A step that puts contexts into one place only.
OnlyInto(to) ==
  /\ \A p \in {ThePipe, TheBus, TheParked, TheReplay} : p = to \/ Shrinks(p)
  /\ \A a \in Actors : \A p \in {Inbox(a), Out(a), Handling(a)} : p = to \/ Shrinks(p)
  /\ \A s \in Producers : Product(s) = to \/ Shrinks(Product(s))

LEMMA OnlyIntoOne ==
  ASSUME NEW to \in Places, OnlyInto(to), NEW p \in Places \ {to}
  PROVE  Held(p)' \subseteq Held(p) \cup {0}
<1>1. Shrinks(p)
  BY PlaceCases DEF OnlyInto
<1> QED
  BY <1>1 DEF Shrinks

\* It moves one context there,
LEMMA MovesOne ==
  ASSUME TypeInv, OnePlace, NEW to \in Places, OnlyInto(to), NEW c, NEW from \in Places,
         c \in Held(from), from = to \/ c \notin Held(from)',
         Held(to)' \subseteq Held(to) \cup {c, 0}
  PROVE  OnePlace' /\ NoneComesBack
<1> DEFINE N == {c}
<1>1. Held(to)' \subseteq Held(to) \cup N \cup {0}
  OBVIOUS
<1>2. \A d \in N : d \in CtxIds =>
        \E f \in Places : d \in Held(f) /\ (f = to \/ d \notin Held(f)')
  OBVIOUS
<1> HIDE DEF N
<1> QED
  BY <1>1, <1>2, OnlyIntoOne, Moved, Unmoved

\* puts new ones there,
LEMMA MovesNew ==
  ASSUME TypeInv, OnePlace, NEW to \in Places, OnlyInto(to), NEW n, n \notin CtxIds,
         Held(to)' \subseteq Held(to) \cup {n, 0}
  PROVE  OnePlace' /\ NoneComesBack
<1> DEFINE N == {n}
<1>1. Held(to)' \subseteq Held(to) \cup N \cup {0} /\ \A d \in N : d \notin CtxIds
  OBVIOUS
<1> HIDE DEF N
<1> QED
  BY <1>1, OnlyIntoOne, Moved, Unmoved

\* or nothing at all.
LEMMA MovesNone ==
  ASSUME TypeInv, OnePlace, NEW to \in Places, OnlyInto(to), Shrinks(to)
  PROVE  OnePlace' /\ NoneComesBack
<1> DEFINE N == {}
<1>1. Held(to)' \subseteq Held(to) \cup N \cup {0} /\ \A d \in N : d \notin CtxIds
  BY DEF Shrinks
<1> HIDE DEF N
<1> QED
  BY <1>1, OnlyIntoOne, Moved, Unmoved

\* What the bus takes is an event on a context.
LEMMA PipeHead ==
  ASSUME TypeInv, pipe # <<>>, Head(pipe) # StopBusEvent
  PROVE  Head(pipe) \in SendEvents /\ Head(pipe).ctx \in CtxIds /\ Head(pipe).ctx # 0
<1>1. Head(pipe) \in ToBus
  BY HeadTail, Typed
<1> QED
  BY <1>1, Fields, StopsDiffer DEF ToBus

LEMMA PassingHolds ==
  ASSUME NEW c, NEW s, NEW m, PassDownstream(c, s, m)
  PROVE  Held(TheBus)' \subseteq {c} /\ Once(bus'.out)
<1> DEFINE e == [target |-> Primary[s], ctx |-> c, msg |-> m, data |-> ctxs[c].data]
<1> DEFINE out == IF Primary[s] = NoSink THEN <<>> ELSE <<e>>
<1>1. bus'.ctx = c /\ bus'.out = out
  BY DEF PassDownstream
<1>2. \A i \in DOMAIN out : i = 1 /\ out[i].ctx = c
  OBVIOUS
<1> HIDE DEF out
<1> QED
  BY <1>1, <1>2, HeldBecomes DEF InQueue, Once

LEMMA AppendsOwner ==
  ASSUME OwnerInv, BusAppends
  PROVE  OwnerInv' /\ NoneComesBack
<1> DEFINE e == Head(pipe)
<1>0. TypeInv /\ OnePlace /\ OnceEach
  BY DEF OwnerInv
<1>1. /\ UNCHANGED <<inbox, actor, parked, producer, replay>>
      /\ pipe # <<>> /\ e # StopBusEvent /\ pipe' = Tail(pipe)
      /\ PassDownstream(e.ctx, e.source, Len(messages) + 1)
  BY DEF BusAppends
<1>2. e.ctx \in CtxIds /\ e.ctx # 0
  BY <1>0, <1>1, PipeHead
<1>3. /\ InQueue(Tail(pipe)) \subseteq InQueue(pipe) /\ Once(Tail(pipe))
      /\ e.ctx \in InQueue(pipe) /\ e.ctx \notin InQueue(Tail(pipe))
  BY <1>0, <1>1, <1>2, TailHolds, Typed DEF OnceEach
<1>4. Held(TheBus)' \subseteq {e.ctx} /\ Once(bus'.out)
  BY <1>1, PassingHolds
<1>5. OnePlace' /\ NoneComesBack
  <2>1. Shrinks(ThePipe) /\ e.ctx \in Held(ThePipe) /\ e.ctx \notin Held(ThePipe)'
    BY <1>1, <1>3, HeldIs, HeldBecomes DEF Shrinks
  <2>2. Shrinks(TheParked) /\ Shrinks(TheReplay) /\ \A s : Shrinks(Product(s))
        /\ \A a : Shrinks(Inbox(a)) /\ Shrinks(Out(a)) /\ Shrinks(Handling(a))
    BY <1>1, SameShrinks
  <2>3. OnlyInto(TheBus) /\ Held(TheBus)' \subseteq Held(TheBus) \cup {e.ctx, 0}
    BY <1>4, <2>1, <2>2 DEF OnlyInto
  <2> QED
    BY <1>0, <2>1, <2>3, MovesOne, PlacesAre
<1>6. OnceEach'
  BY <1>0, <1>1, <1>3, <1>4 DEF OnceEach
<1> QED
  BY <1>0, <1>5, <1>6, AppendsTypes DEF OwnerInv

LEMMA ForksOwner ==
  ASSUME OwnerInv, NEW k \in bus.todo, BusForks(k)
  PROVE  OwnerInv' /\ NoneComesBack
<1> DEFINE n == Len(ctxs) + 1
<1> DEFINE e == [target |-> k, ctx |-> n, msg |-> bus.msg, data |-> bus.data]
<1>0. TypeInv /\ OnePlace /\ OnceEach
  BY DEF OwnerInv
<1>1. /\ UNCHANGED <<pipe, inbox, actor, parked, producer, replay>>
      /\ bus' = [bus EXCEPT !.todo = @ \ {k},
                            !.out = Append(@, [target |-> k, ctx |-> Len(ctxs'), msg |-> bus.msg,
                                               data |-> bus.data])]
  BY DEF BusForks
<1>2. Len(ctxs') = n /\ n \notin CtxIds \cup {0} /\ TypeInv'
  BY <1>0, ForksTypes, Typed DEF CtxIds
<1>3. bus \in BusStates /\ bus.out \in Seq(ReceiveEvents)
  BY <1>0, Typed, Fields
<1>4. bus'.ctx = bus.ctx /\ bus'.todo = bus.todo \ {k} /\ bus'.out = Append(bus.out, e)
  BY <1>1, <1>2, <1>3 DEF BusStates
<1>5. n \notin InQueue(bus.out)
  <2>1. InQueue(bus.out) \subseteq CtxIds \cup {0}
    BY <1>0, HeldExists, HeldIs, PlacesAre
  <2> QED
    BY <1>2, <2>1
<1>6. InQueue(Append(bus.out, e)) = InQueue(bus.out) \cup {n} /\ Once(Append(bus.out, e))
  <2>1. bus.out \in Seq(ReceiveEvents \cup {e}) /\ e \in ReceiveEvents \cup {e}
    BY <1>3, SeqMonotonic
  <2>2. Once(bus.out) /\ e.ctx = n
    BY <1>0 DEF OnceEach
  <2> QED
    BY <1>5, <2>1, <2>2, AppendHolds
<1>7. OnePlace' /\ NoneComesBack
  <2>1. Held(TheBus)' \subseteq Held(TheBus) \cup {n, 0}
    BY <1>4, <1>6, HeldIs, HeldBecomes
  <2>2. Shrinks(ThePipe) /\ Shrinks(TheParked) /\ Shrinks(TheReplay) /\ \A s : Shrinks(Product(s))
        /\ \A a : Shrinks(Inbox(a)) /\ Shrinks(Out(a)) /\ Shrinks(Handling(a))
    BY <1>1, SameShrinks
  <2>3. OnlyInto(TheBus)
    BY <2>2 DEF OnlyInto
  <2> QED
    BY <1>0, <1>2, <2>1, <2>3, MovesNew, PlacesAre
<1>8. OnceEach'
  BY <1>0, <1>1, <1>4, <1>6 DEF OnceEach
<1> QED
  BY <1>2, <1>7, <1>8 DEF OwnerInv

LEMMA PassesOwner ==
  ASSUME OwnerInv, BusPasses
  PROVE  OwnerInv' /\ NoneComesBack
<1> DEFINE e == Head(bus.out)
<1> DEFINE o == Owner[e.target]
<1>0. TypeInv /\ OnePlace /\ OnceEach
  BY DEF OwnerInv
<1>1. /\ UNCHANGED <<pipe, actor, parked, producer, replay>>
      /\ bus.todo = {} /\ bus.out # <<>> /\ inbox' = [inbox EXCEPT ![o] = Append(inbox[o], e)]
      /\ bus' = [bus EXCEPT !.out = Tail(bus.out)]
  BY DEF BusPasses
<1>2. bus \in BusStates /\ bus.out \in Seq(ReceiveEvents)
  BY <1>0, Typed, Fields
<1>3. e \in ReceiveEvents /\ e.ctx \in CtxIds /\ e.ctx # 0 /\ o \in Actors
  BY <1>1, <1>2, HeadTail, Fields, StopsDiffer, GraphIs
<1>4. bus'.todo = {} /\ bus'.out = Tail(bus.out)
  BY <1>1, <1>2 DEF BusStates
<1>5. /\ InQueue(Tail(bus.out)) \subseteq InQueue(bus.out) /\ Once(Tail(bus.out))
      /\ e.ctx \in InQueue(bus.out) /\ e.ctx \notin InQueue(Tail(bus.out))
  BY <1>0, <1>1, <1>2, <1>3, TailHolds DEF OnceEach
<1>6. e.ctx \notin InQueue(inbox[o])
  BY <1>0, <1>3, <1>5, HeldIs, PlacesAre, PlacesDiffer DEF OnePlace
<1>7. InQueue(Append(inbox[o], e)) = InQueue(inbox[o]) \cup {e.ctx} /\ Once(Append(inbox[o], e))
  <2>1. inbox[o] \in Seq(FromBus) /\ e \in FromBus /\ Once(inbox[o])
    BY <1>0, <1>3, Typed DEF FromBus, OnceEach
  <2> QED
    BY <1>6, <2>1, AppendHolds
<1>8. inbox'[o] = Append(inbox[o], e) /\ \A a \in Actors \ {o} : inbox'[a] = inbox[a]
  BY <1>0, <1>1, <1>3, Typed
<1> HIDE DEF e, o
<1>9. ASSUME NEW u \in Actors, u = o PROVE OnePlace' /\ NoneComesBack
  <2>1. Shrinks(TheBus) /\ e.ctx \in Held(TheBus) /\ e.ctx \notin Held(TheBus)'
    BY <1>4, <1>5, HeldIs, HeldBecomes DEF Shrinks
  <2>2. Shrinks(ThePipe) /\ Shrinks(TheParked) /\ Shrinks(TheReplay) /\ \A s : Shrinks(Product(s))
        /\ \A a : Shrinks(Out(a)) /\ Shrinks(Handling(a))
    BY <1>1, SameShrinks
  <2>3. \A a \in Actors : a = u \/ Shrinks(Inbox(a))
    BY <1>8, <1>9, SameShrinks
  <2>4. OnlyInto(Inbox(u)) /\ Held(Inbox(u))' \subseteq Held(Inbox(u)) \cup {e.ctx, 0}
    <3>1. InQueue(inbox'[u]) = InQueue(inbox[u]) \cup {e.ctx}
      BY <1>7, <1>8, <1>9
    <3>2. Held(Inbox(u))' = Held(Inbox(u)) \cup {e.ctx}
      BY <3>1, HeldIs, HeldBecomes
    <3> QED
      BY <2>1, <2>2, <2>3, <3>2 DEF OnlyInto
  <2> QED
    BY <1>0, <2>1, <2>4, MovesOne, PlacesAre
<1>10. OnceEach'
  <2>1. \A a \in Actors : Once(inbox'[a])
    BY <1>0, <1>7, <1>8 DEF OnceEach
  <2> QED
    BY <1>0, <1>1, <1>4, <1>5, <2>1 DEF OnceEach
<1> QED
  BY <1>0, <1>3, <1>9, <1>10, PassesTypes DEF OwnerInv

LEMMA StopsOwner ==
  ASSUME OwnerInv, BusStops
  PROVE  OwnerInv' /\ NoneComesBack
<1>0. TypeInv /\ OnePlace /\ OnceEach
  BY DEF OwnerInv
<1>1. /\ UNCHANGED <<actor, parked, producer, replay>>
      /\ bus.todo = {} /\ pipe # <<>> /\ pipe' = Tail(pipe) /\ bus' = [bus EXCEPT !.up = FALSE]
      /\ inbox' = [a \in Actors |-> inbox[a] \o Stops(a)]
  BY DEF BusStops, BusFree, Stops
<1>2. InQueue(Tail(pipe)) \subseteq InQueue(pipe) /\ Once(Tail(pipe))
  BY <1>0, <1>1, TailHolds, Typed DEF OnceEach
<1>3. bus'.todo = bus.todo /\ bus'.out = bus.out /\ bus'.ctx = bus.ctx
  BY <1>0, <1>1, Typed DEF BusStates
<1>4. ASSUME NEW a \in Actors
      PROVE  InQueue(inbox'[a]) \subseteq InQueue(inbox[a]) \cup {0} /\ Once(inbox'[a])
  <2> DEFINE q == inbox[a]
  <2> DEFINE r == Stops(a)
  <2>1. q \in Seq(FromBus) /\ r \in Seq(FromBus) /\ Once(q) /\ inbox'[a] = q \o r
    BY <1>0, <1>1, Typed, StopsAre, SeqMonotonic DEF FromBus, OnceEach
  <2>2. \A i \in DOMAIN r : r[i].ctx = 0
    BY StopsAre, StopsDiffer
  <2> HIDE DEF q, r
  <2>3. \A i \in DOMAIN (q \o r) : \/ i \in DOMAIN q /\ (q \o r)[i] = q[i]
                                   \/ \E j \in DOMAIN r : (q \o r)[i] = r[j]
    <3>1. /\ Len(q) \in Nat /\ Len(r) \in Nat /\ DOMAIN q = 1..Len(q) /\ DOMAIN r = 1..Len(r)
          /\ DOMAIN (q \o r) = 1..(Len(q) + Len(r))
          /\ \A i \in 1..Len(q) : (q \o r)[i] = q[i]
          /\ \A i \in 1..Len(r) : (q \o r)[Len(q) + i] = r[i]
      BY <2>1, Concat
    <3>2. \A i \in 1..(Len(q) + Len(r)) :
            i \in 1..Len(q) \/ (i - Len(q) \in 1..Len(r) /\ i = Len(q) + (i - Len(q)))
      BY <3>1
    <3> QED
      BY <3>1, <3>2
  <2>4. InQueue(q \o r) \subseteq InQueue(q) \cup {0}
    BY <2>2, <2>3 DEF InQueue
  <2>5. Once(q \o r)
    BY <2>1, <2>2, <2>3 DEF Once
  <2> QED
    BY <2>1, <2>4, <2>5 DEF q
<1>5. OnePlace' /\ NoneComesBack
  <2>1. Shrinks(ThePipe) /\ Shrinks(TheBus)
    BY <1>1, <1>2, <1>3, HeldIs, HeldBecomes DEF Shrinks
  <2>2. \A a \in Actors : Shrinks(Inbox(a))
    BY <1>4, HeldIs, HeldBecomes DEF Shrinks
  <2>3. Shrinks(TheParked) /\ Shrinks(TheReplay) /\ \A s : Shrinks(Product(s))
        /\ \A a : Shrinks(Out(a)) /\ Shrinks(Handling(a))
    BY <1>1, SameShrinks
  <2>4. OnlyInto(TheBus)
    BY <2>1, <2>2, <2>3 DEF OnlyInto
  <2> QED
    BY <1>0, <2>1, <2>4, MovesNone, PlacesAre
<1>6. OnceEach'
  BY <1>0, <1>1, <1>2, <1>3, <1>4 DEF OnceEach
<1> QED
  BY <1>0, <1>5, <1>6, StopsTypes DEF OwnerInv

LEMMA ReplayOwner ==
  ASSUME OwnerInv, NEW c \in replay, Replay(c)
  PROVE  OwnerInv' /\ NoneComesBack
<1>0. TypeInv /\ OnePlace /\ OnceEach
  BY DEF OwnerInv
<1>1. /\ UNCHANGED <<pipe, inbox, actor, parked, producer>> /\ replay' = replay \ {c}
      /\ PassDownstream(c, messages[ctxs[c].payload], ctxs[c].payload)
  BY DEF Replay
<1>2. Held(TheBus)' \subseteq {c} /\ Once(bus'.out)
  BY <1>1, PassingHolds
<1>3. OnePlace' /\ NoneComesBack
  <2>1. Shrinks(TheReplay) /\ c \in Held(TheReplay) /\ c \notin Held(TheReplay)'
    BY <1>1, HeldIs, HeldBecomes DEF Shrinks
  <2>2. Shrinks(ThePipe) /\ Shrinks(TheParked) /\ \A s : Shrinks(Product(s))
        /\ \A a : Shrinks(Inbox(a)) /\ Shrinks(Out(a)) /\ Shrinks(Handling(a))
    BY <1>1, SameShrinks
  <2>3. OnlyInto(TheBus) /\ Held(TheBus)' \subseteq Held(TheBus) \cup {c, 0}
    BY <1>2, <2>1, <2>2 DEF OnlyInto
  <2> QED
    BY <1>0, <2>1, <2>3, MovesOne, PlacesAre
<1>4. OnceEach'
  BY <1>0, <1>1, <1>2 DEF OnceEach
<1> QED
  BY <1>0, <1>3, <1>4, ReplayTypes DEF OwnerInv

LEMMA HandlingOwner ==
  ASSUME OwnerInv, NEW a \in Actors, StartHandling(a)
  PROVE  OwnerInv' /\ NoneComesBack
<1> DEFINE e == Head(inbox[a])
<1>0. TypeInv /\ OnePlace /\ OnceEach
  BY DEF OwnerInv
<1>1. /\ UNCHANGED <<pipe, bus, parked, producer, replay>>
      /\ inbox[a] # <<>> /\ inbox' = [inbox EXCEPT ![a] = Tail(inbox[a])]
  BY DEF StartHandling
<1>2. /\ TypeInv' /\ e \in ReceiveEvents
      /\ actor' = [actor EXCEPT ![a] = [Idle EXCEPT !.pc = "handling", !.event = e]]
      /\ actor'[a].pc = "handling" /\ actor'[a].event = e /\ actor'[a].out = <<>>
  BY <1>0, HandlingTypes
<1>3. /\ e.ctx \in CtxIds /\ e.ctx # 0 /\ inbox'[a] = Tail(inbox[a])
      /\ \A b \in Actors \ {a} : inbox'[b] = inbox[b] /\ actor'[b] = actor[b]
  BY <1>0, <1>1, <1>2, Typed, Fields, StopsDiffer
<1>4. /\ InQueue(Tail(inbox[a])) \subseteq InQueue(inbox[a]) /\ Once(Tail(inbox[a]))
      /\ e.ctx \in InQueue(inbox[a]) /\ e.ctx \notin InQueue(Tail(inbox[a]))
  BY <1>0, <1>1, <1>3, TailHolds, Typed DEF OnceEach
<1> HIDE DEF e
<1>5. OnePlace' /\ NoneComesBack
  <2>1. Shrinks(Inbox(a)) /\ e.ctx \in Held(Inbox(a)) /\ e.ctx \notin Held(Inbox(a))'
    BY <1>3, <1>4, HeldIs, HeldBecomes DEF Shrinks
  <2>2. Held(Handling(a))' = {e.ctx} /\ Shrinks(Out(a))
    BY <1>2, HeldBecomes DEF Shrinks, InQueue
  <2>3. Shrinks(ThePipe) /\ Shrinks(TheBus) /\ Shrinks(TheParked) /\ Shrinks(TheReplay)
        /\ (\A s : Shrinks(Product(s)))
        /\ (\A b \in Actors \ {a} : Shrinks(Inbox(b)) /\ Shrinks(Out(b)) /\ Shrinks(Handling(b)))
    BY <1>1, <1>3, SameShrinks
  <2>4. OnlyInto(Handling(a))
    BY <2>1, <2>2, <2>3 DEF OnlyInto
  <2> QED
    BY <1>0, <2>1, <2>2, <2>4, MovesOne, PlacesAre
<1>6. OnceEach'
  <2>1. Once(<<>>)
    BY DEF Once
  <2>2. \A b \in Actors : Once(inbox'[b]) /\ Once(actor'[b].out)
    BY <1>0, <1>2, <1>3, <1>4, <2>1 DEF OnceEach
  <2> QED
    BY <1>0, <1>1, <2>2 DEF OnceEach
<1> QED
  BY <1>2, <1>5, <1>6 DEF OwnerInv

LEMMA DefersOwner ==
  ASSUME OwnerInv, NEW a \in Actors, NEW s \in Deferred[actor[a].event.target], NEW writes,
         HandlerDefers(a, s, writes)
  PROVE  OwnerInv' /\ NoneComesBack
<1>0. TypeInv /\ OnePlace /\ OnceEach
  BY DEF OwnerInv
<1>1. /\ UNCHANGED <<pipe, bus, inbox, producer, replay>>
      /\ actor[a].pc = "handling" /\ actor' = [actor EXCEPT ![a] = Idle]
  BY DEF HandlerDefers
<1>2. TypeInv' /\ actor[a].event.ctx \in CtxIds
  BY <1>0, DefersTypes, Fields
<1>3. PICK d \in SendEvents : d.ctx = actor[a].event.ctx /\ parked' = parked \cup {d}
  BY <1>0, DefersTypes
<1>4. actor'[a] = Idle /\ \A b \in Actors \ {a} : actor'[b] = actor[b]
  BY <1>0, <1>1, Typed
<1>5. d.ctx \in Held(Handling(a)) /\ d.ctx \notin Held(Handling(a))' /\ d.ctx \in CtxIds
  BY <1>1, <1>2, <1>3, <1>4, IdleIs, HeldIs, HeldBecomes
<1>6. OnePlace' /\ NoneComesBack
  <2>1. Held(TheParked)' = Held(TheParked) \cup {d.ctx}
    BY <1>3, HeldIs, HeldBecomes
  <2>2. Shrinks(Handling(a)) /\ Shrinks(Out(a))
    BY <1>4, IdleIs, HeldBecomes DEF Shrinks, InQueue
  <2>3. Shrinks(ThePipe) /\ Shrinks(TheBus) /\ Shrinks(TheReplay) /\ (\A t : Shrinks(Product(t)))
        /\ (\A b : Shrinks(Inbox(b)))
        /\ (\A b \in Actors \ {a} : Shrinks(Out(b)) /\ Shrinks(Handling(b)))
    BY <1>1, <1>4, SameShrinks
  <2>4. OnlyInto(TheParked) /\ Held(TheParked)' \subseteq Held(TheParked) \cup {d.ctx, 0}
    BY <2>1, <2>2, <2>3 DEF OnlyInto
  <2> QED
    BY <1>0, <1>5, <2>4, MovesOne, PlacesAre
<1>7. OnceEach'
  <2>1. \A x \in parked : x.ctx # d.ctx
    <3>1. d.ctx \notin Held(TheParked)
      BY <1>0, <1>5, PlacesAre, PlacesDiffer DEF OnePlace
    <3> QED
      BY <3>1, HeldIs
  <2>2. \A x, y \in parked' : x.ctx = y.ctx => x = y
    BY <1>0, <1>3, <2>1 DEF OnceEach
  <2>3. \A b \in Actors : Once(actor'[b].out)
    BY <1>0, <1>4, IdleIs DEF OnceEach, Once
  <2> QED
    BY <1>0, <1>1, <2>2, <2>3 DEF OnceEach
<1> QED
  BY <1>2, <1>6, <1>7 DEF OwnerInv

LEMMA SideThreadOwner ==
  ASSUME OwnerInv, NEW e \in parked, NEW writes, SideThreadEmits(e, writes)
  PROVE  OwnerInv' /\ NoneComesBack
<1>0. TypeInv /\ OnePlace /\ OnceEach
  BY DEF OwnerInv
<1>1. /\ UNCHANGED <<bus, inbox, actor, producer, replay>>
      /\ pipe' = Append(pipe, e) /\ parked' = parked \ {e}
  BY DEF SideThreadEmits
<1>2. TypeInv' /\ e \in SendEvents /\ e.ctx \in CtxIds /\ pipe \in Seq(ToBus) /\ e \in ToBus /\ Once(pipe)
  BY <1>0, SideThreadTypes, Typed DEF ToBus, OnceEach
<1>3. e.ctx \in Held(TheParked) /\ e.ctx \notin Held(TheParked)'
  BY <1>0, <1>1, HeldIs, HeldBecomes DEF OnceEach
<1>4. InQueue(pipe') = InQueue(pipe) \cup {e.ctx} /\ Once(pipe')
  <2>1. e.ctx \notin InQueue(pipe)
    BY <1>0, <1>2, <1>3, HeldIs, PlacesAre, PlacesDiffer DEF OnePlace
  <2> QED
    BY <1>1, <1>2, <2>1, AppendHolds
<1>5. OnePlace' /\ NoneComesBack
  <2>1. Shrinks(TheParked)
    BY <1>1, HeldIs, HeldBecomes DEF Shrinks
  <2>2. Shrinks(TheBus) /\ Shrinks(TheReplay) /\ (\A s : Shrinks(Product(s)))
        /\ (\A a : Shrinks(Inbox(a)) /\ Shrinks(Out(a)) /\ Shrinks(Handling(a)))
    BY <1>1, SameShrinks
  <2>3. OnlyInto(ThePipe) /\ Held(ThePipe)' \subseteq Held(ThePipe) \cup {e.ctx, 0}
    BY <1>4, <2>1, <2>2, HeldIs, HeldBecomes DEF OnlyInto
  <2> QED
    BY <1>0, <1>3, <2>3, MovesOne, PlacesAre
<1>6. OnceEach'
  BY <1>0, <1>1, <1>4 DEF OnceEach
<1> QED
  BY <1>2, <1>5, <1>6 DEF OwnerInv

LEMMA EmitsOwner ==
  ASSUME OwnerInv, NEW a \in Actors, ActorEmits(a)
  PROVE  OwnerInv' /\ NoneComesBack
<1> DEFINE e == Head(actor[a].out)
<1>0. TypeInv /\ OnePlace /\ OnceEach
  BY DEF OwnerInv
<1>1. /\ UNCHANGED <<bus, inbox, parked, producer, replay>>
      /\ actor[a].pc = "emitting" /\ pipe' = Append(pipe, e)
      /\ actor' = [actor EXCEPT ![a] = IF Len(actor[a].out) = 1 THEN Idle
                                       ELSE [actor[a] EXCEPT !.out = Tail(actor[a].out)]]
  BY DEF ActorEmits
<1>2. /\ TypeInv' /\ actor[a].out # <<>> /\ e \in SendEvents
      /\ actor'[a].out = Tail(actor[a].out) /\ actor'[a].pc \in {"idle", "emitting"}
  BY <1>0, EmitsTypes
<1>3. /\ e.ctx \in CtxIds /\ e.ctx # 0 /\ e \in ToBus /\ pipe \in Seq(ToBus) /\ Once(pipe)
      /\ actor[a].out \in Seq(SendEvents) /\ Once(actor[a].out)
      /\ \A b \in Actors \ {a} : actor'[b] = actor[b]
  BY <1>0, <1>1, <1>2, Typed, Fields, StopsDiffer DEF ToBus, OnceEach
<1>4. /\ InQueue(Tail(actor[a].out)) \subseteq InQueue(actor[a].out) /\ Once(Tail(actor[a].out))
      /\ e.ctx \in InQueue(actor[a].out) /\ e.ctx \notin InQueue(Tail(actor[a].out))
  BY <1>2, <1>3, TailHolds
<1>5. InQueue(pipe') = InQueue(pipe) \cup {e.ctx} /\ Once(pipe')
  <2>1. e.ctx \notin InQueue(pipe)
    BY <1>0, <1>3, <1>4, HeldIs, PlacesAre, PlacesDiffer DEF OnePlace
  <2> QED
    BY <1>1, <1>3, <2>1, AppendHolds
<1> HIDE DEF e
<1>6. OnePlace' /\ NoneComesBack
  <2>1. Shrinks(Out(a)) /\ e.ctx \in Held(Out(a)) /\ e.ctx \notin Held(Out(a))'
    BY <1>2, <1>4, HeldIs, HeldBecomes DEF Shrinks
  <2>2. Shrinks(Handling(a))
    BY <1>2, HeldBecomes DEF Shrinks
  <2>3. Shrinks(TheBus) /\ Shrinks(TheParked) /\ Shrinks(TheReplay) /\ (\A s : Shrinks(Product(s)))
        /\ (\A b : Shrinks(Inbox(b)))
        /\ (\A b \in Actors \ {a} : Shrinks(Out(b)) /\ Shrinks(Handling(b)))
    BY <1>1, <1>3, SameShrinks
  <2>4. OnlyInto(ThePipe) /\ Held(ThePipe)' \subseteq Held(ThePipe) \cup {e.ctx, 0}
    BY <1>5, <2>1, <2>2, <2>3, HeldIs, HeldBecomes DEF OnlyInto
  <2> QED
    BY <1>0, <2>1, <2>4, MovesOne, PlacesAre
<1>7. OnceEach'
  <2>1. \A b \in Actors : Once(actor'[b].out)
    BY <1>0, <1>2, <1>3, <1>4 DEF OnceEach
  <2> QED
    BY <1>0, <1>1, <1>5, <2>1 DEF OnceEach
<1> QED
  BY <1>2, <1>6, <1>7 DEF OwnerInv

\* The events of one output are on different contexts.
LEMMA OutputOnce ==
  ASSUME LinearOutputs, NEW k \in Sinks, NEW o \in Outputs[k] \cup {<<>>}, o \in Seq(Pieces),
         NEW q, DOMAIN q = 1..Len(o), NEW c \in Nat, NEW n \in Nat, c <= n,
         \A i \in 1..Len(o) : q[i].ctx = IF o[i].on = "same" THEN c ELSE n + Cardinality(Children(o, i))
  PROVE  Once(q) /\ \A i \in DOMAIN q : q[i].ctx = c \/ q[i].ctx \in n + 1 .. n + Cardinality(Children(o, Len(o)))
<1>1. Len(o) \in Nat /\ \A i \in 1..Len(o) : o[i].on \in {"same", "child"}
  <2>1. \A p \in Pieces : p.on \in {"same", "child"}
    BY DEF Pieces
  <2>2. Len(o) \in Nat /\ \A i \in 1..Len(o) : o[i] \in Pieces
    OBVIOUS
  <2> QED
    BY <2>1, <2>2
<1>2. \A i \in 1..Len(o) : o[i].on = "child" =>
        Cardinality(Children(o, i)) \in 1..Cardinality(Children(o, Len(o)))
  BY <1>1, ChildNumber
<1>3. Cardinality(Children(o, Len(o))) \in Nat
  BY <1>1, ChildrenCount
<1>4. \A i \in 1..Len(o) : o[i].on = "child" =>
        q[i].ctx > n /\ q[i].ctx \in n + 1 .. n + Cardinality(Children(o, Len(o)))
  BY <1>2, <1>3
<1>5. \A i, j \in 1..Len(o) : o[i].on = "same" /\ o[j].on = "same" => i = j
  <2>1. CASE o \in Outputs[k]
    <3>1. DOMAIN o = 1..Len(o)
      OBVIOUS
    <3> QED
      BY <2>1, <3>1 DEF LinearOutputs
  <2>2. CASE o = <<>>
    BY <2>2
  <2> QED
    BY <2>1, <2>2
<1>6. \A i, j \in 1..Len(o) : o[i].on = "child" /\ o[j].on = "child" /\ i < j => q[i].ctx # q[j].ctx
  <2>1. ASSUME NEW i \in 1..Len(o), NEW j \in 1..Len(o), o[i].on = "child", o[j].on = "child", i < j
        PROVE  q[i].ctx # q[j].ctx
    <3>1. i \in Nat /\ j \in Nat /\ i <= j
      BY <2>1
    <3>2. /\ Cardinality(Children(o, i)) \in Nat /\ Cardinality(Children(o, j)) \in Nat
          /\ Cardinality(Children(o, i)) < Cardinality(Children(o, j))
      BY <2>1, <3>1, ChildrenCount
    <3> QED
      BY <2>1, <3>2
  <2> QED
    BY <2>1
<1>7. ASSUME NEW i \in 1..Len(o), NEW j \in 1..Len(o), q[i].ctx = q[j].ctx PROVE i = j
  <2>1. i < j \/ j < i \/ i = j
    OBVIOUS
  <2>2. CASE o[i].on = "child" /\ o[j].on = "child"
    BY <1>6, <1>7, <2>1, <2>2
  <2>3. CASE o[i].on = "same" /\ o[j].on = "same"
    BY <1>5, <2>3
  <2>4. CASE o[i].on = "same" /\ o[j].on = "child"
    BY <1>4, <1>7, <2>4
  <2>5. CASE o[i].on = "child" /\ o[j].on = "same"
    BY <1>4, <1>7, <2>5
  <2> QED
    BY <1>1, <2>2, <2>3, <2>4, <2>5
<1> QED
  BY <1>1, <1>4, <1>7 DEF Once

\* A step that puts one context and new ones into a place.
LEMMA MovesSome ==
  ASSUME TypeInv, OnePlace, NEW to \in Places, OnlyInto(to), NEW c, NEW from \in Places, NEW N,
         c \in Held(from), c \notin Held(from)', \A d \in N : d \in CtxIds => d = c,
         Held(to)' \subseteq Held(to) \cup N \cup {0}
  PROVE  OnePlace' /\ NoneComesBack
<1>1. \A d \in N : d \in CtxIds =>
        \E f \in Places : d \in Held(f) /\ (f = to \/ d \notin Held(f)')
  OBVIOUS
<1> QED
  BY <1>1, OnlyIntoOne, Moved, Unmoved

LEMMA ReturnsOwner ==
  ASSUME LinearOutputs, OwnerInv, NEW a \in Actors, NEW o \in Outputs[actor[a].event.target] \cup {<<>>},
         NEW writes, HandlerReturns(a, o, writes)
  PROVE  /\ OwnerInv' /\ NoneComesBack
         /\ actor[a].event.ctx \notin InQueue(actor'[a].out) =>
              \A p \in Places : actor[a].event.ctx \notin Held(p)'
<1> DEFINE e == actor[a].event
<1> DEFINE n == Cardinality(Children(o, Len(o)))
<1> DEFINE q == actor'[a].out
<1> DEFINE N == {e.ctx} \cup (Len(ctxs) + 1 .. Len(ctxs) + n)
<1>0. TypeInv /\ OnePlace /\ OnceEach
  BY DEF OwnerInv
<1>1. /\ UNCHANGED <<pipe, bus, inbox, parked, producer, replay>> /\ actor[a].pc = "handling"
  BY DEF HandlerReturns
<1>2. /\ TypeInv' /\ e \in ReceiveEvents /\ n \in Nat /\ actor'[a].pc \in {"idle", "emitting"}
      /\ DOMAIN q = 1..Len(o) /\ o \in Seq(Pieces)
      /\ \A i \in 1..Len(o) : q[i].ctx =
           IF o[i].on = "same" THEN e.ctx ELSE Len(ctxs) + Cardinality(Children(o, i))
  BY <1>0, ReturnsTypes
<1>3. /\ e.ctx \in CtxIds /\ e.target \in Sinks /\ Len(ctxs) \in Nat
      /\ e.ctx \in Nat /\ e.ctx <= Len(ctxs)
  BY <1>0, <1>2, Fields, Typed DEF CtxIds
<1>4. Once(q) /\ \A i \in DOMAIN q : q[i].ctx \in N
  <2>1. o \in Outputs[e.target] \cup {<<>>}
    OBVIOUS
  <2> HIDE DEF q, e
  <2>2. Once(q) /\ \A i \in DOMAIN q : q[i].ctx = e.ctx \/ q[i].ctx \in Len(ctxs) + 1 .. Len(ctxs) + n
    BY <1>2, <1>3, <2>1, OutputOnce
  <2> QED
    BY <2>2
<1>5. \A b \in Actors \ {a} : actor'[b] = actor[b]
  <2>1. PICK x : actor' = [actor EXCEPT ![a] = x]
    BY DEF HandlerReturns
  <2> QED
    BY <1>0, <2>1, Typed
<1>6. OnePlace' /\ NoneComesBack /\ OnlyInto(Out(a)) /\ e.ctx \in Held(Handling(a)) /\ Held(Handling(a))' = {}
  <2>1. e.ctx \in Held(Handling(a)) /\ Held(Handling(a))' = {}
    BY <1>1, <1>2, HeldIs, HeldBecomes
  <2>2. Held(Out(a))' \subseteq Held(Out(a)) \cup N \cup {0}
    BY <1>4, HeldBecomes DEF InQueue
  <2>3. Shrinks(Handling(a))
    BY <2>1 DEF Shrinks
  <2>4. Shrinks(ThePipe) /\ Shrinks(TheBus) /\ Shrinks(TheParked) /\ Shrinks(TheReplay)
        /\ (\A t : Shrinks(Product(t))) /\ (\A b : Shrinks(Inbox(b)))
        /\ (\A b \in Actors \ {a} : Shrinks(Out(b)) /\ Shrinks(Handling(b)))
    BY <1>1, <1>5, SameShrinks
  <2>5. OnlyInto(Out(a))
    BY <2>3, <2>4 DEF OnlyInto
  <2>6. \A c \in N : c \in CtxIds => c = e.ctx
    BY <1>2, <1>3 DEF CtxIds
  <2>7. e.ctx \notin Held(Handling(a))' /\ Handling(a) \in Places /\ Out(a) \in Places
    BY <2>1, PlacesAre
  <2> HIDE DEF N, e
  <2> QED
    BY <1>0, <2>1, <2>2, <2>5, <2>6, <2>7, MovesSome
<1>7. OnceEach'
  <2>1. \A b \in Actors : Once(actor'[b].out)
    BY <1>0, <1>4, <1>5 DEF OnceEach
  <2> QED
    BY <1>0, <1>1, <2>1 DEF OnceEach
<1>8. ASSUME e.ctx \notin InQueue(q), NEW p \in Places, e.ctx \in Held(p)' PROVE FALSE
  <2>1. p # Handling(a)
    BY <1>6, <1>8
  <2>2. p # Out(a)
    BY <1>8, HeldBecomes
  <2>3. e.ctx \in Held(p)
    BY <1>3, <1>6, <1>8, <2>2, OnlyIntoOne, PlacesAre, StopsDiffer
  <2> QED
    BY <1>0, <1>3, <1>6, <2>1, <2>3, PlacesAre DEF OnePlace
<1> QED
  BY <1>2, <1>6, <1>7, <1>8 DEF OwnerInv

LEMMA ActorStopsOwner ==
  ASSUME OwnerInv, NEW a \in Actors, ActorStops(a)
  PROVE  OwnerInv' /\ NoneComesBack
<1>0. TypeInv /\ OnePlace /\ OnceEach
  BY DEF OwnerInv
<1>1. /\ UNCHANGED <<pipe, bus, parked, producer, replay>>
      /\ inbox[a] # <<>> /\ inbox' = [inbox EXCEPT ![a] = Tail(inbox[a])]
      /\ actor' = [actor EXCEPT ![a] = [actor[a] EXCEPT !.pc = "stopped"]]
  BY DEF ActorStops
<1>2. TypeInv' /\ actor'[a].pc = "stopped" /\ actor'[a].out = actor[a].out
  BY <1>0, ActorStopsTypes
<1>3. /\ inbox'[a] = Tail(inbox[a])
      /\ \A b \in Actors \ {a} : inbox'[b] = inbox[b] /\ actor'[b] = actor[b]
  BY <1>0, <1>1, Typed
<1>4. InQueue(Tail(inbox[a])) \subseteq InQueue(inbox[a]) /\ Once(Tail(inbox[a]))
  BY <1>0, <1>1, TailHolds, Typed DEF OnceEach
<1>5. OnePlace' /\ NoneComesBack
  <2>1. Shrinks(Inbox(a))
    BY <1>3, <1>4, HeldIs, HeldBecomes DEF Shrinks
  <2>2. Shrinks(Handling(a)) /\ Shrinks(Out(a))
    BY <1>2, HeldIs, HeldBecomes DEF Shrinks
  <2>3. Shrinks(ThePipe) /\ Shrinks(TheBus) /\ Shrinks(TheParked) /\ Shrinks(TheReplay)
        /\ (\A s : Shrinks(Product(s)))
        /\ (\A b \in Actors \ {a} : Shrinks(Inbox(b)) /\ Shrinks(Out(b)) /\ Shrinks(Handling(b)))
    BY <1>1, <1>3, SameShrinks
  <2>4. OnlyInto(TheBus)
    BY <2>1, <2>2, <2>3 DEF OnlyInto
  <2> QED
    BY <1>0, <2>3, <2>4, MovesNone, PlacesAre
<1>6. OnceEach'
  <2>1. \A b \in Actors : Once(inbox'[b]) /\ Once(actor'[b].out)
    BY <1>0, <1>2, <1>3, <1>4 DEF OnceEach
  <2> QED
    BY <1>0, <1>1, <2>1 DEF OnceEach
<1> QED
  BY <1>2, <1>5, <1>6 DEF OwnerInv

LEMMA CreatesOwner ==
  ASSUME OwnerInv, NEW s \in Producers, ProducerCreates(s)
  PROVE  OwnerInv' /\ NoneComesBack
<1> DEFINE n == Len(ctxs) + 1
<1>0. TypeInv /\ OnePlace /\ OnceEach
  BY DEF OwnerInv
<1>1. UNCHANGED <<pipe, bus, inbox, actor, parked, replay>>
  BY DEF ProducerCreates
<1>2. TypeInv' /\ producer' = [producer EXCEPT ![s] = n]
  BY <1>0, CreatesTypes
<1>3. producer'[s] = n /\ \A t \in Producers \ {s} : producer'[t] = producer[t]
  BY <1>0, <1>2, Typed
<1>4. n \notin CtxIds
  BY <1>0, Typed DEF CtxIds
<1> HIDE DEF n
<1>5. OnePlace' /\ NoneComesBack
  <2>1. Held(Product(s))' = {n}
    BY <1>3, HeldBecomes
  <2>2. Shrinks(ThePipe) /\ Shrinks(TheBus) /\ Shrinks(TheParked) /\ Shrinks(TheReplay)
        /\ (\A a : Shrinks(Inbox(a)) /\ Shrinks(Out(a)) /\ Shrinks(Handling(a)))
        /\ (\A t \in Producers \ {s} : Shrinks(Product(t)))
    BY <1>1, <1>3, SameShrinks
  <2>3. OnlyInto(Product(s))
    BY <2>2 DEF OnlyInto
  <2> QED
    BY <1>0, <1>4, <2>1, <2>3, MovesNew, PlacesAre
<1>6. OnceEach'
  BY <1>0, <1>1 DEF OnceEach
<1> QED
  BY <1>2, <1>5, <1>6 DEF OwnerInv

LEMMA PutsOwner ==
  ASSUME OwnerInv, NEW s \in Producers, ProducerPuts(s)
  PROVE  OwnerInv' /\ NoneComesBack
<1> DEFINE e == [ctx |-> producer[s], source |-> s, cause |-> NoCause, closes |-> FALSE]
<1> DEFINE c == producer[s]
<1>0. TypeInv /\ OnePlace /\ OnceEach
  BY DEF OwnerInv
<1>1. /\ UNCHANGED <<bus, inbox, actor, parked, replay>>
      /\ c # 0 /\ pipe' = Append(pipe, e) /\ producer' = [producer EXCEPT ![s] = 0]
  BY DEF ProducerPuts
<1>2. c \in CtxIds /\ e.ctx = c
  BY <1>0, <1>1, Typed DEF CtxIds
<1>3. producer'[s] = 0 /\ \A t \in Producers \ {s} : producer'[t] = producer[t]
  BY <1>0, <1>1, Typed
<1>4. c \in Held(Product(s)) /\ c \notin Held(Product(s))'
  BY <1>1, <1>3, HeldIs, HeldBecomes
<1>5. InQueue(pipe') = InQueue(pipe) \cup {c} /\ Once(pipe')
  <2>1. c \notin InQueue(pipe)
    BY <1>0, <1>2, <1>4, HeldIs, PlacesAre, PlacesDiffer DEF OnePlace
  <2>2. pipe \in Seq(ToBus \cup {e}) /\ Once(pipe)
    BY <1>0, Typed, SeqMonotonic DEF OnceEach
  <2> QED
    BY <1>1, <1>2, <2>1, <2>2, AppendHolds
<1> HIDE DEF c
<1>6. OnePlace' /\ NoneComesBack
  <2>1. Shrinks(Product(s))
    BY <1>3, HeldBecomes DEF Shrinks
  <2>2. Shrinks(TheBus) /\ Shrinks(TheParked) /\ Shrinks(TheReplay)
        /\ (\A a : Shrinks(Inbox(a)) /\ Shrinks(Out(a)) /\ Shrinks(Handling(a)))
        /\ (\A t \in Producers \ {s} : Shrinks(Product(t)))
    BY <1>1, <1>3, SameShrinks
  <2>3. OnlyInto(ThePipe) /\ Held(ThePipe)' \subseteq Held(ThePipe) \cup {c, 0}
    BY <1>5, <2>1, <2>2, HeldIs, HeldBecomes DEF OnlyInto
  <2> QED
    BY <1>0, <1>4, <2>3, MovesOne, PlacesAre
<1>7. OnceEach'
  BY <1>0, <1>1, <1>5 DEF OnceEach
<1> QED
  BY <1>0, <1>6, <1>7, PutsTypes DEF OwnerInv

LEMMA RequestStopOwner ==
  ASSUME OwnerInv, RequestStop
  PROVE  OwnerInv' /\ NoneComesBack
<1>0. TypeInv /\ OnePlace /\ OnceEach
  BY DEF OwnerInv
<1>1. /\ UNCHANGED <<bus, inbox, actor, parked, producer, replay>>
      /\ pipe' = Append(pipe, StopBusEvent)
  BY DEF RequestStop
<1>2. InQueue(pipe') = InQueue(pipe) \cup {0} /\ Once(pipe')
  <2>1. StopBusEvent \in ToBus /\ pipe \in Seq(ToBus) /\ Once(pipe)
    BY <1>0, Typed DEF ToBus, OnceEach
  <2> QED
    BY <1>1, <2>1, StopsDiffer, AppendHolds
<1>3. OnePlace' /\ NoneComesBack
  <2>1. Shrinks(ThePipe)
    BY <1>2, HeldIs, HeldBecomes DEF Shrinks
  <2>2. Shrinks(TheBus) /\ Shrinks(TheParked) /\ Shrinks(TheReplay) /\ (\A s : Shrinks(Product(s)))
        /\ (\A a : Shrinks(Inbox(a)) /\ Shrinks(Out(a)) /\ Shrinks(Handling(a)))
    BY <1>1, SameShrinks
  <2>3. OnlyInto(ThePipe)
    BY <2>2 DEF OnlyInto
  <2> QED
    BY <1>0, <2>1, <2>3, MovesNone, PlacesAre
<1>4. OnceEach'
  BY <1>0, <1>1, <1>2 DEF OnceEach
<1> QED
  BY <1>0, <1>3, <1>4, RequestStopTypes DEF OwnerInv

\* After a crash every context is with the recovery, or nowhere.
LEMMA CrashOwner ==
  ASSUME OwnerInv, Crash
  PROVE  OwnerInv'
<1>1. /\ pipe' = <<>> /\ bus' = BusIdle /\ inbox' = [a \in Actors |-> <<>>]
      /\ actor' = [a \in Actors |-> Idle] /\ parked' = {} /\ producer' = [s \in Producers |-> 0]
  BY DEF Crash
<1>2. /\ bus'.out = <<>> /\ bus'.todo = {}
      /\ \A a \in Actors : inbox'[a] = <<>> /\ actor'[a].out = <<>> /\ actor'[a].pc = "idle"
      /\ \A s \in Producers : producer'[s] = 0
  BY <1>1, IdleIs DEF BusIdle
<1>3. ASSUME NEW p \in Places, NEW c \in CtxIds', c \in Held(p)' PROVE p = TheReplay
  <2>1. c # 0
    BY DEF CtxIds
  <2>2. Held(ThePipe)' = {} /\ Held(TheBus)' = {} /\ Held(TheParked)' = {}
    BY <1>1, <1>2, HeldBecomes DEF InQueue
  <2>3. \A a \in Actors : Held(Inbox(a))' = {} /\ Held(Out(a))' = {} /\ Held(Handling(a))' = {}
    BY <1>2, HeldBecomes DEF InQueue
  <2>4. \A s \in Producers : Held(Product(s))' = {0}
    BY <1>2, HeldBecomes
  <2>5. p # ThePipe /\ p # TheBus /\ p # TheParked
    BY <1>3, <2>2
  <2>6. \A a \in Actors : p \notin {Inbox(a), Out(a), Handling(a)}
    BY <1>3, <2>3
  <2>7. \A s \in Producers : p # Product(s)
    BY <1>3, <2>1, <2>4
  <2> QED
    BY <2>5, <2>6, <2>7, PlaceCases
<1>4. OnePlace'
  BY <1>3 DEF OnePlace
<1>5. OnceEach'
  BY <1>1, <1>2 DEF OnceEach, Once
<1> QED
  BY <1>4, <1>5, CrashTypes DEF OwnerInv

LEMMA StutterOwner ==
  ASSUME OwnerInv, UNCHANGED vars
  PROVE  OwnerInv' /\ NoneComesBack
<1>0. TypeInv /\ OnePlace /\ OnceEach
  BY DEF OwnerInv
<1>1. UNCHANGED <<ctxs, pipe, bus, inbox, actor, parked, producer, replay>>
  BY DEF vars, graphVars
<1>2. OnePlace' /\ NoneComesBack
  <2>1. Shrinks(ThePipe) /\ Shrinks(TheBus) /\ Shrinks(TheParked) /\ Shrinks(TheReplay)
        /\ (\A s : Shrinks(Product(s)))
        /\ (\A a : Shrinks(Inbox(a)) /\ Shrinks(Out(a)) /\ Shrinks(Handling(a)))
    BY <1>1, SameShrinks
  <2>2. OnlyInto(TheBus)
    BY <2>1 DEF OnlyInto
  <2> QED
    BY <1>0, <2>1, <2>2, MovesNone, PlacesAre
<1>3. OnceEach'
  BY <1>0, <1>1 DEF OnceEach
<1> QED
  BY <1>0, <1>2, <1>3, NextTypes DEF OwnerInv

LEMMA InitOwner == Init => OwnerInv
<1> SUFFICES ASSUME Init PROVE OwnerInv
  OBVIOUS
<1>1. CtxIds = {}
  BY DEF Init, CtxIds
<1>2. OnePlace
  BY <1>1 DEF OnePlace
<1>3. /\ pipe = <<>> /\ bus.out = <<>> /\ parked = {}
      /\ \A a \in Actors : inbox[a] = <<>> /\ actor[a].out = <<>>
  BY IdleIs DEF Init, BusIdle
<1>4. OnceEach
  BY <1>3 DEF OnceEach, Once
<1> QED
  BY <1>2, <1>4, InitTypes DEF OwnerInv

\* Every step keeps a context in one place.
LEMMA NextOwner == LinearOutputs /\ OwnerInv /\ [Next]_vars => OwnerInv'
<1> SUFFICES ASSUME LinearOutputs, OwnerInv, [Next]_vars PROVE OwnerInv'
  OBVIOUS
<1>1. CASE BusStep
  BY <1>1, AppendsOwner, PassesOwner, StopsOwner, ForksOwner, ReplayOwner DEF BusStep
<1>2. ASSUME NEW a \in Actors, ActorStep(a) PROVE OwnerInv'
  <2>1. CASE HandlerEnds(a)
    BY <2>1, ReturnsOwner, DefersOwner DEF HandlerEnds
  <2> QED
    BY <1>2, <2>1, HandlingOwner, EmitsOwner, ActorStopsOwner DEF ActorStep
<1>3. ASSUME NEW e \in parked, NEW writes \in BOOLEAN, SideThreadEmits(e, writes) PROVE OwnerInv'
  BY <1>3, SideThreadOwner
<1>4. ASSUME NEW s \in Producers, ProducerCreates(s) \/ ProducerPuts(s) PROVE OwnerInv'
  BY <1>4, CreatesOwner, PutsOwner
<1>5. CASE RequestStop
  BY <1>5, RequestStopOwner
<1>6. CASE Crash
  BY <1>6, CrashOwner
<1>7. CASE UNCHANGED vars
  BY <1>7, StutterOwner
<1> QED
  BY <1>1, <1>2, <1>3, <1>4, <1>5, <1>6, <1>7 DEF Next

\* A claim is a place that holds the context.
LEMMA ClaimsArePlaces ==
  ASSUME OwnerInv, NEW c \in CtxIds, NEW x \in Claims(c), NEW y \in Claims(c)
  PROVE  x = y
<1> DEFINE Is(z, p) ==
      \/ p = ThePipe /\ \E i \in At(pipe, c) : z = <<"pipe", i>>
      \/ p = TheBus /\ \E i \in At(bus.out, c) : z = <<"bus", i>>
      \/ p = TheParked /\ \E d \in parked : d.ctx = c /\ z = <<"parked", d>>
      \/ p = TheReplay /\ c \in replay /\ z = <<"replay", c>>
      \/ \E a \in Actors : p = Inbox(a) /\ \E i \in At(inbox[a], c) : z = <<a, "inbox", i>>
      \/ \E a \in Actors : p = Out(a) /\ \E i \in At(actor[a].out, c) : z = <<a, "out", i>>
      \/ \E a \in Actors : p = Handling(a) /\ actor[a].pc = "handling" /\ actor[a].event.ctx = c
                           /\ z = <<a, "handling">>
      \/ \E s \in Producers : p = Product(s) /\ producer[s] = c /\ z = <<"producer", s>>
<1>0. TypeInv /\ OnePlace /\ OnceEach /\ c # 0
  BY DEF OwnerInv, CtxIds
<1>1. ASSUME NEW z \in Claims(c)
      PROVE  \E p \in Places : Is(z, p)
  <2> DEFINE InPipe == {<<"pipe", i>> : i \in At(pipe, c)}
  <2> DEFINE InBus == {<<"bus", i>> : i \in At(bus.out, c)}
  <2> DEFINE InInbox == UNION {{<<a, "inbox", i>> : i \in At(inbox[a], c)} : a \in Actors}
  <2> DEFINE InOut == UNION {{<<a, "out", i>> : i \in At(actor[a].out, c)} : a \in Actors}
  <2> DEFINE InHandler == {<<a, "handling">> : a \in {b \in Actors : actor[b].pc = "handling" /\ actor[b].event.ctx = c}}
  <2> DEFINE InParked == {<<"parked", e>> : e \in {d \in parked : d.ctx = c}}
  <2> DEFINE InProducer == {<<"producer", s>> : s \in {p \in Producers : producer[p] = c}}
  <2> DEFINE InReplay == {<<"replay", d>> : d \in replay \cap {c}}
  <2>0. Claims(c) = InPipe \cup InBus \cup InInbox \cup InOut \cup InHandler \cup InParked \cup InProducer
                    \cup InReplay
    BY DEF Claims
  <2>1. CASE z \in InPipe
    BY <2>1, PlacesAre
  <2>2. CASE z \in InBus
    BY <2>2, PlacesAre
  <2>3. CASE z \in InInbox
    BY <2>3, PlacesAre
  <2>4. CASE z \in InOut
    BY <2>4, PlacesAre
  <2>5. CASE z \in InHandler
    BY <2>5, PlacesAre
  <2>6. CASE z \in InParked
    BY <2>6, PlacesAre
  <2>7. CASE z \in InProducer
    BY <2>7, PlacesAre
  <2>8. CASE z \in InReplay
    BY <2>8, PlacesAre
  <2> HIDE DEF Is, InPipe, InBus, InInbox, InOut, InHandler, InParked, InProducer, InReplay
  <2> QED
    BY <2>0, <2>1, <2>2, <2>3, <2>4, <2>5, <2>6, <2>7, <2>8
<1>2. ASSUME NEW z, NEW p \in Places, Is(z, p)
      PROVE  c \in Held(p)
  <2>1. \A q : \A i \in At(q, c) : c \in InQueue(q)
    BY DEF At, InQueue
  <2> QED
    BY <1>2, <2>1, HeldIs
<1>3. PICK p \in Places : Is(x, p)
  BY <1>1
<1>4. PICK q \in Places : Is(y, q)
  BY <1>1
<1>5. p = q
  BY <1>0, <1>2, <1>3, <1>4 DEF OnePlace
<1>6. Is(y, p)
  BY <1>4, <1>5
<1>7. \A r : Once(r) => \A i, j \in At(r, c) : i = j
  BY <1>0 DEF Once, At
<1>8. /\ \A i, j \in At(pipe, c) : i = j
      /\ \A i, j \in At(bus.out, c) : i = j
      /\ \A a \in Actors : /\ \A i, j \in At(inbox[a], c) : i = j
                           /\ \A i, j \in At(actor[a].out, c) : i = j
      /\ \A d, e \in parked : d.ctx = c /\ e.ctx = c => d = e
  BY <1>0, <1>7 DEF OnceEach
<1>9. CASE p = ThePipe
  BY <1>3, <1>6, <1>8, <1>9, PlacesDiffer
<1>10. CASE p = TheBus
  BY <1>3, <1>6, <1>8, <1>10, PlacesDiffer
<1>11. CASE p = TheParked
  BY <1>3, <1>6, <1>8, <1>11, PlacesDiffer
<1>12. CASE p = TheReplay
  BY <1>3, <1>6, <1>12, PlacesDiffer
<1>13. ASSUME NEW a \in Actors, p = Inbox(a) PROVE x = y
  BY <1>3, <1>6, <1>8, <1>13, PlacesDiffer
<1>14. ASSUME NEW a \in Actors, p = Out(a) PROVE x = y
  BY <1>3, <1>6, <1>8, <1>14, PlacesDiffer
<1>15. ASSUME NEW a \in Actors, p = Handling(a) PROVE x = y
  BY <1>3, <1>6, <1>15, PlacesDiffer
<1>16. ASSUME NEW s \in Producers, p = Product(s) PROVE x = y
  BY <1>3, <1>6, <1>16, PlacesDiffer
<1> QED
  BY <1>9, <1>10, <1>11, <1>12, <1>13, <1>14, <1>15, <1>16, PlaceCases

\* Where no handler goes on with its context twice, a context is in one place at a
\* time, whatever is tapped, deferred, replayed after a crash or produced meanwhile:
\* no two threads of the runtime ever process one context.
THEOREM OneOwner == LinearOutputs /\ Spec => []SingleOwner
<1>1. ASSUME OwnerInv PROVE SingleOwner
  <2> SUFFICES ASSUME NEW c \in CtxIds PROVE Cardinality(Claims(c)) <= 1
    BY DEF SingleOwner
  <2>1. CASE Claims(c) = {}
    BY <2>1, FS_EmptySet
  <2>2. ASSUME NEW x \in Claims(c) PROVE Cardinality(Claims(c)) <= 1
    <3>1. Claims(c) = {x}
      BY <1>1, <2>2, ClaimsArePlaces
    <3>2. Cardinality(Claims(c)) = 1
      BY <3>1, FS_Singleton
    <3> QED
      BY <3>2
  <2> QED
    BY <2>1, <2>2
<1>2. LinearOutputs /\ OwnerInv /\ [Next]_vars => LinearOutputs' /\ OwnerInv'
  BY NextOwner DEF LinearOutputs
<1> QED
  BY <1>1, <1>2, InitOwner, PTL DEF Spec

----------------------------------------------------------------------------
(* A graceful stop *)

IsStop(x) == x = StopActorEvent

\* The stop events are at the end of queue q; none is there while the bus is up.
StopsEnd(q, up) ==
  /\ up => \A i \in DOMAIN q : ~IsStop(q[i])
  /\ \A i, j \in DOMAIN q : i < j /\ IsStop(q[i]) => IsStop(q[j])

OnlyStops(q) == \A i \in DOMAIN q : IsStop(q[i])

\* The invariant, actor by actor.
LEMMA StopInvIs ==
  StopInv <=> /\ TypeInv /\ (~bus.up => bus.todo = {} /\ bus.out = <<>>)
              /\ \A a \in Actors : /\ bus.up => actor[a].pc # "stopped"
                                   /\ StopsEnd(inbox[a], bus.up)
                                   /\ actor[a].pc = "stopped" => OnlyStops(inbox[a])
BY DEF StopInv, StopsAreLast, StopDrainsInboxes, StopsEnd, OnlyStops, IsStop

LEMMA StopInvBecomes ==
  ASSUME TypeInv', ~bus'.up => bus'.todo = {} /\ bus'.out = <<>>,
         \A a \in Actors : /\ bus'.up => actor'[a].pc # "stopped"
                           /\ StopsEnd(inbox'[a], bus'.up)
                           /\ actor'[a].pc = "stopped" => OnlyStops(inbox'[a])
  PROVE  StopInv'
BY DEF StopInv, StopsAreLast, StopDrainsInboxes, StopsEnd, OnlyStops, IsStop, StopActorEvent

\* Taking from a queue leaves the stop events at its end.
LEMMA TailStops ==
  ASSUME NEW S, NEW q \in Seq(S), q # <<>>, NEW up, StopsEnd(q, up)
  PROVE  StopsEnd(Tail(q), up) /\ (IsStop(Head(q)) => OnlyStops(Tail(q)) /\ ~up)
<1>1. /\ Head(q) = q[1] /\ 1 \in DOMAIN q
      /\ \A i \in DOMAIN Tail(q) : i \in Nat /\ i >= 1 /\ i + 1 \in DOMAIN q /\ Tail(q)[i] = q[i + 1]
  OBVIOUS
<1>2. \A i, j \in DOMAIN Tail(q) : (i < j => i + 1 < j + 1) /\ 1 < i + 1
  BY <1>1
<1>3. StopsEnd(Tail(q), up)
  BY <1>1, <1>2 DEF StopsEnd
<1>4. IsStop(Head(q)) => OnlyStops(Tail(q)) /\ ~up
  BY <1>1, <1>2 DEF StopsEnd, OnlyStops
<1> QED
  BY <1>3, <1>4

\* A step of which the bus and the actors hear nothing of a stop.
LEMMA StopsKept ==
  ASSUME StopInv, TypeInv', bus' = bus,
         \A a \in Actors : /\ inbox'[a] = inbox[a] \/ (inbox[a] # <<>> /\ inbox'[a] = Tail(inbox[a]))
                           /\ actor'[a].pc = "stopped" => actor[a].pc = "stopped"
  PROVE  StopInv'
<1>1. ASSUME NEW a \in Actors
      PROVE  /\ bus'.up => actor'[a].pc # "stopped"
             /\ StopsEnd(inbox'[a], bus'.up)
             /\ actor'[a].pc = "stopped" => OnlyStops(inbox'[a])
  <2>1. /\ bus.up => actor[a].pc # "stopped"
        /\ StopsEnd(inbox[a], bus.up) /\ inbox[a] \in Seq(FromBus)
        /\ actor[a].pc = "stopped" => OnlyStops(inbox[a])
    BY StopInvIs, Typed
  <2>2. CASE inbox'[a] = inbox[a]
    BY <2>1, <2>2
  <2>3. CASE inbox[a] # <<>> /\ inbox'[a] = Tail(inbox[a])
    <3>1. StopsEnd(Tail(inbox[a]), bus.up) /\ (IsStop(Head(inbox[a])) => OnlyStops(Tail(inbox[a])))
      BY <2>1, <2>3, TailStops
    <3>2. OnlyStops(inbox[a]) => IsStop(Head(inbox[a]))
      BY <2>1, <2>3, HeadTail DEF OnlyStops
    <3> QED
      BY <2>1, <2>3, <3>1, <3>2
  <2> QED
    BY <2>2, <2>3
<1> QED
  BY <1>1, StopInvIs, StopInvBecomes

\* A step of the bus that takes a message.
LEMMA StopsKeptByTaking ==
  ASSUME StopInv, TypeInv', bus.up, bus'.up, UNCHANGED <<inbox, actor>>
  PROVE  StopInv'
BY StopInvIs, StopInvBecomes

LEMMA PassingUp ==
  ASSUME NEW c, NEW s, NEW m, PassDownstream(c, s, m)
  PROVE  bus'.up
BY DEF PassDownstream

LEMMA BusStopInv ==
  ASSUME StopInv, BusStep
  PROVE  StopInv'
<1>0. TypeInv
  BY DEF StopInv
<1>1. CASE BusAppends
  BY <1>0, <1>1, AppendsTypes, PassingUp, StopsKeptByTaking DEF BusAppends, BusFree
<1>2. ASSUME NEW c \in replay, Replay(c) PROVE StopInv'
  BY <1>0, <1>2, ReplayTypes, PassingUp, StopsKeptByTaking DEF Replay, BusFree
<1>3. ASSUME NEW k \in bus.todo, BusForks(k) PROVE StopInv'
  <2>1. bus.up /\ UNCHANGED <<inbox, actor>>
    BY <1>3, StopInvIs DEF BusForks
  <2>2. bus'.up
    <3>1. PICK x, y : bus' = [bus EXCEPT !.todo = x, !.out = y]
      BY <1>3 DEF BusForks
    <3> QED
      BY <1>0, <2>1, <3>1, Typed DEF BusStates
  <2> QED
    BY <1>0, <1>3, <2>1, <2>2, ForksTypes, StopsKeptByTaking
<1>4. CASE BusPasses
  <2> DEFINE e == Head(bus.out)
  <2> DEFINE o == Owner[e.target]
  <2>1. /\ UNCHANGED actor /\ bus.todo = {} /\ bus.out # <<>> /\ TypeInv'
        /\ inbox' = [inbox EXCEPT ![o] = Append(inbox[o], e)]
        /\ bus' = [bus EXCEPT !.out = Tail(bus.out)]
    BY <1>0, <1>4, PassesTypes DEF BusPasses
  <2>2. bus.up /\ bus \in BusStates /\ bus.out \in Seq(ReceiveEvents)
    BY <1>0, <2>1, StopInvIs, Typed, Fields
  <2>3. e \in ReceiveEvents /\ o \in Actors /\ ~IsStop(e)
    BY <2>1, <2>2, HeadTail, Fields, StopsDiffer, GraphIs DEF IsStop
  <2>4. bus'.up
    BY <2>1, <2>2 DEF BusStates
  <2> HIDE DEF e, o
  <2>5. inbox'[o] = Append(inbox[o], e) /\ \A a \in Actors \ {o} : inbox'[a] = inbox[a]
    BY <1>0, <2>1, <2>3, Typed
  <2>6. StopsEnd(inbox'[o], TRUE)
    <3>1. inbox[o] \in Seq(FromBus) /\ StopsEnd(inbox[o], bus.up)
      BY <1>0, <2>3, StopInvIs, Typed
    <3>2. \A i \in DOMAIN inbox'[o] : \/ i \in DOMAIN inbox[o] /\ inbox'[o][i] = inbox[o][i]
                                      \/ inbox'[o][i] = e
      BY <2>5, <3>1, AppendItems
    <3>3. \A i \in DOMAIN inbox'[o] : ~IsStop(inbox'[o][i])
      BY <2>2, <2>3, <3>1, <3>2 DEF StopsEnd
    <3> QED
      BY <3>3 DEF StopsEnd
  <2> QED
    BY <2>1, <2>2, <2>4, <2>5, <2>6, StopInvIs, StopInvBecomes
<1>5. CASE BusStops
  <2>1. /\ UNCHANGED actor /\ bus.up /\ bus.todo = {} /\ bus.out = <<>> /\ TypeInv'
        /\ bus' = [bus EXCEPT !.up = FALSE] /\ inbox' = [a \in Actors |-> inbox[a] \o Stops(a)]
    BY <1>0, <1>5, StopsTypes DEF BusStops, BusFree, Stops
  <2>2. ~bus'.up /\ bus'.todo = {} /\ bus'.out = <<>>
    BY <1>0, <2>1, Typed DEF BusStates
  <2>3. ASSUME NEW a \in Actors PROVE StopsEnd(inbox'[a], FALSE)
    <3> DEFINE q == inbox[a]
    <3> DEFINE r == Stops(a)
    <3>1. q \in Seq(FromBus) /\ r \in Seq(FromBus) /\ StopsEnd(q, bus.up) /\ inbox'[a] = q \o r
      BY <1>0, <2>1, StopInvIs, Typed, StopsAre, SeqMonotonic DEF FromBus
    <3>2. (\A i \in DOMAIN q : ~IsStop(q[i])) /\ (\A i \in DOMAIN r : IsStop(r[i]))
      BY <2>1, <3>1, StopsAre DEF StopsEnd, IsStop
    <3> HIDE DEF q, r
    <3>3. /\ Len(q) \in Nat /\ Len(r) \in Nat /\ DOMAIN q = 1..Len(q) /\ DOMAIN r = 1..Len(r)
          /\ DOMAIN (q \o r) = 1..(Len(q) + Len(r))
          /\ \A i \in 1..Len(q) : (q \o r)[i] = q[i]
          /\ \A i \in 1..Len(r) : (q \o r)[Len(q) + i] = r[i]
      BY <3>1, Concat
    <3>4. \A i \in 1..(Len(q) + Len(r)) : i > Len(q) => i - Len(q) \in 1..Len(r) /\ i = Len(q) + (i - Len(q))
      BY <3>3
    <3>5. \A i \in DOMAIN (q \o r) : IsStop((q \o r)[i]) <=> i > Len(q)
      <4>1. ASSUME NEW i \in DOMAIN (q \o r), i > Len(q) PROVE IsStop((q \o r)[i])
        BY <3>2, <3>3, <3>4, <4>1
      <4>2. ASSUME NEW i \in DOMAIN (q \o r), ~(i > Len(q)) PROVE ~IsStop((q \o r)[i])
        BY <3>2, <3>3, <4>2
      <4> QED
        BY <4>1, <4>2
    <3>6. \A i, j \in DOMAIN (q \o r) : i > Len(q) /\ i < j => j > Len(q)
      BY <3>3
    <3> QED
      BY <3>1, <3>5, <3>6 DEF StopsEnd
  <2>4. \A a \in Actors : actor'[a].pc # "stopped"
    BY <2>1, StopInvIs
  <2>5. \A a \in Actors : StopsEnd(inbox'[a], bus'.up)
    BY <2>2, <2>3 DEF StopsEnd
  <2> QED
    BY <2>1, <2>2, <2>4, <2>5, StopInvBecomes
<1> QED
  BY <1>1, <1>2, <1>3, <1>4, <1>5 DEF BusStep

LEMMA ActorStopInv ==
  ASSUME StopInv, NEW a \in Actors, ActorStep(a)
  PROVE  StopInv'
<1>0. TypeInv
  BY DEF StopInv
<1>1. CASE StartHandling(a)
  <2>1. /\ bus' = bus /\ inbox[a] # <<>> /\ inbox' = [inbox EXCEPT ![a] = Tail(inbox[a])]
        /\ TypeInv' /\ actor'[a].pc = "handling"
    BY <1>0, <1>1, HandlingTypes DEF StartHandling
  <2>2. PICK x : actor' = [actor EXCEPT ![a] = x]
    BY <1>1 DEF StartHandling
  <2> QED
    BY <1>0, <2>1, <2>2, Typed, StopsKept
<1>2. ASSUME NEW o \in Outputs[actor[a].event.target] \cup {<<>>}, NEW writes, HandlerReturns(a, o, writes)
      PROVE  StopInv'
  <2>1. /\ UNCHANGED <<bus, inbox>> /\ TypeInv' /\ actor'[a].pc \in {"idle", "emitting"}
    BY <1>0, <1>2, ReturnsTypes DEF HandlerReturns
  <2>2. PICK x : actor' = [actor EXCEPT ![a] = x]
    BY <1>2 DEF HandlerReturns
  <2> QED
    BY <1>0, <2>1, <2>2, Typed, StopsKept
<1>3. ASSUME NEW s \in Deferred[actor[a].event.target], NEW writes, HandlerDefers(a, s, writes)
      PROVE  StopInv'
  <2>1. UNCHANGED <<bus, inbox>> /\ TypeInv' /\ actor' = [actor EXCEPT ![a] = Idle]
    BY <1>0, <1>3, DefersTypes DEF HandlerDefers
  <2> QED
    BY <1>0, <2>1, IdleIs, Typed, StopsKept
<1>4. CASE ActorEmits(a)
  <2>1. UNCHANGED <<bus, inbox>> /\ TypeInv' /\ actor'[a].pc \in {"idle", "emitting"}
    BY <1>0, <1>4, EmitsTypes DEF ActorEmits
  <2>2. PICK x : actor' = [actor EXCEPT ![a] = x]
    BY <1>4 DEF ActorEmits
  <2> QED
    BY <1>0, <2>1, <2>2, Typed, StopsKept
<1>5. CASE ActorStops(a)
  <2>1. /\ bus' = bus /\ inbox[a] # <<>> /\ inbox' = [inbox EXCEPT ![a] = Tail(inbox[a])]
        /\ TypeInv' /\ IsStop(Head(inbox[a]))
    BY <1>0, <1>5, ActorStopsTypes DEF ActorStops, IsStop
  <2>2. PICK x : actor' = [actor EXCEPT ![a] = x]
    BY <1>5 DEF ActorStops
  <2>3. /\ inbox'[a] = Tail(inbox[a])
        /\ \A b \in Actors \ {a} : inbox'[b] = inbox[b] /\ actor'[b] = actor[b]
    BY <1>0, <2>1, <2>2, Typed
  <2>4. StopsEnd(Tail(inbox[a]), bus.up) /\ OnlyStops(Tail(inbox[a])) /\ ~bus.up
    BY <1>0, <2>1, StopInvIs, Typed, TailStops
  <2> QED
    BY <2>1, <2>3, <2>4, StopInvIs, StopInvBecomes
<1> QED
  BY <1>1, <1>2, <1>3, <1>4, <1>5 DEF ActorStep, HandlerEnds

LEMMA NextStopInv == StopInv /\ [Next]_vars => StopInv'
<1> SUFFICES ASSUME StopInv, [Next]_vars PROVE StopInv'
  OBVIOUS
<1>0. TypeInv /\ TypeInv'
  BY NextTypes DEF StopInv
<1>1. CASE BusStep
  BY <1>1, BusStopInv
<1>2. ASSUME NEW a \in Actors, ActorStep(a) PROVE StopInv'
  BY <1>2, ActorStopInv
<1>3. CASE UNCHANGED <<bus, inbox, actor>>
  BY <1>0, <1>3, StopsKept
<1>4. CASE Crash
  <2>1. /\ bus' = BusIdle /\ inbox' = [a \in Actors |-> <<>>] /\ actor' = [a \in Actors |-> Idle]
    BY <1>4 DEF Crash
  <2>2. bus'.up /\ \A a \in Actors : inbox'[a] = <<>> /\ actor'[a].pc = "idle"
    BY <2>1, IdleIs DEF BusIdle
  <2> QED
    BY <1>0, <2>2, StopInvBecomes DEF StopsEnd
<1> QED
  BY <1>1, <1>2, <1>3, <1>4
     DEF Next, SideThreadEmits, ProducerCreates, ProducerPuts, RequestStop, vars, graphVars

\* For any graph, a graceful stop drops nothing that was delivered: the stop events
\* are the last ones of every inbox, because the bus puts them there when it has
\* nothing left to pass on and puts nothing after them.
THEOREM GracefulStop == Spec => []StopDrainsInboxes
<1>1. Init => StopInv
  <2> SUFFICES ASSUME Init PROVE StopInv
    OBVIOUS
  <2>1. bus.up /\ \A a \in Actors : inbox[a] = <<>> /\ actor[a].pc = "idle"
    BY IdleIs DEF Init, BusIdle
  <2> QED
    BY <2>1, InitTypes, StopInvIs DEF StopsEnd
<1>2. StopInv => StopDrainsInboxes
  BY DEF StopInv
<1> QED
  BY <1>1, <1>2, NextStopInv, PTL DEF Spec

----------------------------------------------------------------------------
(* What is delivered is the state at emission *)

\* Delivery e agrees with contexts cs, and so do the ones in queue q.
Right(cs, e) == cs[e.ctx].payload = e.msg /\ cs[e.ctx].data = e.data
AllRight(cs, q) == \A i \in DOMAIN q : q[i] = StopActorEvent \/ Right(cs, q[i])
HandledRight(cs, x) == x.pc = "handling" => x.event = StopActorEvent \/ Right(cs, x.event)
BusRight(cs, b) == AllRight(cs, b.out) /\ (b.todo # {} => Right(cs, b))

LEMMA StateInvIs ==
  StateInv => /\ OwnerInv /\ TypeInv /\ BusRight(ctxs, bus)
              /\ \A a \in Actors : AllRight(ctxs, inbox[a]) /\ HandledRight(ctxs, actor[a])
<1> SUFFICES ASSUME StateInv
             PROVE  /\ OwnerInv /\ TypeInv /\ BusRight(ctxs, bus)
                    /\ \A a \in Actors : AllRight(ctxs, inbox[a]) /\ HandledRight(ctxs, actor[a])
  OBVIOUS
<1>1. \A e \in Deliveries : e = StopActorEvent \/ Right(ctxs, e)
  BY DEF StateInv, DeliveredStateIsEmissionState, Right
<1>2. \A i \in DOMAIN bus.out : bus.out[i] \in Deliveries
  BY DEF Deliveries
<1>3. \A a \in Actors : \A i \in DOMAIN inbox[a] : inbox[a][i] \in Deliveries
  BY DEF Deliveries
<1>4. \A a \in Actors : actor[a].pc = "handling" => actor[a].event \in Deliveries
  BY DEF Deliveries
<1>5. bus.todo # {} => Right(ctxs, bus)
  BY DEF StateInv, BusHasState, Right
<1> QED
  BY <1>1, <1>2, <1>3, <1>4, <1>5 DEF StateInv, OwnerInv, AllRight, HandledRight, BusRight

LEMMA IsStateInv ==
  OwnerInv /\ BusRight(ctxs, bus)
  /\ (\A a \in Actors : AllRight(ctxs, inbox[a]) /\ HandledRight(ctxs, actor[a])) => StateInv
<1> SUFFICES ASSUME OwnerInv, BusRight(ctxs, bus),
                    \A a \in Actors : AllRight(ctxs, inbox[a]) /\ HandledRight(ctxs, actor[a])
             PROVE  StateInv
  OBVIOUS
<1>1. BusHasState
  BY DEF BusRight, BusHasState, Right
<1>2. ASSUME NEW e \in Deliveries PROVE e = StopActorEvent \/ Right(ctxs, e)
  <2>1. CASE e \in {bus.out[i] : i \in DOMAIN bus.out}
    BY <2>1 DEF BusRight, AllRight
  <2>2. CASE e \in UNION {{inbox[a][i] : i \in DOMAIN inbox[a]} : a \in Actors}
    BY <2>2 DEF AllRight
  <2>3. CASE e \in {actor[a].event : a \in {b \in Actors : actor[b].pc = "handling"}}
    BY <2>3 DEF HandledRight
  <2> QED
    BY <1>2, <2>1, <2>2, <2>3 DEF Deliveries
<1>3. DeliveredStateIsEmissionState
  BY <1>2 DEF DeliveredStateIsEmissionState, Right
<1> QED
  BY <1>1, <1>3 DEF StateInv

LEMMA StateInvBecomes ==
  ASSUME OwnerInv', BusRight(ctxs', bus'),
         \A a \in Actors : AllRight(ctxs', inbox'[a]) /\ HandledRight(ctxs', actor'[a])
  PROVE  StateInv'
<1>1. (OwnerInv /\ BusRight(ctxs, bus)
       /\ (\A a \in Actors : AllRight(ctxs, inbox[a]) /\ HandledRight(ctxs, actor[a])) => StateInv)'
  BY IsStateInv, PTL
<1>2. BusRight(ctxs, bus)' = BusRight(ctxs', bus')
  BY DEF BusRight, AllRight, Right, StopActorEvent
<1>3. \A a \in Actors : AllRight(ctxs, inbox[a])' = AllRight(ctxs', inbox'[a])
  BY DEF AllRight, Right, StopActorEvent
<1>4. \A a \in Actors : HandledRight(ctxs, actor[a])' = HandledRight(ctxs', actor'[a])
  BY DEF HandledRight, Right, StopActorEvent
<1> QED
  BY <1>1, <1>2, <1>3, <1>4

\* Who writes to a context holds it, so no delivery elsewhere is about it.
LEMMA WritesKeep ==
  ASSUME StateInv, NEW from \in Places, NEW c, c \in Held(from) \/ c \notin CtxIds,
         from # TheBus, \A a \in Actors : from # Inbox(a),
         \A d \in CtxIds : d # c => ctxs'[d].payload = ctxs[d].payload /\ ctxs'[d].data = ctxs[d].data
  PROVE  /\ BusRight(ctxs', bus)
         /\ \A a \in Actors : /\ AllRight(ctxs', inbox[a])
                              /\ from # Handling(a) => HandledRight(ctxs', actor[a])
<1>0. TypeInv /\ OnePlace
  BY StateInvIs DEF OwnerInv
<1>1. ASSUME NEW p \in Places, p # from, NEW e, e.ctx \in CtxIds, e.ctx \in Held(p), Right(ctxs, e)
      PROVE  Right(ctxs', e)
  <2>1. e.ctx # c
    BY <1>0, <1>1 DEF OnePlace
  <2> QED
    BY <1>1, <2>1 DEF Right
<1>2. ASSUME NEW p \in Places, p # from, NEW q \in Seq(FromBus), InQueue(q) \subseteq Held(p), AllRight(ctxs, q)
      PROVE  AllRight(ctxs', q)
  <2> SUFFICES ASSUME NEW i \in DOMAIN q, q[i] # StopActorEvent PROVE Right(ctxs', q[i])
    BY DEF AllRight
  <2>1. q[i] \in FromBus
    OBVIOUS
  <2>2. q[i].ctx \in CtxIds
    BY <2>1, Fields DEF FromBus
  <2>3. q[i].ctx \in Held(p)
    BY <1>2 DEF InQueue
  <2>4. Right(ctxs, q[i])
    BY <1>2 DEF AllRight
  <2> QED
    BY <1>1, <1>2, <2>2, <2>3, <2>4
<1>3. BusRight(ctxs', bus)
  <2>1. BusRight(ctxs, bus)
    BY StateInvIs
  <2>2. bus.out \in Seq(FromBus)
    BY <1>0, Typed, Fields, SeqMonotonic DEF FromBus
  <2>3. AllRight(ctxs', bus.out)
    BY <1>2, <2>1, <2>2, HeldIs, PlacesAre DEF BusRight
  <2>4. ASSUME bus.todo # {} PROVE Right(ctxs', bus)
    <3>1. bus.ctx \in CtxIds /\ bus.ctx \in Held(TheBus) /\ Right(ctxs, bus)
      BY <1>0, <2>1, <2>4, HeldIs, Typed DEF BusRight, RefersToLogged
    <3> QED
      BY <1>1, <3>1, PlacesAre
  <2> QED
    BY <2>3, <2>4 DEF BusRight
<1>4. ASSUME NEW a \in Actors PROVE AllRight(ctxs', inbox[a])
  <2>1. AllRight(ctxs, inbox[a]) /\ inbox[a] \in Seq(FromBus) /\ InQueue(inbox[a]) \subseteq Held(Inbox(a))
    BY <1>0, StateInvIs, Typed, HeldIs
  <2> QED
    BY <1>2, <2>1, PlacesAre
<1>5. ASSUME NEW a \in Actors, from # Handling(a) PROVE HandledRight(ctxs', actor[a])
  <2> SUFFICES ASSUME actor[a].pc = "handling", actor[a].event # StopActorEvent
               PROVE  Right(ctxs', actor[a].event)
    BY DEF HandledRight
  <2>1. actor[a].event \in ReceiveEvents /\ actor[a].event.ctx \in Held(Handling(a)) /\ Right(ctxs, actor[a].event)
    BY <1>0, StateInvIs, Typed, HeldIs DEF HandledRight, RefersToLogged
  <2> QED
    BY <1>1, <1>5, <2>1, Fields, PlacesAre
<1> QED
  BY <1>3, <1>4, <1>5

\* What is passed downstream carries the state of its context.
LEMMA PassingRight ==
  ASSUME NEW c, NEW s, NEW m, PassDownstream(c, s, m),
         ctxs'[c].payload = m, ctxs'[c].data = ctxs[c].data
  PROVE  BusRight(ctxs', bus')
<1> DEFINE e == [target |-> Primary[s], ctx |-> c, msg |-> m, data |-> ctxs[c].data]
<1> DEFINE out == IF Primary[s] = NoSink THEN <<>> ELSE <<e>>
<1>1. bus'.ctx = c /\ bus'.msg = m /\ bus'.data = ctxs[c].data /\ bus'.out = out
  BY DEF PassDownstream
<1>2. \A i \in DOMAIN out : out[i] = e
  OBVIOUS
<1>3. e.ctx = c /\ e.msg = m /\ e.data = ctxs[c].data
  OBVIOUS
<1> HIDE DEF e, out
<1> QED
  BY <1>1, <1>2, <1>3 DEF BusRight, AllRight, Right

LEMMA AllRightTail ==
  ASSUME NEW S, NEW q \in Seq(S), q # <<>>, NEW cs, AllRight(cs, q)
  PROVE  AllRight(cs, Tail(q)) /\ (Head(q) = StopActorEvent \/ Right(cs, Head(q)))
BY HeadTail DEF AllRight

LEMMA BusStateInv ==
  ASSUME StateInv, OwnerInv', BusStep
  PROVE  StateInv'
<1>0. TypeInv /\ OnePlace
  BY StateInvIs DEF OwnerInv
<1>1. CASE BusAppends
  <2> DEFINE e == Head(pipe)
  <2>1. /\ UNCHANGED <<inbox, actor>> /\ PassDownstream(e.ctx, e.source, Len(messages) + 1)
        /\ pipe # <<>> /\ e # StopBusEvent
    BY <1>1 DEF BusAppends
  <2>2. /\ \A c \in CtxIds : c # e.ctx => ctxs'[c] = ctxs[c]
        /\ ctxs'[e.ctx].payload = Len(messages) + 1 /\ ctxs'[e.ctx].data = ctxs[e.ctx].data
    BY <1>0, <1>1, AppendsTypes
  <2>3. e.ctx \in Held(ThePipe)
    BY <1>0, <2>1, HeadTail, HeldIs, Typed DEF InQueue
  <2> HIDE DEF e
  <2>4. BusRight(ctxs', bus')
    BY <2>1, <2>2, PassingRight
  <2>5. \A a \in Actors : AllRight(ctxs', inbox[a]) /\ HandledRight(ctxs', actor[a])
    BY <2>2, <2>3, PlacesAre, PlacesDiffer, WritesKeep
  <2> QED
    BY <2>1, <2>4, <2>5, StateInvBecomes
<1>2. ASSUME NEW c \in replay, Replay(c) PROVE StateInv'
  <2>1. UNCHANGED <<ctxs, inbox, actor>> /\ PassDownstream(c, messages[ctxs[c].payload], ctxs[c].payload)
    BY <1>2 DEF Replay
  <2>2. BusRight(ctxs', bus')
    BY <2>1, PassingRight
  <2> QED
    BY <2>1, <2>2, StateInvIs, StateInvBecomes
<1>3. ASSUME NEW k \in bus.todo, BusForks(k) PROVE StateInv'
  <2> DEFINE n == Len(ctxs) + 1
  <2> DEFINE e == [target |-> k, ctx |-> n, msg |-> bus.msg, data |-> bus.data]
  <2>1. /\ UNCHANGED <<inbox, actor>>
        /\ bus' = [bus EXCEPT !.todo = @ \ {k},
                              !.out = Append(@, [target |-> k, ctx |-> Len(ctxs'), msg |-> bus.msg,
                                                 data |-> bus.data])]
    BY <1>3 DEF BusForks
  <2>2. Len(ctxs') = n /\ ctxs'[n] = ChildOf(ctxs[bus.ctx]) /\ \A c \in CtxIds : ctxs'[c] = ctxs[c]
    BY <1>0, <1>3, ForksTypes
  <2>3. /\ bus'.ctx = bus.ctx /\ bus'.msg = bus.msg /\ bus'.data = bus.data
        /\ bus'.todo \subseteq bus.todo /\ bus'.out = Append(bus.out, e) /\ bus.out \in Seq(ReceiveEvents)
    BY <1>0, <2>1, <2>2, Typed DEF BusStates
  <2>4. BusRight(ctxs', bus) /\ \A a \in Actors : AllRight(ctxs', inbox[a]) /\ HandledRight(ctxs', actor[a])
    <3>1. 0 \notin CtxIds
      BY DEF CtxIds
    <3> QED
      BY <2>2, <3>1, PlacesAre, PlacesDiffer, WritesKeep
  <2>5. Right(ctxs', e)
    <3>1. bus.ctx \in CtxIds /\ Right(ctxs, bus)
      BY <1>0, StateInvIs, Typed DEF BusRight, RefersToLogged
    <3>2. ctxs[bus.ctx] \in Contexts
      BY <1>0, <3>1, Typed
    <3>3. ctxs'[n].payload = ctxs[bus.ctx].payload /\ ctxs'[n].data = ctxs[bus.ctx].data
      BY <2>2, <3>2 DEF ChildOf, Contexts
    <3> QED
      BY <3>1, <3>3 DEF Right
  <2> HIDE DEF e
  <2>6. AllRight(ctxs', bus'.out)
    <3>1. AllRight(ctxs', bus.out)
      BY <2>4 DEF BusRight
    <3>2. \A i \in DOMAIN bus'.out : \/ i \in DOMAIN bus.out /\ bus'.out[i] = bus.out[i]
                                     \/ bus'.out[i] = e
      BY <2>3, AppendItems
    <3> QED
      BY <2>5, <3>1, <3>2 DEF AllRight
  <2>7. BusRight(ctxs', bus')
    BY <2>3, <2>4, <2>6 DEF BusRight, Right
  <2> QED
    BY <2>1, <2>4, <2>7, StateInvBecomes
<1>4. CASE BusPasses
  <2> DEFINE e == Head(bus.out)
  <2> DEFINE o == Owner[e.target]
  <2>1. /\ UNCHANGED <<ctxs, actor>> /\ bus.todo = {} /\ bus.out # <<>>
        /\ inbox' = [inbox EXCEPT ![o] = Append(inbox[o], e)]
        /\ bus' = [bus EXCEPT !.out = Tail(bus.out)]
    BY <1>4 DEF BusPasses
  <2>2. bus \in BusStates /\ bus.out \in Seq(ReceiveEvents) /\ BusRight(ctxs, bus)
    BY <1>0, StateInvIs, Typed, Fields
  <2>3. bus'.todo = {} /\ bus'.out = Tail(bus.out)
    BY <2>1, <2>2 DEF BusStates
  <2>4. AllRight(ctxs, Tail(bus.out)) /\ (e = StopActorEvent \/ Right(ctxs, e))
    BY <2>1, <2>2, AllRightTail DEF BusRight
  <2>5. e \in ReceiveEvents /\ o \in Actors
    BY <2>1, <2>2, HeadTail, Fields, GraphIs
  <2> HIDE DEF e, o
  <2>6. inbox'[o] = Append(inbox[o], e) /\ (\A a \in Actors \ {o} : inbox'[a] = inbox[a])
        /\ inbox[o] \in Seq(FromBus) /\ AllRight(ctxs, inbox[o])
    BY <1>0, <2>1, <2>5, StateInvIs, Typed
  <2>7. AllRight(ctxs, inbox'[o])
    <3>1. \A i \in DOMAIN inbox'[o] : \/ i \in DOMAIN inbox[o] /\ inbox'[o][i] = inbox[o][i]
                                      \/ inbox'[o][i] = e
      BY <2>6, AppendItems
    <3> QED
      BY <2>4, <2>6, <3>1 DEF AllRight
  <2>8. BusRight(ctxs', bus')
    BY <2>1, <2>3, <2>4 DEF BusRight
  <2>9. \A a \in Actors : AllRight(ctxs', inbox'[a])
    BY <2>1, <2>6, <2>7, StateInvIs
  <2> QED
    BY <2>1, <2>8, <2>9, StateInvIs, StateInvBecomes
<1>5. CASE BusStops
  <2>1. /\ UNCHANGED <<ctxs, actor>> /\ bus.todo = {} /\ bus.out = <<>>
        /\ bus' = [bus EXCEPT !.up = FALSE] /\ inbox' = [a \in Actors |-> inbox[a] \o Stops(a)]
    BY <1>5 DEF BusStops, BusFree, Stops
  <2>2. bus'.todo = {} /\ bus'.out = <<>>
    BY <1>0, <2>1, Typed DEF BusStates
  <2>3. BusRight(ctxs', bus')
    BY <2>2 DEF BusRight, AllRight
  <2>4. ASSUME NEW a \in Actors PROVE AllRight(ctxs', inbox'[a])
    <3> DEFINE q == inbox[a]
    <3> DEFINE r == Stops(a)
    <3>1. q \in Seq(FromBus) /\ r \in Seq(FromBus) /\ AllRight(ctxs, q) /\ inbox'[a] = q \o r
          /\ \A i \in DOMAIN r : r[i] = StopActorEvent
      BY <1>0, <2>1, StateInvIs, Typed, StopsAre, SeqMonotonic DEF FromBus
    <3> HIDE DEF q, r
    <3>2. /\ Len(q) \in Nat /\ Len(r) \in Nat /\ DOMAIN q = 1..Len(q) /\ DOMAIN r = 1..Len(r)
          /\ DOMAIN (q \o r) = 1..(Len(q) + Len(r))
          /\ \A i \in 1..Len(q) : (q \o r)[i] = q[i]
          /\ \A i \in 1..Len(r) : (q \o r)[Len(q) + i] = r[i]
      BY <3>1, Concat
    <3>3. \A i \in 1..(Len(q) + Len(r)) :
            i \in 1..Len(q) \/ (i - Len(q) \in 1..Len(r) /\ i = Len(q) + (i - Len(q)))
      BY <3>2
    <3>4. \A i \in DOMAIN (q \o r) : \/ i \in DOMAIN q /\ (q \o r)[i] = q[i]
                                     \/ \E j \in DOMAIN r : (q \o r)[i] = r[j]
      BY <3>2, <3>3
    <3> QED
      BY <2>1, <3>1, <3>4 DEF AllRight
  <2> QED
    BY <2>1, <2>3, <2>4, StateInvIs, StateInvBecomes
<1> QED
  BY <1>1, <1>2, <1>3, <1>4, <1>5 DEF BusStep

LEMMA ActorStateInv ==
  ASSUME StateInv, OwnerInv', NEW a \in Actors, ActorStep(a)
  PROVE  StateInv'
<1>0. TypeInv /\ BusRight(ctxs, bus) /\ \A b \in Actors : AllRight(ctxs, inbox[b]) /\ HandledRight(ctxs, actor[b])
  BY StateInvIs
\* What a handler writes is the context it holds.
<1>1. ASSUME UNCHANGED <<messages, bus, inbox>>, actor[a].pc = "handling", actor'[a].pc # "handling",
             NEW x, actor' = [actor EXCEPT ![a] = x],
             \A d \in CtxIds : d # actor[a].event.ctx =>
               ctxs'[d].payload = ctxs[d].payload /\ ctxs'[d].data = ctxs[d].data
      PROVE  StateInv'
  <2>1. actor[a].event.ctx \in Held(Handling(a))
    BY <1>1, HeldIs
  <2>2. /\ BusRight(ctxs', bus)
        /\ \A b \in Actors : AllRight(ctxs', inbox[b]) /\ (b # a => HandledRight(ctxs', actor[b]))
    BY <1>1, <2>1, PlacesAre, PlacesDiffer, WritesKeep
  <2>3. HandledRight(ctxs', actor'[a]) /\ \A b \in Actors \ {a} : actor'[b] = actor[b]
    BY <1>0, <1>1, Typed DEF HandledRight
  <2> QED
    BY <1>1, <2>2, <2>3, StateInvBecomes
<1>2. CASE StartHandling(a)
  <2>1. /\ UNCHANGED <<ctxs, bus>> /\ inbox[a] # <<>> /\ inbox' = [inbox EXCEPT ![a] = Tail(inbox[a])]
    BY <1>2 DEF StartHandling
  <2>2. /\ actor'[a].event = Head(inbox[a])
        /\ actor' = [actor EXCEPT ![a] = [Idle EXCEPT !.pc = "handling", !.event = Head(inbox[a])]]
    BY <1>0, <1>2, HandlingTypes
  <2>3. /\ inbox'[a] = Tail(inbox[a])
        /\ \A b \in Actors \ {a} : inbox'[b] = inbox[b] /\ actor'[b] = actor[b]
    BY <1>0, <2>1, <2>2, Typed
  <2>4. AllRight(ctxs, Tail(inbox[a])) /\ (Head(inbox[a]) = StopActorEvent \/ Right(ctxs, Head(inbox[a])))
    BY <1>0, <2>1, Typed, AllRightTail
  <2>5. HandledRight(ctxs, actor'[a])
    BY <2>2, <2>4 DEF HandledRight
  <2> QED
    BY <1>0, <2>1, <2>3, <2>4, <2>5, StateInvBecomes
<1>3. ASSUME NEW o \in Outputs[actor[a].event.target] \cup {<<>>}, NEW writes, HandlerReturns(a, o, writes)
      PROVE  StateInv'
  <2> DEFINE e == actor[a].event
  <2>1. UNCHANGED <<messages, bus, inbox>> /\ actor[a].pc = "handling"
    BY <1>3 DEF HandlerReturns
  <2>2. /\ e \in ReceiveEvents /\ actor'[a].pc \in {"idle", "emitting"}
        /\ \A d \in CtxIds : ctxs'[d] = Written(e.ctx, e.msg, writes)[d]
    BY <1>0, <1>3, ReturnsTypes
  <2>3. \A d \in CtxIds : d # e.ctx => ctxs'[d] = ctxs[d]
    BY <1>0, <2>2, Fields, WrittenIs
  <2>4. PICK x : actor' = [actor EXCEPT ![a] = x]
    BY <1>3 DEF HandlerReturns
  <2> QED
    BY <1>1, <2>1, <2>2, <2>3, <2>4
<1>4. ASSUME NEW s \in Deferred[actor[a].event.target], NEW writes, HandlerDefers(a, s, writes)
      PROVE  StateInv'
  <2> DEFINE e == actor[a].event
  <2>1. /\ UNCHANGED <<messages, bus, inbox>> /\ actor[a].pc = "handling"
        /\ actor' = [actor EXCEPT ![a] = Idle] /\ ctxs' = Written(e.ctx, e.msg, writes)
    BY <1>4 DEF HandlerDefers
  <2>2. e \in ReceiveEvents
    BY <1>0, <1>4, DefersTypes
  <2>3. \A d \in CtxIds : d # e.ctx => ctxs'[d] = ctxs[d]
    BY <1>0, <2>1, <2>2, Fields, WrittenIs
  <2>4. actor'[a].pc = "idle"
    BY <1>0, <2>1, IdleIs, Typed
  <2> QED
    BY <1>1, <2>1, <2>3, <2>4
<1>5. ASSUME UNCHANGED <<ctxs, bus>>, actor'[a].pc # "handling", NEW x, actor' = [actor EXCEPT ![a] = x],
             inbox' = inbox \/ (inbox[a] # <<>> /\ inbox' = [inbox EXCEPT ![a] = Tail(inbox[a])])
      PROVE  StateInv'
  <2>1. HandledRight(ctxs, actor'[a]) /\ \A b \in Actors \ {a} : actor'[b] = actor[b]
    BY <1>0, <1>5, Typed DEF HandledRight
  <2>2. ASSUME NEW b \in Actors PROVE AllRight(ctxs, inbox'[b])
    <3>1. inbox[b] \in Seq(FromBus) /\ AllRight(ctxs, inbox[b])
      BY <1>0, Typed
    <3>2. inbox'[b] = inbox[b] \/ (inbox[b] # <<>> /\ inbox'[b] = Tail(inbox[b]))
      BY <1>0, <1>5, Typed
    <3> QED
      BY <3>1, <3>2, AllRightTail
  <2> QED
    BY <1>0, <1>5, <2>1, <2>2, StateInvBecomes
<1>6. CASE ActorEmits(a)
  <2>1. UNCHANGED <<ctxs, bus, inbox>> /\ actor'[a].pc \in {"idle", "emitting"}
    BY <1>0, <1>6, EmitsTypes DEF ActorEmits
  <2>2. PICK x : actor' = [actor EXCEPT ![a] = x]
    BY <1>6 DEF ActorEmits
  <2> QED
    BY <1>5, <2>1, <2>2
<1>7. CASE ActorStops(a)
  <2>1. /\ UNCHANGED <<ctxs, bus>> /\ inbox[a] # <<>> /\ actor'[a].pc = "stopped"
        /\ inbox' = [inbox EXCEPT ![a] = Tail(inbox[a])]
    BY <1>0, <1>7, ActorStopsTypes DEF ActorStops
  <2>2. PICK x : actor' = [actor EXCEPT ![a] = x]
    BY <1>7 DEF ActorStops
  <2> QED
    BY <1>5, <2>1, <2>2
<1> QED
  BY <1>2, <1>3, <1>4, <1>6, <1>7 DEF ActorStep, HandlerEnds

LEMMA NextStateInv == LinearOutputs /\ StateInv /\ [Next]_vars => StateInv'
<1> SUFFICES ASSUME LinearOutputs, StateInv, [Next]_vars PROVE StateInv'
  OBVIOUS
<1>0. /\ OwnerInv' /\ TypeInv /\ BusRight(ctxs, bus)
      /\ \A a \in Actors : AllRight(ctxs, inbox[a]) /\ HandledRight(ctxs, actor[a])
  BY StateInvIs, NextOwner
<1>1. CASE BusStep
  BY <1>0, <1>1, BusStateInv
<1>2. ASSUME NEW a \in Actors, ActorStep(a) PROVE StateInv'
  BY <1>0, <1>2, ActorStateInv
<1>3. CASE UNCHANGED <<ctxs, bus, inbox, actor>>
  BY <1>0, <1>3, StateInvBecomes
<1>4. ASSUME NEW e \in parked, NEW writes \in BOOLEAN, SideThreadEmits(e, writes) PROVE StateInv'
  <2>1. UNCHANGED <<bus, inbox, actor, messages>> /\ ctxs' = Written(e.ctx, e.cause.msg, writes)
    BY <1>4 DEF SideThreadEmits
  <2>2. e.ctx \in CtxIds /\ e.cause.msg \in MsgIds /\ e.ctx \in Held(TheParked)
    BY <1>0, Typed, Fields, HeldIs DEF RefersToLogged
  <2>3. \A d \in CtxIds : d # e.ctx => ctxs'[d] = ctxs[d]
    BY <1>0, <2>1, <2>2, WrittenIs
  <2>4. BusRight(ctxs', bus) /\ \A a \in Actors : AllRight(ctxs', inbox[a]) /\ HandledRight(ctxs', actor[a])
    BY <2>2, <2>3, PlacesAre, PlacesDiffer, WritesKeep
  <2> QED
    BY <1>0, <2>1, <2>4, StateInvBecomes
<1>5. ASSUME NEW s \in Producers, ProducerCreates(s) PROVE StateInv'
  <2>1. UNCHANGED <<bus, inbox, actor>>
    BY <1>5 DEF ProducerCreates
  <2>2. (\A c \in CtxIds : ctxs'[c] = ctxs[c]) /\ 0 \notin CtxIds
    BY <1>0, <1>5, CreatesTypes DEF CtxIds
  <2>3. BusRight(ctxs', bus) /\ \A a \in Actors : AllRight(ctxs', inbox[a]) /\ HandledRight(ctxs', actor[a])
    BY <2>2, PlacesAre, PlacesDiffer, WritesKeep
  <2> QED
    BY <1>0, <2>1, <2>3, StateInvBecomes
<1>6. CASE Crash
  <2>1. /\ bus' = BusIdle /\ inbox' = [a \in Actors |-> <<>>] /\ actor' = [a \in Actors |-> Idle]
    BY <1>6 DEF Crash
  <2>2. /\ bus'.todo = {} /\ bus'.out = <<>>
        /\ \A a \in Actors : inbox'[a] = <<>> /\ actor'[a].pc = "idle"
    BY <2>1, IdleIs DEF BusIdle
  <2> QED
    BY <1>0, <2>2, StateInvBecomes DEF BusRight, AllRight, HandledRight
<1> QED
  BY <1>1, <1>2, <1>3, <1>4, <1>5, <1>6 DEF Next, ProducerPuts, RequestStop, vars, graphVars

\* Where no handler goes on with its context twice, every handler sees the state its
\* message was emitted with, the primary as well as every tap, after a crash too:
\* whoever writes to a context holds it, and what is on its way to a handler is held
\* by nobody else.
THEOREM StateAtEmission == LinearOutputs /\ Spec => []DeliveredStateIsEmissionState
<1>1. Init => StateInv
  <2> SUFFICES ASSUME Init PROVE StateInv
    OBVIOUS
  <2>1. /\ bus.todo = {} /\ bus.out = <<>>
        /\ \A a \in Actors : inbox[a] = <<>> /\ actor[a].pc = "idle"
    BY IdleIs DEF Init, BusIdle
  <2> QED
    BY <2>1, InitOwner, IsStateInv DEF BusRight, AllRight, HandledRight
<1>2. LinearOutputs /\ StateInv /\ [Next]_vars => LinearOutputs' /\ StateInv'
  BY NextStateInv DEF LinearOutputs
<1>3. StateInv => DeliveredStateIsEmissionState
  BY DEF StateInv
<1> QED
  BY <1>1, <1>2, <1>3, PTL DEF Spec

----------------------------------------------------------------------------
(* Primary work is kept *)

\* A handler goes on with the context it holds by its last event only.
OwnContextLast ==
  \A k \in Sinks : \A o \in Outputs[k] : \A i \in DOMAIN o : o[i].on = "same" => i = Len(o)

\* What Carries says, made inductive: if the last output of a handler is not on the
\* context of its message, that context is nowhere, so no message will replace it.
Due(c, m, k) ==
  \/ c \in replay
  \/ \E e \in Deliveries : e.target = k /\ e.ctx = c /\ e.msg = m
  \/ \E e \in Emissions : /\ e.closes /\ e.cause = [msg |-> m, sink |-> k]
                          /\ e.ctx = c \/ Nowhere(c)

Kept ==
  \A m \in MsgIds, k \in Sinks : k = Primary[messages[m]] =>
    \/ Completed(m, k)
    \/ \E c \in CtxIds : ctxs[c].sent /\ ctxs[c].payload = m /\ Due(c, m, k)
KeptInv == OwnerInv /\ Kept

InSeq(x, q) == \E i \in DOMAIN q : q[i] = x

LEMMA Appended ==
  ASSUME NEW S, NEW q \in Seq(S), NEW e, NEW x
  PROVE  InSeq(x, Append(q, e)) <=> InSeq(x, q) \/ x = e
<1>1. /\ DOMAIN Append(q, e) = DOMAIN q \cup {Len(q) + 1} /\ Append(q, e)[Len(q) + 1] = e
      /\ \A i \in DOMAIN q : Append(q, e)[i] = q[i]
  OBVIOUS
<1> QED
  BY <1>1 DEF InSeq

LEMMA Tailed ==
  ASSUME NEW S, NEW q \in Seq(S), q # <<>>, NEW x, InSeq(x, q)
  PROVE  x = Head(q) \/ InSeq(x, Tail(q))
<1>1. PICK i \in DOMAIN q : q[i] = x
  BY DEF InSeq
<1>2. CASE i = 1
  BY <1>1, <1>2
<1>3. CASE i # 1
  <2>1. i - 1 \in DOMAIN Tail(q) /\ Tail(q)[i - 1] = q[i]
    BY <1>3
  <2> QED
    BY <1>1, <2>1 DEF InSeq
<1> QED
  BY <1>2, <1>3

LEMMA DeliveriesAre ==
  \A x : x \in Deliveries <=>
    \/ InSeq(x, bus.out)
    \/ \E a \in Actors : InSeq(x, inbox[a]) \/ (actor[a].pc = "handling" /\ x = actor[a].event)
BY DEF Deliveries, InSeq

LEMMA DeliveriesBecome ==
  \A x : x \in Deliveries' <=>
    \/ InSeq(x, bus'.out)
    \/ \E a \in Actors : InSeq(x, inbox'[a]) \/ (actor'[a].pc = "handling" /\ x = actor'[a].event)
BY DEF Deliveries, InSeq

LEMMA EmissionsAre ==
  \A x : x \in Emissions <=>
    \/ InSeq(x, pipe) \/ x \in parked
    \/ \E a \in Actors : actor[a].pc = "emitting" /\ InSeq(x, actor[a].out)
BY DEF Emissions, InSeq

LEMMA EmissionsBecome ==
  \A x : x \in Emissions' <=>
    \/ InSeq(x, pipe') \/ x \in parked'
    \/ \E a \in Actors : actor'[a].pc = "emitting" /\ InSeq(x, actor'[a].out)
BY DEF Emissions, InSeq

\* A step that logs nothing keeps the work, if it handles, emits and replays nothing
\* without putting it somewhere else.
LEMMA KeptByStep ==
  ASSUME Kept, NoneComesBack, messages' = messages, done \subseteq done', CtxIds \subseteq CtxIds',
         \A c \in CtxIds : ctxs'[c].payload = ctxs[c].payload /\ ctxs'[c].sent = ctxs[c].sent,
         \A x \in Emissions : x.closes => x \in Emissions',
         \A c \in CtxIds, k \in Sinks :
           c \in replay /\ ctxs[c].payload \in MsgIds /\ k = Primary[messages[ctxs[c].payload]] =>
             \/ c \in replay'
             \/ \E e \in Deliveries' : e.target = k /\ e.ctx = c /\ e.msg = ctxs[c].payload,
         \A x \in Deliveries : x.target \in Sinks /\ x.ctx \in CtxIds =>
           \/ x \in Deliveries'
           \/ [msg |-> x.msg, sink |-> x.target] \in done'
           \/ \E e \in Emissions' : /\ e.closes /\ e.cause = [msg |-> x.msg, sink |-> x.target]
                                    /\ e.ctx = x.ctx \/ \A p \in Places : x.ctx \notin Held(p)'
  PROVE  Kept'
<1> SUFFICES ASSUME NEW m \in MsgIds', NEW k \in Sinks, k = Primary[messages[m]]
             PROVE  \/ Completed(m, k)'
                    \/ \E c \in CtxIds' : ctxs'[c].sent /\ ctxs'[c].payload = m /\ Due(c, m, k)'
  BY DEF Kept
<1>1. m \in MsgIds
  BY DEF MsgIds
<1>2. CASE Completed(m, k)
  BY <1>2 DEF Completed
<1>3. ASSUME NEW c \in CtxIds, ctxs[c].sent, ctxs[c].payload = m, Due(c, m, k)
      PROVE  Completed(m, k)' \/ Due(c, m, k)'
  <2>1. CASE c \in replay
    BY <1>1, <1>3, <2>1 DEF Due
  <2>2. ASSUME NEW x \in Deliveries, x.target = k, x.ctx = c, x.msg = m
        PROVE  Completed(m, k)' \/ Due(c, m, k)'
    <3>1. CASE x \in Deliveries'
      BY <2>2, <3>1 DEF Due
    <3>2. CASE [msg |-> x.msg, sink |-> x.target] \in done'
      BY <2>2, <3>2 DEF Completed
    <3>3. ASSUME NEW e \in Emissions', e.closes, e.cause = [msg |-> x.msg, sink |-> x.target],
                 e.ctx = x.ctx \/ \A p \in Places : x.ctx \notin Held(p)'
          PROVE  Due(c, m, k)'
      BY <2>2, <3>3 DEF Due, Nowhere
    <3> QED
      BY <2>2, <3>1, <3>2, <3>3
  <2>3. ASSUME NEW e \in Emissions, e.closes, e.cause = [msg |-> m, sink |-> k], e.ctx = c \/ Nowhere(c)
        PROVE  Due(c, m, k)'
    BY <2>3 DEF Due, NoneComesBack
  <2> QED
    BY <1>3, <2>1, <2>2, <2>3 DEF Due
<1>4. CASE \E c \in CtxIds : ctxs[c].sent /\ ctxs[c].payload = m /\ Due(c, m, k)
  <2>1. PICK c \in CtxIds : ctxs[c].sent /\ ctxs[c].payload = m /\ Due(c, m, k)
    BY <1>4
  <2>2. c \in CtxIds' /\ ctxs'[c].sent /\ ctxs'[c].payload = m
    BY <2>1
  <2> QED
    BY <1>3, <2>1, <2>2
<1> QED
  BY <1>1, <1>2, <1>4 DEF Kept

LEMMA KeptByMoving ==
  ASSUME Kept, NoneComesBack, messages' = messages, replay' = replay, done \subseteq done',
         CtxIds \subseteq CtxIds',
         \A c \in CtxIds : ctxs'[c].payload = ctxs[c].payload /\ ctxs'[c].sent = ctxs[c].sent,
         \A x \in Emissions : x.closes => x \in Emissions',
         \A x \in Deliveries : x.ctx \in CtxIds => x \in Deliveries'
  PROVE  Kept'
BY KeptByStep

LEMMA ForksKept ==
  ASSUME KeptInv, NEW k \in bus.todo, BusForks(k)
  PROVE  Kept'
<1> DEFINE e == [target |-> k, ctx |-> Len(ctxs'), msg |-> bus.msg, data |-> bus.data]
<1>1. /\ OwnerInv /\ TypeInv /\ Kept
      /\ UNCHANGED <<messages, pipe, inbox, actor, parked, replay, done>>
      /\ bus' = [bus EXCEPT !.todo = bus.todo \ {k}, !.out = Append(bus.out, e)]
  BY DEF KeptInv, OwnerInv, BusForks
<1>2. bus \in BusStates /\ bus.out \in Seq(ReceiveEvents)
  BY <1>1, Typed, Fields
<1> HIDE DEF e
<1>3. bus'.out = Append(bus.out, e)
  BY <1>1, <1>2 DEF BusStates
<1>4. \A x : InSeq(x, bus.out) => InSeq(x, bus'.out)
  BY <1>2, <1>3, Appended
<1>5. \A x \in Deliveries : x \in Deliveries'
  BY <1>1, <1>4, DeliveriesAre, DeliveriesBecome
<1>6. \A x \in Emissions : x \in Emissions'
  BY <1>1, EmissionsAre, EmissionsBecome
<1>7. NoneComesBack /\ CtxIds \subseteq CtxIds' /\ \A c \in CtxIds : ctxs'[c] = ctxs[c]
  BY <1>1, ForksOwner, ForksTypes, Typed, Grown
<1> QED
  BY <1>1, <1>5, <1>6, <1>7, KeptByMoving

LEMMA PassesKept ==
  ASSUME KeptInv, BusPasses
  PROVE  Kept'
<1> DEFINE e == Head(bus.out)
<1> DEFINE o == Owner[e.target]
<1>1. /\ OwnerInv /\ TypeInv /\ Kept
      /\ UNCHANGED <<ctxs, messages, pipe, actor, parked, replay, done>>
      /\ bus.out # <<>> /\ inbox' = [inbox EXCEPT ![o] = Append(inbox[o], e)]
      /\ bus' = [bus EXCEPT !.out = Tail(bus.out)]
  BY DEF KeptInv, OwnerInv, BusPasses
<1>2. bus \in BusStates /\ bus.out \in Seq(ReceiveEvents)
  BY <1>1, Typed, Fields
<1>3. e \in ReceiveEvents /\ o \in Actors
  BY <1>1, <1>2, HeadTail, Fields, GraphIs
<1>4. bus'.out = Tail(bus.out)
  BY <1>1, <1>2 DEF BusStates
<1>5. /\ inbox[o] \in Seq(FromBus) /\ inbox'[o] = Append(inbox[o], e)
      /\ \A a \in Actors \ {o} : inbox'[a] = inbox[a]
  BY <1>1, <1>3, Typed
<1>6. \A x : InSeq(x, bus.out) => x = e \/ InSeq(x, bus'.out)
  BY <1>1, <1>2, <1>4, Tailed
<1> HIDE DEF e, o
<1>7. \A x : InSeq(x, inbox'[o]) <=> InSeq(x, inbox[o]) \/ x = e
  BY <1>5, Appended
<1>8. \A x : \A a \in Actors : InSeq(x, inbox[a]) => InSeq(x, inbox'[a])
  BY <1>5, <1>7
<1>9. \A x \in Deliveries : x \in Deliveries'
  BY <1>1, <1>3, <1>6, <1>7, <1>8, DeliveriesAre, DeliveriesBecome
<1>10. \A x \in Emissions : x \in Emissions'
  BY <1>1, EmissionsAre, EmissionsBecome
<1>11. NoneComesBack /\ CtxIds' = CtxIds
  BY <1>1, PassesOwner DEF CtxIds
<1> QED
  BY <1>1, <1>9, <1>10, <1>11, KeptByMoving

LEMMA BusStopsKept ==
  ASSUME KeptInv, BusStops
  PROVE  Kept'
<1>1. /\ OwnerInv /\ TypeInv /\ Kept
      /\ UNCHANGED <<ctxs, messages, actor, parked, replay, done>>
      /\ pipe # <<>> /\ Head(pipe) = StopBusEvent /\ pipe' = Tail(pipe)
      /\ bus' = [bus EXCEPT !.up = FALSE]
      /\ inbox' = [a \in Actors |-> inbox[a] \o Stops(a)]
  BY DEF KeptInv, OwnerInv, BusStops, Stops
<1>2. bus'.out = bus.out
  BY <1>1, Typed DEF BusStates
<1>3. \A x : \A a \in Actors : InSeq(x, inbox[a]) => InSeq(x, inbox'[a])
  <2>1. ASSUME NEW x, NEW a \in Actors, InSeq(x, inbox[a]) PROVE InSeq(x, inbox'[a])
    <3>1. inbox[a] \in Seq(FromBus) /\ Stops(a) \in Seq(FromBus) /\ inbox'[a] = inbox[a] \o Stops(a)
      BY <1>1, Typed, StopsAre, SeqMonotonic DEF FromBus
    <3>2. PICK i \in DOMAIN inbox[a] : inbox[a][i] = x
      BY <2>1 DEF InSeq
    <3>3. i \in 1..Len(inbox[a]) /\ Len(inbox[a]) \in Nat /\ Len(Stops(a)) \in Nat
      BY <3>1, <3>2
    <3>4. i \in DOMAIN (inbox[a] \o Stops(a)) /\ (inbox[a] \o Stops(a))[i] = x
      BY <3>1, <3>2, <3>3, Concat
    <3> QED
      BY <3>1, <3>4 DEF InSeq
  <2> QED
    BY <2>1
<1>4. \A x \in Deliveries : x \in Deliveries'
  <2>1. actor' = actor
    BY <1>1
  <2> QED
    BY <1>2, <1>3, <2>1, DeliveriesAre, DeliveriesBecome
<1>5. \A x : InSeq(x, pipe) => x = StopBusEvent \/ InSeq(x, pipe')
  BY <1>1, Typed, Tailed
<1>6. ~StopBusEvent.closes
  BY DEF StopBusEvent
<1>7. \A x \in Emissions : x.closes => x \in Emissions'
  BY <1>1, <1>5, <1>6, EmissionsAre, EmissionsBecome
<1>8. NoneComesBack /\ CtxIds' = CtxIds
  BY <1>1, StopsOwner DEF CtxIds
<1> QED
  BY <1>1, <1>4, <1>7, <1>8, KeptByMoving

LEMMA ReplayKept ==
  ASSUME KeptInv, NEW c \in replay, Replay(c)
  PROVE  Kept'
<1>1. /\ OwnerInv /\ TypeInv /\ Kept
      /\ UNCHANGED <<ctxs, messages, pipe, inbox, actor, parked, done>>
      /\ bus.out = <<>> /\ replay' = replay \ {c}
      /\ PassDownstream(c, messages[ctxs[c].payload], ctxs[c].payload)
  BY DEF KeptInv, OwnerInv, Replay, BusFree
<1>2. \A x : ~InSeq(x, bus.out)
  BY <1>1 DEF InSeq
<1>3. \A x \in Deliveries : x \in Deliveries'
  BY <1>1, <1>2, DeliveriesAre, DeliveriesBecome
<1>4. \A x \in Emissions : x \in Emissions'
  BY <1>1, EmissionsAre, EmissionsBecome
<1>5. ASSUME NEW k \in Sinks, k = Primary[messages[ctxs[c].payload]]
      PROVE  \E e \in Deliveries' : e.target = k /\ e.ctx = c /\ e.msg = ctxs[c].payload
  <2> DEFINE e == [target |-> k, ctx |-> c, msg |-> ctxs[c].payload, data |-> ctxs[c].data]
  <2>1. bus'.out = <<e>>
    BY <1>1, <1>5, GraphAssumption DEF PassDownstream
  <2>2. InSeq(e, <<e>>)
    BY DEF InSeq
  <2>3. e \in Deliveries'
    BY <2>1, <2>2, DeliveriesBecome
  <2> QED
    BY <2>3
<1>6. NoneComesBack /\ CtxIds' = CtxIds
  BY <1>1, ReplayOwner DEF CtxIds
<1> QED
  BY <1>1, <1>3, <1>4, <1>5, <1>6, KeptByStep

LEMMA HandlingKept ==
  ASSUME KeptInv, NEW a \in Actors, StartHandling(a)
  PROVE  Kept'
<1> DEFINE e == Head(inbox[a])
<1>1. /\ OwnerInv /\ TypeInv /\ Kept
      /\ UNCHANGED <<ctxs, messages, pipe, bus, parked, replay, done>>
      /\ actor[a].pc = "idle" /\ inbox[a] # <<>>
      /\ inbox' = [inbox EXCEPT ![a] = Tail(inbox[a])]
  BY DEF KeptInv, OwnerInv, StartHandling
<1>2. /\ actor' = [actor EXCEPT ![a] = [Idle EXCEPT !.pc = "handling", !.event = e]]
      /\ actor'[a].pc = "handling" /\ actor'[a].event = e
  BY <1>1, HandlingTypes
<1>3. /\ inbox[a] \in Seq(FromBus) /\ inbox'[a] = Tail(inbox[a])
      /\ \A b \in Actors \ {a} : inbox'[b] = inbox[b] /\ actor'[b] = actor[b]
  BY <1>1, <1>2, Typed
<1>4. \A x : InSeq(x, inbox[a]) => x = e \/ InSeq(x, inbox'[a])
  BY <1>1, <1>3, Tailed
<1> HIDE DEF e
<1>5. \A x \in Deliveries : x \in Deliveries'
  BY <1>1, <1>2, <1>3, <1>4, DeliveriesAre, DeliveriesBecome
<1>6. \A x \in Emissions : x \in Emissions'
  BY <1>1, <1>3, EmissionsAre, EmissionsBecome
<1>7. NoneComesBack /\ CtxIds' = CtxIds
  BY <1>1, HandlingOwner DEF CtxIds
<1> QED
  BY <1>1, <1>5, <1>6, <1>7, KeptByMoving

LEMMA DefersKept ==
  ASSUME KeptInv, NEW a \in Actors, NEW s \in Deferred[actor[a].event.target], NEW writes,
         HandlerDefers(a, s, writes)
  PROVE  Kept'
<1> DEFINE e == actor[a].event
<1> DEFINE d == [ctx |-> e.ctx, source |-> s, closes |-> TRUE, cause |-> [msg |-> e.msg, sink |-> e.target]]
<1>1. /\ OwnerInv /\ TypeInv /\ Kept
      /\ UNCHANGED <<messages, pipe, bus, inbox, replay, done>>
      /\ actor[a].pc = "handling" /\ actor' = [actor EXCEPT ![a] = Idle]
      /\ ctxs' = Written(e.ctx, e.msg, writes) /\ parked' = parked \cup {d}
  BY DEF KeptInv, OwnerInv, HandlerDefers
<1>2. e.ctx \in CtxIds /\ e.msg \in MsgIds /\ \A b \in Actors \ {a} : actor'[b] = actor[b]
  BY <1>1, Typed, Fields DEF RefersToLogged
<1>3. CtxIds' = CtxIds /\ \A c \in CtxIds : ctxs'[c].payload = ctxs[c].payload /\ ctxs'[c].sent = ctxs[c].sent
  <2> HIDE DEF e
  <2> QED
    BY <1>1, <1>2, WritingStep
<1>4. \A x \in Emissions : x \in Emissions'
  BY <1>1, <1>2, EmissionsAre, EmissionsBecome
<1>5. /\ d \in Emissions' /\ d.closes /\ d.ctx = e.ctx
      /\ d.cause = [msg |-> e.msg, sink |-> e.target]
  BY <1>1, EmissionsBecome
<1>6. \A x \in Deliveries : x \in Deliveries' \/ x = e
  BY <1>1, <1>2, DeliveriesAre, DeliveriesBecome
<1>7. NoneComesBack
  BY <1>1, DefersOwner
<1> HIDE DEF d, e
<1>8. \A x \in Deliveries :
        \/ x \in Deliveries'
        \/ \E y \in Emissions' : /\ y.closes /\ y.cause = [msg |-> x.msg, sink |-> x.target]
                                 /\ y.ctx = x.ctx
  BY <1>5, <1>6
<1> QED
  BY <1>1, <1>3, <1>4, <1>7, <1>8, KeptByStep

LEMMA SideThreadKept ==
  ASSUME KeptInv, NEW e \in parked, NEW writes, SideThreadEmits(e, writes)
  PROVE  Kept'
<1>1. /\ OwnerInv /\ TypeInv /\ Kept
      /\ UNCHANGED <<messages, bus, inbox, actor, replay, done>>
      /\ ctxs' = Written(e.ctx, e.cause.msg, writes)
      /\ pipe' = Append(pipe, e) /\ parked' = parked \ {e}
  BY DEF KeptInv, OwnerInv, SideThreadEmits
<1>2. e.ctx \in CtxIds /\ e.cause.msg \in MsgIds
  BY <1>1, SideThreadTypes
<1>3. CtxIds' = CtxIds /\ \A c \in CtxIds : ctxs'[c].payload = ctxs[c].payload /\ ctxs'[c].sent = ctxs[c].sent
  BY <1>1, <1>2, WritingStep
<1>4. \A x : InSeq(x, pipe') <=> InSeq(x, pipe) \/ x = e
  BY <1>1, Typed, Appended
<1>5. \A x \in Emissions : x \in Emissions'
  BY <1>1, <1>4, EmissionsAre, EmissionsBecome
<1>6. \A x \in Deliveries : x \in Deliveries'
  BY <1>1, DeliveriesAre, DeliveriesBecome
<1>7. NoneComesBack
  BY <1>1, SideThreadOwner
<1> QED
  BY <1>1, <1>3, <1>5, <1>6, <1>7, KeptByMoving

LEMMA EmitsKept ==
  ASSUME KeptInv, NEW a \in Actors, ActorEmits(a)
  PROVE  Kept'
<1> DEFINE q == actor[a].out
<1> DEFINE e == Head(q)
<1>1. /\ OwnerInv /\ TypeInv /\ Kept
      /\ UNCHANGED <<ctxs, messages, bus, inbox, parked, replay, done>>
      /\ actor[a].pc = "emitting" /\ pipe' = Append(pipe, e)
      /\ actor' = [actor EXCEPT ![a] = IF Len(q) = 1 THEN Idle ELSE [actor[a] EXCEPT !.out = Tail(q)]]
  BY DEF KeptInv, OwnerInv, ActorEmits
<1>2. q # <<>> /\ q \in Seq(SendEvents) /\ actor[a] \in ActorStates
  BY <1>1, EmitsTypes, Typed, Fields
<1>3. \A b \in Actors \ {a} : actor'[b] = actor[b]
  BY <1>1, Typed
<1>4. ASSUME NEW x, InSeq(x, q), x # e
      PROVE  actor'[a].pc = "emitting" /\ InSeq(x, actor'[a].out)
  <2>1. InSeq(x, Tail(q))
    BY <1>2, <1>4, Tailed
  <2>2. Len(q) # 1
    <3>1. Tail(q) # <<>>
      BY <2>1 DEF InSeq
    <3> QED
      BY <1>2, <3>1, LastTail
  <2>3. actor'[a] = [actor[a] EXCEPT !.out = Tail(q)]
    BY <1>1, <2>2, Typed
  <2>4. actor'[a].out = Tail(q)
    BY <1>1, EmitsTypes
  <2>5. actor'[a].pc = actor[a].pc
    BY <2>3
  <2> QED
    BY <1>1, <2>1, <2>4, <2>5
<1> HIDE DEF q, e
<1>5. \A x : InSeq(x, pipe') <=> InSeq(x, pipe) \/ x = e
  BY <1>1, Typed, Appended
<1>6. \A x \in Emissions : x \in Emissions'
  <2>1. ASSUME NEW x \in Emissions PROVE x \in Emissions'
    <3>1. CASE InSeq(x, pipe) \/ x \in parked \/ x = e
      BY <1>1, <1>5, <3>1, EmissionsBecome
    <3>2. ASSUME NEW b \in Actors, actor[b].pc = "emitting", InSeq(x, actor[b].out), x # e
          PROVE  x \in Emissions'
      <4>1. CASE b = a
        BY <1>4, <3>2, <4>1, EmissionsBecome DEF q
      <4>2. CASE b # a
        BY <1>3, <3>2, <4>2, EmissionsBecome
      <4> QED
        BY <4>1, <4>2
    <3> QED
      BY <2>1, <3>1, <3>2, EmissionsAre
  <2> QED
    BY <2>1
<1>7. actor'[a].pc # "handling" /\ actor[a].pc # "handling"
  BY <1>1, EmitsTypes
<1>8. \A x \in Deliveries : x \in Deliveries'
  BY <1>1, <1>3, <1>7, DeliveriesAre, DeliveriesBecome
<1>9. NoneComesBack /\ CtxIds' = CtxIds
  BY <1>1, EmitsOwner DEF CtxIds
<1> QED
  BY <1>1, <1>6, <1>8, <1>9, KeptByMoving

LEMMA ActorStopsKept ==
  ASSUME KeptInv, NEW a \in Actors, ActorStops(a)
  PROVE  Kept'
<1>1. /\ OwnerInv /\ TypeInv /\ Kept
      /\ UNCHANGED <<ctxs, messages, pipe, bus, parked, replay, done>>
      /\ actor[a].pc = "idle" /\ inbox[a] # <<>> /\ Head(inbox[a]) = StopActorEvent
      /\ inbox' = [inbox EXCEPT ![a] = Tail(inbox[a])]
      /\ actor' = [actor EXCEPT ![a] = [actor[a] EXCEPT !.pc = "stopped"]]
  BY DEF KeptInv, OwnerInv, ActorStops
<1>2. /\ inbox[a] \in Seq(FromBus) /\ inbox'[a] = Tail(inbox[a])
      /\ \A b \in Actors \ {a} : inbox'[b] = inbox[b] /\ actor'[b] = actor[b]
  BY <1>1, Typed
<1>3. \A x : InSeq(x, inbox[a]) => x = StopActorEvent \/ InSeq(x, inbox'[a])
  BY <1>1, <1>2, Tailed
<1>4. StopActorEvent.ctx \notin CtxIds
  BY StopsDiffer
<1>5. \A x \in Deliveries : x.ctx \in CtxIds => x \in Deliveries'
  BY <1>1, <1>2, <1>3, <1>4, DeliveriesAre, DeliveriesBecome
<1>6. \A x \in Emissions : x \in Emissions'
  BY <1>1, <1>2, EmissionsAre, EmissionsBecome
<1>7. NoneComesBack /\ CtxIds' = CtxIds
  BY <1>1, ActorStopsOwner DEF CtxIds
<1> QED
  BY <1>1, <1>5, <1>6, <1>7, KeptByMoving

LEMMA CreatesKept ==
  ASSUME KeptInv, NEW s \in Producers, ProducerCreates(s)
  PROVE  Kept'
<1>1. /\ OwnerInv /\ TypeInv /\ Kept
      /\ UNCHANGED <<messages, pipe, bus, inbox, actor, parked, replay, done>>
  BY DEF KeptInv, OwnerInv, ProducerCreates
<1>2. NoneComesBack /\ CtxIds \subseteq CtxIds' /\ \A c \in CtxIds : ctxs'[c] = ctxs[c]
  BY <1>1, CreatesOwner, CreatesTypes, Typed, Grown
<1>3. \A x \in Deliveries : x \in Deliveries'
  BY <1>1, DeliveriesAre, DeliveriesBecome
<1>4. \A x \in Emissions : x \in Emissions'
  BY <1>1, EmissionsAre, EmissionsBecome
<1> QED
  BY <1>1, <1>2, <1>3, <1>4, KeptByMoving

LEMMA PipeOnlyKept ==
  ASSUME KeptInv, NoneComesBack, NEW e, pipe' = Append(pipe, e),
         UNCHANGED <<ctxs, messages, bus, inbox, actor, parked, replay, done>>
  PROVE  Kept'
<1>1. OwnerInv /\ TypeInv /\ Kept /\ CtxIds' = CtxIds
  BY DEF KeptInv, OwnerInv, CtxIds
<1>2. \A x : InSeq(x, pipe') <=> InSeq(x, pipe) \/ x = e
  BY <1>1, Typed, Appended
<1>3. \A x \in Deliveries : x \in Deliveries'
  BY DeliveriesAre, DeliveriesBecome
<1>4. \A x \in Emissions : x \in Emissions'
  BY <1>2, EmissionsAre, EmissionsBecome
<1> QED
  BY <1>1, <1>3, <1>4, KeptByMoving

LEMMA PutsKept ==
  ASSUME KeptInv, NEW s \in Producers, ProducerPuts(s)
  PROVE  Kept'
BY PutsOwner, PipeOnlyKept DEF KeptInv, ProducerPuts

LEMMA RequestStopKept ==
  ASSUME KeptInv, RequestStop
  PROVE  Kept'
BY RequestStopOwner, PipeOnlyKept DEF KeptInv, RequestStop

\* After a crash, what was logged last in any context is to be replayed.
LEMMA CrashKept ==
  ASSUME KeptInv, Crash
  PROVE  Kept'
<1>1. /\ Kept /\ UNCHANGED <<ctxs, messages, done>> /\ replay' = {c \in CtxIds : ctxs[c].sent}
  BY DEF KeptInv, Crash
<1>2. CtxIds' = CtxIds /\ MsgIds' = MsgIds
  BY <1>1 DEF CtxIds, MsgIds
<1> SUFFICES ASSUME NEW m \in MsgIds, NEW k \in Sinks, k = Primary[messages[m]], ~Completed(m, k)
             PROVE  \E c \in CtxIds : ctxs[c].sent /\ ctxs[c].payload = m /\ c \in replay'
  BY <1>1, <1>2 DEF Kept, Completed, Due
<1> QED
  BY <1>1 DEF Kept

LEMMA StutterKept ==
  ASSUME KeptInv, UNCHANGED vars
  PROVE  Kept'
<1>1. /\ OwnerInv /\ Kept /\ UNCHANGED <<ctxs, messages, pipe, bus, inbox, actor, parked, replay, done>>
  BY DEF KeptInv, vars, graphVars
<1>2. NoneComesBack /\ CtxIds' = CtxIds
  BY <1>1, StutterOwner DEF CtxIds
<1>3. \A x \in Deliveries : x \in Deliveries'
  BY <1>1, DeliveriesAre, DeliveriesBecome
<1>4. \A x \in Emissions : x \in Emissions'
  BY <1>1, EmissionsAre, EmissionsBecome
<1> QED
  BY <1>1, <1>2, <1>3, <1>4, KeptByMoving

\* A handler returns: unless it returns nothing, the last event of its output closes
\* the handling, on the context of its message or when that context is nowhere.
LEMMA ReturnsKept ==
  ASSUME OwnContextLast, LinearOutputs, KeptInv, NEW a \in Actors,
         NEW o \in Outputs[actor[a].event.target] \cup {<<>>}, NEW writes, HandlerReturns(a, o, writes)
  PROVE  Kept'
<1> DEFINE e == actor[a].event
<1> DEFINE w == Written(e.ctx, e.msg, writes)
<1> DEFINE q == actor'[a].out
<1>1. /\ OwnerInv /\ TypeInv /\ Kept /\ actor[a].pc = "handling"
      /\ UNCHANGED <<messages, pipe, bus, inbox, parked, replay>>
      /\ actor' = [actor EXCEPT ![a] = IF o = <<>> THEN Idle
                     ELSE [Idle EXCEPT !.pc = "emitting", !.out = SendEventsOf(o, e)]]
      /\ done' = IF o = <<>> THEN done \cup {[msg |-> e.msg, sink |-> e.target]} ELSE done
  BY DEF KeptInv, OwnerInv, HandlerReturns
<1>2. /\ Grows /\ e \in ReceiveEvents /\ \A c \in CtxIds : ctxs'[c] = w[c]
      /\ Len(o) \in Nat /\ o \in Seq(Pieces)
      /\ DOMAIN q = 1..Len(o)
      /\ \A i \in 1..Len(o) : q[i].ctx =
           IF o[i].on = "same" THEN e.ctx ELSE Len(ctxs) + Cardinality(Children(o, i))
  BY <1>1, ReturnsTypes
<1>3. /\ e.ctx \in CtxIds /\ e.msg \in MsgIds /\ e.target \in Sinks /\ CtxIds \subseteq CtxIds'
      /\ e.ctx \in Nat /\ e.ctx <= Len(ctxs) /\ Len(ctxs) \in Nat
      /\ \A b \in Actors \ {a} : actor'[b] = actor[b]
  BY <1>1, <1>2, Typed, Fields, Grown DEF CtxIds
<1>4. \A c \in CtxIds : ctxs'[c].payload = ctxs[c].payload /\ ctxs'[c].sent = ctxs[c].sent
  <2> HIDE DEF e
  <2> QED
    BY <1>1, <1>2, <1>3, WrittenIs
<1>5. NoneComesBack /\ (e.ctx \notin InQueue(q) => \A p \in Places : e.ctx \notin Held(p)')
  BY <1>1, ReturnsOwner
<1>6. \A x \in Emissions : x \in Emissions'
  BY <1>1, <1>3, EmissionsAre, EmissionsBecome
<1>7. \A x \in Deliveries : x \in Deliveries' \/ x = e
  BY <1>1, <1>3, DeliveriesAre, DeliveriesBecome
<1>8. CASE o = <<>>
  <2>1. [msg |-> e.msg, sink |-> e.target] \in done' /\ done \subseteq done'
    BY <1>1, <1>8
  <2> HIDE DEF e, q, w
  <2> QED
    BY <1>1, <1>3, <1>4, <1>5, <1>6, <1>7, <2>1, KeptByStep
<1>9. CASE o # <<>>
  <2> DEFINE l == Len(o)
  <2> DEFINE y == q[l]
  <2>1. l \in 1..Len(o) /\ o[l] \in Pieces /\ o \in Outputs[e.target] /\ DOMAIN o = 1..Len(o)
    BY <1>2, <1>9
  <2>2. actor'[a].pc = "emitting" /\ q = SendEventsOf(o, e)
    BY <1>1, <1>9, Typed DEF Idle
  <2>3. y.closes /\ y.cause = [msg |-> e.msg, sink |-> e.target]
    <3>1. SendEventsOf(o, e)[l].closes /\ SendEventsOf(o, e)[l].cause = [msg |-> e.msg, sink |-> e.target]
      <4> HIDE DEF e
      <4> QED
        BY <2>1 DEF SendEventsOf
    <3> HIDE DEF e, l, q
    <3> QED
      BY <2>2, <3>1
  <2>4. InSeq(y, q)
    BY <1>2, <2>1 DEF InSeq
  <2>5. y \in Emissions'
    BY <2>2, <2>4, EmissionsBecome
  <2>6. o[l].on \in {"same", "child"}
    BY <2>1 DEF Pieces
  <2>7. y.ctx = e.ctx \/ \A p \in Places : e.ctx \notin Held(p)'
    <3>1. CASE o[l].on = "same"
      BY <1>2, <2>1, <3>1
    <3>2. CASE o[l].on = "child"
      <4>1. ASSUME NEW i \in 1..Len(o) PROVE q[i].ctx # e.ctx
        <5>1. o[i].on # "same"
          BY <1>3, <2>1, <3>2 DEF OwnContextLast
        <5>2. o[i].on = "child"
          <6>1. o[i] \in Pieces
            BY <1>2
          <6> QED
            BY <5>1, <6>1 DEF Pieces
        <5>3. Cardinality(Children(o, i)) \in 1..Cardinality(Children(o, Len(o)))
          BY <1>2, <5>2, ChildNumber
        <5>4. Cardinality(Children(o, Len(o))) \in Nat
          BY <1>2, ChildrenCount
        <5>5. q[i].ctx = Len(ctxs) + Cardinality(Children(o, i))
          BY <1>2, <5>1
        <5> HIDE DEF q, e
        <5> QED
          BY <1>3, <5>3, <5>4, <5>5
      <4>2. e.ctx \notin InQueue(q)
        BY <1>2, <4>1 DEF InQueue
      <4> QED
        BY <1>5, <4>2
    <3> QED
      BY <2>6, <3>1, <3>2
  <2>8. done' = done
    BY <1>1, <1>9
  <2> HIDE DEF e, q, w, y, l
  <2>9. \A x \in Deliveries :
          \/ x \in Deliveries'
          \/ \E d \in Emissions' : /\ d.closes /\ d.cause = [msg |-> x.msg, sink |-> x.target]
                                   /\ d.ctx = x.ctx \/ \A p \in Places : x.ctx \notin Held(p)'
    BY <1>7, <2>3, <2>5, <2>7
  <2> QED
    BY <1>1, <1>3, <1>4, <1>5, <1>6, <2>8, <2>9, KeptByStep
<1> QED
  BY <1>8, <1>9

\* The bus logs a message.  Its context carries it from then on; what the context
\* carried before is completed, for the only event on its way there was the last output
\* of the handler.
LEMMA AppendsKept ==
  ASSUME KeptInv, BusAppends
  PROVE  Kept'
<1> DEFINE e == Head(pipe)
<1> DEFINE n == Len(messages) + 1
<1>1. /\ OwnerInv /\ TypeInv /\ OnePlace /\ OnceEach /\ Kept
      /\ UNCHANGED <<inbox, actor, parked, replay>>
      /\ replay = {} /\ bus.out = <<>> /\ bus.todo = {}
      /\ pipe # <<>> /\ e # StopBusEvent /\ pipe' = Tail(pipe)
      /\ ctxs' = [ctxs EXCEPT ![e.ctx].payload = n, ![e.ctx].sent = TRUE]
      /\ messages' = Append(messages, e.source)
      /\ PassDownstream(e.ctx, e.source, n)
      /\ done' = IF e.closes THEN done \cup {e.cause} ELSE done
  BY DEF KeptInv, OwnerInv, BusAppends, BusFree, Running
<1>2. e \in SendEvents /\ e.ctx \in CtxIds /\ e.ctx # 0
  BY <1>1, PipeHead
<1>3. /\ CtxIds' = CtxIds /\ NoneComesBack
      /\ \A c \in CtxIds : c # e.ctx => ctxs'[c] = ctxs[c]
      /\ ctxs'[e.ctx].payload = n
  BY <1>1, AppendsOwner, AppendsTypes DEF CtxIds
<1>4. ctxs'[e.ctx].sent
  <2>1. ctxs[e.ctx] \in Contexts /\ e.ctx \in DOMAIN ctxs
    BY <1>1, <1>2, Typed DEF CtxIds
  <2>2. ctxs'[e.ctx] = [ctxs[e.ctx] EXCEPT !.payload = n, !.sent = TRUE]
    BY <1>1, <2>1
  <2> QED
    BY <2>1, <2>2 DEF Contexts
<1>5. /\ MsgIds' = MsgIds \cup {n} /\ messages'[n] = e.source
      /\ \A m \in MsgIds : messages'[m] = messages[m]
  BY <1>1, Typed DEF MsgIds
<1>6. /\ 1 \in DOMAIN pipe /\ e = pipe[1] /\ \A x : InSeq(x, pipe) => x = e \/ InSeq(x, pipe')
  BY <1>1, Typed, HeadTail, Tailed
<1>7. ASSUME NEW k \in Sinks, k = Primary[e.source], NEW c \in CtxIds, c = e.ctx, NEW m, m = n
      PROVE  Due(c, m, k)'
  <2> DEFINE d == [target |-> k, ctx |-> c, msg |-> m, data |-> ctxs[c].data]
  <2>1. bus'.out = <<d>>
    BY <1>1, <1>7, GraphAssumption DEF PassDownstream
  <2>2. InSeq(d, <<d>>)
    BY DEF InSeq
  <2>3. d \in Deliveries'
    BY <2>1, <2>2, DeliveriesBecome
  <2>4. d.target = k /\ d.ctx = c /\ d.msg = m
    OBVIOUS
  <2> HIDE DEF d
  <2> QED
    BY <2>3, <2>4 DEF Due
<1> HIDE DEF e, n
<1>8. ASSUME NEW x, e.closes, x = e.cause PROVE x \in done'
  BY <1>1, <1>8
<1>9. ASSUME NEW m \in MsgIds, NEW k \in Sinks, NEW c \in CtxIds, c = e.ctx, Due(c, m, k)
      PROVE  Completed(m, k)'
  <2>1. c \in Held(ThePipe) /\ c \in CtxIds
    <3>1. c \in InQueue(pipe)
      BY <1>6, <1>9 DEF InQueue
    <3> QED
      BY <3>1, HeldIs
  <2>2. \A p \in Places : c \in Held(p) => p = ThePipe
    BY <1>1, <2>1, PlacesAre DEF OnePlace
  <2>3. ASSUME NEW x \in Deliveries, x.ctx = c PROVE FALSE
    <3>1. ASSUME InSeq(x, bus.out) PROVE FALSE
      BY <1>1, <3>1 DEF InSeq
    <3>2. ASSUME NEW a \in Actors, InSeq(x, inbox[a]) PROVE FALSE
      <4>1. c \in Held(Inbox(a))
        BY <2>3, <3>2, HeldIs DEF InQueue, InSeq
      <4> QED
        BY <2>2, <4>1, PlacesAre, PlacesDiffer
    <3>3. ASSUME NEW a \in Actors, actor[a].pc = "handling", x = actor[a].event PROVE FALSE
      <4>1. c \in Held(Handling(a))
        BY <2>3, <3>3, HeldIs
      <4> QED
        BY <2>2, <4>1, PlacesAre, PlacesDiffer
    <3> QED
      BY <3>1, <3>2, <3>3, DeliveriesAre
  <2>4. ~Nowhere(c)
    BY <2>1, PlacesAre DEF Nowhere
  <2>5. ASSUME NEW x \in Emissions, x.ctx = c PROVE x = e
    <3>1. CASE InSeq(x, pipe)
      BY <1>1, <1>2, <1>6, <1>9, <2>5, <3>1 DEF InSeq, OnceEach, Once
    <3>2. ASSUME x \in parked PROVE FALSE
      <4>1. c \in Held(TheParked)
        BY <2>5, <3>2, HeldIs
      <4> QED
        BY <2>2, <4>1, PlacesAre, PlacesDiffer
    <3>3. ASSUME NEW a \in Actors, InSeq(x, actor[a].out) PROVE FALSE
      <4>1. c \in Held(Out(a))
        BY <2>5, <3>3, HeldIs DEF InQueue, InSeq
      <4> QED
        BY <2>2, <4>1, PlacesAre, PlacesDiffer
    <3> QED
      BY <3>1, <3>2, <3>3, EmissionsAre
  <2>6. PICK x \in Emissions : x.closes /\ x.cause = [msg |-> m, sink |-> k] /\ x.ctx = c
    BY <1>1, <1>9, <2>3, <2>4 DEF Due
  <2> QED
    BY <1>8, <2>5, <2>6 DEF Completed
<1>10. ASSUME NEW m \in MsgIds, NEW k \in Sinks, NEW c \in CtxIds, c # e.ctx, Due(c, m, k)
       PROVE  Completed(m, k)' \/ Due(c, m, k)'
  <2>1. \A x \in Deliveries : x \in Deliveries'
    <3>1. \A x : ~InSeq(x, bus.out)
      BY <1>1 DEF InSeq
    <3>2. inbox' = inbox /\ actor' = actor
      BY <1>1
    <3> QED
      BY <3>1, <3>2, DeliveriesAre, DeliveriesBecome
  <2>2. \A x \in Emissions : x = e \/ x \in Emissions'
    <3>1. parked' = parked /\ actor' = actor
      BY <1>1
    <3> QED
      BY <1>6, <3>1, EmissionsAre, EmissionsBecome
  <2>3. ASSUME NEW x \in Deliveries, x.target = k, x.ctx = c, x.msg = m PROVE Due(c, m, k)'
    BY <2>1, <2>3 DEF Due
  <2>4. ASSUME NEW x \in Emissions, x.closes, x.cause = [msg |-> m, sink |-> k], x.ctx = c \/ Nowhere(c)
        PROVE  Completed(m, k)' \/ Due(c, m, k)'
    <3>1. CASE x = e
      BY <1>8, <2>4, <3>1 DEF Completed
    <3>2. CASE x \in Emissions'
      BY <1>3, <2>4, <3>2 DEF Due, NoneComesBack
    <3> QED
      BY <2>2, <3>1, <3>2
  <2>5. replay = {}
    BY <1>1
  <2> QED
    BY <1>10, <2>3, <2>4, <2>5 DEF Due
<1> SUFFICES ASSUME NEW m \in MsgIds', NEW k \in Sinks, k = Primary[messages'[m]]
             PROVE  \/ Completed(m, k)'
                    \/ \E c \in CtxIds' : ctxs'[c].sent /\ ctxs'[c].payload = m /\ Due(c, m, k)'
  BY DEF Kept
<1>11. CASE m = n
  <2>1. PICK c \in CtxIds : c = e.ctx
    BY <1>2
  <2> QED
    BY <1>3, <1>4, <1>5, <1>7, <1>11, <2>1
<1>12. CASE m \in MsgIds
  <2>1. k = Primary[messages[m]]
    BY <1>5, <1>12
  <2>2. CASE Completed(m, k)
    BY <1>1, <2>2 DEF Completed
  <2>3. ASSUME NEW c \in CtxIds, ctxs[c].sent, ctxs[c].payload = m, Due(c, m, k)
        PROVE  \/ Completed(m, k)'
               \/ \E d \in CtxIds' : ctxs'[d].sent /\ ctxs'[d].payload = m /\ Due(d, m, k)'
    <3>1. CASE c = e.ctx
      BY <1>9, <1>12, <2>3, <3>1
    <3>2. CASE c # e.ctx
      <4>1. Completed(m, k)' \/ Due(c, m, k)'
        BY <1>10, <1>12, <2>3, <3>2
      <4> QED
        BY <1>3, <2>3, <3>2, <4>1
    <3> QED
      BY <3>1, <3>2
  <2> QED
    BY <1>1, <1>12, <2>1, <2>2, <2>3 DEF Kept
<1> QED
  BY <1>5, <1>11, <1>12

\* Every step keeps the work.
LEMMA NextKept == OwnContextLast /\ KeptInv /\ [Next]_vars => KeptInv'
<1> SUFFICES ASSUME OwnContextLast, KeptInv, [Next]_vars PROVE KeptInv'
  OBVIOUS
<1>1. LinearOutputs
  BY DEF OwnContextLast, LinearOutputs
<1>2. OwnerInv'
  BY <1>1, NextOwner DEF KeptInv
<1> SUFFICES Kept'
  BY <1>2 DEF KeptInv
<1>3. CASE BusStep
  BY <1>3, AppendsKept, PassesKept, BusStopsKept, ForksKept, ReplayKept DEF BusStep
<1>4. ASSUME NEW a \in Actors, ActorStep(a) PROVE Kept'
  <2>1. CASE HandlerEnds(a)
    BY <1>1, <2>1, ReturnsKept, DefersKept DEF HandlerEnds
  <2> QED
    BY <1>4, <2>1, HandlingKept, EmitsKept, ActorStopsKept DEF ActorStep
<1>5. ASSUME NEW e \in parked, NEW writes \in BOOLEAN, SideThreadEmits(e, writes) PROVE Kept'
  BY <1>5, SideThreadKept
<1>6. ASSUME NEW s \in Producers, ProducerCreates(s) \/ ProducerPuts(s) PROVE Kept'
  BY <1>6, CreatesKept, PutsKept
<1>7. CASE RequestStop
  BY <1>7, RequestStopKept
<1>8. CASE Crash
  BY <1>8, CrashKept
<1>9. CASE UNCHANGED vars
  BY <1>9, StutterKept
<1> QED
  BY <1>3, <1>4, <1>5, <1>6, <1>7, <1>8, <1>9 DEF Next

\* If every handler goes on with its own context by its last event only, no crash loses
\* primary work, in any graph: whatever the moment, a logged message whose primary has
\* not completed is the last one of a context, hence replayed after a crash, and its
\* handling goes on without one.
THEOREM PrimaryWorkKept == OwnContextLast /\ Spec => []PrimaryWorkIsKept
<1>1. Init => KeptInv
  <2> SUFFICES ASSUME Init PROVE KeptInv
    OBVIOUS
  <2>1. MsgIds = {}
    BY DEF Init, MsgIds
  <2> QED
    BY <2>1, InitOwner DEF KeptInv, Kept
<1>2. OwnContextLast /\ KeptInv /\ [Next]_vars => OwnContextLast' /\ KeptInv'
  BY NextKept DEF OwnContextLast
<1>3. ASSUME KeptInv PROVE PrimaryWorkIsKept
  <2>1. Kept /\ TypeInv
    BY <1>3 DEF KeptInv, OwnerInv
  <2> SUFFICES ASSUME NEW m \in MsgIds, NEW k, k = Primary[messages[m]], k # NoSink, ~Completed(m, k)
               PROVE  \E c \in CtxIds : Carries(c, m, k)
    BY DEF PrimaryWorkIsKept
  <2>2. k \in Sinks
    <3>1. messages[m] \in Sources
      BY <2>1, Typed DEF MsgIds
    <3> QED
      BY <3>1, GraphIs
  <2>3. PICK c \in CtxIds : ctxs[c].sent /\ ctxs[c].payload = m /\ Due(c, m, k)
    BY <2>1, <2>2 DEF Kept
  <2> QED
    BY <2>3 DEF Carries, Due
<1> QED
  BY <1>1, <1>2, <1>3, PTL DEF Spec
=============================================================================
