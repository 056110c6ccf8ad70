-------------------------- MODULE NexusTaskProofs --------------------------
(***************************************************************************)
(* Proofs about module NexusTask, for any number of works and crashes, any *)
(* max_attempts and any number of neurons.                                 *)
(*                                                                         *)
(* Works meet in the timestamper only, so the inductive invariant IInv is  *)
(* one invariant Inv of what the state says of a work (View), for every    *)
(* work.  Its first part, WorkInv, holds with crashes as well: the work is *)
(* in one place, and what its messages, timers, requests and queue entries *)
(* claim agrees with its user data and with the neuron that was asked      *)
(* last.  Its second part, UncrashedInv, balances messages, store and      *)
(* history, and holds as long as no process has crashed.                   *)
(*                                                                         *)
(* A step is shown to keep the invariant in two stages: lemmas about two   *)
(* views x and y of a work say what an answer of no, one or two messages,  *)
(* a delivery, a beat or a crash keeps; a lemma for each action says which *)
(* of them it is, and that the other works are undisturbed.                *)
(***************************************************************************)
EXTENDS NexusTask, Integers, SequenceTheorems, FiniteSetTheorems, FunctionTheorems, WellFoundedInduction, TLAPS

----------------------------------------------------------------------------
(* Induction *)

\* A set of natural numbers that holds 0 and with every number the next one holds all of
\* them: a least number outside of it would give a least interval, and the library says that
\* finite sets are well-founded under strict inclusion.
LEMMA Induction ==
  ASSUME NEW S, 0 \in S, \A n \in Nat : n \in S => n + 1 \in S
  PROVE  Nat \subseteq S
<1> DEFINE Bad == {n \in Nat : n \notin S}
           Intervals == {1..n : n \in Bad}
<1> SUFFICES ASSUME Bad # {} PROVE FALSE
  OBVIOUS
<1>1. Intervals \subseteq FiniteSubsetsOf(Nat) /\ Intervals # {}
  <2>1. ASSUME NEW n \in Nat PROVE 1..n \in FiniteSubsetsOf(Nat)
    <3>1. IsFiniteSet(1..n)
      BY FS_Interval
    <3>2. 1..n \in SUBSET Nat
      OBVIOUS
    <3> QED BY <3>1, <3>2, Zenon DEF FiniteSubsetsOf
  <2>2. Bad \subseteq Nat
    OBVIOUS
  <2> HIDE DEF Bad
  <2> QED BY <2>1, <2>2
<1>2. IsWellFoundedOn(StrictSubsetOrdering(Nat), FiniteSubsetsOf(Nat))
  BY FS_StrictSubsetOrderingWellFounded
<1>3. PICK I \in Intervals : \A J \in Intervals : <<J, I>> \notin StrictSubsetOrdering(Nat)
  <2> HIDE DEF Intervals
  <2> QED BY <1>1, <1>2, WFMin
<1>4. PICK n \in Bad : I = 1..n
  BY <1>3
<1>5. n # 0 /\ n - 1 \in Nat /\ n - 1 \notin S
  BY <1>4
<1>6. 1..(n - 1) \in Intervals
  BY <1>5
<1>7. <<1..(n - 1), 1..n>> \in StrictSubsetOrdering(Nat)
  <2>1. 1..(n - 1) \in SUBSET Nat /\ 1..n \in SUBSET Nat /\ 1..(n-1) \subseteq 1..n /\ n \in 1..n /\ n \notin 1..(n-1)
    BY <1>4, <1>5
  <2> QED BY <2>1, Zenon DEF StrictSubsetOrdering
<1> QED BY <1>3, <1>4, <1>6, <1>7
----------------------------------------------------------------------------
(* The invariant, work by work *)

\* How many elements of q are in a set.
Num(q, S) == Cardinality({i \in DOMAIN q : q[i] \in S})

\* What waits in the queue, the user data of a work, and what is logged when it leaves.
Entries == [work : Works, body : {"value", "failure"}, target : Neurons \cup {NoNeuron}]
Records == [attempts : Nat, routed : Nat, started : BOOLEAN, input : Neurons \cup {NoNeuron},
            pending : {"absent", "set", "cleared"}, of : Neurons \cup {NoNeuron}]
Outs == [sink : Exits, body : Bodies]

\* Messages, exits and results by their kind.
Movers == {m \in Messages : Moves(m)}
To(s) == {m \in Messages : m.sink = s}
Left(s) == {e \in Outs : e.sink = s}
VerdictsLeft == {e \in Outs : e.sink \in Verdicts}
ResultsOf(k) == {r \in Results : r.kind = k}

\* Everything the state says of one work.
View(w) ==
  [bus |-> bus[w], inbox |-> inbox[w], last |-> last[w], data |-> data[w],
   open |-> w \in open, timer |-> w \in timers, queue |-> OfWorks(queue, {w}),
   lost |-> w \in lost, stored |-> stored[w], out |-> out[w],
   issued |-> issued[w], ran |-> ran[w]]

\* Everything is of its type.
Typed(x) ==
  /\ x.bus \in Seq(Messages) /\ x.inbox \in Seq(Messages)
  /\ x.last \in Messages \cup {NoMessage}
  /\ x.data \in Records
  /\ x.open \in BOOLEAN /\ x.timer \in BOOLEAN /\ x.lost \in BOOLEAN
  /\ x.queue \in Seq(Entries)
  /\ x.stored \in Seq(Results) /\ x.out \in Seq(Outs)
  /\ x.issued \in Nat /\ x.ran \in Neurons \cup {NoNeuron}

\* The places a work is in, as Tokens counts them.
Places(x) ==
  Num(x.bus, Movers) + Num(x.inbox, Movers) + Num(x.out, VerdictsLeft) + Len(x.queue)
  + One(x.open) + One(x.timer) + One(x.lost) + One(x.last = NoMessage)

InOnePlace(x, c) == Places(x) <= 1 /\ (c = 0 => Places(x) = 1)

\* A work that has not begun has left no trace.
Untouched(x) ==
  x.last = NoMessage => /\ x.bus = <<>> /\ x.inbox = <<>> /\ x.stored = <<>> /\ x.out = <<>>
                        /\ x.issued = 0 /\ x.data.attempts = 0 /\ x.data.pending = "absent"

\* Only reports and the last message wait for their handlers, and of two messages that a
\* handler returned together, the one that moves the work on is logged last.
Ordered(x) ==
  /\ \A i \in DOMAIN x.inbox :
       x.inbox[i].sink \in Sinks /\ (x.inbox[i] = x.last \/ x.inbox[i].sink = "failure_input")
  /\ \A i \in DOMAIN x.bus :
       /\ x.bus[i].sink # "input"
       /\ x.bus[i].sink = "failure_input" => i + 1 \in DOMAIN x.bus /\ x.bus[i + 1].sink = "failed_attempt"
       /\ x.bus[i].sink = "successful_task_result" => i + 1 \in DOMAIN x.bus /\ x.bus[i + 1].sink = "task_output"
  /\ \A i \in DOMAIN x.out : x.out[i].sink \in Verdicts => x.last.sink \in Verdicts

\* What a message of a work says about its data.
Claims == {"executor_output", "timestamped_result", "store_success", "store_failure"}
Agrees(m, d, r) ==
  /\ m.sink \notin {"input", "none"} => d.attempts > 0
  /\ m.sink \in {"execute", "executor_output"} => d.started
  /\ m.sink \in Claims => m.target = r
  /\ m.sink \in {"executor_output", "timestamped_result"} => m.body \in {"value", "failure"}
  /\ m.body = "exhausted" => m.sink \in {"left", "error"} /\ d.attempts >= MaxAttempts

MessagesAgree(x) ==
  /\ \A i \in DOMAIN x.bus : Agrees(x.bus[i], x.data, x.ran)
  /\ \A i \in DOMAIN x.inbox : Agrees(x.inbox[i], x.data, x.ran)
  /\ Agrees(x.last, x.data, x.ran)
  /\ \A i \in DOMAIN x.out : x.out[i].body = "exhausted" => x.out[i].sink = "error" /\ x.data.attempts >= MaxAttempts
  /\ \A i \in DOMAIN x.queue : x.queue[i].target = x.ran
  /\ x.queue # <<>> => x.data.attempts > 0
  /\ x.open => x.data.attempts > 0 /\ x.data.started /\ x.data.input = x.ran
  /\ x.timer => x.data.attempts > 0 /\ x.data.attempts < MaxAttempts

\* Where a work can be while the preparer has its result.
Late(m) ==
  \/ m.sink \in {"convert", "converted_public_output", "conversion_failed", "right", "error"}
  \/ m.sink = "timestamped_result" /\ m.body = "value"

\* The preparer keeps the result of the neuron that was asked last.
PendingAgrees(x) ==
  x.data.pending = "set" =>
    /\ x.data.of = x.ran /\ Late(x.last)
    /\ ~x.open /\ ~x.timer /\ x.queue = <<>>
    /\ \A i \in DOMAIN x.bus : Moves(x.bus[i]) => Late(x.bus[i])
    /\ \A i \in DOMAIN x.inbox : Moves(x.inbox[i]) => Late(x.inbox[i])

Cap == IF MaxAttempts = 0 THEN 1 ELSE MaxAttempts

\* Attempts are capped; those that were issued are in the retry state.
AttemptsCounted(x) ==
  /\ x.issued + Num(x.bus, To("create")) <= x.data.attempts
  /\ x.issued + Num(x.bus, To("create")) <= Cap
  /\ x.last.sink \in {"none", "input"} => x.issued = 0

\* What holds of a work after c crashes.
WorkInv(x, c) ==
  /\ Typed(x) /\ InOnePlace(x, c) /\ Untouched(x) /\ Ordered(x)
  /\ MessagesAgree(x) /\ PendingAgrees(x) /\ AttemptsCounted(x)

\* What holds as long as the process has not crashed.
Converting == {"convert", "converted_public_output", "conversion_failed"}

\* Every failure in the store is reported or will be; a success is dispatched once, its result
\* and its output together.
ResultsCounted(x) ==
  /\ Num(x.out, Left("executor_failure")) + Num(x.bus, To("executor_failure"))
       + Num(x.bus, To("failure_input")) + Num(x.inbox, To("failure_input"))
     = Num(x.stored, ResultsOf("failure"))
  /\ Num(x.stored, ResultsOf("success"))
     = Num(x.bus, To("success_input")) + Num(x.inbox, To("success_input"))
       + Num(x.bus, To("task_output")) + Num(x.out, Left("task_output"))
  /\ Num(x.bus, To("successful_task_result")) + Num(x.out, Left("successful_task_result"))
     = Num(x.bus, To("task_output")) + Num(x.out, Left("task_output"))
  /\ Num(x.bus, To("successful_task_result")) <= Num(x.bus, To("task_output"))

\* The preparer has a result just while its output is converted.
PendingExact(m, d) ==
  /\ m.body # "internal"
  /\ m.sink \in Converting => d.pending = "set"
  /\ d.pending = "set" /\ Moves(m) => m.sink \in Converting

UncrashedInv(x) ==
  /\ x.data.attempts = x.issued + Num(x.bus, To("create"))
  /\ ResultsCounted(x)
  /\ \A i \in DOMAIN x.bus : PendingExact(x.bus[i], x.data)
  /\ \A i \in DOMAIN x.inbox : PendingExact(x.inbox[i], x.data)
  /\ \A i \in DOMAIN x.out : x.out[i].body # "internal"

\* The invariant of a work, what the functions of the works are, and the invariant.
Inv(x, c) == WorkInv(x, c) /\ (c = 0 => UncrashedInv(x))

Shared ==
  /\ bus = [w \in Works |-> bus[w]] /\ inbox = [w \in Works |-> inbox[w]]
  /\ last = [w \in Works |-> last[w]] /\ data = [w \in Works |-> data[w]]
  /\ stored = [w \in Works |-> stored[w]] /\ out = [w \in Works |-> out[w]]
  /\ issued = [w \in Works |-> issued[w]] /\ ran = [w \in Works |-> ran[w]]
  /\ open \subseteq Works /\ timers \subseteq Works /\ old \subseteq Works /\ lost \subseteq Works
  /\ beat \in BOOLEAN /\ queue \in Seq(Entries) /\ crashes \in 0..MaxCrashes

IInv == Shared /\ \A w \in Works : Inv(View(w), crashes)

----------------------------------------------------------------------------
(* Counting in sequences *)

In(e, S) == IF e \in S THEN 1 ELSE 0

\* Elements are counted by a natural number.
LEMMA NumType ==
  ASSUME NEW T, NEW q \in Seq(T), NEW S
  PROVE  /\ IsFiniteSet({i \in DOMAIN q : q[i] \in S})
         /\ Num(q, S) \in Nat
<1>1. Len(q) \in Nat /\ DOMAIN q = 1..Len(q) /\ IsFiniteSet(1..Len(q))
  BY LenProperties, FS_Interval
<1>2. IsFiniteSet({i \in DOMAIN q : q[i] \in S})
  BY <1>1, FS_Subset
<1> QED BY <1>2, FS_CardinalityType DEF Num

\* Of counts that add up to at most 1, some do.
LEMMA PartsOfOne ==
  ASSUME NEW a \in Nat, NEW b \in Nat, NEW d \in Nat, NEW l \in Nat,
         NEW p \in {0, 1}, NEW q \in {0, 1}, NEW r \in {0, 1}, NEW s \in {0, 1},
         a + b + d + l + p + q + r + s <= 1
  PROVE  d <= 1 /\ l + p + q + r <= 1
OBVIOUS

\* The empty sequence, and a sequence of one element.
LEMMA NumSmall ==
  ASSUME NEW S
  PROVE  /\ Num(<<>>, S) = 0
         /\ \A e : Num(<<e>>, S) = In(e, S)
<1>1. {i \in DOMAIN <<>> : <<>>[i] \in S} = {}
  OBVIOUS
<1>2. ASSUME NEW e PROVE Num(<<e>>, S) = In(e, S)
  <2>1. CASE e \in S
    <3>1. {i \in DOMAIN <<e>> : <<e>>[i] \in S} = {1}
      BY <2>1
    <3> QED BY <2>1, <3>1, FS_Singleton DEF Num, In
  <2>2. CASE e \notin S
    <3>1. {i \in DOMAIN <<e>> : <<e>>[i] \in S} = {}
      BY <2>2
    <3> QED BY <2>2, <3>1, FS_EmptySet DEF Num, In
  <2> QED BY <2>1, <2>2
<1> QED BY <1>1, <1>2, FS_EmptySet DEF Num

\* Counts add up when sequences are concatenated.
LEMMA NumConcat ==
  ASSUME NEW T, NEW q \in Seq(T), NEW r \in Seq(T), NEW S
  PROVE  Num(q \o r, S) = Num(q, S) + Num(r, S)
<1> DEFINE A == {i \in DOMAIN q : q[i] \in S}
           B == {i \in DOMAIN r : r[i] \in S}
           C == {i \in DOMAIN (q \o r) : (q \o r)[i] \in S}
           D == C \ A
           f == [i \in B |-> Len(q) + i]
<1>1. /\ Len(q) \in Nat /\ Len(r) \in Nat /\ DOMAIN q = 1..Len(q) /\ DOMAIN r = 1..Len(r)
      /\ DOMAIN (q \o r) = 1..(Len(q) + Len(r))
      /\ \A i \in 1..(Len(q) + Len(r)) : (q \o r)[i] = IF i <= Len(q) THEN q[i] ELSE r[i - Len(q)]
  BY LenProperties, ConcatProperties
<1>2. A \subseteq C
  BY <1>1
<1>3. \A i \in C : i \notin A => i > Len(q) /\ i - Len(q) \in B
  BY <1>1
<1>4. \A i \in B : Len(q) + i \in C /\ Len(q) + i \notin A /\ i \in Nat
  BY <1>1
<1>5. IsFiniteSet(A) /\ IsFiniteSet(B) /\ IsFiniteSet(C)
  <2>1. q \o r \in Seq(T)
    BY ConcatProperties
  <2> QED BY <2>1, NumType
<1>6. \A i \in C : i \in Int
  BY <1>1
<1> HIDE DEF A, B, C
<1>7. f \in Bijection(B, D)
  <2>1. f \in [B -> D]
    BY <1>4
  <2>2. \A i, j \in B : f[i] = f[j] => i = j
    BY <1>1, <1>4
  <2>3. \A d \in D : \E i \in B : f[i] = d
    <3> SUFFICES ASSUME NEW d \in D PROVE \E i \in B : f[i] = d
      OBVIOUS
    <3>1. d - Len(q) \in B /\ f[d - Len(q)] = d
      BY <1>1, <1>3, <1>6
    <3> QED BY <3>1
  <2>4. f \in Injection(B, D)
    <3> HIDE DEF f, D
    <3> QED BY <2>1, <2>2, Fun_IsInj
  <2>5. f \in Surjection(B, D)
    <3> HIDE DEF f, D
    <3> QED BY <2>1, <2>3, Fun_IsSurj
  <2> QED BY <2>4, <2>5, Zenon DEF Bijection
<1>8. IsFiniteSet(D) /\ Cardinality(D) = Cardinality(B)
  <2>1. ExistsBijection(B, D)
    BY <1>7, Zenon DEF ExistsBijection
  <2> QED BY <1>5, <2>1, FS_Bijection
<1>9. Cardinality(C) = Cardinality(A) + Cardinality(D) - Cardinality(A \cap D) /\ A \cap D = {}
  <2>1. C = A \cup D
    BY <1>2
  <2> QED BY <1>5, <1>8, <2>1, FS_Union
<1>10. Cardinality(A) \in Nat /\ Cardinality(D) \in Nat /\ Cardinality({}) = 0
  BY <1>5, <1>8, FS_CardinalityType, FS_EmptySet
<1>11. Cardinality(C) = Cardinality(A) + Cardinality(B)
  <2>1. Cardinality(A \cap D) = 0
    BY <1>9, <1>10
  <2> HIDE DEF D
  <2> QED BY <2>1, <1>8, <1>9, <1>10
<1> QED BY <1>11 DEF Num, A, B, C

\* An element more.
LEMMA NumAppend ==
  ASSUME NEW T, NEW q \in Seq(T), NEW e \in T, NEW S
  PROVE  Num(Append(q, e), S) = Num(q, S) + In(e, S)
<1>1. Append(q, e) = q \o <<e>> /\ <<e>> \in Seq(T)
  BY AppendIsConcat
<1>2. Num(q \o <<e>>, S) = Num(q, S) + Num(<<e>>, S)
  BY <1>1, NumConcat
<1>3. Num(<<e>>, S) = In(e, S)
  BY NumSmall
<1> QED BY <1>1, <1>2, <1>3

\* A sequence with one element taken out.
LEMMA RemovedFacts ==
  ASSUME NEW T, NEW q \in Seq(T), NEW i \in DOMAIN q
  PROVE  /\ RemoveAt(q, i) \in Seq(T) /\ q[i] \in T
         /\ \A k \in DOMAIN RemoveAt(q, i) : \E j \in DOMAIN q : j # i /\ RemoveAt(q, i)[k] = q[j]
         /\ \A S : Num(RemoveAt(q, i), S) = Num(q, S) - In(q[i], S)
<1> DEFINE a == SubSeq(q, 1, i - 1)
           b == SubSeq(q, i + 1, Len(q))
<1>1. Len(q) \in Nat /\ DOMAIN q = 1..Len(q) /\ i \in 1..Len(q) /\ q[i] \in T /\ RemoveAt(q, i) = a \o b
  BY LenProperties DEF RemoveAt
<1>2. a \in Seq(T) /\ Len(a) = i - 1 /\ \A k \in 1..(i - 1) : a[k] = q[k]
  <2>1. \A k \in 1..(i - 1) : q[k] \in T
    BY <1>1
  <2> QED BY <1>1, <2>1, SubSeqProperties
<1>3. b \in Seq(T) /\ Len(b) = Len(q) - i /\ \A k \in 1..(Len(q) - i) : b[k] = q[i + k]
  <2>1. \A k \in (i + 1)..Len(q) : q[k] \in T
    BY <1>1
  <2>2. b \in Seq(T) /\ Len(b) = (IF i + 1 <= Len(q) THEN Len(q) - (i + 1) + 1 ELSE 0)
        /\ \A k \in 1..(Len(q) - (i + 1) + 1) : b[k] = q[(i + 1) + k - 1]
    <3>1. i + 1 \in Int /\ Len(q) \in Int
      BY <1>1
    <3> QED BY <2>1, <3>1, SubSeqProperties
  <2>3. (IF i + 1 <= Len(q) THEN Len(q) - (i + 1) + 1 ELSE 0) = Len(q) - i /\ Len(q) - (i + 1) + 1 = Len(q) - i
    BY <1>1
  <2>4. \A k \in Int : (i + 1) + k - 1 = i + k
    BY <1>1
  <2> HIDE DEF b
  <2>5. \A k \in 1..(Len(q) - i) : b[k] = q[i + k]
    <3> SUFFICES ASSUME NEW k \in 1..(Len(q) - i) PROVE b[k] = q[i + k]
      OBVIOUS
    <3>1. k \in 1..(Len(q) - (i + 1) + 1) /\ (i + 1) + k - 1 = i + k
      BY <1>1
    <3> QED BY <2>2, <3>1
  <2> QED BY <2>2, <2>3, <2>5
<1>4. q = a \o (<<q[i]>> \o b)
  <2>1. SubSeq(q, i, Len(q)) = <<q[i]>> \o b
    <3>1. i \in 1..Len(q) /\ Len(q) \in i..Len(q)
      BY <1>1
    <3> QED BY <3>1, SubSeqRecursiveFirst
  <2>2. a \o SubSeq(q, (i - 1) + 1, Len(q)) = SubSeq(q, 1, Len(q))
    <3>1. 1 \in 1..(Len(q) + 1) /\ i - 1 \in (1 - 1)..Len(q) /\ Len(q) \in (i - 1)..Len(q)
      BY <1>1
    <3> QED BY <3>1, ConcatAdjacentSubSeq
  <2>3. SubSeq(q, 1, Len(q)) = q
    BY SubSeqFull
  <2>4. (i - 1) + 1 = i
    BY <1>1
  <2> QED BY <2>1, <2>2, <2>3, <2>4
<1> HIDE DEF a, b
<1>5. a \o b \in Seq(T) /\ Len(a \o b) = Len(q) - 1
      /\ \A k \in 1..(Len(q) - 1) : (a \o b)[k] = IF k <= i - 1 THEN q[k] ELSE q[k + 1]
  <2>1. a \o b \in Seq(T) /\ Len(a \o b) = Len(a) + Len(b)
        /\ \A k \in 1..(Len(a) + Len(b)) : (a \o b)[k] = IF k <= Len(a) THEN a[k] ELSE b[k - Len(a)]
    BY <1>2, <1>3, ConcatProperties
  <2> DEFINE c == a \o b
  <2>2. ASSUME NEW k \in 1..(Len(q) - 1) PROVE c[k] = IF k <= i - 1 THEN q[k] ELSE q[k + 1]
    <3> HIDE DEF c
    <3>0. c[k] = IF k <= i - 1 THEN a[k] ELSE b[k - (i - 1)]
      BY <1>1, <1>2, <1>3, <2>1 DEF c
    <3>1. CASE k <= i - 1
      BY <3>0, <1>1, <1>2, <3>1
    <3>2. CASE ~(k <= i - 1)
      <4>1. k - (i - 1) \in 1..(Len(q) - i) /\ i + (k - (i - 1)) = k + 1
        BY <1>1, <3>2
      <4>2. b[k - (i - 1)] = q[i + (k - (i - 1))]
        BY <4>1, <1>3
      <4>3. b[k - (i - 1)] = q[k + 1]
        BY <4>1, <4>2
      <4> HIDE DEF b
      <4> QED BY <3>0, <3>2, <4>3
    <3> QED BY <3>1, <3>2
  <2> QED BY <1>1, <1>2, <1>3, <2>1, <2>2
<1>6. ASSUME NEW k \in DOMAIN (a \o b) PROVE \E j \in DOMAIN q : j # i /\ (a \o b)[k] = q[j]
  <2> DEFINE c == a \o b
  <2> HIDE DEF c
  <2>1. k \in 1..(Len(q) - 1)
    <3>1. DOMAIN c = 1..Len(c)
      BY <1>5, LenProperties DEF c
    <3> QED BY <1>5, <3>1 DEF c
  <2>2. c[k] = IF k <= i - 1 THEN q[k] ELSE q[k + 1]
    BY <1>5, <2>1 DEF c
  <2>3. CASE k <= i - 1
    <3>1. k \in DOMAIN q /\ k # i /\ c[k] = q[k]
      BY <1>1, <2>1, <2>2, <2>3
    <3> QED BY <3>1 DEF c
  <2>4. CASE ~(k <= i - 1)
    <3>1. k + 1 \in DOMAIN q /\ k + 1 # i /\ c[k] = q[k + 1]
      BY <1>1, <2>1, <2>2, <2>4
    <3> QED BY <3>1 DEF c
  <2> QED BY <2>3, <2>4
<1>7. ASSUME NEW S PROVE Num(a \o b, S) = Num(q, S) - In(q[i], S)
  <2>1. <<q[i]>> \in Seq(T) /\ <<q[i]>> \o b \in Seq(T)
    BY <1>1, <1>3, ConcatProperties
  <2>2. Num(q, S) = Num(a, S) + Num(<<q[i]>> \o b, S)
    <3>1. Num(a \o (<<q[i]>> \o b), S) = Num(a, S) + Num(<<q[i]>> \o b, S)
      BY <1>2, <2>1, NumConcat
    <3> QED BY <3>1, <1>4
  <2>3. Num(<<q[i]>> \o b, S) = In(q[i], S) + Num(b, S)
    <3>1. Num(<<q[i]>> \o b, S) = Num(<<q[i]>>, S) + Num(b, S)
      BY <1>3, <2>1, NumConcat
    <3>2. Num(<<q[i]>>, S) = In(q[i], S)
      BY NumSmall
    <3> QED BY <3>1, <3>2
  <2>4. Num(a \o b, S) = Num(a, S) + Num(b, S)
    BY <1>2, <1>3, NumConcat
  <2>5. Num(a, S) \in Nat /\ Num(b, S) \in Nat /\ In(q[i], S) \in Nat
    BY <1>2, <1>3, NumType DEF In
  <2> QED BY <2>2, <2>3, <2>4, <2>5
<1> QED BY <1>1, <1>5, <1>6, <1>7

\* A sequence without its head.
LEMMA TailFacts ==
  ASSUME NEW T, NEW q \in Seq(T), q # <<>>
  PROVE  /\ Tail(q) \in Seq(T) /\ Head(q) \in T /\ 1 \in DOMAIN q /\ Head(q) = q[1]
         /\ \A k \in DOMAIN Tail(q) : k + 1 \in DOMAIN q /\ Tail(q)[k] = q[k + 1]
         /\ \A k \in DOMAIN q : k # 1 => k - 1 \in DOMAIN Tail(q) /\ Tail(q)[k - 1] = q[k]
         /\ \A S : Num(Tail(q), S) = Num(q, S) - In(q[1], S)
<1>1. Len(q) \in Nat \ {0} /\ DOMAIN q = 1..Len(q) /\ Head(q) = q[1]
  BY LenProperties, EmptySeq
<1>2. /\ Head(q) \in T /\ Tail(q) \in Seq(T) /\ Len(Tail(q)) = Len(q) - 1
      /\ \A i \in 1..Len(Tail(q)) : Tail(q)[i] = q[i + 1]
  BY HeadTailProperties
<1>3. DOMAIN Tail(q) = 1..(Len(q) - 1)
  BY <1>2, LenProperties
<1>4. q = <<q[1]>> \o Tail(q)
  <2>1. SubSeq(q, 1, Len(q)) = <<q[1]>> \o SubSeq(q, 1 + 1, Len(q))
    BY <1>1, SubSeqRecursiveFirst
  <2>2. SubSeq(q, 1, Len(q)) = q /\ Tail(q) = SubSeq(q, 2, Len(q)) /\ 1 + 1 = 2
    BY SubSeqFull, TailIsSubSeq
  <2> QED BY <2>1, <2>2
<1>5. ASSUME NEW S PROVE Num(Tail(q), S) = Num(q, S) - In(q[1], S)
  <2>1. <<q[1]>> \in Seq(T)
    BY <1>1, <1>2
  <2>2. Num(q, S) = In(q[1], S) + Num(Tail(q), S)
    <3>1. Num(<<q[1]>> \o Tail(q), S) = Num(<<q[1]>>, S) + Num(Tail(q), S)
      BY <1>2, <2>1, NumConcat
    <3>2. Num(<<q[1]>>, S) = In(q[1], S)
      BY NumSmall
    <3> QED BY <3>1, <3>2, <1>4
  <2>3. Num(Tail(q), S) \in Nat /\ In(q[1], S) \in Nat
    BY <1>2, NumType DEF In
  <2> QED BY <2>2, <2>3
<1>6. 1 \in DOMAIN q /\ \A k \in DOMAIN Tail(q) : k + 1 \in DOMAIN q /\ Tail(q)[k] = q[k + 1]
  BY <1>1, <1>2, <1>3
<1>7. \A k \in DOMAIN q : k # 1 => k - 1 \in DOMAIN Tail(q) /\ Tail(q)[k - 1] = q[k]
  <2> SUFFICES ASSUME NEW k \in DOMAIN q, k # 1 PROVE k - 1 \in DOMAIN Tail(q) /\ Tail(q)[k - 1] = q[k]
    OBVIOUS
  <2>1. k - 1 \in 1..(Len(q) - 1) /\ (k - 1) + 1 = k
    BY <1>1
  <2> QED BY <1>2, <1>3, <2>1
<1> QED BY <1>1, <1>2, <1>5, <1>6, <1>7

\* A sequence p that is q and then r.
GoesOn(p, q, r) ==
  /\ \A k \in DOMAIN q : k \in DOMAIN p /\ p[k] = q[k]
  /\ \A k \in DOMAIN r : Len(q) + k \in DOMAIN p /\ p[Len(q) + k] = r[k]
  /\ \A k \in DOMAIN p : k \in DOMAIN q \/ (\E j \in DOMAIN r : k = Len(q) + j)
  /\ \A S : Num(p, S) = Num(q, S) + Num(r, S)

\* A concatenation goes on so.
LEMMA ConcatFacts ==
  ASSUME NEW T, NEW q \in Seq(T), NEW r \in Seq(T)
  PROVE  q \o r \in Seq(T) /\ GoesOn(q \o r, q, r)
<1> DEFINE c == q \o r
<1>1. /\ Len(q) \in Nat /\ Len(r) \in Nat /\ DOMAIN q = 1..Len(q) /\ DOMAIN r = 1..Len(r)
      /\ DOMAIN c = 1..(Len(q) + Len(r)) /\ c \in Seq(T)
      /\ \A i \in 1..(Len(q) + Len(r)) : c[i] = IF i <= Len(q) THEN q[i] ELSE r[i - Len(q)]
  BY LenProperties, ConcatProperties
<1>2. \A S : Num(c, S) = Num(q, S) + Num(r, S)
  BY NumConcat
<1> HIDE DEF c
<1>3. \A k \in DOMAIN q : k \in DOMAIN c /\ c[k] = q[k]
  BY <1>1
<1>4. ASSUME NEW k \in DOMAIN r PROVE Len(q) + k \in DOMAIN c /\ c[Len(q) + k] = r[k]
  <2>1. Len(q) + k \in 1..(Len(q) + Len(r)) /\ ~(Len(q) + k <= Len(q)) /\ (Len(q) + k) - Len(q) = k
    BY <1>1
  <2> QED BY <1>1, <2>1
<1>5. ASSUME NEW k \in DOMAIN c, k \notin DOMAIN q PROVE \E j \in DOMAIN r : k = Len(q) + j
  <2>1. k - Len(q) \in DOMAIN r /\ k = Len(q) + (k - Len(q))
    BY <1>1, <1>5
  <2> QED BY <2>1
<1>6. c \in Seq(T)
  BY <1>1
<1>7. GoesOn(c, q, r)
  BY <1>2, <1>3, <1>4, <1>5 DEF GoesOn
<1> QED BY <1>6, <1>7 DEF c

\* Counting nothing, one, and in parts of a set.
LEMMA NumFacts ==
  ASSUME NEW T, NEW q \in Seq(T), NEW S
  PROVE  /\ Num(q, S) = 0 <=> \A i \in DOMAIN q : q[i] \notin S
         /\ Num(q, S) <= 1 => \A i, j \in DOMAIN q : q[i] \in S /\ q[j] \in S => i = j
         /\ \A R \in SUBSET S : Num(q, R) <= Num(q, S)
<1> DEFINE A == {i \in DOMAIN q : q[i] \in S}
<1>1. IsFiniteSet(A) /\ Cardinality(A) \in Nat
  BY NumType DEF Num
<1>2. Cardinality(A) = 0 <=> A = {}
  BY <1>1, FS_EmptySet
<1>3. ASSUME Cardinality(A) <= 1, NEW i \in A, NEW j \in A PROVE i = j
  <2>1. Cardinality(A) = 1
    BY <1>1, <1>2, <1>3
  <2>2. PICK a : A = {a}
    BY <1>1, <2>1, FS_Singleton
  <2> QED BY <2>2, <1>3
<1>4. ASSUME NEW R \in SUBSET S PROVE Num(q, R) <= Num(q, S)
  <2>1. {i \in DOMAIN q : q[i] \in R} \subseteq A
    OBVIOUS
  <2> HIDE DEF A
  <2>2. Cardinality({i \in DOMAIN q : q[i] \in R}) <= Cardinality(A)
    BY <1>1, <2>1, FS_Subset
  <2> QED BY <2>2 DEF Num, A
<1> QED BY <1>2, <1>3, <1>4 DEF Num

\* Counting in two sets without common elements.
LEMMA NumDisjoint ==
  ASSUME NEW T, NEW q \in Seq(T), NEW S, NEW R, S \cap R = {}
  PROVE  Num(q, S) + Num(q, R) = Num(q, S \cup R)
<1> DEFINE A == {i \in DOMAIN q : q[i] \in S}
           B == {i \in DOMAIN q : q[i] \in R}
           C == {i \in DOMAIN q : q[i] \in S \cup R}
<1>1. IsFiniteSet(A) /\ Cardinality(A) \in Nat /\ IsFiniteSet(B) /\ Cardinality(B) \in Nat
  BY NumType DEF Num
<1>2. C = A \cup B /\ A \cap B = {}
  OBVIOUS
<1>3. Cardinality(A \cup B) = Cardinality(A) + Cardinality(B) - Cardinality(A \cap B)
  <2> HIDE DEF A, B
  <2> QED BY <1>1, FS_Union
<1>4. Cardinality({}) = 0
  BY FS_EmptySet
<1>5. Cardinality(C) = Cardinality(A) + Cardinality(B)
  <2>1. Cardinality(A \cap B) = 0
    BY <1>2, <1>4
  <2> HIDE DEF A, B, C
  <2> QED BY <1>1, <1>2, <1>3, <2>1
<1> QED BY <1>5 DEF Num

----------------------------------------------------------------------------
(* The entries of some works in the queue of the timestamper *)

\* q and perhaps one more entry.
Grown(q, e, works) == IF e.work \in works THEN Append(q, e) ELSE q

\* f is what is kept of the first entries of l, up to k of them.
Kept(f, l, works, k) == f = [n \in 0..k |-> IF n = 0 THEN <<>> ELSE Grown(f[n - 1], l[n], works)]

\* There is one such function for a queue and a number of entries.
LEMMA KeptUnique ==
  ASSUME NEW l, NEW works, NEW k \in Nat, NEW f, NEW g, Kept(f, l, works, k), Kept(g, l, works, k)
  PROVE  f = g
<1> DEFINE Same == {n \in Nat : n <= k => f[n] = g[n]}
<1>1. 0 \in Same
  BY DEF Kept
<1>2. ASSUME NEW n \in Nat, n \in Same PROVE n + 1 \in Same
  <2>1. CASE n + 1 <= k
    <3>1. f[n] = g[n] /\ (n + 1) - 1 = n /\ n + 1 # 0 /\ n + 1 \in 0..k
      BY <1>2, <2>1
    <3>2. f[n + 1] = Grown(f[n], l[n + 1], works) /\ g[n + 1] = Grown(g[n], l[n + 1], works)
      BY <3>1 DEF Kept
    <3> QED BY <3>1, <3>2
  <2> QED BY <2>1
<1>3. Nat \subseteq Same
  <2> HIDE DEF Same
  <2> QED BY <1>1, <1>2, Induction
<1>4. \A n \in 0..k : f[n] = g[n]
  BY <1>3
<1>5. f = [n \in 0..k |-> f[n]] /\ g = [n \in 0..k |-> g[n]]
  BY DEF Kept
<1> QED BY <1>4, <1>5

\* It goes on with one more entry.
LEMMA KeptNext ==
  ASSUME NEW l, NEW works, NEW k \in Nat, NEW f, Kept(f, l, works, k)
  PROVE  Kept([n \in 0..(k + 1) |-> IF n = k + 1 THEN Grown(f[k], l[k + 1], works) ELSE f[n]], l, works, k + 1)
<1> DEFINE g == [n \in 0..(k + 1) |-> IF n = k + 1 THEN Grown(f[k], l[k + 1], works) ELSE f[n]]
<1>1. ASSUME NEW n \in 0..(k + 1)
      PROVE  g[n] = IF n = 0 THEN <<>> ELSE Grown(g[n - 1], l[n], works)
  <2>1. CASE n = 0
    BY <2>1 DEF Kept
  <2>2. CASE n = k + 1
    <3>1. g[n] = Grown(f[k], l[k + 1], works) /\ g[n - 1] = f[k] /\ n # 0
      BY <2>2
    <3> QED BY <3>1, <2>2
  <2>3. CASE n # 0 /\ n # k + 1
    <3>1. g[n] = f[n] /\ g[n - 1] = f[n - 1] /\ n \in 0..k
      BY <2>3
    <3>2. f[n] = Grown(f[n - 1], l[n], works)
      BY <3>1, <2>3 DEF Kept
    <3> QED BY <3>1, <3>2, <2>3
  <2> QED BY <2>1, <2>2, <2>3
<1>2. g = [n \in 0..(k + 1) |-> g[n]]
  OBVIOUS
<1> HIDE DEF g
<1>3. g = [n \in 0..(k + 1) |-> IF n = 0 THEN <<>> ELSE Grown(g[n - 1], l[n], works)]
  BY <1>1, <1>2
<1> QED BY <1>3 DEF Kept, g

\* It exists for every number of entries.
LEMMA KeptExists ==
  ASSUME NEW l, NEW works, NEW k \in Nat
  PROVE  \E f : Kept(f, l, works, k)
<1> DEFINE Done == {n \in Nat : \E f : Kept(f, l, works, n)}
<1>1. 0 \in Done
  <2>1. Kept([n \in 0..0 |-> <<>>], l, works, 0)
    BY DEF Kept
  <2> QED BY <2>1
<1>2. ASSUME NEW n \in Nat, n \in Done PROVE n + 1 \in Done
  <2>1. PICK f : Kept(f, l, works, n)
    BY <1>2
  <2> DEFINE g == [i \in 0..(n + 1) |-> IF i = n + 1 THEN Grown(f[n], l[n + 1], works) ELSE f[i]]
  <2>2. Kept(g, l, works, n + 1)
    BY <2>1, KeptNext
  <2> HIDE DEF g
  <2>3. \E h : Kept(h, l, works, n + 1)
    BY <2>2
  <2> QED BY <2>3
<1>3. Nat \subseteq Done
  <2> HIDE DEF Done
  <2> QED BY <1>1, <1>2, Induction
<1> QED BY <1>3

\* OfWorks is its value after all entries.
LEMMA OfWorksIsKept ==
  ASSUME NEW l, NEW works, Len(l) \in Nat, NEW f, Kept(f, l, works, Len(l))
  PROVE  OfWorks(l, works) = f[Len(l)]
<1> DEFINE g == CHOOSE g : Kept(g, l, works, Len(l))
<1>1. g = f
  <2>1. Kept(g, l, works, Len(l))
    OBVIOUS
  <2> HIDE DEF g
  <2> QED BY <2>1, KeptUnique
<1>2. OfWorks(l, works) = g[Len(l)]
  BY DEF OfWorks, Kept, Grown
<1> QED BY <1>1, <1>2

\* Nothing is kept of an empty queue.
LEMMA OfWorksEmpty ==
  ASSUME NEW works
  PROVE  OfWorks(<<>>, works) = <<>>
<1>1. PICK f : Kept(f, <<>>, works, 0)
  BY KeptExists
<1>2. f[0] = <<>>
  BY <1>1 DEF Kept
<1>3. Len(<<>>) = 0
  OBVIOUS
<1> QED BY <1>1, <1>2, <1>3, OfWorksIsKept

\* One more entry is kept or not.
LEMMA OfWorksAppend ==
  ASSUME NEW S, NEW l \in Seq(S), NEW e \in S, NEW works
  PROVE  OfWorks(Append(l, e), works) = Grown(OfWorks(l, works), e, works)
<1> DEFINE m == Append(l, e)
           k == Len(l)
<1>1. k \in Nat /\ Len(m) = k + 1 /\ m[k + 1] = e /\ \A n \in 1..k : m[n] = l[n]
  OBVIOUS
<1>2. PICK f : Kept(f, l, works, k)
  BY <1>1, KeptExists
<1>3. Kept(f, m, works, k)
  <2> HIDE DEF m, k
  <2>1. ASSUME NEW n \in 0..k
        PROVE (IF n = 0 THEN <<>> ELSE Grown(f[n - 1], l[n], works)) = (IF n = 0 THEN <<>> ELSE Grown(f[n - 1], m[n], works))
    BY <1>1
  <2> QED BY <1>2, <2>1 DEF Kept
<1> HIDE DEF m
<1> DEFINE g == [n \in 0..(k + 1) |-> IF n = k + 1 THEN Grown(f[k], m[k + 1], works) ELSE f[n]]
<1>4. Kept(g, m, works, k + 1)
  BY <1>1, <1>3, KeptNext
<1>5. g[k + 1] = Grown(f[k], e, works)
  BY <1>1
<1>6. OfWorks(l, works) = f[k]
  BY <1>1, <1>2, OfWorksIsKept
<1>7. OfWorks(m, works) = g[k + 1]
  <2> HIDE DEF g, k
  <2> QED BY <1>1, <1>4, OfWorksIsKept
<1> QED BY <1>5, <1>6, <1>7 DEF m


\* What is kept of a queue: entries of the works asked for, and all of these.
OfWorksRight(q, works, v) ==
  /\ OfWorks(q, works) \in Seq(Entries)
  /\ OfWorks(OfWorks(q, works), {v}) = IF v \in works THEN OfWorks(q, {v}) ELSE <<>>
  /\ v \in InQueue(OfWorks(q, works)) <=> v \in works /\ OfWorks(q, {v}) # <<>>
  /\ v \in InQueue(q) <=> OfWorks(q, {v}) # <<>>
  /\ Num(q, {e \in Entries : e.work = v}) = Len(OfWorks(q, {v}))
  /\ \A i \in DOMAIN OfWorks(q, {v}) : OfWorks(q, {v})[i].work = v

\* An entry more in a queue.
LEMMA GrownFacts ==
  ASSUME NEW a \in Seq(Entries), NEW e \in Entries, NEW works, NEW b, b = Grown(a, e, works)
  PROVE  /\ b \in Seq(Entries)
         /\ Len(b) = Len(a) + (IF e.work \in works THEN 1 ELSE 0) /\ Len(a) \in Nat
         /\ b # <<>> <=> a # <<>> \/ e.work \in works
         /\ \A v : v \in InQueue(b) <=> v \in InQueue(a) \/ (e.work \in works /\ v = e.work)
<1>1. CASE e.work \in works
  <2>1. b = Append(a, e)
    BY <1>1 DEF Grown
  <2>2. /\ Len(a) \in Nat /\ DOMAIN a = 1..Len(a) /\ DOMAIN b = 1..(Len(a) + 1)
        /\ b \in Seq(Entries) /\ Len(b) = Len(a) + 1 /\ b # <<>>
        /\ b[Len(a) + 1] = e /\ \A i \in 1..Len(a) : b[i] = a[i]
    BY <2>1, LenProperties, AppendProperties
  <2>3. ASSUME NEW v PROVE v \in InQueue(b) <=> v \in InQueue(a) \/ v = e.work
    <3>1. v \in InQueue(b) <=> \E i \in DOMAIN b : b[i].work = v
      BY DEF InQueue
    <3>2. v \in InQueue(a) <=> \E i \in DOMAIN a : a[i].work = v
      BY DEF InQueue
    <3>3. \A i \in DOMAIN a : i \in DOMAIN b /\ b[i] = a[i]
      BY <2>2
    <3>4. \A i \in DOMAIN b : i \in DOMAIN a \/ b[i] = e
      BY <2>2
    <3>5. Len(a) + 1 \in DOMAIN b
      BY <2>2
    <3> QED BY <2>2, <3>1, <3>2, <3>3, <3>4, <3>5
  <2> QED BY <1>1, <2>2, <2>3
<1>2. CASE e.work \notin works
  <2>1. b = a /\ Len(a) \in Nat
    BY <1>2, LenProperties DEF Grown
  <2> QED BY <1>2, <2>1
<1> QED BY <1>1, <1>2

\* That holds for every queue, by induction over its length.
LEMMA OfWorksFacts ==
  ASSUME NEW q \in Seq(Entries)
  PROVE  \A works, v : OfWorksRight(q, works, v)
<1> DEFINE Good == {n \in Nat : \A r \in Seq(Entries) : Len(r) = n => \A works, v : OfWorksRight(r, works, v)}
<1>1. 0 \in Good
  <2> SUFFICES ASSUME NEW r \in Seq(Entries), Len(r) = 0, NEW works, NEW v PROVE OfWorksRight(r, works, v)
    OBVIOUS
  <2>1. r = <<>> /\ <<>> \in Seq(Entries) /\ Len(<<>>) = 0
    BY EmptySeq
  <2>2. DOMAIN <<>> = {} /\ InQueue(<<>>) = {}
    BY DEF InQueue
  <2>3. OfWorks(<<>>, works) = <<>> /\ OfWorks(<<>>, {v}) = <<>>
    BY OfWorksEmpty
  <2>4. Num(<<>>, {e \in Entries : e.work = v}) = 0
    BY NumSmall
  <2> QED BY <2>1, <2>2, <2>3, <2>4 DEF OfWorksRight
<1>2. ASSUME NEW n \in Nat, n \in Good PROVE n + 1 \in Good
  <2> SUFFICES ASSUME NEW r \in Seq(Entries), Len(r) = n + 1, NEW works, NEW v PROVE OfWorksRight(r, works, v)
    OBVIOUS
  <2>1. PICK p \in Seq(Entries), e \in Entries : r = Append(p, e) /\ Len(p) = n
    <3>1. r # <<>>
      OBVIOUS
    <3>2. PICK p \in Seq(Entries), e \in Entries : r = Append(p, e)
      BY <3>1, SequenceEmptyOrAppend
    <3>3. Len(r) = Len(p) + 1 /\ Len(p) \in Nat
      BY <3>2, AppendProperties, LenProperties
    <3> QED BY <3>2, <3>3
  <2> DEFINE pw == OfWorks(p, works)
             pv == OfWorks(p, {v})
             rw == OfWorks(r, works)
             rv == OfWorks(r, {v})
  <2>2. OfWorksRight(p, works, v) /\ OfWorksRight(p, {v}, v)
    BY <1>2, <2>1
  <2>3. /\ pw \in Seq(Entries) /\ pv \in Seq(Entries)
        /\ OfWorks(pw, {v}) = IF v \in works THEN pv ELSE <<>>
        /\ v \in InQueue(pw) <=> v \in works /\ pv # <<>>
        /\ v \in InQueue(p) <=> pv # <<>>
        /\ Num(p, {f \in Entries : f.work = v}) = Len(pv)
        /\ \A i \in DOMAIN pv : pv[i].work = v
    BY <2>2 DEF OfWorksRight
  <2>4. rw = Grown(pw, e, works) /\ rv = Grown(pv, e, {v})
    BY <2>1, OfWorksAppend
  <2>5. OfWorks(Append(pw, e), {v}) = Grown(OfWorks(pw, {v}), e, {v})
    BY <2>3, OfWorksAppend
  <2> HIDE DEF pw, pv, rw, rv
  <2>6. /\ rw \in Seq(Entries)
        /\ v \in InQueue(rw) <=> v \in InQueue(pw) \/ (e.work \in works /\ v = e.work)
    BY <2>3, <2>4, GrownFacts
  <2>7. /\ rv # <<>> <=> pv # <<>> \/ e.work = v
        /\ Len(rv) = Len(pv) + (IF e.work = v THEN 1 ELSE 0) /\ Len(pv) \in Nat
    <3>1. /\ rv # <<>> <=> pv # <<>> \/ e.work \in {v}
          /\ Len(rv) = Len(pv) + (IF e.work \in {v} THEN 1 ELSE 0) /\ Len(pv) \in Nat
      <4>1. ASSUME NEW s, rv = Grown(pv, e, s)
            PROVE  /\ rv # <<>> <=> pv # <<>> \/ e.work \in s
                   /\ Len(rv) = Len(pv) + (IF e.work \in s THEN 1 ELSE 0) /\ Len(pv) \in Nat
        BY <2>3, <4>1, GrownFacts
      <4> QED BY <2>4, <4>1
    <3>2. e.work \in {v} <=> e.work = v
      OBVIOUS
    <3> QED BY <3>1, <3>2
  <2>8. OfWorks(rw, {v}) = IF v \in works THEN rv ELSE <<>>
    <3>1. CASE e.work \in works
      <4>1. rw = Append(pw, e)
        BY <2>4, <3>1 DEF Grown
      <4>2. CASE v \in works
        BY <2>3, <2>4, <2>5, <4>1, <4>2
      <4>3. CASE v \notin works
        <5>1. Grown(<<>>, e, {v}) = <<>>
          BY <3>1, <4>3 DEF Grown
        <5> QED BY <2>3, <2>5, <4>1, <4>3, <5>1
      <4> QED BY <4>2, <4>3
    <3>2. CASE e.work \notin works
      <4>1. rw = pw
        BY <2>4, <3>2 DEF Grown
      <4>2. v \in works => rv = pv
        BY <2>4, <3>2 DEF Grown
      <4> QED BY <2>3, <4>1, <4>2
    <3> QED BY <3>1, <3>2
  <2>9. v \in InQueue(rw) <=> v \in works /\ rv # <<>>
    BY <2>3, <2>6, <2>7
  <2>10. v \in InQueue(r) <=> rv # <<>>
    <3>1. r = Grown(p, e, {e.work})
      BY <2>1 DEF Grown
    <3>2. v \in InQueue(r) <=> v \in InQueue(p) \/ v = e.work
      BY <3>1, GrownFacts
    <3> QED BY <2>3, <2>7, <3>2
  <2>11. Num(r, {f \in Entries : f.work = v}) = Len(rv)
    <3>1. Num(r, {f \in Entries : f.work = v})
          = Num(p, {f \in Entries : f.work = v}) + In(e, {f \in Entries : f.work = v})
      BY <2>1, NumAppend
    <3>2. In(e, {f \in Entries : f.work = v}) = IF e.work = v THEN 1 ELSE 0
      BY DEF In
    <3> QED BY <2>3, <2>7, <3>1, <3>2
  <2>12. ASSUME NEW i \in DOMAIN rv PROVE rv[i].work = v
    <3>1. CASE e.work = v
      <4>1. rv = Append(pv, e)
        BY <2>4, <3>1 DEF Grown
      <4>2. /\ Len(pv) \in Nat /\ DOMAIN pv = 1..Len(pv) /\ DOMAIN rv = 1..(Len(pv) + 1)
            /\ rv[Len(pv) + 1] = e /\ \A j \in 1..Len(pv) : rv[j] = pv[j]
        BY <2>3, <4>1, LenProperties, AppendProperties
      <4>3. \A j \in DOMAIN pv : pv[j].work = v
        BY <2>3
      <4>4. i \in 1..(Len(pv) + 1)
        BY <4>2
      <4> HIDE DEF pv, rv
      <4>5. CASE i = Len(pv) + 1
        BY <3>1, <4>2, <4>5
      <4>6. CASE i \in 1..Len(pv)
        BY <4>2, <4>3, <4>6
      <4>7. i = Len(pv) + 1 \/ i \in 1..Len(pv)
        BY <4>2, <4>4
      <4> QED BY <4>5, <4>6, <4>7
    <3>2. CASE e.work # v
      BY <2>3, <2>4, <3>2 DEF Grown
    <3> QED BY <3>1, <3>2
  <2> QED BY <2>6, <2>8, <2>9, <2>10, <2>11, <2>12 DEF OfWorksRight, rw, rv
<1>3. Nat \subseteq Good
  <2> HIDE DEF Good
  <2> QED BY <1>1, <1>2, Induction
<1>4. Len(q) \in Nat
  BY LenProperties
<1> QED BY <1>3, <1>4

----------------------------------------------------------------------------
(* What the invariant says of one work *)

\* The sinks in the task, those that leave it, and what a message is.
LEMMA SinkFacts ==
  /\ Sinks = {"input", "failed_attempt", "create", "route", "forward", "executor_output", "execute",
              "timestamped_result", "converted_public_output", "conversion_failed", "convert",
              "store_success", "store_failure", "success_input", "failure_input", "left", "right"}
  /\ Exits = {"successful_task_result", "executor_failure", "task_output", "error"}
  /\ \A m : Moves(m) <=> m.sink \notin {"successful_task_result", "executor_failure", "failure_input"}
  /\ \A m \in Messages : m.sink \in Sinks \cup Exits /\ m.body \in Bodies /\ m.target \in Neurons \cup {NoNeuron}
  /\ NoMessage.sink = "none" /\ NoMessage.body = "value" /\ NoMessage \notin Messages
  /\ NumNeurons \in Nat \ {0} /\ MaxAttempts \in Nat /\ NoNeuron \in Nat
<1>1. Sinks = {"input", "failed_attempt", "create", "route", "forward", "executor_output", "execute",
              "timestamped_result", "converted_public_output", "conversion_failed", "convert",
              "store_success", "store_failure", "success_input", "failure_input", "left", "right"}
  BY DEF Sinks, Actor
<1>2. Exits = {"successful_task_result", "executor_failure", "task_output", "error"}
  BY DEF Exits, OnChild, Verdicts
<1>3. \A m : Moves(m) <=> m.sink \notin {"successful_task_result", "executor_failure", "failure_input"}
  BY DEF Moves, OnChild
<1>4. \A m \in Messages : m.sink \in Sinks \cup Exits /\ m.body \in Bodies /\ m.target \in Neurons \cup {NoNeuron}
  BY DEF Messages
<1>5. NoMessage.sink = "none" /\ NoMessage.body = "value"
  BY DEF NoMessage, Message
<1>6. NoMessage \notin Messages
  <2>1. "none" \notin Sinks \cup Exits
    BY <1>1, <1>2
  <2> QED BY <1>4, <1>5, <2>1
<1> QED BY <1>1, <1>2, <1>3, <1>4, <1>5, <1>6, TaskAssumption DEF NoNeuron

\* A message that is made up is a message.
LEMMA MadeUp ==
  ASSUME NEW s \in Sinks \cup Exits, NEW b \in Bodies, NEW n \in Neurons \cup {NoNeuron}
  PROVE  /\ Message(s, b, n) \in Messages
         /\ Message(s, b, n).sink = s /\ Message(s, b, n).body = b /\ Message(s, b, n).target = n
BY DEF Message, Messages

\* The places of a work are counted by natural numbers.
LEMMA PlaceTypes ==
  ASSUME NEW x, Typed(x)
  PROVE  /\ \A S : Num(x.bus, S) \in Nat /\ Num(x.inbox, S) \in Nat /\ Num(x.out, S) \in Nat /\ Num(x.stored, S) \in Nat
         /\ Len(x.queue) \in Nat /\ (Len(x.queue) = 0 <=> x.queue = <<>>)
         /\ One(x.open) \in {0, 1} /\ (One(x.open) = 1 <=> x.open)
         /\ One(x.timer) \in {0, 1} /\ (One(x.timer) = 1 <=> x.timer)
         /\ One(x.lost) \in {0, 1} /\ (One(x.lost) = 1 <=> x.lost)
         /\ One(x.last = NoMessage) \in {0, 1} /\ (One(x.last = NoMessage) = 1 <=> x.last = NoMessage)
<1>1. x.bus \in Seq(Messages) /\ x.inbox \in Seq(Messages) /\ x.out \in Seq(Outs) /\ x.stored \in Seq(Results)
      /\ x.queue \in Seq(Entries)
  BY DEF Typed
<1>2. \A S : Num(x.bus, S) \in Nat /\ Num(x.inbox, S) \in Nat /\ Num(x.out, S) \in Nat /\ Num(x.stored, S) \in Nat
  BY <1>1, NumType
<1>3. Len(x.queue) \in Nat /\ (Len(x.queue) = 0 <=> x.queue = <<>>)
  BY <1>1, LenProperties, EmptySeq
<1> QED BY <1>2, <1>3 DEF One

\* Without a mover on the bus, it holds reports of failures only.
LEMMA QuietBus ==
  ASSUME NEW x, Typed(x), Ordered(x), Num(x.bus, Movers) = 0
  PROVE  \A k \in DOMAIN x.bus : x.bus[k] \in Messages /\ x.bus[k].sink = "executor_failure"
<1>1. x.bus \in Seq(Messages)
  BY DEF Typed
<1>2. \A k \in DOMAIN x.bus : x.bus[k] \in Messages /\ x.bus[k] \notin Movers
  <2>1. DOMAIN x.bus = 1..Len(x.bus)
    BY <1>1, LenProperties
  <2> QED BY <1>1, <2>1, NumFacts, ElementOfSeq
<1>3. SUFFICES ASSUME NEW k \in DOMAIN x.bus PROVE x.bus[k].sink = "executor_failure"
  BY <1>2
<1>4. x.bus[k].sink \in {"successful_task_result", "executor_failure", "failure_input"}
  BY <1>2, SinkFacts DEF Movers
<1>5. CASE x.bus[k].sink = "failure_input"
  <2>1. k + 1 \in DOMAIN x.bus /\ x.bus[k + 1].sink = "failed_attempt"
    BY <1>5 DEF Ordered
  <2>2. x.bus[k + 1] \in Movers
    BY <1>2, <2>1, SinkFacts DEF Movers
  <2> QED BY <1>2, <2>1, <2>2
<1>6. CASE x.bus[k].sink = "successful_task_result"
  <2>1. k + 1 \in DOMAIN x.bus /\ x.bus[k + 1].sink = "task_output"
    BY <1>6 DEF Ordered
  <2>2. x.bus[k + 1] \in Movers
    BY <1>2, <2>1, SinkFacts DEF Movers
  <2> QED BY <1>2, <2>1, <2>2
<1> QED BY <1>4, <1>5, <1>6

\* Without a mover in the inbox, it holds results to report only.
LEMMA QuietInbox ==
  ASSUME NEW x, Typed(x), Ordered(x), Num(x.inbox, Movers) = 0
  PROVE  \A k \in DOMAIN x.inbox : x.inbox[k] \in Messages /\ x.inbox[k].sink = "failure_input"
<1>1. x.inbox \in Seq(Messages)
  BY DEF Typed
<1>2. \A k \in DOMAIN x.inbox : x.inbox[k] \in Messages /\ x.inbox[k] \notin Movers
  <2>1. DOMAIN x.inbox = 1..Len(x.inbox)
    BY <1>1, LenProperties
  <2> QED BY <1>1, <2>1, NumFacts, ElementOfSeq
<1> QED BY <1>2, SinkFacts DEF Movers, Ordered

\* Without a verdict, nothing that left is one.
LEMMA QuietOut ==
  ASSUME NEW x, Typed(x)
  PROVE  /\ \A k \in DOMAIN x.out : x.out[k] \in Outs
         /\ Num(x.out, VerdictsLeft) = 0 <=> \A k \in DOMAIN x.out : x.out[k].sink \notin Verdicts
<1>1. x.out \in Seq(Outs)
  BY DEF Typed
<1>2. \A k \in DOMAIN x.out : x.out[k] \in Outs
  <2>1. DOMAIN x.out = 1..Len(x.out)
    BY <1>1, LenProperties
  <2> QED BY <1>1, <2>1, ElementOfSeq
<1>3. Num(x.out, VerdictsLeft) = 0 <=> \A k \in DOMAIN x.out : x.out[k] \notin VerdictsLeft
  BY <1>1, NumFacts
<1> QED BY <1>2, <1>3 DEF VerdictsLeft

\* A handler that has the message which moves the work on has it alone.
Alone(x, i) ==
  /\ x.inbox[i] \in Messages /\ x.inbox[i].sink \in Sinks /\ x.inbox[i] \in Movers
  /\ x.inbox[i] = x.last /\ x.last # NoMessage
  /\ Agrees(x.inbox[i], x.data, x.ran)
  /\ ~x.open /\ ~x.timer /\ ~x.lost /\ x.queue = <<>>
  /\ Num(x.bus, Movers) = 0 /\ Num(x.inbox, Movers) = 1 /\ Num(x.out, VerdictsLeft) = 0
  /\ \A k \in DOMAIN x.bus : x.bus[k] \in Messages /\ x.bus[k].sink = "executor_failure"
  /\ \A k \in DOMAIN x.inbox : k # i => x.inbox[k] \in Messages /\ x.inbox[k].sink = "failure_input"
  /\ \A k \in DOMAIN x.out : x.out[k].sink \notin Verdicts
  /\ \A S \in SUBSET Movers : Num(x.bus, S) = 0

\* The invariant says so.
LEMMA MoverAlone ==
  ASSUME NEW x, NEW c, WorkInv(x, c), NEW i \in DOMAIN x.inbox, x.inbox[i].sink # "failure_input"
  PROVE  Alone(x, i)
<1>1. Typed(x) /\ Ordered(x) /\ Places(x) <= 1
  BY DEF WorkInv, InOnePlace
<1>2. x.bus \in Seq(Messages) /\ x.inbox \in Seq(Messages)
  BY <1>1 DEF Typed
<1>3. x.inbox[i] \in Messages /\ x.inbox[i].sink \in Sinks /\ x.inbox[i] = x.last
  <2>1. DOMAIN x.inbox = 1..Len(x.inbox)
    BY <1>2, LenProperties
  <2> QED BY <1>1, <1>2, <2>1, ElementOfSeq DEF Ordered
<1>4. x.inbox[i] \in Movers
  BY <1>3, SinkFacts DEF Movers
<1>5. Num(x.inbox, Movers) # 0
  BY <1>2, <1>4, NumFacts
<1>6. /\ Num(x.bus, Movers) = 0 /\ Num(x.inbox, Movers) = 1 /\ Num(x.out, VerdictsLeft) = 0
      /\ ~x.open /\ ~x.timer /\ ~x.lost /\ x.queue = <<>> /\ x.last # NoMessage
  <2>1. Num(x.bus, Movers) \in Nat /\ Num(x.inbox, Movers) \in Nat /\ Num(x.out, VerdictsLeft) \in Nat
    BY <1>1, PlaceTypes
  <2>2. /\ Len(x.queue) \in Nat /\ (Len(x.queue) = 0 <=> x.queue = <<>>)
        /\ One(x.open) \in {0, 1} /\ (One(x.open) = 1 <=> x.open)
        /\ One(x.timer) \in {0, 1} /\ (One(x.timer) = 1 <=> x.timer)
        /\ One(x.lost) \in {0, 1} /\ (One(x.lost) = 1 <=> x.lost)
        /\ One(x.last = NoMessage) \in {0, 1} /\ (One(x.last = NoMessage) = 1 <=> x.last = NoMessage)
    BY <1>1, PlaceTypes
  <2> DEFINE b == Num(x.bus, Movers)
             n == Num(x.inbox, Movers)
             o == Num(x.out, VerdictsLeft)
             q == Len(x.queue)
  <2>3. b + n + o + q + One(x.open) + One(x.timer) + One(x.lost) + One(x.last = NoMessage) <= 1 /\ n # 0
    BY <1>1, <1>5 DEF Places
  <2>4. b = 0 /\ n = 1 /\ o = 0 /\ q = 0 /\ One(x.open) = 0 /\ One(x.timer) = 0 /\ One(x.lost) = 0
        /\ One(x.last = NoMessage) = 0
    <3> HIDE DEF b, n, o, q
    <3> QED BY <2>1, <2>2, <2>3 DEF b, n, o, q
  <2> QED BY <2>2, <2>4
<1>7. \A k \in DOMAIN x.inbox : k # i => x.inbox[k] \in Messages /\ x.inbox[k].sink = "failure_input"
  <2> SUFFICES ASSUME NEW k \in DOMAIN x.inbox, k # i PROVE x.inbox[k] \in Messages /\ x.inbox[k].sink = "failure_input"
    OBVIOUS
  <2>1. x.inbox[k] \in Messages
    <3>1. DOMAIN x.inbox = 1..Len(x.inbox)
      BY <1>2, LenProperties
    <3> QED BY <1>2, <3>1, ElementOfSeq
  <2>2. x.inbox[k] \notin Movers
    <3>1. Num(x.inbox, Movers) <= 1
      BY <1>6
    <3> QED BY <1>2, <1>4, <3>1, NumFacts
  <2> QED BY <1>1, <2>1, <2>2, SinkFacts DEF Movers, Ordered
<1>8. \A k \in DOMAIN x.bus : x.bus[k] \in Messages /\ x.bus[k].sink = "executor_failure"
  BY <1>1, <1>6, QuietBus
<1>9. \A k \in DOMAIN x.out : x.out[k].sink \notin Verdicts
  BY <1>1, <1>6, QuietOut
<1>10. ASSUME NEW S \in SUBSET Movers PROVE Num(x.bus, S) = 0
  <2>1. Num(x.bus, S) <= Num(x.bus, Movers) /\ Num(x.bus, S) \in Nat
    BY <1>1, <1>2, NumFacts, PlaceTypes
  <2> QED BY <1>6, <2>1
<1>11. Agrees(x.inbox[i], x.data, x.ran)
  BY DEF WorkInv, MessagesAgree
<1> QED BY <1>3, <1>4, <1>6, <1>7, <1>8, <1>9, <1>10, <1>11 DEF Alone

----------------------------------------------------------------------------
(* A handler's answer *)

\* The i-th message of the inbox is answered with msgs.
Taken(x, y, i, msgs) ==
  /\ i \in DOMAIN x.inbox /\ msgs \in Seq(Messages)
  /\ y.inbox = RemoveAt(x.inbox, i) /\ y.bus = x.bus \o msgs
  /\ y.last = x.last /\ y.out = x.out /\ y.issued = x.issued

\* What is where, and counted how, after an answer.
LEMMA TakenFacts ==
  ASSUME NEW x, NEW y, NEW i, NEW msgs, Typed(x), Taken(x, y, i, msgs)
  PROVE  /\ y.bus \in Seq(Messages) /\ y.inbox \in Seq(Messages)
         /\ \A k \in DOMAIN y.inbox : \E j \in DOMAIN x.inbox : j # i /\ y.inbox[k] = x.inbox[j]
         /\ GoesOn(y.bus, x.bus, msgs)
         /\ \A S : Num(y.inbox, S) = Num(x.inbox, S) - In(x.inbox[i], S)
<1>1. x.bus \in Seq(Messages) /\ x.inbox \in Seq(Messages) /\ msgs \in Seq(Messages) /\ i \in DOMAIN x.inbox
      /\ y.inbox = RemoveAt(x.inbox, i) /\ y.bus = x.bus \o msgs
  BY DEF Typed, Taken
<1>2. /\ RemoveAt(x.inbox, i) \in Seq(Messages)
      /\ \A k \in DOMAIN RemoveAt(x.inbox, i) : \E j \in DOMAIN x.inbox : j # i /\ RemoveAt(x.inbox, i)[k] = x.inbox[j]
      /\ \A S : Num(RemoveAt(x.inbox, i), S) = Num(x.inbox, S) - In(x.inbox[i], S)
  BY <1>1, RemovedFacts
<1>3. x.bus \o msgs \in Seq(Messages) /\ GoesOn(x.bus \o msgs, x.bus, msgs)
  BY <1>1, ConcatFacts
<1> QED BY <1>1, <1>2, <1>3

\* The work says msgs and nothing else but reports; m is the message that moved it on, if any.
Says(x, y, m, msgs) ==
  /\ y.bus \in Seq(Messages) /\ y.inbox \in Seq(Messages) /\ msgs \in Seq(Messages)
  /\ GoesOn(y.bus, x.bus, msgs)
  /\ \A k \in DOMAIN x.bus : x.bus[k] \in Messages /\ x.bus[k].sink = "executor_failure"
  /\ \A k \in DOMAIN y.inbox : \E j \in DOMAIN x.inbox :
       y.inbox[k] = x.inbox[j] /\ x.inbox[j] \in Messages /\ x.inbox[j].sink = "failure_input"
  /\ \A k \in DOMAIN x.out : x.out[k].sink \notin Verdicts
  /\ Num(x.out, VerdictsLeft) = 0
  /\ \A S \in SUBSET Movers : Num(x.bus, S) = 0 /\ Num(y.inbox, S) = 0
  /\ Num(y.inbox, To("failure_input")) = Num(x.inbox, To("failure_input"))
  /\ Num(x.inbox, To("success_input")) = In(m, To("success_input"))
  /\ x.last # NoMessage
  /\ y.last = x.last /\ y.out = x.out /\ y.issued = x.issued

\* A handler says its answer.
LEMMA HandledSays ==
  ASSUME NEW x, NEW y, NEW i, NEW msgs, Typed(x), Alone(x, i), Taken(x, y, i, msgs)
  PROVE  Says(x, y, x.inbox[i], msgs)
<1> DEFINE m == x.inbox[i]
<1>1. y.bus \in Seq(Messages) /\ y.inbox \in Seq(Messages) /\ msgs \in Seq(Messages)
  BY TakenFacts DEF Taken
<1>2. GoesOn(y.bus, x.bus, msgs)
  BY TakenFacts
<1>3. \A k \in DOMAIN y.inbox : \E j \in DOMAIN x.inbox : j # i /\ y.inbox[k] = x.inbox[j]
  BY TakenFacts
<1>4. \A S : Num(y.inbox, S) = Num(x.inbox, S) - In(x.inbox[i], S)
  BY TakenFacts
<1>5. \A k \in DOMAIN x.inbox : k # i => x.inbox[k] \in Messages /\ x.inbox[k].sink = "failure_input"
  BY DEF Alone
<1>6. \A k \in DOMAIN y.inbox : \E j \in DOMAIN x.inbox :
        y.inbox[k] = x.inbox[j] /\ x.inbox[j] \in Messages /\ x.inbox[j].sink = "failure_input"
  BY <1>3, <1>5
<1>7. Num(x.inbox, Movers) = 1 /\ In(m, Movers) = 1 /\ m \in Movers
  BY DEF Alone, In
<1>8. ASSUME NEW S \in SUBSET Movers PROVE Num(y.inbox, S) = 0
  <2>1. Num(y.inbox, Movers) = 0
    BY <1>4, <1>7
  <2>2. Num(y.inbox, S) <= Num(y.inbox, Movers) /\ Num(y.inbox, S) \in Nat
    BY <1>1, NumFacts, NumType
  <2> QED BY <2>1, <2>2
<1>9. Num(y.inbox, To("failure_input")) = Num(x.inbox, To("failure_input"))
  <2>1. Num(y.inbox, To("failure_input")) = Num(x.inbox, To("failure_input")) - In(m, To("failure_input"))
    BY <1>4
  <2>2. In(m, To("failure_input")) = 0
    BY <1>7, SinkFacts DEF In, To, Movers
  <2>3. Num(x.inbox, To("failure_input")) \in Nat
    BY PlaceTypes
  <2> QED BY <2>1, <2>2, <2>3
<1>10. Num(x.inbox, To("success_input")) = In(m, To("success_input"))
  <2>1. To("success_input") \subseteq Movers
    BY SinkFacts DEF To, Movers
  <2>2. Num(y.inbox, To("success_input")) = Num(x.inbox, To("success_input")) - In(m, To("success_input"))
    BY <1>4
  <2>3. Num(x.inbox, To("success_input")) \in Nat /\ In(m, To("success_input")) \in Nat
    BY PlaceTypes DEF In
  <2>4. Num(y.inbox, To("success_input")) = 0
    BY <1>8, <2>1
  <2> QED BY <2>2, <2>3, <2>4
<1>11. /\ \A k \in DOMAIN x.bus : x.bus[k] \in Messages /\ x.bus[k].sink = "executor_failure"
       /\ \A k \in DOMAIN x.out : x.out[k].sink \notin Verdicts
       /\ Num(x.out, VerdictsLeft) = 0
       /\ \A S \in SUBSET Movers : Num(x.bus, S) = 0
       /\ x.last # NoMessage
  BY DEF Alone
<1>12. y.last = x.last /\ y.out = x.out /\ y.issued = x.issued
  BY DEF Taken
<1> QED BY <1>1, <1>2, <1>6, <1>8, <1>9, <1>10, <1>11, <1>12 DEF Says

\* Of two messages returned together, the one that moves the work on is the last.
Paired(msgs) ==
  \A k \in DOMAIN msgs :
    /\ msgs[k].sink # "input"
    /\ msgs[k].sink = "failure_input" => k + 1 \in DOMAIN msgs /\ msgs[k + 1].sink = "failed_attempt"
    /\ msgs[k].sink = "successful_task_result" => k + 1 \in DOMAIN msgs /\ msgs[k + 1].sink = "task_output"

\* The rest of y is of its type.
SideTyped(y) ==
  /\ y.data \in Records /\ y.open \in BOOLEAN /\ y.timer \in BOOLEAN /\ y.lost \in BOOLEAN
  /\ y.queue \in Seq(Entries) /\ y.stored \in Seq(Results) /\ y.ran \in Neurons \cup {NoNeuron}

\* What the invariant asks of the messages msgs that move a work on.
Fits(x, y, msgs) ==
  /\ SideTyped(y)
  /\ Num(msgs, Movers) + Len(y.queue) + One(y.open) + One(y.timer) + One(y.lost) = 1
  /\ Paired(msgs)
  /\ y.data.attempts > 0 /\ y.data.attempts >= x.data.attempts
  /\ Agrees(x.last, y.data, y.ran)
  /\ \A k \in DOMAIN msgs : Agrees(msgs[k], y.data, y.ran)
  /\ \A k \in DOMAIN y.queue : y.queue[k].target = y.ran
  /\ y.open => y.data.started /\ y.data.input = y.ran
  /\ y.timer => y.data.attempts < MaxAttempts
  /\ y.data.pending = "set" =>
       /\ y.data.of = y.ran /\ Late(x.last) /\ ~y.open /\ ~y.timer /\ y.queue = <<>>
       /\ \A k \in DOMAIN msgs : Moves(msgs[k]) => Late(msgs[k])
  /\ x.issued + Num(msgs, To("create")) <= y.data.attempts
  /\ x.issued + Num(msgs, To("create")) <= Cap

\* And what it asks as long as the process has not crashed.
FitsUncrashed(x, y, m, msgs) ==
  /\ SideTyped(y)
  /\ y.data.attempts = x.issued + Num(msgs, To("create"))
  /\ Num(msgs, To("executor_failure")) = 0
  /\ Num(y.stored, ResultsOf("failure")) = Num(x.stored, ResultsOf("failure")) + Num(msgs, To("failure_input"))
  /\ Num(y.stored, ResultsOf("success"))
     = Num(x.stored, ResultsOf("success")) - In(m, To("success_input"))
       + Num(msgs, To("success_input")) + Num(msgs, To("task_output"))
  /\ Num(msgs, To("successful_task_result")) = Num(msgs, To("task_output"))
  /\ \A k \in DOMAIN msgs : PendingExact(msgs[k], y.data)

\* A work that says what fits keeps its invariant.
LEMMA WorkSays ==
  ASSUME NEW x, NEW y, NEW c, NEW m, NEW msgs, WorkInv(x, c), Says(x, y, m, msgs), Fits(x, y, msgs)
  PROVE  WorkInv(y, c)
<1>1. Typed(x)
  BY DEF WorkInv
<1>2. /\ \A k \in DOMAIN x.out : x.out[k].sink \notin Verdicts
      /\ x.last # NoMessage
  BY DEF Says
<1>3. /\ y.bus \in Seq(Messages) /\ y.inbox \in Seq(Messages) /\ msgs \in Seq(Messages)
      /\ \A k \in DOMAIN x.bus : k \in DOMAIN y.bus /\ y.bus[k] = x.bus[k]
      /\ \A k \in DOMAIN msgs : Len(x.bus) + k \in DOMAIN y.bus /\ y.bus[Len(x.bus) + k] = msgs[k]
      /\ \A k \in DOMAIN y.bus : k \in DOMAIN x.bus \/ (\E j \in DOMAIN msgs : k = Len(x.bus) + j)
  BY DEF GoesOn, Says
<1>4. \A S : Num(y.bus, S) = Num(x.bus, S) + Num(msgs, S)
  BY DEF GoesOn, Says
<1>5. y.last = x.last /\ y.out = x.out /\ y.issued = x.issued
  BY DEF Says
<1>6. \A k \in DOMAIN y.inbox : y.inbox[k] \in Messages /\ y.inbox[k].sink = "failure_input"
      /\ \E j \in DOMAIN x.inbox : y.inbox[k] = x.inbox[j]
  BY DEF Says
<1>7. \A k \in DOMAIN y.bus : \/ /\ y.bus[k] \in Messages /\ y.bus[k].sink = "executor_failure"
                                /\ k \in DOMAIN x.bus /\ y.bus[k] = x.bus[k]
                              \/ \E j \in DOMAIN msgs : k = Len(x.bus) + j /\ y.bus[k] = msgs[j]
  <2>1. \A k \in DOMAIN x.bus : x.bus[k] \in Messages /\ x.bus[k].sink = "executor_failure"
    BY DEF Says
  <2> QED BY <1>3, <2>1
<1>8. Typed(y)
  BY <1>1, <1>3, <1>5 DEF Typed, Fits, SideTyped
<1>9. Places(y) = 1
  <2>1. Num(y.bus, Movers) = Num(msgs, Movers) /\ Num(y.inbox, Movers) = 0 /\ Num(y.out, VerdictsLeft) = 0
    <3>1. Num(msgs, Movers) \in Nat
      BY <1>3, NumType
    <3>2. Num(x.bus, Movers) = 0 /\ Num(y.inbox, Movers) = 0 /\ Num(x.out, VerdictsLeft) = 0
      BY DEF Says
    <3>3. Num(y.bus, Movers) = Num(x.bus, Movers) + Num(msgs, Movers)
      BY <1>4
    <3> QED BY <1>5, <3>1, <3>2, <3>3
  <2>2. One(y.last = NoMessage) = 0
    BY <1>2, <1>5 DEF One
  <2>3. Num(msgs, Movers) + Len(y.queue) + One(y.open) + One(y.timer) + One(y.lost) = 1
    BY DEF Fits
  <2>4. Len(y.queue) \in Nat /\ One(y.open) \in Nat /\ One(y.timer) \in Nat /\ One(y.lost) \in Nat
        /\ Num(y.bus, Movers) \in Nat
    BY <1>8, PlaceTypes
  <2> QED BY <2>1, <2>2, <2>3, <2>4 DEF Places
<1>10. InOnePlace(y, c)
  BY <1>9 DEF InOnePlace
<1>11. Untouched(y)
  BY <1>2, <1>5 DEF Untouched
<1>12. Ordered(y)
  <2>1. \A k \in DOMAIN y.inbox : y.inbox[k].sink \in Sinks /\ y.inbox[k].sink = "failure_input"
    BY <1>6, SinkFacts
  <2>2. ASSUME NEW k \in DOMAIN y.bus
        PROVE  /\ y.bus[k].sink # "input"
               /\ y.bus[k].sink = "failure_input" => k + 1 \in DOMAIN y.bus /\ y.bus[k + 1].sink = "failed_attempt"
               /\ y.bus[k].sink = "successful_task_result" => k + 1 \in DOMAIN y.bus /\ y.bus[k + 1].sink = "task_output"
    <3>1. CASE y.bus[k].sink = "executor_failure"
      BY <3>1
    <3>2. ASSUME NEW j \in DOMAIN msgs, k = Len(x.bus) + j, y.bus[k] = msgs[j]
          PROVE  /\ y.bus[k].sink # "input"
                 /\ y.bus[k].sink = "failure_input" => k + 1 \in DOMAIN y.bus /\ y.bus[k + 1].sink = "failed_attempt"
                 /\ y.bus[k].sink = "successful_task_result" => k + 1 \in DOMAIN y.bus /\ y.bus[k + 1].sink = "task_output"
      <4>1. /\ msgs[j].sink # "input"
            /\ msgs[j].sink = "failure_input" => j + 1 \in DOMAIN msgs /\ msgs[j + 1].sink = "failed_attempt"
            /\ msgs[j].sink = "successful_task_result" => j + 1 \in DOMAIN msgs /\ msgs[j + 1].sink = "task_output"
        BY DEF Fits, Paired
      <4>2. Len(x.bus) \in Nat /\ j \in Nat
        <5>1. x.bus \in Seq(Messages) /\ msgs \in Seq(Messages)
          BY <1>1, <1>3 DEF Typed
        <5>2. DOMAIN msgs = 1..Len(msgs)
          BY <5>1, LenProperties
        <5> QED BY <5>1, <5>2, LenProperties
      <4>3. Len(x.bus) + (j + 1) = k + 1
        BY <3>2, <4>2
      <4>4. j + 1 \in DOMAIN msgs => k + 1 \in DOMAIN y.bus /\ y.bus[k + 1] = msgs[j + 1]
        BY <1>3, <4>3
      <4> QED BY <3>2, <4>1, <4>4
    <3> QED BY <1>7, <3>1, <3>2
  <2>3. \A k \in DOMAIN y.out : y.out[k].sink \in Verdicts => y.last.sink \in Verdicts
    BY <1>2, <1>5
  <2> QED BY <2>1, <2>2, <2>3 DEF Ordered
<1>13. MessagesAgree(y)
  <2>1. ASSUME NEW n \in Messages, Agrees(n, x.data, x.ran), n.sink \in {"failure_input", "executor_failure"}
        PROVE  Agrees(n, y.data, y.ran)
    <3>1. n.body # "exhausted"
      BY <2>1, SinkFacts DEF Agrees
    <3> QED BY <2>1, <3>1 DEF Agrees, Fits, Claims
  <2>2. \A k \in DOMAIN y.bus : Agrees(y.bus[k], y.data, y.ran)
    <3>1. \A k \in DOMAIN x.bus : Agrees(x.bus[k], x.data, x.ran)
      BY DEF WorkInv, MessagesAgree
    <3>2. \A k \in DOMAIN msgs : Agrees(msgs[k], y.data, y.ran)
      BY DEF Fits
    <3> QED BY <1>7, <2>1, <3>1, <3>2
  <2>3. \A k \in DOMAIN y.inbox : Agrees(y.inbox[k], y.data, y.ran)
    <3>1. \A k \in DOMAIN x.inbox : Agrees(x.inbox[k], x.data, x.ran)
      BY DEF WorkInv, MessagesAgree
    <3> QED BY <1>6, <2>1, <3>1
  <2>4. Agrees(y.last, y.data, y.ran)
    BY <1>5 DEF Fits
  <2>5. \A k \in DOMAIN y.out : y.out[k].body = "exhausted" => y.out[k].sink = "error" /\ y.data.attempts >= MaxAttempts
    BY <1>2, <1>5, SinkFacts DEF WorkInv, MessagesAgree, Verdicts
  <2>6. /\ \A k \in DOMAIN y.queue : y.queue[k].target = y.ran
        /\ y.queue # <<>> => y.data.attempts > 0
        /\ y.open => y.data.attempts > 0 /\ y.data.started /\ y.data.input = y.ran
        /\ y.timer => y.data.attempts > 0 /\ y.data.attempts < MaxAttempts
    BY DEF Fits
  <2> QED BY <2>2, <2>3, <2>4, <2>5, <2>6 DEF MessagesAgree
<1>14. PendingAgrees(y)
  <2>1. \A k \in DOMAIN y.inbox : ~Moves(y.inbox[k])
    BY <1>6, SinkFacts
  <2> SUFFICES ASSUME y.data.pending = "set"
      PROVE  /\ y.data.of = y.ran /\ Late(y.last) /\ ~y.open /\ ~y.timer /\ y.queue = <<>>
             /\ \A k \in DOMAIN y.bus : Moves(y.bus[k]) => Late(y.bus[k])
    BY <2>1 DEF PendingAgrees
  <2>2. /\ y.data.of = y.ran /\ Late(y.last) /\ ~y.open /\ ~y.timer /\ y.queue = <<>>
        /\ \A k \in DOMAIN msgs : Moves(msgs[k]) => Late(msgs[k])
    BY <1>5 DEF Fits
  <2>3. \A k \in DOMAIN y.bus : Moves(y.bus[k]) => Late(y.bus[k])
    BY <1>7, <2>2, SinkFacts
  <2> QED BY <2>2, <2>3
<1>15. AttemptsCounted(y)
  <2>1. To("create") \subseteq Movers
    BY SinkFacts DEF To, Movers
  <2>2. Num(x.bus, To("create")) = 0
    BY <2>1 DEF Says
  <2>3. msgs \in Seq(Messages) /\ Num(msgs, To("create")) \in Nat
    BY <1>3, NumType
  <2>4. Num(y.bus, To("create")) = Num(msgs, To("create"))
    BY <1>4, <2>2, <2>3
  <2>5. x.issued + Num(msgs, To("create")) <= y.data.attempts /\ x.issued + Num(msgs, To("create")) <= Cap
    BY DEF Fits
  <2>6. y.last.sink \in {"none", "input"} => y.issued = 0
    BY <1>5 DEF WorkInv, AttemptsCounted
  <2> QED BY <1>5, <2>4, <2>5, <2>6 DEF AttemptsCounted
<1> QED BY <1>8, <1>10, <1>11, <1>12, <1>13, <1>14, <1>15 DEF WorkInv

\* So does what holds without crashes.
LEMMA UncrashedSays ==
  ASSUME NEW x, NEW y, NEW m, NEW msgs, Typed(x), UncrashedInv(x), Says(x, y, m, msgs),
         FitsUncrashed(x, y, m, msgs)
  PROVE  UncrashedInv(y)
<1>1. msgs \in Seq(Messages)
  BY DEF Says
<1>3. y.last = x.last /\ y.out = x.out /\ y.issued = x.issued
  BY DEF Says
<1>4. /\ \A S : Num(y.bus, S) = Num(x.bus, S) + Num(msgs, S)
      /\ Num(y.inbox, To("failure_input")) = Num(x.inbox, To("failure_input"))
      /\ Num(x.inbox, To("success_input")) = In(m, To("success_input"))
      /\ Num(y.inbox, To("success_input")) = 0
  <2>1. To("success_input") \subseteq Movers
    BY SinkFacts DEF To, Movers
  <2> QED BY <2>1 DEF Says, GoesOn
<1>5. \A S : Num(msgs, S) \in Nat /\ Num(y.stored, S) \in Nat
  BY <1>1, NumType DEF SideTyped, FitsUncrashed
<1>6. \A S : Num(x.bus, S) \in Nat /\ Num(x.inbox, S) \in Nat /\ Num(x.out, S) \in Nat /\ Num(x.stored, S) \in Nat
  BY PlaceTypes
<1>7. y.data.attempts = y.issued + Num(y.bus, To("create"))
  <2>1. To("create") \subseteq Movers
    BY SinkFacts DEF To, Movers
  <2>2. Num(x.bus, To("create")) = 0
    BY <2>1 DEF Says
  <2>3. Num(y.bus, To("create")) = Num(x.bus, To("create")) + Num(msgs, To("create"))
    BY <1>4
  <2>4. Num(msgs, To("create")) \in Nat
    BY <1>5
  <2> QED BY <1>3, <2>2, <2>3, <2>4 DEF FitsUncrashed
<1>8. ResultsCounted(y)
  <2>1. /\ Num(y.bus, To("executor_failure")) = Num(x.bus, To("executor_failure")) + Num(msgs, To("executor_failure"))
        /\ Num(y.bus, To("failure_input")) = Num(x.bus, To("failure_input")) + Num(msgs, To("failure_input"))
        /\ Num(y.bus, To("success_input")) = Num(x.bus, To("success_input")) + Num(msgs, To("success_input"))
        /\ Num(y.bus, To("task_output")) = Num(x.bus, To("task_output")) + Num(msgs, To("task_output"))
        /\ Num(y.bus, To("successful_task_result"))
           = Num(x.bus, To("successful_task_result")) + Num(msgs, To("successful_task_result"))
    BY <1>4
  <2>2. In(m, To("success_input")) \in Nat
    BY DEF In
  <2>3. /\ Num(msgs, To("executor_failure")) = 0
        /\ Num(y.stored, ResultsOf("failure")) = Num(x.stored, ResultsOf("failure")) + Num(msgs, To("failure_input"))
        /\ Num(y.stored, ResultsOf("success"))
           = Num(x.stored, ResultsOf("success")) - In(m, To("success_input"))
             + Num(msgs, To("success_input")) + Num(msgs, To("task_output"))
        /\ Num(msgs, To("successful_task_result")) = Num(msgs, To("task_output"))
    BY DEF FitsUncrashed
  <2>4. ResultsCounted(x)
    BY DEF UncrashedInv
  <2>5. /\ Num(y.out, Left("executor_failure")) + Num(y.bus, To("executor_failure"))
             + Num(y.bus, To("failure_input")) + Num(y.inbox, To("failure_input"))
           = Num(y.stored, ResultsOf("failure"))
    <3>1. Num(x.out, Left("executor_failure")) + Num(x.bus, To("executor_failure"))
             + Num(x.bus, To("failure_input")) + Num(x.inbox, To("failure_input"))
           = Num(x.stored, ResultsOf("failure"))
      BY <2>4 DEF ResultsCounted
    <3>2. Num(x.out, Left("executor_failure")) \in Nat /\ Num(x.bus, To("executor_failure")) \in Nat
          /\ Num(x.bus, To("failure_input")) \in Nat /\ Num(x.inbox, To("failure_input")) \in Nat
          /\ Num(msgs, To("failure_input")) \in Nat /\ Num(x.stored, ResultsOf("failure")) \in Nat
      BY <1>5, <1>6
    <3> QED BY <1>3, <1>4, <2>1, <2>2, <2>3, <3>1, <3>2
  <2>6. Num(y.stored, ResultsOf("success"))
        = Num(y.bus, To("success_input")) + Num(y.inbox, To("success_input"))
          + Num(y.bus, To("task_output")) + Num(y.out, Left("task_output"))
    <3>1. Num(x.stored, ResultsOf("success"))
        = Num(x.bus, To("success_input")) + Num(x.inbox, To("success_input"))
          + Num(x.bus, To("task_output")) + Num(x.out, Left("task_output"))
      BY <2>4 DEF ResultsCounted
    <3>2. Num(x.bus, To("success_input")) \in Nat /\ Num(x.inbox, To("success_input")) \in Nat
          /\ Num(x.bus, To("task_output")) \in Nat /\ Num(x.out, Left("task_output")) \in Nat
          /\ Num(msgs, To("success_input")) \in Nat /\ Num(msgs, To("task_output")) \in Nat
      BY <1>5, <1>6
    <3> QED BY <1>3, <1>4, <2>1, <2>2, <2>3, <3>1, <3>2
  <2>7. /\ Num(y.bus, To("successful_task_result")) + Num(y.out, Left("successful_task_result"))
           = Num(y.bus, To("task_output")) + Num(y.out, Left("task_output"))
        /\ Num(y.bus, To("successful_task_result")) <= Num(y.bus, To("task_output"))
    <3>1. /\ Num(x.bus, To("successful_task_result")) + Num(x.out, Left("successful_task_result"))
             = Num(x.bus, To("task_output")) + Num(x.out, Left("task_output"))
          /\ Num(x.bus, To("successful_task_result")) <= Num(x.bus, To("task_output"))
      BY <2>4 DEF ResultsCounted
    <3>2. Num(x.bus, To("successful_task_result")) \in Nat /\ Num(x.out, Left("successful_task_result")) \in Nat
          /\ Num(x.bus, To("task_output")) \in Nat /\ Num(x.out, Left("task_output")) \in Nat
          /\ Num(msgs, To("successful_task_result")) \in Nat /\ Num(msgs, To("task_output")) \in Nat
      BY <1>5, <1>6
    <3> QED BY <1>3, <2>1, <2>3, <3>1, <3>2
  <2> QED BY <2>5, <2>6, <2>7 DEF ResultsCounted
<1>9. ASSUME NEW n, PendingExact(n, x.data), n.sink \in {"failure_input", "executor_failure"}
      PROVE  PendingExact(n, y.data)
  BY <1>9, SinkFacts DEF PendingExact, Converting
<1>10. /\ \A k \in DOMAIN x.bus : PendingExact(x.bus[k], x.data)
       /\ \A k \in DOMAIN x.inbox : PendingExact(x.inbox[k], x.data)
       /\ \A k \in DOMAIN x.out : x.out[k].body # "internal"
  BY DEF UncrashedInv
<1>11. /\ \A k \in DOMAIN y.inbox : \E j \in DOMAIN x.inbox :
            y.inbox[k] = x.inbox[j] /\ x.inbox[j] \in Messages /\ x.inbox[j].sink = "failure_input"
       /\ \A k \in DOMAIN y.bus :
            \/ \E j \in DOMAIN x.bus : y.bus[k] = x.bus[j] /\ x.bus[j] \in Messages /\ x.bus[j].sink = "executor_failure"
            \/ \E j \in DOMAIN msgs : y.bus[k] = msgs[j]
  <2>1. \A k \in DOMAIN y.inbox : \E j \in DOMAIN x.inbox :
            y.inbox[k] = x.inbox[j] /\ x.inbox[j] \in Messages /\ x.inbox[j].sink = "failure_input"
    BY DEF Says
  <2>2. /\ \A k \in DOMAIN x.bus : x.bus[k] \in Messages /\ x.bus[k].sink = "executor_failure"
        /\ GoesOn(y.bus, x.bus, msgs)
    BY DEF Says
  <2>3. ASSUME NEW k \in DOMAIN y.bus
        PROVE \/ \E j \in DOMAIN x.bus : y.bus[k] = x.bus[j] /\ x.bus[j] \in Messages /\ x.bus[j].sink = "executor_failure"
              \/ \E j \in DOMAIN msgs : y.bus[k] = msgs[j]
    BY <2>2 DEF GoesOn
  <2> QED BY <2>1, <2>3
<1>12. \A k \in DOMAIN msgs : PendingExact(msgs[k], y.data)
  BY DEF FitsUncrashed
<1>13. \A k \in DOMAIN y.bus : PendingExact(y.bus[k], y.data)
  BY <1>9, <1>10, <1>11, <1>12
<1>14. \A k \in DOMAIN y.inbox : PendingExact(y.inbox[k], y.data)
  BY <1>9, <1>10, <1>11
<1> QED BY <1>3, <1>7, <1>8, <1>10, <1>13, <1>14 DEF UncrashedInv

\* The timer, the communicator and a beat say what they say in the same way.
LEMMA EmittedSays ==
  ASSUME NEW x, NEW y, NEW c, NEW msgs \in Seq(Messages), WorkInv(x, c),
         x.open \/ x.timer \/ x.queue # <<>>,
         y.bus = x.bus \o msgs, y.inbox = x.inbox,
         y.last = x.last, y.out = x.out, y.issued = x.issued
  PROVE  Says(x, y, NoMessage, msgs)
<1>1. Typed(x) /\ Ordered(x) /\ Places(x) <= 1 /\ x.bus \in Seq(Messages) /\ x.inbox \in Seq(Messages)
  BY DEF WorkInv, InOnePlace, Typed
<1>2. Num(x.bus, Movers) = 0 /\ Num(x.inbox, Movers) = 0 /\ Num(x.out, VerdictsLeft) = 0 /\ x.last # NoMessage
  <2>1. Num(x.bus, Movers) \in Nat /\ Num(x.inbox, Movers) \in Nat /\ Num(x.out, VerdictsLeft) \in Nat
    BY <1>1, PlaceTypes
  <2>2. /\ Len(x.queue) \in Nat /\ (Len(x.queue) = 0 <=> x.queue = <<>>)
        /\ One(x.open) \in {0, 1} /\ (One(x.open) = 1 <=> x.open)
        /\ One(x.timer) \in {0, 1} /\ (One(x.timer) = 1 <=> x.timer)
        /\ One(x.lost) \in {0, 1}
        /\ One(x.last = NoMessage) \in {0, 1} /\ (One(x.last = NoMessage) = 1 <=> x.last = NoMessage)
    BY <1>1, PlaceTypes
  <2> DEFINE b == Num(x.bus, Movers)
             n == Num(x.inbox, Movers)
             o == Num(x.out, VerdictsLeft)
             q == Len(x.queue)
             a == One(x.open)
             t == One(x.timer)
             l == One(x.lost)
             z == One(x.last = NoMessage)
  <2>3. q # 0 \/ a = 1 \/ t = 1
    BY <2>2
  <2>4. b + n + o + q + a + t + l + z <= 1
    BY <1>1 DEF Places
  <2>5. b \in Nat /\ n \in Nat /\ o \in Nat /\ q \in Nat /\ a \in {0, 1} /\ t \in {0, 1} /\ l \in {0, 1} /\ z \in {0, 1}
    BY <2>1, <2>2
  <2> HIDE DEF b, n, o, q, a, t, l, z
  <2>6. q + a + t >= 1
    BY <2>3, <2>5
  <2>7. b = 0 /\ n = 0 /\ o = 0 /\ z = 0
    BY <2>4, <2>5, <2>6
  <2>8. z # 1
    BY <2>7
  <2> QED BY <2>2, <2>7, <2>8 DEF b, n, o, z
<1>3. /\ \A k \in DOMAIN x.bus : x.bus[k] \in Messages /\ x.bus[k].sink = "executor_failure"
      /\ \A k \in DOMAIN x.inbox : x.inbox[k] \in Messages /\ x.inbox[k].sink = "failure_input"
      /\ \A k \in DOMAIN x.out : x.out[k].sink \notin Verdicts
  BY <1>1, <1>2, QuietBus, QuietInbox, QuietOut
<1>4. ASSUME NEW S \in SUBSET Movers PROVE Num(x.bus, S) = 0 /\ Num(x.inbox, S) = 0
  <2>1. Num(x.bus, S) <= Num(x.bus, Movers) /\ Num(x.bus, S) \in Nat
    BY <1>1, NumFacts, PlaceTypes
  <2>2. Num(x.inbox, S) <= Num(x.inbox, Movers) /\ Num(x.inbox, S) \in Nat
    BY <1>1, NumFacts, PlaceTypes
  <2> QED BY <1>2, <2>1, <2>2
<1>5. To("success_input") \subseteq Movers
  BY SinkFacts DEF To, Movers
<1>6. Num(x.inbox, To("success_input")) = In(NoMessage, To("success_input"))
  <2>1. In(NoMessage, To("success_input")) = 0
    BY SinkFacts DEF In, To
  <2> QED BY <1>4, <1>5, <2>1
<1>7. y.bus \in Seq(Messages) /\ GoesOn(y.bus, x.bus, msgs)
  BY <1>1, ConcatFacts
<1>8. \A k \in DOMAIN y.inbox : \E j \in DOMAIN x.inbox :
        y.inbox[k] = x.inbox[j] /\ x.inbox[j] \in Messages /\ x.inbox[j].sink = "failure_input"
  BY <1>3
<1> QED BY <1>1, <1>2, <1>3, <1>4, <1>6, <1>7, <1>8 DEF Says

\* All else of a work is as it was.
SameRest(x, y) ==
  /\ y.data = x.data /\ y.open = x.open /\ y.timer = x.timer /\ y.queue = x.queue
  /\ y.lost = x.lost /\ y.stored = x.stored /\ y.ran = x.ran

\* The dispatcher reports a failure.
LEMMA Reported ==
  ASSUME NEW x, NEW y, NEW c, NEW i, NEW e, WorkInv(x, c), Taken(x, y, i, <<e>>), SameRest(x, y),
         x.inbox[i].sink = "failure_input", e = Message("executor_failure", "failure", NoNeuron)
  PROVE  WorkInv(y, c) /\ (UncrashedInv(x) => UncrashedInv(y))
<1> DEFINE m == x.inbox[i]
<1>1. Typed(x) /\ Ordered(x) /\ x.bus \in Seq(Messages) /\ x.inbox \in Seq(Messages) /\ i \in DOMAIN x.inbox
  BY DEF WorkInv, Typed, Taken
<1>2. e \in Messages /\ e.sink = "executor_failure" /\ e.body = "failure"
  BY SinkFacts, MadeUp DEF Bodies
<1>3. /\ y.bus \in Seq(Messages) /\ y.inbox \in Seq(Messages)
      /\ \A k \in DOMAIN y.inbox : \E j \in DOMAIN x.inbox : j # i /\ y.inbox[k] = x.inbox[j]
      /\ \A S : Num(y.inbox, S) = Num(x.inbox, S) - In(x.inbox[i], S)
  <2>1. \A S : Num(y.inbox, S) = Num(x.inbox, S) - In(x.inbox[i], S)
    <3>1. y.inbox = RemoveAt(x.inbox, i)
      BY DEF Taken
    <3>2. \A S : Num(RemoveAt(x.inbox, i), S) = Num(x.inbox, S) - In(x.inbox[i], S)
      BY <1>1, RemovedFacts
    <3> QED BY <3>1, <3>2
  <2>2. /\ y.bus \in Seq(Messages) /\ y.inbox \in Seq(Messages)
        /\ \A k \in DOMAIN y.inbox : \E j \in DOMAIN x.inbox : j # i /\ y.inbox[k] = x.inbox[j]
    BY <1>1, TakenFacts
  <2> QED BY <2>1, <2>2
<1>4. GoesOn(y.bus, x.bus, <<e>>)
  BY <1>1, TakenFacts
<1>5. /\ \A k \in DOMAIN x.bus : k \in DOMAIN y.bus /\ y.bus[k] = x.bus[k]
      /\ \A k \in DOMAIN y.bus : k \in DOMAIN x.bus \/ y.bus[k] = e
      /\ \A S : Num(y.bus, S) = Num(x.bus, S) + In(e, S)
  <2>1. DOMAIN <<e>> = {1} /\ <<e>>[1] = e
    OBVIOUS
  <2>2. \A S : Num(<<e>>, S) = In(e, S)
    BY NumSmall
  <2>3. /\ \A k \in DOMAIN x.bus : k \in DOMAIN y.bus /\ y.bus[k] = x.bus[k]
        /\ Len(x.bus) + 1 \in DOMAIN y.bus /\ y.bus[Len(x.bus) + 1] = e
        /\ \A k \in DOMAIN y.bus : k \in DOMAIN x.bus \/ k = Len(x.bus) + 1
    BY <1>4, <2>1 DEF GoesOn
  <2>4. \A S : Num(y.bus, S) = Num(x.bus, S) + In(e, S)
    BY <1>4, <2>2 DEF GoesOn
  <2> QED BY <2>3, <2>4
<1>6. /\ y.last = x.last /\ y.out = x.out /\ y.issued = x.issued
      /\ y.data = x.data /\ y.open = x.open /\ y.timer = x.timer /\ y.queue = x.queue
      /\ y.lost = x.lost /\ y.stored = x.stored /\ y.ran = x.ran
  BY DEF Taken, SameRest
<1>7. /\ \A S \in SUBSET Movers : Num(y.bus, S) = Num(x.bus, S) /\ Num(y.inbox, S) = Num(x.inbox, S)
      /\ Num(y.bus, To("executor_failure")) = Num(x.bus, To("executor_failure")) + 1
      /\ Num(y.bus, To("failure_input")) = Num(x.bus, To("failure_input"))
      /\ Num(y.bus, To("successful_task_result")) = Num(x.bus, To("successful_task_result"))
      /\ Num(y.inbox, To("failure_input")) = Num(x.inbox, To("failure_input")) - 1
  <2>1. \A S : Num(x.bus, S) \in Nat /\ Num(x.inbox, S) \in Nat
    BY <1>1, PlaceTypes
  <2>2. /\ \A S \in SUBSET Movers : In(e, S) = 0 /\ In(m, S) = 0
        /\ In(e, To("executor_failure")) = 1 /\ In(e, To("failure_input")) = 0
        /\ In(e, To("successful_task_result")) = 0 /\ In(m, To("failure_input")) = 1
    <3>1. e \notin Movers /\ m \notin Movers
      BY <1>2, SinkFacts DEF Movers
    <3>2. x.inbox[i] \in Messages
      <4>1. DOMAIN x.inbox = 1..Len(x.inbox)
        BY <1>1, LenProperties
      <4> QED BY <1>1, <4>1, ElementOfSeq
    <3> QED BY <1>2, <3>1, <3>2 DEF In, To
  <2>3. \A S : Num(y.inbox, S) = Num(x.inbox, S) - In(m, S)
    BY <1>3
  <2>4. ASSUME NEW S \in SUBSET Movers PROVE Num(y.bus, S) = Num(x.bus, S) /\ Num(y.inbox, S) = Num(x.inbox, S)
    <3>1. Num(y.bus, S) = Num(x.bus, S) + 0 /\ Num(y.inbox, S) = Num(x.inbox, S) - 0
      BY <1>5, <2>2, <2>3
    <3> QED BY <2>1, <3>1
  <2>5. /\ Num(y.bus, To("executor_failure")) = Num(x.bus, To("executor_failure")) + In(e, To("executor_failure"))
        /\ Num(y.bus, To("failure_input")) = Num(x.bus, To("failure_input")) + In(e, To("failure_input"))
        /\ Num(y.bus, To("successful_task_result"))
           = Num(x.bus, To("successful_task_result")) + In(e, To("successful_task_result"))
        /\ Num(y.inbox, To("failure_input")) = Num(x.inbox, To("failure_input")) - In(m, To("failure_input"))
    BY <1>5, <2>3
  <2> QED BY <2>1, <2>2, <2>4, <2>5
<1>8. Typed(y)
  BY <1>1, <1>3, <1>6 DEF Typed
<1>9. InOnePlace(y, c)
  <2>1. Num(y.bus, Movers) = Num(x.bus, Movers) /\ Num(y.inbox, Movers) = Num(x.inbox, Movers)
    BY <1>7
  <2>2. Places(y) = Places(x)
    BY <1>6, <2>1 DEF Places
  <2> QED BY <2>2 DEF WorkInv, InOnePlace
<1>10. Untouched(y)
  <2>1. x.last # NoMessage
    <3>1. x.last = NoMessage => x.inbox = <<>>
      BY DEF WorkInv, Untouched
    <3>2. DOMAIN <<>> = {}
      OBVIOUS
    <3> QED BY <1>1, <3>1, <3>2
  <2> QED BY <1>6, <2>1 DEF Untouched
<1>11. Ordered(y)
  <2>1. \A k \in DOMAIN y.inbox : y.inbox[k].sink \in Sinks /\ (y.inbox[k] = y.last \/ y.inbox[k].sink = "failure_input")
    BY <1>1, <1>3, <1>6 DEF Ordered
  <2>2. ASSUME NEW k \in DOMAIN y.bus
        PROVE  /\ y.bus[k].sink # "input"
               /\ y.bus[k].sink = "failure_input" => k + 1 \in DOMAIN y.bus /\ y.bus[k + 1].sink = "failed_attempt"
               /\ y.bus[k].sink = "successful_task_result" => k + 1 \in DOMAIN y.bus /\ y.bus[k + 1].sink = "task_output"
    <3>1. CASE y.bus[k] = e
      BY <1>2, <3>1
    <3>2. CASE k \in DOMAIN x.bus
      <4>1. /\ x.bus[k].sink # "input"
            /\ x.bus[k].sink = "failure_input" => k + 1 \in DOMAIN x.bus /\ x.bus[k + 1].sink = "failed_attempt"
            /\ x.bus[k].sink = "successful_task_result" => k + 1 \in DOMAIN x.bus /\ x.bus[k + 1].sink = "task_output"
        BY <1>1, <3>2 DEF Ordered
      <4> QED BY <1>5, <3>2, <4>1
    <3> QED BY <1>5, <3>1, <3>2
  <2>3. \A k \in DOMAIN y.out : y.out[k].sink \in Verdicts => y.last.sink \in Verdicts
    BY <1>1, <1>6 DEF Ordered
  <2> QED BY <2>1, <2>2, <2>3 DEF Ordered
<1>12. MessagesAgree(y)
  <2>1. MessagesAgree(x)
    BY DEF WorkInv
  <2>2. Agrees(m, x.data, x.ran)
    BY <1>1, <2>1 DEF MessagesAgree
  <2>3. Agrees(e, x.data, x.ran)
    BY <1>2, <2>2 DEF Agrees, Claims
  <2>4. \A k \in DOMAIN y.bus : Agrees(y.bus[k], y.data, y.ran)
    <3>1. \A k \in DOMAIN x.bus : Agrees(x.bus[k], x.data, x.ran)
      BY <2>1 DEF MessagesAgree
    <3> QED BY <1>5, <1>6, <2>3, <3>1
  <2>5. \A k \in DOMAIN y.inbox : Agrees(y.inbox[k], y.data, y.ran)
    <3>1. \A k \in DOMAIN x.inbox : Agrees(x.inbox[k], x.data, x.ran)
      BY <2>1 DEF MessagesAgree
    <3> QED BY <1>3, <1>6, <3>1
  <2> QED BY <1>6, <2>1, <2>4, <2>5 DEF MessagesAgree
<1>13. PendingAgrees(y)
  <2> SUFFICES ASSUME x.data.pending = "set" PROVE PendingAgrees(y)
    BY <1>6 DEF PendingAgrees
  <2>1. /\ x.data.of = x.ran /\ Late(x.last)
        /\ ~x.open /\ ~x.timer /\ x.queue = <<>>
        /\ \A k \in DOMAIN x.bus : Moves(x.bus[k]) => Late(x.bus[k])
        /\ \A k \in DOMAIN x.inbox : Moves(x.inbox[k]) => Late(x.inbox[k])
    BY DEF WorkInv, PendingAgrees
  <2>2. ~Moves(e)
    BY <1>2, SinkFacts
  <2>3. \A k \in DOMAIN y.bus : Moves(y.bus[k]) => Late(y.bus[k])
    BY <1>5, <2>1, <2>2
  <2>4. \A k \in DOMAIN y.inbox : Moves(y.inbox[k]) => Late(y.inbox[k])
    BY <1>3, <2>1
  <2> QED BY <1>6, <2>1, <2>3, <2>4 DEF PendingAgrees
<1>14. To("create") \in SUBSET Movers /\ To("success_input") \in SUBSET Movers /\ To("task_output") \in SUBSET Movers
  BY SinkFacts DEF To, Movers
<1>15. AttemptsCounted(y)
  <2>1. Num(y.bus, To("create")) = Num(x.bus, To("create"))
    BY <1>7, <1>14
  <2> QED BY <1>6, <2>1 DEF WorkInv, AttemptsCounted
<1>16. ASSUME UncrashedInv(x) PROVE UncrashedInv(y)
  <2>1. ResultsCounted(y)
    <3>1. ResultsCounted(x)
      BY <1>16 DEF UncrashedInv
    <3>2. /\ Num(y.bus, To("success_input")) = Num(x.bus, To("success_input"))
          /\ Num(y.inbox, To("success_input")) = Num(x.inbox, To("success_input"))
          /\ Num(y.bus, To("task_output")) = Num(x.bus, To("task_output"))
      BY <1>7, <1>14
    <3>3. Num(x.out, Left("executor_failure")) \in Nat /\ Num(x.bus, To("executor_failure")) \in Nat
          /\ Num(x.bus, To("failure_input")) \in Nat /\ Num(x.inbox, To("failure_input")) \in Nat
      BY <1>1, PlaceTypes
    <3>4. Num(y.out, Left("executor_failure")) + Num(y.bus, To("executor_failure"))
             + Num(y.bus, To("failure_input")) + Num(y.inbox, To("failure_input"))
           = Num(y.stored, ResultsOf("failure"))
      BY <1>6, <1>7, <3>1, <3>3 DEF ResultsCounted
    <3> QED BY <1>6, <1>7, <3>1, <3>2, <3>4 DEF ResultsCounted
  <2>2. /\ x.data.attempts = x.issued + Num(x.bus, To("create"))
        /\ \A k \in DOMAIN x.bus : PendingExact(x.bus[k], x.data)
        /\ \A k \in DOMAIN x.inbox : PendingExact(x.inbox[k], x.data)
        /\ \A k \in DOMAIN x.out : x.out[k].body # "internal"
    BY <1>16 DEF UncrashedInv
  <2>3. y.data.attempts = y.issued + Num(y.bus, To("create"))
    BY <1>6, <1>7, <1>14, <2>2
  <2>4. PendingExact(e, x.data)
    BY <1>2, SinkFacts DEF PendingExact, Converting
  <2>5. \A k \in DOMAIN y.bus : PendingExact(y.bus[k], y.data)
    BY <1>5, <1>6, <2>2, <2>4
  <2>6. \A k \in DOMAIN y.inbox : PendingExact(y.inbox[k], y.data)
    BY <1>3, <1>6, <2>2
  <2> QED BY <1>6, <2>1, <2>2, <2>3, <2>5, <2>6 DEF UncrashedInv
<1> QED BY <1>8, <1>9, <1>10, <1>11, <1>12, <1>13, <1>15, <1>16 DEF WorkInv

----------------------------------------------------------------------------
(* The bus *)

\* The first message on the bus is logged and handed on.
Delivered(x, y, m) ==
  /\ x.bus # <<>> /\ m = Head(x.bus) /\ y.bus = Tail(x.bus)
  /\ y.last = IF m.sink \in OnChild THEN x.last ELSE m
  /\ y.inbox = IF m.sink \in Exits THEN x.inbox ELSE Append(x.inbox, m)
  /\ y.out = IF m.sink \in Exits THEN Append(x.out, [sink |-> m.sink, body |-> m.body]) ELSE x.out
  /\ y.issued = IF m.sink = "create" THEN x.issued + 1 ELSE x.issued
  /\ SameRest(x, y)

\* What is where after it.
LEMMA DeliveredSequences ==
  ASSUME NEW x, NEW y, NEW m, Typed(x), Delivered(x, y, m)
  PROVE  /\ m \in Messages /\ 1 \in DOMAIN x.bus /\ m = x.bus[1]
         /\ y.bus \in Seq(Messages) /\ y.inbox \in Seq(Messages) /\ y.out \in Seq(Outs)
         /\ \A k \in DOMAIN y.bus : k \in Nat /\ k + 1 \in DOMAIN x.bus /\ y.bus[k] = x.bus[k + 1]
         /\ \A k \in DOMAIN x.bus : k # 1 => k - 1 \in DOMAIN y.bus /\ y.bus[k - 1] = x.bus[k]
         /\ \A k \in DOMAIN y.inbox : \/ m.sink \notin Exits /\ y.inbox[k] = m
                                      \/ \E j \in DOMAIN x.inbox : y.inbox[k] = x.inbox[j]
         /\ \A k \in DOMAIN y.out :
              \/ m.sink \in Exits /\ y.out[k].sink = m.sink /\ y.out[k].body = m.body
              \/ \E j \in DOMAIN x.out : y.out[k] = x.out[j]
<1>1. x.bus \in Seq(Messages) /\ x.inbox \in Seq(Messages) /\ x.out \in Seq(Outs)
      /\ x.bus # <<>> /\ m = Head(x.bus) /\ y.bus = Tail(x.bus)
  BY DEF Typed, Delivered
<1>2. m \in Messages /\ 1 \in DOMAIN x.bus /\ m = x.bus[1] /\ y.bus \in Seq(Messages)
  BY <1>1, TailFacts
<1>3. /\ \A k \in DOMAIN y.bus : k + 1 \in DOMAIN x.bus /\ y.bus[k] = x.bus[k + 1]
      /\ \A k \in DOMAIN x.bus : k # 1 => k - 1 \in DOMAIN y.bus /\ y.bus[k - 1] = x.bus[k]
  BY <1>1, TailFacts
<1>4. DOMAIN y.bus \subseteq Nat
  <2>1. DOMAIN y.bus = 1..Len(y.bus) /\ Len(y.bus) \in Nat
    BY <1>2, LenProperties
  <2> QED BY <2>1
<1>5. /\ y.inbox \in Seq(Messages)
      /\ \A k \in DOMAIN y.inbox : \/ m.sink \notin Exits /\ y.inbox[k] = m
                                   \/ \E j \in DOMAIN x.inbox : y.inbox[k] = x.inbox[j]
  <2>1. CASE m.sink \in Exits
    BY <1>1, <2>1 DEF Delivered
  <2>2. CASE m.sink \notin Exits
    <3>1. y.inbox = Append(x.inbox, m)
      BY <2>2 DEF Delivered
    <3>2. /\ DOMAIN x.inbox = 1..Len(x.inbox) /\ DOMAIN y.inbox = 1..(Len(x.inbox) + 1) /\ Len(x.inbox) \in Nat
          /\ y.inbox \in Seq(Messages) /\ y.inbox[Len(x.inbox) + 1] = m
          /\ \A i \in 1..Len(x.inbox) : y.inbox[i] = x.inbox[i]
      BY <1>1, <1>2, <3>1, LenProperties, AppendProperties
    <3>3. ASSUME NEW k \in DOMAIN y.inbox PROVE y.inbox[k] = m \/ \E j \in DOMAIN x.inbox : y.inbox[k] = x.inbox[j]
      <4>1. CASE k = Len(x.inbox) + 1
        BY <3>2, <4>1
      <4>2. CASE k # Len(x.inbox) + 1
        <5>1. k \in DOMAIN x.inbox /\ y.inbox[k] = x.inbox[k]
          BY <3>2, <4>2
        <5> QED BY <5>1
      <4> QED BY <4>1, <4>2
    <3> QED BY <2>2, <3>2, <3>3
  <2> QED BY <2>1, <2>2
<1>6. /\ y.out \in Seq(Outs)
      /\ \A k \in DOMAIN y.out :
              \/ m.sink \in Exits /\ y.out[k].sink = m.sink /\ y.out[k].body = m.body
              \/ \E j \in DOMAIN x.out : y.out[k] = x.out[j]
  <2>1. CASE m.sink \in Exits
    <3> DEFINE e == [sink |-> m.sink, body |-> m.body]
    <3>1. y.out = Append(x.out, e)
      BY <2>1 DEF Delivered
    <3>2. e \in Outs /\ e.sink = m.sink /\ e.body = m.body
      BY <1>2, <2>1, SinkFacts DEF Outs
    <3> HIDE DEF e
    <3>3. /\ DOMAIN x.out = 1..Len(x.out) /\ DOMAIN y.out = 1..(Len(x.out) + 1) /\ Len(x.out) \in Nat
          /\ y.out \in Seq(Outs) /\ y.out[Len(x.out) + 1] = e
          /\ \A i \in 1..Len(x.out) : y.out[i] = x.out[i]
      BY <1>1, <3>1, <3>2, LenProperties, AppendProperties
    <3>4. ASSUME NEW k \in DOMAIN y.out PROVE y.out[k] = e \/ \E j \in DOMAIN x.out : y.out[k] = x.out[j]
      <4>1. CASE k = Len(x.out) + 1
        BY <3>3, <4>1
      <4>2. CASE k # Len(x.out) + 1
        <5>1. k \in DOMAIN x.out /\ y.out[k] = x.out[k]
          BY <3>3, <4>2
        <5> QED BY <5>1
      <4> QED BY <4>1, <4>2
    <3> QED BY <2>1, <3>2, <3>3, <3>4
  <2>2. CASE m.sink \notin Exits
    BY <1>1, <2>2 DEF Delivered
  <2> QED BY <2>1, <2>2
<1> QED BY <1>2, <1>3, <1>4, <1>5, <1>6

\* The counts after it.
LEMMA DeliveredCounts ==
  ASSUME NEW x, NEW y, NEW m, Typed(x), Delivered(x, y, m)
  PROVE  /\ \A S : Num(y.bus, S) = Num(x.bus, S) - In(m, S)
         /\ \A S : Num(y.inbox, S) = Num(x.inbox, S) + (IF m.sink \in Exits THEN 0 ELSE In(m, S))
         /\ \A s : Num(y.out, Left(s)) = Num(x.out, Left(s)) + (IF m.sink \in Exits /\ m.sink = s THEN 1 ELSE 0)
         /\ Num(y.out, VerdictsLeft) = Num(x.out, VerdictsLeft) + (IF m.sink \in Verdicts THEN 1 ELSE 0)
         /\ \A s : In(m, To(s)) = IF m.sink = s THEN 1 ELSE 0
<1>1. x.bus \in Seq(Messages) /\ x.inbox \in Seq(Messages) /\ x.out \in Seq(Outs)
      /\ x.bus # <<>> /\ m = Head(x.bus) /\ y.bus = Tail(x.bus)
  BY DEF Typed, Delivered
<1>2. m \in Messages /\ m = x.bus[1]
  BY <1>1, TailFacts
<1>3. \A S : Num(y.bus, S) = Num(x.bus, S) - In(m, S)
  BY <1>1, <1>2, TailFacts
<1>4. ASSUME NEW S PROVE Num(y.inbox, S) = Num(x.inbox, S) + (IF m.sink \in Exits THEN 0 ELSE In(m, S))
  <2>1. Num(x.inbox, S) \in Nat
    BY PlaceTypes
  <2>2. CASE m.sink \in Exits
    BY <2>1, <2>2 DEF Delivered
  <2>3. CASE m.sink \notin Exits
    <3>1. y.inbox = Append(x.inbox, m)
      BY <2>3 DEF Delivered
    <3>2. Num(Append(x.inbox, m), S) = Num(x.inbox, S) + In(m, S)
      BY <1>1, <1>2, NumAppend
    <3> QED BY <2>3, <3>1, <3>2
  <2> QED BY <2>2, <2>3
<1> DEFINE e == [sink |-> m.sink, body |-> m.body]
<1>5. e.sink = m.sink /\ (m.sink \in Exits => e \in Outs)
  BY <1>2, SinkFacts DEF Outs
<1>6. m.sink \in Exits => y.out = Append(x.out, e)
  BY DEF Delivered
<1>7. m.sink \notin Exits => y.out = x.out
  BY DEF Delivered
<1> HIDE DEF e
<1>8. ASSUME NEW S PROVE Num(y.out, S) = Num(x.out, S) + (IF m.sink \in Exits THEN In(e, S) ELSE 0)
  <2>1. Num(x.out, S) \in Nat
    BY PlaceTypes
  <2>2. CASE m.sink \in Exits
    <3>1. Num(Append(x.out, e), S) = Num(x.out, S) + In(e, S)
      BY <1>1, <1>5, <2>2, NumAppend
    <3> QED BY <1>6, <2>2, <3>1
  <2>3. CASE m.sink \notin Exits
    BY <1>7, <2>1, <2>3
  <2> QED BY <2>2, <2>3
<1>9. ASSUME NEW s PROVE Num(y.out, Left(s)) = Num(x.out, Left(s)) + (IF m.sink \in Exits /\ m.sink = s THEN 1 ELSE 0)
  <2>1. Num(y.out, Left(s)) = Num(x.out, Left(s)) + (IF m.sink \in Exits THEN In(e, Left(s)) ELSE 0)
    BY <1>8
  <2>2. m.sink \in Exits => In(e, Left(s)) = IF m.sink = s THEN 1 ELSE 0
    BY <1>5 DEF In, Left
  <2> QED BY <2>1, <2>2
<1>10. Num(y.out, VerdictsLeft) = Num(x.out, VerdictsLeft) + (IF m.sink \in Verdicts THEN 1 ELSE 0)
  <2>1. Num(y.out, VerdictsLeft) = Num(x.out, VerdictsLeft) + (IF m.sink \in Exits THEN In(e, VerdictsLeft) ELSE 0)
    BY <1>8
  <2>2. m.sink \in Exits => In(e, VerdictsLeft) = IF m.sink \in Verdicts THEN 1 ELSE 0
    BY <1>5 DEF In, VerdictsLeft
  <2>3. m.sink \in Verdicts => m.sink \in Exits
    BY DEF Exits
  <2> QED BY <2>1, <2>2, <2>3
<1>11. \A s : In(m, To(s)) = IF m.sink = s THEN 1 ELSE 0
  BY <1>2 DEF In, To
<1> QED BY <1>3, <1>4, <1>9, <1>10, <1>11

\* A message that is logged on the work's own context comes with or is the one that moves it on.
LEMMA MoverComes ==
  ASSUME NEW x, NEW c, NEW y, NEW m, WorkInv(x, c), Delivered(x, y, m), m.sink \notin OnChild
  PROVE  /\ \A k \in DOMAIN x.inbox : x.inbox[k].sink = "failure_input"
         /\ \A k \in DOMAIN x.out : x.out[k].sink \notin Verdicts
         /\ x.data.pending = "set" => Late(m)
<1>1. Typed(x) /\ Ordered(x) /\ Places(x) <= 1 /\ x.bus \in Seq(Messages)
  BY DEF WorkInv, InOnePlace, Typed
<1>2. m \in Messages /\ 1 \in DOMAIN x.bus /\ m = x.bus[1]
  BY <1>1, DeliveredSequences
<1>3. m.sink = "failure_input" =>
        2 \in DOMAIN x.bus /\ x.bus[2].sink = "failed_attempt" /\ x.bus[2] \in Messages
  <2> SUFFICES ASSUME m.sink = "failure_input"
      PROVE 2 \in DOMAIN x.bus /\ x.bus[2].sink = "failed_attempt" /\ x.bus[2] \in Messages
    OBVIOUS
  <2>1. 1 + 1 \in DOMAIN x.bus /\ x.bus[1 + 1].sink = "failed_attempt" /\ 1 + 1 = 2
    BY <1>1, <1>2 DEF Ordered
  <2>2. DOMAIN x.bus = 1..Len(x.bus)
    BY <1>1, LenProperties
  <2> QED BY <1>1, <2>1, <2>2, ElementOfSeq
<1>4. m.sink # "failure_input" => m \in Movers /\ Moves(m)
  BY <1>2, SinkFacts DEF Movers, OnChild
<1>5. Num(x.bus, Movers) # 0
  <2>1. \E k \in DOMAIN x.bus : x.bus[k] \in Movers
    BY <1>2, <1>3, <1>4, SinkFacts DEF Movers
  <2> QED BY <1>1, <2>1, NumFacts
<1>6. Num(x.inbox, Movers) = 0 /\ Num(x.out, VerdictsLeft) = 0
  <2>1. Num(x.bus, Movers) \in Nat /\ Num(x.inbox, Movers) \in Nat /\ Num(x.out, VerdictsLeft) \in Nat
    BY <1>1, PlaceTypes
  <2>2. Len(x.queue) \in Nat /\ One(x.open) \in {0, 1} /\ One(x.timer) \in {0, 1}
        /\ One(x.lost) \in {0, 1} /\ One(x.last = NoMessage) \in {0, 1}
    BY <1>1, PlaceTypes
  <2> DEFINE b == Num(x.bus, Movers)
             n == Num(x.inbox, Movers)
             o == Num(x.out, VerdictsLeft)
             q == Len(x.queue)
  <2>3. b + n + o + q + One(x.open) + One(x.timer) + One(x.lost) + One(x.last = NoMessage) <= 1 /\ b # 0
    BY <1>1, <1>5 DEF Places
  <2>4. n = 0 /\ o = 0
    <3> HIDE DEF b, n, o, q
    <3> QED BY <2>1, <2>2, <2>3 DEF b, n, o, q
  <2> QED BY <2>4
<1>7. \A k \in DOMAIN x.inbox : x.inbox[k].sink = "failure_input"
  BY <1>1, <1>6, QuietInbox
<1>8. \A k \in DOMAIN x.out : x.out[k].sink \notin Verdicts
  BY <1>1, <1>6, QuietOut
<1>9. ASSUME x.data.pending = "set" PROVE Late(m)
  <2>1. \A k \in DOMAIN x.bus : Moves(x.bus[k]) => Late(x.bus[k])
    BY <1>9 DEF WorkInv, PendingAgrees
  <2>2. m.sink # "failure_input"
    <3>1. ASSUME m.sink = "failure_input" PROVE FALSE
      <4>1. Moves(x.bus[2]) /\ ~Late(x.bus[2])
        BY <1>3, <3>1, SinkFacts DEF Late
      <4> QED BY <1>3, <2>1, <3>1, <4>1
    <3> QED BY <3>1
  <2> QED BY <1>2, <1>4, <2>1, <2>2
<1> QED BY <1>7, <1>8, <1>9

\* A delivery keeps the invariant of the work.
LEMMA DeliveredWork ==
  ASSUME NEW x, NEW y, NEW c, NEW m, WorkInv(x, c), Delivered(x, y, m)
  PROVE  WorkInv(y, c)
<1>1. Typed(x) /\ Ordered(x)
  BY DEF WorkInv
<1>2. /\ m \in Messages /\ 1 \in DOMAIN x.bus /\ m = x.bus[1]
      /\ y.bus \in Seq(Messages) /\ y.inbox \in Seq(Messages) /\ y.out \in Seq(Outs)
      /\ \A k \in DOMAIN y.bus : k \in Nat /\ k + 1 \in DOMAIN x.bus /\ y.bus[k] = x.bus[k + 1]
      /\ \A k \in DOMAIN x.bus : k # 1 => k - 1 \in DOMAIN y.bus /\ y.bus[k - 1] = x.bus[k]
  BY <1>1, DeliveredSequences
<1>3. /\ \A k \in DOMAIN y.inbox : \/ m.sink \notin Exits /\ y.inbox[k] = m
                                   \/ \E j \in DOMAIN x.inbox : y.inbox[k] = x.inbox[j]
      /\ \A k \in DOMAIN y.out :
           \/ m.sink \in Exits /\ y.out[k].sink = m.sink /\ y.out[k].body = m.body
           \/ \E j \in DOMAIN x.out : y.out[k] = x.out[j]
  BY <1>1, DeliveredSequences
<1>4. /\ y.last = IF m.sink \in OnChild THEN x.last ELSE m
      /\ y.issued = IF m.sink = "create" THEN x.issued + 1 ELSE x.issued
      /\ y.data = x.data /\ y.open = x.open /\ y.timer = x.timer /\ y.queue = x.queue
      /\ y.lost = x.lost /\ y.stored = x.stored /\ y.ran = x.ran
  BY DEF Delivered, SameRest
<1>5. m.sink \notin OnChild =>
        /\ \A k \in DOMAIN x.inbox : x.inbox[k].sink = "failure_input"
        /\ \A k \in DOMAIN x.out : x.out[k].sink \notin Verdicts
        /\ x.data.pending = "set" => Late(m)
  BY MoverComes
<1>6. x.last # NoMessage /\ y.last # NoMessage
  <2>1. x.last # NoMessage
    <3>1. x.last = NoMessage => x.bus = <<>>
      BY DEF WorkInv, Untouched
    <3> QED BY <3>1 DEF Delivered
  <2> QED BY <1>2, <1>4, <2>1, SinkFacts
<1>7. /\ Num(y.bus, Movers) = Num(x.bus, Movers) - In(m, Movers)
      /\ Num(y.bus, To("create")) = Num(x.bus, To("create")) - In(m, To("create"))
      /\ Num(y.inbox, Movers) = Num(x.inbox, Movers) + (IF m.sink \in Exits THEN 0 ELSE In(m, Movers))
      /\ Num(y.out, VerdictsLeft) = Num(x.out, VerdictsLeft) + (IF m.sink \in Verdicts THEN 1 ELSE 0)
      /\ In(m, To("create")) = IF m.sink = "create" THEN 1 ELSE 0
  BY <1>1, DeliveredCounts
<1>8. Typed(y)
  <2>1. y.last \in Messages \cup {NoMessage} /\ y.issued \in Nat
    BY <1>1, <1>2, <1>4 DEF Typed
  <2> QED BY <1>1, <1>2, <1>4, <2>1 DEF Typed
<1>9. InOnePlace(y, c)
  <2>1. In(m, Movers) = (IF m.sink \in Exits THEN 0 ELSE In(m, Movers)) + (IF m.sink \in Verdicts THEN 1 ELSE 0)
    <3>1. CASE m.sink \in Verdicts
      <4>1. m.sink \in Exits /\ m \in Movers
        BY <1>2, <3>1, SinkFacts DEF Verdicts, Movers
      <4> QED BY <3>1, <4>1 DEF In
    <3>2. CASE m.sink \in OnChild
      <4>1. m.sink \in Exits /\ m \notin Movers /\ m.sink \notin Verdicts
        BY <1>2, <3>2, SinkFacts DEF OnChild, Movers, Verdicts
      <4> QED BY <4>1 DEF In
    <3>3. CASE m.sink \notin Exits
      <4>1. m.sink \notin Verdicts
        BY <3>3 DEF Exits
      <4> QED BY <3>3, <4>1 DEF In
    <3> QED BY <3>1, <3>2, <3>3 DEF Exits
  <2>2. /\ Num(x.bus, Movers) \in Nat /\ Num(x.inbox, Movers) \in Nat /\ Num(x.out, VerdictsLeft) \in Nat
        /\ In(m, Movers) \in Nat
    BY <1>1, PlaceTypes DEF In
  <2>3. Num(y.bus, Movers) + Num(y.inbox, Movers) + Num(y.out, VerdictsLeft)
        = Num(x.bus, Movers) + Num(x.inbox, Movers) + Num(x.out, VerdictsLeft)
    BY <1>7, <2>1, <2>2
  <2>4. One(y.last = NoMessage) = One(x.last = NoMessage)
    BY <1>6 DEF One
  <2>5. Places(y) = Places(x)
    BY <1>4, <2>3, <2>4 DEF Places
  <2> QED BY <2>5 DEF WorkInv, InOnePlace
<1>10. Untouched(y)
  BY <1>6 DEF Untouched
<1>11. Ordered(y)
  <2>1. ASSUME NEW k \in DOMAIN y.inbox
        PROVE  y.inbox[k].sink \in Sinks /\ (y.inbox[k] = y.last \/ y.inbox[k].sink = "failure_input")
    <3>1. CASE m.sink \notin Exits /\ y.inbox[k] = m
      <4>1. m.sink \notin OnChild /\ m.sink \in Sinks
        BY <1>2, <3>1, SinkFacts DEF Exits
      <4> QED BY <1>4, <3>1, <4>1
    <3>2. ASSUME NEW j \in DOMAIN x.inbox, y.inbox[k] = x.inbox[j]
          PROVE  y.inbox[k].sink \in Sinks /\ (y.inbox[k] = y.last \/ y.inbox[k].sink = "failure_input")
      BY <1>1, <1>4, <1>5, <3>2 DEF Ordered
    <3> QED BY <1>3, <3>1, <3>2
  <2>2. ASSUME NEW k \in DOMAIN y.bus
        PROVE  /\ y.bus[k].sink # "input"
               /\ y.bus[k].sink = "failure_input" => k + 1 \in DOMAIN y.bus /\ y.bus[k + 1].sink = "failed_attempt"
               /\ y.bus[k].sink = "successful_task_result" => k + 1 \in DOMAIN y.bus /\ y.bus[k + 1].sink = "task_output"
    <3>1. k \in Nat /\ k + 1 \in DOMAIN x.bus /\ y.bus[k] = x.bus[k + 1]
      BY <1>2
    <3>2. /\ x.bus[k + 1].sink # "input"
          /\ x.bus[k + 1].sink = "failure_input"
               => (k + 1) + 1 \in DOMAIN x.bus /\ x.bus[(k + 1) + 1].sink = "failed_attempt"
          /\ x.bus[k + 1].sink = "successful_task_result"
               => (k + 1) + 1 \in DOMAIN x.bus /\ x.bus[(k + 1) + 1].sink = "task_output"
      BY <1>1, <3>1 DEF Ordered
    <3>3. (k + 1) + 1 # 1 /\ ((k + 1) + 1) - 1 = k + 1
      BY <3>1
    <3>4. (k + 1) + 1 \in DOMAIN x.bus => k + 1 \in DOMAIN y.bus /\ y.bus[k + 1] = x.bus[(k + 1) + 1]
      BY <1>2, <3>3
    <3> QED BY <3>1, <3>2, <3>4
  <2>3. ASSUME NEW k \in DOMAIN y.out, y.out[k].sink \in Verdicts PROVE y.last.sink \in Verdicts
    <3>1. CASE m.sink \in OnChild
      <4>1. m.sink \notin Verdicts
        BY <3>1 DEF OnChild, Verdicts
      <4>2. PICK j \in DOMAIN x.out : y.out[k] = x.out[j]
        BY <1>3, <2>3, <4>1
      <4> QED BY <1>1, <1>4, <2>3, <3>1, <4>2 DEF Ordered
    <3>2. CASE m.sink \notin OnChild
      <4>1. y.out[k].sink = m.sink
        BY <1>3, <1>5, <2>3, <3>2
      <4> QED BY <1>4, <2>3, <3>2, <4>1
    <3> QED BY <3>1, <3>2
  <2> QED BY <2>1, <2>2, <2>3 DEF Ordered
<1>12. MessagesAgree(y)
  <2>1. MessagesAgree(x)
    BY DEF WorkInv
  <2>2. \A k \in DOMAIN x.bus : Agrees(x.bus[k], x.data, x.ran)
    BY <2>1 DEF MessagesAgree
  <2>3. Agrees(m, x.data, x.ran)
    BY <1>2, <2>2
  <2>4. \A k \in DOMAIN y.bus : Agrees(y.bus[k], y.data, y.ran)
    BY <1>2, <1>4, <2>2
  <2>5. \A k \in DOMAIN y.inbox : Agrees(y.inbox[k], y.data, y.ran)
    BY <1>3, <1>4, <2>1, <2>3 DEF MessagesAgree
  <2>6. Agrees(y.last, y.data, y.ran)
    BY <1>4, <2>1, <2>3 DEF MessagesAgree
  <2>7. \A k \in DOMAIN y.out : y.out[k].body = "exhausted" => y.out[k].sink = "error" /\ y.data.attempts >= MaxAttempts
    <3>1. m.body = "exhausted" /\ m.sink \in Exits => m.sink = "error" /\ x.data.attempts >= MaxAttempts
      BY <2>3, SinkFacts DEF Agrees
    <3>2. \A k \in DOMAIN x.out : x.out[k].body = "exhausted" => x.out[k].sink = "error" /\ x.data.attempts >= MaxAttempts
      BY <2>1 DEF MessagesAgree
    <3> QED BY <1>3, <1>4, <3>1, <3>2
  <2> QED BY <1>4, <2>1, <2>4, <2>5, <2>6, <2>7 DEF MessagesAgree
<1>13. PendingAgrees(y)
  <2> SUFFICES ASSUME x.data.pending = "set" PROVE PendingAgrees(y)
    BY <1>4 DEF PendingAgrees
  <2>1. /\ x.data.of = x.ran /\ Late(x.last)
        /\ ~x.open /\ ~x.timer /\ x.queue = <<>>
        /\ \A k \in DOMAIN x.bus : Moves(x.bus[k]) => Late(x.bus[k])
        /\ \A k \in DOMAIN x.inbox : Moves(x.inbox[k]) => Late(x.inbox[k])
    BY DEF WorkInv, PendingAgrees
  <2>2. Late(y.last)
    BY <1>4, <1>5, <2>1
  <2>3. \A k \in DOMAIN y.bus : Moves(y.bus[k]) => Late(y.bus[k])
    BY <1>2, <2>1
  <2>4. \A k \in DOMAIN y.inbox : Moves(y.inbox[k]) => Late(y.inbox[k])
    BY <1>2, <1>3, <2>1
  <2> QED BY <1>4, <2>1, <2>2, <2>3, <2>4 DEF PendingAgrees
<1>14. AttemptsCounted(y)
  <2>1. /\ x.issued + Num(x.bus, To("create")) <= x.data.attempts
        /\ x.issued + Num(x.bus, To("create")) <= Cap
        /\ x.last.sink \in {"none", "input"} => x.issued = 0
    BY DEF WorkInv, AttemptsCounted
  <2>2. Num(x.bus, To("create")) \in Nat /\ x.issued \in Nat
    BY <1>1, PlaceTypes DEF Typed
  <2>3. y.issued + Num(y.bus, To("create")) = x.issued + Num(x.bus, To("create"))
    BY <1>4, <1>7, <2>2
  <2>4. y.last.sink \in {"none", "input"} => y.issued = 0
    <3>1. m.sink \notin {"none", "input"}
      BY <1>1, <1>2, SinkFacts DEF Ordered
    <3>2. "create" \notin OnChild
      BY DEF OnChild
    <3> QED BY <1>4, <2>1, <3>1, <3>2
  <2> QED BY <1>4, <2>1, <2>3, <2>4 DEF AttemptsCounted
<1> QED BY <1>8, <1>9, <1>10, <1>11, <1>12, <1>13, <1>14 DEF WorkInv

\* It keeps what holds without crashes, too.
LEMMA DeliveredUncrashed ==
  ASSUME NEW x, NEW y, NEW c, NEW m, WorkInv(x, c), UncrashedInv(x), Delivered(x, y, m)
  PROVE  UncrashedInv(y)
<1>1. Typed(x) /\ Ordered(x) /\ x.bus \in Seq(Messages)
  BY DEF WorkInv, Typed
<1>2. /\ m \in Messages /\ 1 \in DOMAIN x.bus /\ m = x.bus[1]
      /\ \A k \in DOMAIN y.bus : k \in Nat /\ k + 1 \in DOMAIN x.bus /\ y.bus[k] = x.bus[k + 1]
  <2>1. m \in Messages /\ 1 \in DOMAIN x.bus /\ m = x.bus[1]
    BY <1>1, DeliveredSequences
  <2>2. \A k \in DOMAIN y.bus : k \in Nat /\ k + 1 \in DOMAIN x.bus /\ y.bus[k] = x.bus[k + 1]
    BY <1>1, DeliveredSequences
  <2> QED BY <2>1, <2>2
<1>3. /\ \A k \in DOMAIN y.inbox : \/ m.sink \notin Exits /\ y.inbox[k] = m
                                   \/ \E j \in DOMAIN x.inbox : y.inbox[k] = x.inbox[j]
      /\ \A k \in DOMAIN y.out :
           \/ m.sink \in Exits /\ y.out[k].sink = m.sink /\ y.out[k].body = m.body
           \/ \E j \in DOMAIN x.out : y.out[k] = x.out[j]
  <2>1. \A k \in DOMAIN y.inbox : \/ m.sink \notin Exits /\ y.inbox[k] = m
                                  \/ \E j \in DOMAIN x.inbox : y.inbox[k] = x.inbox[j]
    BY <1>1, DeliveredSequences
  <2>2. \A k \in DOMAIN y.out :
           \/ m.sink \in Exits /\ y.out[k].sink = m.sink /\ y.out[k].body = m.body
           \/ \E j \in DOMAIN x.out : y.out[k] = x.out[j]
    BY <1>1, DeliveredSequences
  <2> QED BY <2>1, <2>2
<1>4. /\ y.issued = IF m.sink = "create" THEN x.issued + 1 ELSE x.issued
      /\ y.data = x.data /\ y.stored = x.stored
  BY DEF Delivered, SameRest
<1>5. ASSUME NEW s
      PROVE  /\ Num(y.bus, To(s)) = Num(x.bus, To(s)) - (IF m.sink = s THEN 1 ELSE 0)
             /\ Num(y.inbox, To(s)) = Num(x.inbox, To(s)) + (IF m.sink = s /\ s \notin Exits THEN 1 ELSE 0)
             /\ Num(y.out, Left(s)) = Num(x.out, Left(s)) + (IF m.sink = s /\ s \in Exits THEN 1 ELSE 0)
             /\ Num(x.bus, To(s)) \in Nat /\ Num(x.inbox, To(s)) \in Nat /\ Num(x.out, Left(s)) \in Nat
  <2>1. Num(y.bus, To(s)) = Num(x.bus, To(s)) - In(m, To(s))
    BY <1>1, DeliveredCounts
  <2>2. Num(y.inbox, To(s)) = Num(x.inbox, To(s)) + (IF m.sink \in Exits THEN 0 ELSE In(m, To(s)))
    BY <1>1, DeliveredCounts
  <2>3. Num(y.out, Left(s)) = Num(x.out, Left(s)) + (IF m.sink \in Exits /\ m.sink = s THEN 1 ELSE 0)
    BY <1>1, DeliveredCounts
  <2>4. In(m, To(s)) = IF m.sink = s THEN 1 ELSE 0
    BY <1>1, DeliveredCounts
  <2>5. Num(x.bus, To(s)) \in Nat /\ Num(x.inbox, To(s)) \in Nat /\ Num(x.out, Left(s)) \in Nat
    BY <1>1, PlaceTypes
  <2> QED BY <2>1, <2>2, <2>3, <2>4, <2>5
<1>6. /\ "failure_input" \notin Exits /\ "success_input" \notin Exits /\ "executor_failure" \in Exits
      /\ "task_output" \in Exits /\ "successful_task_result" \in Exits /\ "create" \notin Exits
  BY SinkFacts
<1>7. /\ x.data.attempts = x.issued + Num(x.bus, To("create"))
      /\ ResultsCounted(x)
      /\ \A k \in DOMAIN x.bus : PendingExact(x.bus[k], x.data)
      /\ \A k \in DOMAIN x.inbox : PendingExact(x.inbox[k], x.data)
      /\ \A k \in DOMAIN x.out : x.out[k].body # "internal"
  BY DEF UncrashedInv
<1>8. y.data.attempts = y.issued + Num(y.bus, To("create"))
  <2>1. Num(y.bus, To("create")) = Num(x.bus, To("create")) - (IF m.sink = "create" THEN 1 ELSE 0)
        /\ Num(x.bus, To("create")) \in Nat /\ x.issued \in Nat
    BY <1>1, <1>5 DEF Typed
  <2> QED BY <1>4, <1>7, <2>1
<1>9. ResultsCounted(y)
  <2>1. Num(y.out, Left("executor_failure")) + Num(y.bus, To("executor_failure"))
          + Num(y.bus, To("failure_input")) + Num(y.inbox, To("failure_input"))
        = Num(y.stored, ResultsOf("failure"))
    <3>1. Num(x.out, Left("executor_failure")) + Num(x.bus, To("executor_failure"))
            + Num(x.bus, To("failure_input")) + Num(x.inbox, To("failure_input"))
          = Num(x.stored, ResultsOf("failure"))
      BY <1>7 DEF ResultsCounted
    <3>2. /\ Num(y.out, Left("executor_failure"))
             = Num(x.out, Left("executor_failure")) + (IF m.sink = "executor_failure" THEN 1 ELSE 0)
          /\ Num(y.bus, To("executor_failure"))
             = Num(x.bus, To("executor_failure")) - (IF m.sink = "executor_failure" THEN 1 ELSE 0)
          /\ Num(x.out, Left("executor_failure")) \in Nat /\ Num(x.bus, To("executor_failure")) \in Nat
      BY <1>5, <1>6
    <3>3. /\ Num(y.bus, To("failure_input")) = Num(x.bus, To("failure_input")) - (IF m.sink = "failure_input" THEN 1 ELSE 0)
          /\ Num(y.inbox, To("failure_input"))
             = Num(x.inbox, To("failure_input")) + (IF m.sink = "failure_input" THEN 1 ELSE 0)
          /\ Num(x.bus, To("failure_input")) \in Nat /\ Num(x.inbox, To("failure_input")) \in Nat
      BY <1>5, <1>6
    <3> QED BY <1>4, <3>1, <3>2, <3>3
  <2>2. /\ Num(y.bus, To("task_output")) = Num(x.bus, To("task_output")) - (IF m.sink = "task_output" THEN 1 ELSE 0)
        /\ Num(y.out, Left("task_output")) = Num(x.out, Left("task_output")) + (IF m.sink = "task_output" THEN 1 ELSE 0)
        /\ Num(x.bus, To("task_output")) \in Nat /\ Num(x.out, Left("task_output")) \in Nat
    BY <1>5, <1>6
  <2>3. Num(y.stored, ResultsOf("success"))
        = Num(y.bus, To("success_input")) + Num(y.inbox, To("success_input"))
          + Num(y.bus, To("task_output")) + Num(y.out, Left("task_output"))
    <3>1. Num(x.stored, ResultsOf("success"))
          = Num(x.bus, To("success_input")) + Num(x.inbox, To("success_input"))
            + Num(x.bus, To("task_output")) + Num(x.out, Left("task_output"))
      BY <1>7 DEF ResultsCounted
    <3>2. /\ Num(y.bus, To("success_input")) = Num(x.bus, To("success_input")) - (IF m.sink = "success_input" THEN 1 ELSE 0)
          /\ Num(y.inbox, To("success_input"))
             = Num(x.inbox, To("success_input")) + (IF m.sink = "success_input" THEN 1 ELSE 0)
          /\ Num(x.bus, To("success_input")) \in Nat /\ Num(x.inbox, To("success_input")) \in Nat
      BY <1>5, <1>6
    <3> QED BY <1>4, <2>2, <3>1, <3>2
  <2>4. /\ Num(y.bus, To("successful_task_result"))
           = Num(x.bus, To("successful_task_result")) - (IF m.sink = "successful_task_result" THEN 1 ELSE 0)
        /\ Num(y.out, Left("successful_task_result"))
           = Num(x.out, Left("successful_task_result")) + (IF m.sink = "successful_task_result" THEN 1 ELSE 0)
        /\ Num(x.bus, To("successful_task_result")) \in Nat /\ Num(x.out, Left("successful_task_result")) \in Nat
    BY <1>5, <1>6
  <2>5. /\ Num(x.bus, To("successful_task_result")) + Num(x.out, Left("successful_task_result"))
           = Num(x.bus, To("task_output")) + Num(x.out, Left("task_output"))
        /\ Num(x.bus, To("successful_task_result")) <= Num(x.bus, To("task_output"))
    BY <1>7 DEF ResultsCounted
  <2>6. m.sink = "task_output" => Num(x.bus, To("successful_task_result")) = 0
    <3> SUFFICES ASSUME m.sink = "task_output", NEW k \in DOMAIN x.bus, x.bus[k] \in To("successful_task_result")
        PROVE FALSE
      BY <1>1, NumFacts
    <3>1. k + 1 \in DOMAIN x.bus /\ x.bus[k + 1].sink = "task_output"
      BY <1>1 DEF Ordered, To
    <3>2. DOMAIN x.bus = 1..Len(x.bus)
      BY <1>1, LenProperties
    <3>3. x.bus[k + 1] \in Movers /\ x.bus[1] \in Movers
      <4>1. x.bus[k + 1] \in Messages
        BY <1>1, <3>1, <3>2, ElementOfSeq
      <4> QED BY <1>2, <3>1, <4>1, SinkFacts DEF Movers
    <3>4. Num(x.bus, Movers) <= 1
      <4>1. /\ Num(x.bus, Movers) \in Nat /\ Num(x.inbox, Movers) \in Nat /\ Num(x.out, VerdictsLeft) \in Nat
            /\ Len(x.queue) \in Nat /\ One(x.open) \in {0, 1} /\ One(x.timer) \in {0, 1}
            /\ One(x.lost) \in {0, 1} /\ One(x.last = NoMessage) \in {0, 1}
        BY <1>1, PlaceTypes
      <4>2. Places(x) <= 1
        BY DEF WorkInv, InOnePlace
      <4> QED BY <4>1, <4>2 DEF Places
    <3>5. k + 1 = 1
      BY <1>1, <1>2, <3>1, <3>3, <3>4, NumFacts
    <3> QED BY <3>2, <3>5
  <2>7. /\ Num(y.bus, To("successful_task_result")) + Num(y.out, Left("successful_task_result"))
           = Num(y.bus, To("task_output")) + Num(y.out, Left("task_output"))
        /\ Num(y.bus, To("successful_task_result")) <= Num(y.bus, To("task_output"))
    <3>1. Num(y.bus, To("task_output")) \in Nat
      <4>1. y.bus \in Seq(Messages)
        BY <1>1, DeliveredSequences
      <4> QED BY <4>1, NumType
    <3> QED BY <2>2, <2>4, <2>5, <2>6, <3>1
  <2> QED BY <2>1, <2>3, <2>7 DEF ResultsCounted
<1>10. /\ \A k \in DOMAIN y.bus : PendingExact(y.bus[k], y.data)
       /\ \A k \in DOMAIN y.inbox : PendingExact(y.inbox[k], y.data)
  BY <1>2, <1>3, <1>4, <1>7
<1>11. \A k \in DOMAIN y.out : y.out[k].body # "internal"
  <2>1. m.body # "internal"
    BY <1>2, <1>7 DEF PendingExact
  <2> QED BY <1>3, <1>7, <2>1
<1> QED BY <1>8, <1>9, <1>10, <1>11 DEF UncrashedInv

----------------------------------------------------------------------------
(* Inputs, dropped outputs and crashes *)

\* Nothing is said or taken.
Silent(x, y) == y.bus = x.bus /\ y.inbox = x.inbox /\ y.last = x.last /\ y.out = x.out /\ y.issued = x.issued

\* The input of a work arrives.
Started(x, y, m) ==
  /\ x.last = NoMessage /\ m = Message("input", "value", NoNeuron)
  /\ y.last = m /\ y.inbox = <<m>>
  /\ y.bus = x.bus /\ y.out = x.out /\ y.issued = x.issued /\ SameRest(x, y)

\* It keeps the invariant.
LEMMA StartedWork ==
  ASSUME NEW x, NEW y, NEW c, NEW m, WorkInv(x, c), Started(x, y, m)
  PROVE  WorkInv(y, c) /\ (UncrashedInv(x) => UncrashedInv(y))
<1>1. m \in Messages /\ m.sink = "input" /\ m.body = "value" /\ m \in Movers /\ m # NoMessage
  <2>1. m \in Messages /\ m.sink = "input" /\ m.body = "value"
    BY SinkFacts, MadeUp DEF Started, Bodies
  <2> QED BY <2>1, SinkFacts DEF Movers
<1>2. /\ y.last = m /\ y.inbox = <<m>> /\ y.bus = x.bus /\ y.out = x.out /\ y.issued = x.issued
      /\ y.data = x.data /\ y.open = x.open /\ y.timer = x.timer /\ y.queue = x.queue
      /\ y.lost = x.lost /\ y.stored = x.stored /\ y.ran = x.ran
  BY DEF Started, SameRest
<1>3. /\ x.last = NoMessage /\ x.bus = <<>> /\ x.inbox = <<>> /\ x.stored = <<>> /\ x.out = <<>>
      /\ x.issued = 0 /\ x.data.attempts = 0 /\ x.data.pending = "absent" /\ Typed(x)
  BY DEF WorkInv, Untouched, Started
<1>4. \A S : Num(y.inbox, S) = In(m, S) /\ Num(x.bus, S) = 0 /\ Num(x.inbox, S) = 0 /\ Num(x.out, S) = 0 /\ Num(x.stored, S) = 0
  BY <1>2, <1>3, NumSmall
<1>5. Len(x.queue) = 0 /\ x.queue = <<>> /\ One(x.open) = 0 /\ ~x.open /\ One(x.timer) = 0 /\ ~x.timer /\ One(x.lost) = 0
  <2>1. /\ Len(x.queue) \in Nat /\ (Len(x.queue) = 0 <=> x.queue = <<>>)
        /\ One(x.open) \in {0, 1} /\ (One(x.open) = 1 <=> x.open)
        /\ One(x.timer) \in {0, 1} /\ (One(x.timer) = 1 <=> x.timer)
        /\ One(x.lost) \in {0, 1} /\ (One(x.lost) = 1 <=> x.lost)
        /\ One(x.last = NoMessage) = 1
    BY <1>3, PlaceTypes
  <2>2. Places(x) <= 1
    BY DEF WorkInv, InOnePlace
  <2>3. Num(x.bus, Movers) = 0 /\ Num(x.inbox, Movers) = 0 /\ Num(x.out, VerdictsLeft) = 0
    BY <1>4
  <2>4. Len(x.queue) = 0 /\ One(x.open) = 0 /\ One(x.timer) = 0 /\ One(x.lost) = 0
    BY <2>1, <2>2, <2>3 DEF Places
  <2> QED BY <2>1, <2>4
<1>6. DOMAIN y.inbox = {1} /\ y.inbox[1] = m /\ DOMAIN y.bus = {} /\ DOMAIN y.out = {}
      /\ DOMAIN y.queue = {} /\ y.inbox \in Seq(Messages)
  <2>1. DOMAIN <<m>> = {1} /\ <<m>>[1] = m /\ <<m>> \in Seq(Messages)
    BY <1>1
  <2>2. DOMAIN <<>> = {}
    OBVIOUS
  <2> QED BY <1>2, <1>3, <1>5, <2>1, <2>2
<1>7. Typed(y)
  BY <1>1, <1>2, <1>3, <1>6 DEF Typed
<1>8. InOnePlace(y, c)
  <2>1. Num(y.bus, Movers) = 0 /\ Num(y.inbox, Movers) = 1 /\ Num(y.out, VerdictsLeft) = 0
    <3>1. In(m, Movers) = 1
      BY <1>1 DEF In
    <3>2. Num(y.inbox, Movers) = In(m, Movers) /\ Num(x.bus, Movers) = 0 /\ Num(x.out, VerdictsLeft) = 0
      BY <1>4
    <3> QED BY <1>2, <3>1, <3>2
  <2>2. One(y.last = NoMessage) = 0
    BY <1>1, <1>2 DEF One
  <2>3. Places(y) = 1
    BY <1>2, <1>5, <2>1, <2>2 DEF Places
  <2> QED BY <2>3 DEF InOnePlace
<1>9. Untouched(y)
  BY <1>1, <1>2 DEF Untouched
<1>10. Ordered(y)
  BY <1>1, <1>2, <1>6, SinkFacts DEF Ordered
<1>11. MessagesAgree(y)
  <2>1. Agrees(m, x.data, x.ran)
    BY <1>1 DEF Agrees, Claims
  <2> QED BY <1>2, <1>5, <1>6, <2>1 DEF MessagesAgree
<1>12. PendingAgrees(y)
  BY <1>2, <1>3 DEF PendingAgrees
<1>13. AttemptsCounted(y)
  <2>1. Num(y.bus, To("create")) = 0
    BY <1>2, <1>4
  <2>2. Cap \in Nat
    BY SinkFacts DEF Cap
  <2> QED BY <1>2, <1>3, <2>1, <2>2 DEF AttemptsCounted
<1>14. UncrashedInv(y)
  <2>1. /\ Num(y.bus, To("create")) = 0
        /\ Num(y.out, Left("executor_failure")) = 0 /\ Num(y.bus, To("executor_failure")) = 0
        /\ Num(y.bus, To("failure_input")) = 0 /\ Num(y.bus, To("success_input")) = 0
        /\ Num(y.bus, To("task_output")) = 0 /\ Num(y.out, Left("task_output")) = 0
        /\ Num(y.bus, To("successful_task_result")) = 0 /\ Num(y.out, Left("successful_task_result")) = 0
        /\ Num(y.stored, ResultsOf("failure")) = 0 /\ Num(y.stored, ResultsOf("success")) = 0
    BY <1>2, <1>4
  <2>2. Num(y.inbox, To("failure_input")) = 0 /\ Num(y.inbox, To("success_input")) = 0
    <3>1. In(m, To("failure_input")) = 0 /\ In(m, To("success_input")) = 0
      BY <1>1 DEF In, To
    <3> QED BY <1>4, <3>1
  <2>3. ResultsCounted(y)
    BY <2>1, <2>2 DEF ResultsCounted
  <2>4. PendingExact(m, y.data)
    BY <1>1, <1>2, <1>3 DEF PendingExact, Converting
  <2> QED BY <1>2, <1>3, <1>6, <2>1, <2>3, <2>4 DEF UncrashedInv
<1> QED BY <1>7, <1>8, <1>9, <1>10, <1>11, <1>12, <1>13, <1>14 DEF WorkInv

\* An output that waits for a beat is dropped.
Dropped(x, y) ==
  /\ x.queue # <<>> /\ y.queue = <<>> /\ y.lost = TRUE /\ Silent(x, y)
  /\ y.data = x.data /\ y.open = x.open /\ y.timer = x.timer /\ y.stored = x.stored /\ y.ran = x.ran

\* That keeps the invariant: the work is lost.
LEMMA DroppedWork ==
  ASSUME NEW x, NEW y, NEW c, WorkInv(x, c), Dropped(x, y)
  PROVE  WorkInv(y, c) /\ (UncrashedInv(x) => UncrashedInv(y))
<1>1. /\ y.bus = x.bus /\ y.inbox = x.inbox /\ y.last = x.last /\ y.out = x.out /\ y.issued = x.issued
      /\ y.data = x.data /\ y.open = x.open /\ y.timer = x.timer /\ y.stored = x.stored /\ y.ran = x.ran
      /\ x.queue # <<>> /\ y.queue = <<>> /\ y.lost = TRUE
  BY DEF Dropped, Silent
<1>2. Typed(x) /\ Typed(y)
  <2>1. <<>> \in Seq(Entries)
    OBVIOUS
  <2> QED BY <1>1, <2>1 DEF WorkInv, Typed
<1>3. InOnePlace(y, c)
  <2>1. /\ Num(x.bus, Movers) \in Nat /\ Num(x.inbox, Movers) \in Nat /\ Num(x.out, VerdictsLeft) \in Nat
        /\ Len(x.queue) \in Nat /\ (Len(x.queue) = 0 <=> x.queue = <<>>)
        /\ One(x.open) \in {0, 1} /\ One(x.timer) \in {0, 1}
        /\ One(x.lost) \in {0, 1} /\ One(x.last = NoMessage) \in {0, 1}
    BY <1>2, PlaceTypes
  <2>2. Places(x) <= 1
    BY DEF WorkInv, InOnePlace
  <2>3. /\ Num(x.bus, Movers) = 0 /\ Num(x.inbox, Movers) = 0 /\ Num(x.out, VerdictsLeft) = 0
        /\ One(x.open) = 0 /\ One(x.timer) = 0 /\ One(x.last = NoMessage) = 0
    BY <1>1, <2>1, <2>2 DEF Places
  <2>4. Len(<<>>) = 0 /\ One(y.lost) = 1
    BY <1>1 DEF One
  <2>5. Places(y) = 1
    BY <1>1, <2>3, <2>4 DEF Places
  <2> QED BY <2>5 DEF InOnePlace
<1>4. Untouched(y) /\ Ordered(y) /\ AttemptsCounted(y)
  BY <1>1 DEF WorkInv, Untouched, Ordered, AttemptsCounted
<1>5. MessagesAgree(y)
  <2>1. DOMAIN <<>> = {}
    OBVIOUS
  <2> QED BY <1>1, <2>1 DEF WorkInv, MessagesAgree
<1>6. PendingAgrees(y)
  BY <1>1 DEF WorkInv, PendingAgrees
<1>7. UncrashedInv(x) => UncrashedInv(y)
  BY <1>1 DEF UncrashedInv, ResultsCounted
<1> QED BY <1>2, <1>3, <1>4, <1>5, <1>6, <1>7 DEF WorkInv

\* What a crash leaves of a work.
Crashed(x, y) ==
  /\ y.bus = <<>> /\ y.inbox = IF x.last.sink \in Sinks THEN <<x.last>> ELSE <<>>
  /\ y.queue = <<>> /\ y.open = FALSE /\ y.timer = FALSE /\ y.lost = FALSE
  /\ y.last = x.last /\ y.data = x.data /\ y.stored = x.stored
  /\ y.out = x.out /\ y.issued = x.issued /\ y.ran = x.ran

\* The invariant holds for what is left, with a crash more.
LEMMA CrashedWork ==
  ASSUME NEW x, NEW y, NEW c \in Nat, WorkInv(x, c), Crashed(x, y)
  PROVE  WorkInv(y, c + 1)
<1>1. /\ y.bus = <<>> /\ y.queue = <<>> /\ y.open = FALSE /\ y.timer = FALSE /\ y.lost = FALSE
      /\ y.last = x.last /\ y.data = x.data /\ y.stored = x.stored
      /\ y.out = x.out /\ y.issued = x.issued /\ y.ran = x.ran
  BY DEF Crashed
<1>2. y.inbox = IF x.last.sink \in Sinks THEN <<x.last>> ELSE <<>>
  BY DEF Crashed
<1>3. Typed(x) /\ Ordered(x) /\ Places(x) <= 1
  BY DEF WorkInv, InOnePlace
<1>4. /\ DOMAIN <<>> = {} /\ <<>> \in Seq(Entries) /\ <<>> \in Seq(Messages) /\ Len(<<>>) = 0
  OBVIOUS
<1>5. /\ y.inbox \in Seq(Messages)
      /\ \A k \in DOMAIN y.inbox : y.inbox[k] = x.last /\ x.last.sink \in Sinks
  <2>1. CASE x.last.sink \in Sinks
    <3>1. x.last \in Messages
      <4>1. x.last \in Messages \cup {NoMessage}
        BY <1>3 DEF Typed
      <4> QED BY <2>1, <4>1, SinkFacts
    <3>2. DOMAIN <<x.last>> = {1} /\ <<x.last>>[1] = x.last /\ <<x.last>> \in Seq(Messages)
      BY <3>1
    <3> QED BY <1>2, <2>1, <3>2
  <2>2. CASE x.last.sink \notin Sinks
    BY <1>2, <1>4, <2>2
  <2> QED BY <2>1, <2>2
<1>6. Typed(y)
  BY <1>1, <1>3, <1>4, <1>5 DEF Typed
<1>7. InOnePlace(y, c + 1)
  <2>1. Num(y.bus, Movers) = 0 /\ One(y.open) = 0 /\ One(y.timer) = 0 /\ One(y.lost) = 0 /\ Len(y.queue) = 0
    BY <1>1, <1>4, NumSmall DEF One
  <2>2. Num(y.out, VerdictsLeft) \in 0..1
    <3> DEFINE a == Num(x.bus, Movers)
               b == Num(x.inbox, Movers)
               d == Num(x.out, VerdictsLeft)
               l == Len(x.queue)
    <3>1. /\ a \in Nat /\ b \in Nat /\ d \in Nat /\ l \in Nat
          /\ One(x.open) \in {0, 1} /\ One(x.timer) \in {0, 1}
          /\ One(x.lost) \in {0, 1} /\ One(x.last = NoMessage) \in {0, 1}
      BY <1>3, PlaceTypes
    <3>2. a + b + d + l + One(x.open) + One(x.timer) + One(x.lost) + One(x.last = NoMessage) <= 1
      BY <1>3 DEF Places
    <3>3. d <= 1
      <4> HIDE DEF a, b, d, l
      <4> QED BY <3>1, <3>2, PartsOfOne
    <3> QED BY <1>1, <3>1, <3>3
  <2>3. Num(y.inbox, Movers) \in 0..1 /\ (x.last.sink \notin Sinks => Num(y.inbox, Movers) = 0)
    <3>1. CASE x.last.sink \in Sinks
      <4>1. Num(y.inbox, Movers) = In(x.last, Movers)
        BY <1>2, <3>1, NumSmall
      <4> QED BY <3>1, <4>1 DEF In
    <3>2. CASE x.last.sink \notin Sinks
      <4>1. Num(y.inbox, Movers) = 0
        BY <1>2, <3>2, NumSmall
      <4> QED BY <4>1
    <3> QED BY <3>1, <3>2
  <2>4. CASE x.last = NoMessage
    <3>1. x.last.sink \notin Sinks
      BY <2>4, SinkFacts
    <3>2. Num(y.out, VerdictsLeft) = 0
      <4>1. y.out = <<>>
        BY <1>1, <2>4 DEF WorkInv, Untouched
      <4> QED BY <4>1, NumSmall
    <3>3. One(y.last = NoMessage) = 1
      BY <1>1, <2>4 DEF One
    <3>4. Places(y) = 1
      BY <2>1, <2>3, <3>1, <3>2, <3>3 DEF Places
    <3> QED BY <3>4 DEF InOnePlace
  <2>5. CASE x.last # NoMessage
    <3>1. One(y.last = NoMessage) = 0
      BY <1>1, <2>5 DEF One
    <3>2. Num(y.out, VerdictsLeft) = 0 \/ Num(y.inbox, Movers) = 0
      <4>1. CASE x.last.sink \in Sinks
        <5>1. x.last.sink \notin Verdicts
          BY <4>1, SinkFacts DEF Verdicts
        <5>2. \A k \in DOMAIN x.out : x.out[k].sink \notin Verdicts
          BY <1>3, <5>1 DEF Ordered
        <5>3. Num(x.out, VerdictsLeft) = 0
          BY <1>3, <5>2, QuietOut
        <5> QED BY <1>1, <5>3
      <4>2. CASE x.last.sink \notin Sinks
        BY <2>3, <4>2
      <4> QED BY <4>1, <4>2
    <3>3. Places(y) <= 1
      BY <2>1, <2>2, <2>3, <3>1, <3>2 DEF Places
    <3>4. c + 1 # 0
      OBVIOUS
    <3> QED BY <3>3, <3>4 DEF InOnePlace
  <2> QED BY <2>4, <2>5
<1>8. Untouched(y)
  <2>1. NoMessage.sink \notin Sinks
    BY SinkFacts
  <2> QED BY <1>1, <1>2, <2>1 DEF WorkInv, Untouched
<1>9. Ordered(y)
  <2>1. \A k \in DOMAIN y.out : y.out[k].sink \in Verdicts => y.last.sink \in Verdicts
    BY <1>1, <1>3 DEF Ordered
  <2> QED BY <1>1, <1>4, <1>5, <2>1 DEF Ordered
<1>10. MessagesAgree(y)
  BY <1>1, <1>4, <1>5 DEF WorkInv, MessagesAgree
<1>11. PendingAgrees(y)
  BY <1>1, <1>4, <1>5 DEF WorkInv, PendingAgrees
<1>12. AttemptsCounted(y)
  <2>1. Num(y.bus, To("create")) = 0
    BY <1>1, NumSmall
  <2>2. Num(x.bus, To("create")) \in Nat /\ x.issued \in Nat /\ x.data.attempts \in Nat /\ Cap \in Nat
    BY <1>3, PlaceTypes, SinkFacts DEF Typed, Records, Cap
  <2>3. /\ x.issued + Num(x.bus, To("create")) <= x.data.attempts
        /\ x.issued + Num(x.bus, To("create")) <= Cap
        /\ x.last.sink \in {"none", "input"} => x.issued = 0
    BY DEF WorkInv, AttemptsCounted
  <2> QED BY <1>1, <2>1, <2>2, <2>3 DEF AttemptsCounted
<1> QED BY <1>6, <1>7, <1>8, <1>9, <1>10, <1>11, <1>12 DEF WorkInv

----------------------------------------------------------------------------
(* Answers of no, one and two messages *)

\* A handler and what else moves a work keep its invariant.
LEMMA HandledKeeps ==
  ASSUME NEW x, NEW y, NEW c, NEW i, NEW msgs, Inv(x, c), Taken(x, y, i, msgs),
         x.inbox[i].sink # "failure_input", Fits(x, y, msgs),
         c = 0 => FitsUncrashed(x, y, x.inbox[i], msgs)
  PROVE  Inv(y, c)
<1>1. WorkInv(x, c) /\ Typed(x) /\ i \in DOMAIN x.inbox
  BY DEF Inv, WorkInv, Taken
<1>2. Alone(x, i)
  BY <1>1, MoverAlone
<1>3. Says(x, y, x.inbox[i], msgs)
  BY <1>1, <1>2, HandledSays
<1>4. WorkInv(y, c)
  BY <1>1, <1>3, WorkSays
<1>5. c = 0 => UncrashedInv(y)
  BY <1>1, <1>3, UncrashedSays DEF Inv
<1> QED BY <1>4, <1>5 DEF Inv

\* No message.
LEMMA FitsNone ==
  ASSUME NEW x, NEW y, SideTyped(y),
         Len(y.queue) + One(y.open) + One(y.timer) + One(y.lost) = 1,
         y.data.attempts > 0, y.data.attempts >= x.data.attempts,
         Agrees(x.last, y.data, y.ran),
         \A k \in DOMAIN y.queue : y.queue[k].target = y.ran,
         y.open => y.data.started /\ y.data.input = y.ran,
         y.timer => y.data.attempts < MaxAttempts,
         y.data.pending = "set" => y.data.of = y.ran /\ Late(x.last) /\ ~y.open /\ ~y.timer /\ y.queue = <<>>,
         x.issued \in Nat, x.issued <= y.data.attempts, x.issued <= Cap
  PROVE  Fits(x, y, <<>>)
<1>1. DOMAIN <<>> = {}
  OBVIOUS
<1>2. Num(<<>>, Movers) = 0 /\ Num(<<>>, To("create")) = 0
  BY NumSmall
<1>3. /\ Len(y.queue) \in Nat /\ One(y.open) \in Nat /\ One(y.timer) \in Nat /\ One(y.lost) \in Nat
  BY LenProperties DEF SideTyped, One
<1>4. Num(<<>>, Movers) + Len(y.queue) + One(y.open) + One(y.timer) + One(y.lost) = 1
  BY <1>2, <1>3
<1>5. x.issued + Num(<<>>, To("create")) = x.issued
  BY <1>2
<1>6. Paired(<<>>)
  BY <1>1 DEF Paired
<1>7. \A k \in DOMAIN <<>> : Agrees(<<>>[k], y.data, y.ran) /\ Late(<<>>[k])
  BY <1>1
<1> QED BY <1>4, <1>5, <1>6, <1>7 DEF Fits

\* No message, without crashes.
LEMMA FitsNoneUncrashed ==
  ASSUME NEW x, NEW y, NEW m, SideTyped(y), y.stored = x.stored, x.issued \in Nat, y.data.attempts = x.issued,
         m.sink # "success_input"
  PROVE  FitsUncrashed(x, y, m, <<>>)
<1>1. DOMAIN <<>> = {}
  OBVIOUS
<1>2. \A S : Num(<<>>, S) = 0
  BY NumSmall
<1>3. In(m, To("success_input")) = 0
  BY DEF In, To
<1>4. Num(y.stored, ResultsOf("failure")) \in Nat /\ Num(y.stored, ResultsOf("success")) \in Nat
  BY NumType DEF SideTyped
<1>5. /\ Num(<<>>, To("create")) = 0 /\ Num(<<>>, To("executor_failure")) = 0 /\ Num(<<>>, To("failure_input")) = 0
      /\ Num(<<>>, To("success_input")) = 0 /\ Num(<<>>, To("task_output")) = 0
      /\ Num(<<>>, To("successful_task_result")) = 0
  BY <1>2
<1>6. \A k \in DOMAIN <<>> : PendingExact(<<>>[k], y.data)
  BY <1>1
<1> QED BY <1>3, <1>4, <1>5, <1>6 DEF FitsUncrashed

\* One message that moves the work on.
LEMMA FitsOne ==
  ASSUME NEW x, NEW y, NEW e, SideTyped(y), e \in Messages, Moves(e), e.sink # "input",
         y.queue = <<>>, ~y.open, ~y.timer, ~y.lost,
         y.data.attempts > 0, y.data.attempts >= x.data.attempts,
         Agrees(x.last, y.data, y.ran), Agrees(e, y.data, y.ran),
         y.data.pending = "set" => y.data.of = y.ran /\ Late(x.last) /\ Late(e),
         x.issued \in Nat,
         x.issued + (IF e.sink = "create" THEN 1 ELSE 0) <= y.data.attempts,
         x.issued + (IF e.sink = "create" THEN 1 ELSE 0) <= Cap
  PROVE  Fits(x, y, <<e>>)
<1>1. DOMAIN <<e>> = {1} /\ <<e>>[1] = e /\ DOMAIN <<>> = {} /\ Len(<<>>) = 0
  OBVIOUS
<1>2. Num(<<e>>, Movers) = 1 /\ Num(<<e>>, To("create")) = IF e.sink = "create" THEN 1 ELSE 0
  <2>1. Num(<<e>>, Movers) = In(e, Movers) /\ Num(<<e>>, To("create")) = In(e, To("create"))
    BY NumSmall
  <2> QED BY <2>1 DEF In, Movers, To
<1>3. Len(y.queue) = 0 /\ One(y.open) = 0 /\ One(y.timer) = 0 /\ One(y.lost) = 0
  BY <1>1 DEF One
<1>4. Num(<<e>>, Movers) + Len(y.queue) + One(y.open) + One(y.timer) + One(y.lost) = 1
  BY <1>2, <1>3
<1>5. x.issued + Num(<<e>>, To("create")) <= y.data.attempts /\ x.issued + Num(<<e>>, To("create")) <= Cap
  BY <1>2
<1>6. e.sink \notin {"failure_input", "successful_task_result"}
  BY SinkFacts
<1>7. Paired(<<e>>)
  BY <1>1, <1>6 DEF Paired
<1>8. \A k \in DOMAIN <<e>> : Agrees(<<e>>[k], y.data, y.ran)
  BY <1>1
<1>9. y.data.pending = "set" => \A k \in DOMAIN <<e>> : Late(<<e>>[k])
  BY <1>1
<1>10. \A k \in DOMAIN y.queue : y.queue[k].target = y.ran
  BY <1>1
<1> QED BY <1>4, <1>5, <1>7, <1>8, <1>9, <1>10 DEF Fits

\* One message, without crashes.
LEMMA FitsOneUncrashed ==
  ASSUME NEW x, NEW y, NEW m, NEW e, SideTyped(y), e \in Messages, Moves(e), e.sink # "task_output",
         x.issued \in Nat, y.data.attempts = x.issued + (IF e.sink = "create" THEN 1 ELSE 0),
         Num(y.stored, ResultsOf("failure")) = Num(x.stored, ResultsOf("failure")),
         Num(x.stored, ResultsOf("failure")) \in Nat, Num(x.stored, ResultsOf("success")) \in Nat,
         Num(y.stored, ResultsOf("success"))
           = Num(x.stored, ResultsOf("success")) + (IF e.sink = "success_input" THEN 1 ELSE 0),
         m.sink # "success_input", PendingExact(e, y.data)
  PROVE  FitsUncrashed(x, y, m, <<e>>)
<1>1. DOMAIN <<e>> = {1} /\ <<e>>[1] = e
  OBVIOUS
<1>2. e.sink \notin {"executor_failure", "failure_input", "successful_task_result"}
  BY SinkFacts
<1>3. /\ Num(<<e>>, To("create")) = (IF e.sink = "create" THEN 1 ELSE 0)
      /\ Num(<<e>>, To("executor_failure")) = 0 /\ Num(<<e>>, To("failure_input")) = 0
      /\ Num(<<e>>, To("success_input")) = (IF e.sink = "success_input" THEN 1 ELSE 0)
      /\ Num(<<e>>, To("task_output")) = 0 /\ Num(<<e>>, To("successful_task_result")) = 0
  <2>1. \A s : Num(<<e>>, To(s)) = In(e, To(s))
    BY NumSmall
  <2>2. \A s : In(e, To(s)) = IF e.sink = s THEN 1 ELSE 0
    BY DEF In, To
  <2> QED BY <1>2, <2>1, <2>2
<1>4. In(m, To("success_input")) = 0
  BY DEF In, To
<1>5. \A k \in DOMAIN <<e>> : PendingExact(<<e>>[k], y.data)
  BY <1>1
<1> QED BY <1>3, <1>4, <1>5 DEF FitsUncrashed

\* The attempts of a work whose message is handled.
LEMMA HandledAttempts ==
  ASSUME NEW x, NEW c, Inv(x, c), NEW i \in DOMAIN x.inbox, x.inbox[i].sink # "failure_input"
  PROVE  /\ Typed(x) /\ Alone(x, i) /\ x.inbox[i] = x.last
         /\ x.issued \in Nat /\ x.data.attempts \in Nat /\ x.issued <= x.data.attempts /\ x.issued <= Cap
         /\ x.inbox[i].sink # "input" => x.data.attempts > 0
         /\ c = 0 => x.data.attempts = x.issued /\ PendingExact(x.inbox[i], x.data)
         /\ x.data.pending = "set" => x.data.of = x.ran /\ Late(x.inbox[i])
         /\ x.inbox[i].sink = "input" => x.issued = 0
         /\ Num(x.stored, ResultsOf("failure")) \in Nat /\ Num(x.stored, ResultsOf("success")) \in Nat
<1>1. WorkInv(x, c) /\ Typed(x) /\ AttemptsCounted(x)
  BY DEF Inv, WorkInv
<1>2. Alone(x, i)
  BY <1>1, MoverAlone
<1>3. x.inbox[i] = x.last /\ Agrees(x.inbox[i], x.data, x.ran) /\ x.inbox[i].sink \in Sinks
  BY <1>2 DEF Alone
<1>4. To("create") \subseteq Movers
  BY SinkFacts DEF To, Movers
<1>5. Num(x.bus, To("create")) = 0
  BY <1>2, <1>4 DEF Alone
<1>6. x.issued \in Nat /\ x.data.attempts \in Nat
  BY <1>1 DEF Typed, Records
<1>7. x.issued <= x.data.attempts /\ x.issued <= Cap
  BY <1>1, <1>5, <1>6 DEF AttemptsCounted
<1>8. x.inbox[i].sink # "input" => x.data.attempts > 0
  <2>1. x.inbox[i].sink # "none"
    BY <1>3, SinkFacts
  <2> QED BY <1>3, <2>1 DEF Agrees
<1>9. c = 0 => x.data.attempts = x.issued /\ PendingExact(x.inbox[i], x.data)
  BY <1>5, <1>6 DEF Inv, UncrashedInv
<1>10. x.data.pending = "set" => x.data.of = x.ran /\ Late(x.inbox[i])
  BY <1>1, <1>3 DEF WorkInv, PendingAgrees
<1>11. x.inbox[i].sink = "input" => x.issued = 0
  BY <1>1, <1>3 DEF AttemptsCounted
<1>12. Num(x.stored, ResultsOf("failure")) \in Nat /\ Num(x.stored, ResultsOf("success")) \in Nat
  BY <1>1, PlaceTypes
<1> QED BY <1>1, <1>2, <1>3, <1>6, <1>7, <1>8, <1>9, <1>10, <1>11, <1>12

\* A handler that answers with one message.
LEMMA ChangedOn ==
  ASSUME NEW x, NEW y, NEW c, NEW i, NEW e, Inv(x, c), Taken(x, y, i, <<e>>),
         y.open = x.open, y.timer = x.timer, y.queue = x.queue, y.lost = x.lost, y.ran = x.ran,
         y.data \in Records, y.stored \in Seq(Results),
         x.inbox[i].sink \notin {"failure_input", "success_input"},
         x.inbox[i].sink = "input" <=> e.sink = "create",
         e \in Messages, Moves(e), e.sink \notin {"input", "task_output"},
         y.data.attempts = x.data.attempts + (IF e.sink = "create" THEN 1 ELSE 0),
         Agrees(x.inbox[i], y.data, x.ran), Agrees(e, y.data, x.ran),
         y.data.pending = "set" => y.data.of = x.ran /\ Late(x.inbox[i]) /\ Late(e),
         PendingExact(x.inbox[i], x.data) => PendingExact(e, y.data),
         Num(y.stored, ResultsOf("failure")) = Num(x.stored, ResultsOf("failure")),
         Num(y.stored, ResultsOf("success"))
           = Num(x.stored, ResultsOf("success")) + (IF e.sink = "success_input" THEN 1 ELSE 0)
  PROVE  Inv(y, c)
<1>1. i \in DOMAIN x.inbox
  BY DEF Taken
<1>2. /\ Typed(x) /\ Alone(x, i) /\ x.inbox[i] = x.last
      /\ x.issued \in Nat /\ x.data.attempts \in Nat /\ x.issued <= x.data.attempts /\ x.issued <= Cap
      /\ x.inbox[i].sink # "input" => x.data.attempts > 0
      /\ c = 0 => x.data.attempts = x.issued /\ PendingExact(x.inbox[i], x.data)
      /\ x.inbox[i].sink = "input" => x.issued = 0
      /\ Num(x.stored, ResultsOf("failure")) \in Nat /\ Num(x.stored, ResultsOf("success")) \in Nat
  BY <1>1, HandledAttempts
<1>3. SideTyped(y)
  BY <1>2 DEF Typed, SideTyped
<1>4. x.queue = <<>> /\ ~x.open /\ ~x.timer /\ ~x.lost
  BY <1>2 DEF Alone
<1>5. Cap \in Nat /\ Cap >= 1
  BY SinkFacts DEF Cap
<1>6. /\ y.data.attempts > 0 /\ y.data.attempts >= x.data.attempts
      /\ x.issued + (IF e.sink = "create" THEN 1 ELSE 0) <= y.data.attempts
      /\ x.issued + (IF e.sink = "create" THEN 1 ELSE 0) <= Cap
  BY <1>2, <1>5
<1>7. Fits(x, y, <<e>>)
  BY <1>2, <1>3, <1>4, <1>6, FitsOne
<1>8. ASSUME c = 0 PROVE FitsUncrashed(x, y, x.inbox[i], <<e>>)
  <2>1. y.data.attempts = x.issued + (IF e.sink = "create" THEN 1 ELSE 0) /\ PendingExact(e, y.data)
    BY <1>2, <1>8
  <2> QED BY <1>2, <1>3, <2>1, FitsOneUncrashed
<1> QED BY <1>7, <1>8, HandledKeeps

\* A handler that passes a message on and touches nothing else.
LEMMA PassedOn ==
  ASSUME NEW x, NEW y, NEW c, NEW i, NEW e, Inv(x, c), Taken(x, y, i, <<e>>), SameRest(x, y),
         x.inbox[i].sink \notin {"input", "failure_input", "success_input"},
         e \in Messages, Moves(e), e.sink \notin {"input", "create", "success_input", "task_output"},
         Agrees(e, x.data, x.ran),
         x.data.pending = "set" /\ Late(x.inbox[i]) => Late(e),
         PendingExact(x.inbox[i], x.data) => PendingExact(e, x.data)
  PROVE  Inv(y, c)
<1>1. i \in DOMAIN x.inbox
  BY DEF Taken
<1>2. /\ Typed(x) /\ Alone(x, i) /\ x.data.attempts \in Nat
      /\ x.data.pending = "set" => x.data.of = x.ran /\ Late(x.inbox[i])
      /\ Num(x.stored, ResultsOf("failure")) \in Nat /\ Num(x.stored, ResultsOf("success")) \in Nat
  BY <1>1, HandledAttempts
<1>3. /\ y.data = x.data /\ y.open = x.open /\ y.timer = x.timer /\ y.queue = x.queue
      /\ y.lost = x.lost /\ y.stored = x.stored /\ y.ran = x.ran
  BY DEF SameRest
<1>4. Agrees(x.inbox[i], x.data, x.ran) /\ x.data \in Records /\ x.stored \in Seq(Results)
  BY <1>2 DEF Alone, Typed
<1>5. /\ y.data.attempts = x.data.attempts + (IF e.sink = "create" THEN 1 ELSE 0)
      /\ Num(y.stored, ResultsOf("success"))
           = Num(x.stored, ResultsOf("success")) + (IF e.sink = "success_input" THEN 1 ELSE 0)
  BY <1>2, <1>3
<1> QED BY <1>2, <1>3, <1>4, <1>5, ChangedOn

\* A handler that raises.
LEMMA GivenUp ==
  ASSUME NEW x, NEW y, NEW c, NEW i, Inv(x, c), Taken(x, y, i, <<>>), y.lost = TRUE,
         y.data = x.data, y.open = x.open, y.timer = x.timer, y.queue = x.queue,
         y.stored = x.stored, y.ran = x.ran,
         x.inbox[i].sink \notin {"input", "failure_input", "success_input"}
  PROVE  Inv(y, c)
<1>1. i \in DOMAIN x.inbox
  BY DEF Taken
<1>2. /\ Typed(x) /\ Alone(x, i) /\ x.inbox[i] = x.last
      /\ x.issued \in Nat /\ x.data.attempts \in Nat /\ x.issued <= x.data.attempts /\ x.issued <= Cap
      /\ x.data.attempts > 0
      /\ c = 0 => x.data.attempts = x.issued /\ PendingExact(x.inbox[i], x.data)
      /\ x.data.pending = "set" => x.data.of = x.ran /\ Late(x.inbox[i])
  BY <1>1, HandledAttempts
<1>3. SideTyped(y)
  BY <1>2 DEF Typed, SideTyped
<1>4. x.queue = <<>> /\ ~x.open /\ ~x.timer /\ ~x.lost /\ Agrees(x.inbox[i], x.data, x.ran)
  BY <1>2 DEF Alone
<1>5. Len(<<>>) = 0 /\ DOMAIN <<>> = {}
  OBVIOUS
<1>6. Len(y.queue) + One(y.open) + One(y.timer) + One(y.lost) = 1
  BY <1>4, <1>5 DEF One
<1>7. Fits(x, y, <<>>)
  BY <1>2, <1>3, <1>4, <1>5, <1>6, FitsNone
<1>8. ASSUME c = 0 PROVE FitsUncrashed(x, y, x.inbox[i], <<>>)
  BY <1>2, <1>3, <1>8, FitsNoneUncrashed
<1> QED BY <1>7, <1>8, HandledKeeps

\* A handler that leaves the work waiting for a timer, an answer or a beat.
LEMMA Waiting ==
  ASSUME NEW x, NEW y, NEW c, NEW i, Inv(x, c), Taken(x, y, i, <<>>), SideTyped(y),
         x.inbox[i].sink \notin {"input", "failure_input", "success_input"},
         Len(y.queue) + One(y.open) + One(y.timer) + One(y.lost) = 1,
         y.stored = x.stored, y.data.attempts = x.data.attempts, y.data.pending = x.data.pending,
         ~Late(x.inbox[i]), Agrees(x.inbox[i], y.data, y.ran),
         \A k \in DOMAIN y.queue : y.queue[k].target = y.ran,
         y.open => y.data.started /\ y.data.input = y.ran,
         y.timer => y.data.attempts < MaxAttempts
  PROVE  Inv(y, c)
<1>1. i \in DOMAIN x.inbox
  BY DEF Taken
<1>2. /\ x.inbox[i] = x.last
      /\ x.issued \in Nat /\ x.data.attempts \in Nat /\ x.issued <= x.data.attempts /\ x.issued <= Cap
      /\ x.data.attempts > 0
      /\ c = 0 => x.data.attempts = x.issued
      /\ x.data.pending # "set"
  BY <1>1, HandledAttempts
<1>3. Fits(x, y, <<>>)
  BY <1>2, FitsNone
<1>4. ASSUME c = 0 PROVE FitsUncrashed(x, y, x.inbox[i], <<>>)
  BY <1>2, <1>4, FitsNoneUncrashed
<1> QED BY <1>3, <1>4, HandledKeeps

\* A handler that answers with a report and the message that moves the work on.
LEMMA ReportedOn ==
  ASSUME NEW x, NEW y, NEW c, NEW i, NEW a, NEW b, Inv(x, c), Taken(x, y, i, <<a, b>>),
         y.data = x.data, y.open = x.open, y.timer = x.timer, y.queue = x.queue, y.lost = x.lost, y.ran = x.ran,
         y.stored \in Seq(Results), a \in Messages, b \in Messages,
         x.inbox[i].sink \notin {"input", "failure_input"}, ~Late(x.inbox[i]),
         \/ a.sink = "failure_input" /\ b.sink = "failed_attempt"
         \/ a.sink = "successful_task_result" /\ b.sink = "task_output",
         x.inbox[i].sink = "success_input" <=> b.sink = "task_output",
         a.body \notin {"internal", "exhausted"}, b.body \notin {"internal", "exhausted"},
         Num(y.stored, ResultsOf("failure"))
           = Num(x.stored, ResultsOf("failure")) + (IF a.sink = "failure_input" THEN 1 ELSE 0),
         Num(y.stored, ResultsOf("success")) = Num(x.stored, ResultsOf("success"))
  PROVE  Inv(y, c)
<1>1. i \in DOMAIN x.inbox
  BY DEF Taken
<1>2. /\ Typed(x) /\ Alone(x, i) /\ x.inbox[i] = x.last
      /\ x.issued \in Nat /\ x.data.attempts \in Nat /\ x.issued <= x.data.attempts /\ x.issued <= Cap
      /\ x.data.attempts > 0 /\ x.data.pending # "set"
      /\ c = 0 => x.data.attempts = x.issued
      /\ Num(x.stored, ResultsOf("failure")) \in Nat /\ Num(x.stored, ResultsOf("success")) \in Nat
  BY <1>1, HandledAttempts
<1>3. SideTyped(y)
  BY <1>2 DEF Typed, SideTyped
<1>4. x.queue = <<>> /\ ~x.open /\ ~x.timer /\ ~x.lost /\ Agrees(x.inbox[i], x.data, x.ran)
  BY <1>2 DEF Alone
<1> DEFINE msgs == <<a, b>>
<1>5. DOMAIN msgs = {1, 2} /\ msgs[1] = a /\ msgs[2] = b /\ 1 + 1 = 2 /\ msgs = Append(<<a>>, b)
  <2>1. DOMAIN msgs = {1, 2} /\ msgs[1] = a /\ msgs[2] = b
    OBVIOUS
  <2>2. 1 + 1 = 2
    OBVIOUS
  <2>3. msgs = Append(<<a>>, b)
    OBVIOUS
  <2> QED BY <2>1, <2>2, <2>3
<1>6. \A S : Num(msgs, S) = In(a, S) + In(b, S)
  <2> SUFFICES ASSUME NEW S PROVE Num(msgs, S) = In(a, S) + In(b, S)
    OBVIOUS
  <2>1. Num(Append(<<a>>, b), S) = Num(<<a>>, S) + In(b, S)
    <3>1. <<a>> \in Seq(Messages)
      OBVIOUS
    <3> QED BY <3>1, NumAppend
  <2>2. Num(<<a>>, S) = In(a, S)
    BY NumSmall
  <2> QED BY <1>5, <2>1, <2>2
<1> HIDE DEF msgs
<1>7. \A s : Num(msgs, To(s)) = (IF a.sink = s THEN 1 ELSE 0) + (IF b.sink = s THEN 1 ELSE 0)
  <2>1. \A s : In(a, To(s)) = (IF a.sink = s THEN 1 ELSE 0) /\ In(b, To(s)) = IF b.sink = s THEN 1 ELSE 0
    BY DEF In, To
  <2> QED BY <1>6, <2>1
<1>8. Fits(x, y, msgs)
  <2>1. Num(msgs, Movers) + Len(y.queue) + One(y.open) + One(y.timer) + One(y.lost) = 1
    <3>1. In(a, Movers) = 0 /\ In(b, Movers) = 1
      BY SinkFacts DEF In, Movers
    <3>2. Num(msgs, Movers) = 1
      BY <1>6, <3>1
    <3>3. Len(<<>>) = 0
      OBVIOUS
    <3>4. Len(y.queue) = 0 /\ One(y.open) = 0 /\ One(y.timer) = 0 /\ One(y.lost) = 0
      BY <1>4, <3>3 DEF One
    <3> QED BY <3>2, <3>4
  <2>2. Paired(msgs)
    BY <1>5 DEF Paired
  <2>3. \A k \in DOMAIN msgs : Agrees(msgs[k], y.data, y.ran)
    <3>1. Agrees(a, x.data, x.ran) /\ Agrees(b, x.data, x.ran)
      BY <1>2 DEF Agrees, Claims
    <3> QED BY <1>5, <3>1
  <2>4. Num(msgs, To("create")) = 0
    BY <1>7
  <2>5. x.issued + Num(msgs, To("create")) <= y.data.attempts /\ x.issued + Num(msgs, To("create")) <= Cap
    BY <1>2, <2>4
  <2>6. DOMAIN <<>> = {}
    OBVIOUS
  <2>7. \A k \in DOMAIN y.queue : y.queue[k].target = y.ran
    BY <1>4, <2>6
  <2> QED BY <1>2, <1>3, <1>4, <2>1, <2>2, <2>3, <2>5, <2>7 DEF Fits
<1>9. ASSUME c = 0 PROVE FitsUncrashed(x, y, x.inbox[i], msgs)
  <2>1. /\ Num(msgs, To("create")) = 0 /\ Num(msgs, To("executor_failure")) = 0
        /\ Num(msgs, To("failure_input")) = (IF a.sink = "failure_input" THEN 1 ELSE 0)
        /\ Num(msgs, To("success_input")) = 0
        /\ Num(msgs, To("task_output")) = (IF b.sink = "task_output" THEN 1 ELSE 0)
        /\ Num(msgs, To("successful_task_result")) = (IF b.sink = "task_output" THEN 1 ELSE 0)
    BY <1>7
  <2>2. In(x.inbox[i], To("success_input")) = IF b.sink = "task_output" THEN 1 ELSE 0
    <3>1. x.inbox[i] \in Messages
      BY <1>2 DEF Alone
    <3> QED BY <3>1 DEF In, To
  <2>3. y.data.attempts = x.issued + Num(msgs, To("create"))
    BY <1>2, <1>9, <2>1
  <2>4. Num(y.stored, ResultsOf("success"))
        = Num(x.stored, ResultsOf("success")) - In(x.inbox[i], To("success_input"))
          + Num(msgs, To("success_input")) + Num(msgs, To("task_output"))
    BY <1>2, <2>1, <2>2
  <2>5. \A k \in DOMAIN msgs : PendingExact(msgs[k], y.data)
    <3>1. PendingExact(a, x.data) /\ PendingExact(b, x.data)
      BY <1>2 DEF PendingExact, Converting
    <3> QED BY <1>5, <3>1
  <2> QED BY <1>3, <2>1, <2>3, <2>4, <2>5 DEF FitsUncrashed
<1>10. Taken(x, y, i, msgs)
  BY DEF msgs
<1> QED BY <1>8, <1>9, <1>10, HandledKeeps

\* What the timer, the communicator or a beat says.
LEMMA Spoken ==
  ASSUME NEW x, NEW y, NEW c, NEW e, Inv(x, c), x.open \/ x.timer \/ x.queue # <<>>,
         y.bus = x.bus \o <<e>>, y.inbox = x.inbox, y.last = x.last, y.out = x.out, y.issued = x.issued,
         y.queue = <<>>, ~y.open, ~y.timer, ~y.lost, y.stored = x.stored, y.ran = x.ran,
         SideTyped(y), e \in Messages, Moves(e),
         e.sink \notin {"input", "task_output", "success_input"} \cup Converting, e.body # "internal",
         e.sink = "create" => x.timer,
         y.data.attempts = x.data.attempts + (IF e.sink = "create" THEN 1 ELSE 0),
         y.data.started = x.data.started, y.data.pending = x.data.pending,
         Agrees(e, y.data, x.ran)
  PROVE  Inv(y, c)
<1>1. WorkInv(x, c) /\ Typed(x) /\ MessagesAgree(x) /\ PendingAgrees(x) /\ AttemptsCounted(x)
  BY DEF Inv, WorkInv
<1>2. <<e>> \in Seq(Messages)
  OBVIOUS
<1>3. Says(x, y, NoMessage, <<e>>)
  <2>1. ASSUME NEW msgs \in Seq(Messages), y.bus = x.bus \o msgs PROVE Says(x, y, NoMessage, msgs)
    BY <1>1, <2>1, EmittedSays
  <2> QED BY <1>2, <2>1
<1>4. Num(x.bus, To("create")) = 0
  <2>1. To("create") \subseteq Movers
    BY SinkFacts DEF To, Movers
  <2> QED BY <1>3, <2>1 DEF Says
<1>5. /\ x.issued \in Nat /\ x.data.attempts \in Nat /\ x.issued <= x.data.attempts /\ x.issued <= Cap
      /\ x.data.attempts > 0 /\ x.data.pending # "set" /\ (x.timer => x.data.attempts < MaxAttempts)
  <2>1. x.issued \in Nat /\ x.data.attempts \in Nat
    BY <1>1 DEF Typed, Records
  <2>2. x.data.attempts > 0 /\ (x.timer => x.data.attempts < MaxAttempts)
    BY <1>1 DEF MessagesAgree
  <2>3. x.data.pending # "set"
    BY <1>1 DEF PendingAgrees
  <2>4. x.issued <= x.data.attempts /\ x.issued <= Cap
    BY <1>1, <1>4, <2>1 DEF AttemptsCounted
  <2> QED BY <2>1, <2>2, <2>3, <2>4
<1>6. /\ y.data.attempts > 0 /\ y.data.attempts >= x.data.attempts
      /\ x.issued + (IF e.sink = "create" THEN 1 ELSE 0) <= y.data.attempts
      /\ x.issued + (IF e.sink = "create" THEN 1 ELSE 0) <= Cap
  <2>1. MaxAttempts \in Nat
    BY SinkFacts
  <2> QED BY <1>5, <2>1 DEF Cap
<1>7. Agrees(x.last, y.data, y.ran)
  <2>1. Agrees(x.last, x.data, x.ran)
    BY <1>1 DEF MessagesAgree
  <2>2. MaxAttempts \in Nat
    BY SinkFacts
  <2> QED BY <1>5, <1>6, <2>1, <2>2 DEF Agrees
<1>8. Fits(x, y, <<e>>)
  BY <1>5, <1>6, <1>7, FitsOne
<1>9. ASSUME c = 0 PROVE FitsUncrashed(x, y, NoMessage, <<e>>)
  <2>1. UncrashedInv(x)
    BY <1>9 DEF Inv
  <2>2. x.data.attempts = x.issued
    BY <1>4, <1>5, <2>1 DEF UncrashedInv
  <2>3. y.data.attempts = x.issued + (IF e.sink = "create" THEN 1 ELSE 0)
    BY <2>2
  <2>4. Num(x.stored, ResultsOf("failure")) \in Nat /\ Num(x.stored, ResultsOf("success")) \in Nat
    BY <1>1, PlaceTypes
  <2>5. PendingExact(e, y.data)
    BY <1>5 DEF PendingExact
  <2>6. NoMessage.sink # "success_input"
    BY SinkFacts
  <2>7. Num(y.stored, ResultsOf("success"))
           = Num(x.stored, ResultsOf("success")) + (IF e.sink = "success_input" THEN 1 ELSE 0)
    BY <2>4
  <2>8. Num(y.stored, ResultsOf("failure")) = Num(x.stored, ResultsOf("failure"))
    OBVIOUS
  <2> QED BY <1>5, <2>3, <2>4, <2>5, <2>6, <2>7, <2>8, FitsOneUncrashed
<1>10. WorkInv(y, c)
  BY <1>1, <1>3, <1>8, WorkSays
<1>11. c = 0 => UncrashedInv(y)
  BY <1>1, <1>3, <1>9, UncrashedSays DEF Inv
<1> QED BY <1>10, <1>11 DEF Inv

----------------------------------------------------------------------------
(* Steps *)

\* Nothing changes in what concerns a work.
Undisturbed(v) ==
  /\ bus'[v] = bus[v] /\ inbox'[v] = inbox[v] /\ last'[v] = last[v] /\ data'[v] = data[v]
  /\ v \in open' <=> v \in open
  /\ v \in timers' <=> v \in timers
  /\ OfWorks(queue', {v}) = OfWorks(queue, {v})
  /\ v \in lost' <=> v \in lost
  /\ stored'[v] = stored[v] /\ out'[v] = out[v] /\ issued'[v] = issued[v] /\ ran'[v] = ran[v]

\* Then everything the state says of it is the same.
LEMMA SameView ==
  ASSUME NEW v, Undisturbed(v)
  PROVE  View(v)' = View(v)
<1>1. (v \in open') = (v \in open) /\ (v \in timers') = (v \in timers) /\ (v \in lost') = (v \in lost)
  BY DEF Undisturbed
<1> QED BY <1>1 DEF Undisturbed, View

\* A step of one work keeps the invariant if it keeps that of the work.
LEMMA OneWork ==
  ASSUME IInv, Shared', NEW w \in Works, crashes' = crashes, Inv(View(w)', crashes),
         \A v \in Works \ {w} : Undisturbed(v)
  PROVE  IInv'
<1>1. ASSUME NEW v \in Works PROVE Inv(View(v)', crashes')
  <2>1. CASE v = w
    BY <2>1
  <2>2. CASE v # w
    <3>1. View(v)' = View(v)
      BY <2>2, SameView
    <3>2. Inv(View(v), crashes)
      BY DEF IInv
    <3> QED BY <3>1, <3>2
  <2> QED BY <2>1, <2>2
<1>2. \A v \in Works : Inv(View(v)', crashes')
  BY <1>1
<1> QED BY <1>2 DEF IInv

\* The step of a handler.
LEMMA AnswerStep ==
  ASSUME IInv, NEW w \in Works, NEW s, NEW i \in Turns(w, s), NEW msgs \in Seq(Messages), Answer(w, i, msgs),
         data' = [v \in Works |-> data'[v]], stored' = [v \in Works |-> stored'[v]], ran' = [v \in Works |-> ran'[v]],
         \A v \in Works \ {w} :
           /\ data'[v] = data[v] /\ stored'[v] = stored[v] /\ ran'[v] = ran[v]
           /\ v \in open' <=> v \in open
           /\ v \in timers' <=> v \in timers
           /\ OfWorks(queue', {v}) = OfWorks(queue, {v})
           /\ v \in lost' <=> v \in lost,
         open' \subseteq Works, timers' \subseteq Works, old' \subseteq Works, lost' \subseteq Works,
         beat' \in BOOLEAN, queue' \in Seq(Entries)
  PROVE  /\ Taken(View(w), View(w)', i, msgs) /\ View(w).inbox[i].sink = s
         /\ Inv(View(w), crashes)
         /\ Inv(View(w)', crashes) => IInv'
<1>1. i \in DOMAIN inbox[w] /\ inbox[w][i].sink = s
  BY DEF Turns
<1>2. /\ bus = [v \in Works |-> bus[v]] /\ inbox = [v \in Works |-> inbox[v]]
      /\ last = [v \in Works |-> last[v]] /\ out = [v \in Works |-> out[v]] /\ issued = [v \in Works |-> issued[v]]
  BY DEF IInv, Shared
<1>3. /\ inbox' = [inbox EXCEPT ![w] = RemoveAt(inbox[w], i)]
      /\ bus' = [bus EXCEPT ![w] = bus[w] \o msgs]
      /\ last' = last /\ out' = out /\ issued' = issued /\ crashes' = crashes
  BY DEF Answer
<1>4. /\ inbox'[w] = RemoveAt(inbox[w], i) /\ bus'[w] = bus[w] \o msgs
      /\ \A v \in Works \ {w} : inbox'[v] = inbox[v] /\ bus'[v] = bus[v]
      /\ bus' = [v \in Works |-> bus'[v]] /\ inbox' = [v \in Works |-> inbox'[v]]
  BY <1>2, <1>3
<1>5. Taken(View(w), View(w)', i, msgs) /\ View(w).inbox[i].sink = s
  BY <1>1, <1>3, <1>4 DEF Taken, View
<1>6. Shared'
  <2>1. last' = [v \in Works |-> last'[v]] /\ out' = [v \in Works |-> out'[v]]
        /\ issued' = [v \in Works |-> issued'[v]] /\ crashes' \in 0..MaxCrashes
    BY <1>2, <1>3 DEF IInv, Shared
  <2> QED BY <1>4, <2>1 DEF Shared
<1>7. \A v \in Works \ {w} : Undisturbed(v)
  BY <1>3, <1>4 DEF Undisturbed
<1>8. Inv(View(w)', crashes) => IInv'
  BY <1>3, <1>6, <1>7, OneWork
<1>9. Inv(View(w), crashes)
  BY DEF IInv
<1> QED BY <1>5, <1>8, <1>9

\* The step of a handler that changes user data, the store or the history at most.
LEMMA ChangeStep ==
  ASSUME IInv, NEW w \in Works, NEW s, NEW i \in Turns(w, s), NEW msgs \in Seq(Messages), Answer(w, i, msgs),
         data' = [v \in Works |-> data'[v]], stored' = [v \in Works |-> stored'[v]], ran' = [v \in Works |-> ran'[v]],
         \A v \in Works \ {w} : data'[v] = data[v] /\ stored'[v] = stored[v] /\ ran'[v] = ran[v],
         UNCHANGED <<open, timers, beat, queue, lost>>, old' \subseteq Works
  PROVE  /\ Taken(View(w), View(w)', i, msgs) /\ View(w).inbox[i].sink = s
         /\ View(w)'.open = View(w).open /\ View(w)'.timer = View(w).timer
         /\ View(w)'.queue = View(w).queue /\ View(w)'.lost = View(w).lost
         /\ Inv(View(w), crashes)
         /\ Inv(View(w)', crashes) => IInv'
<1>1. /\ open' = open /\ timers' = timers /\ beat' = beat /\ queue' = queue /\ lost' = lost
      /\ open' \subseteq Works /\ timers' \subseteq Works /\ lost' \subseteq Works
      /\ beat' \in BOOLEAN /\ queue' \in Seq(Entries)
  BY DEF IInv, Shared
<1>2. /\ View(w)'.open = View(w).open /\ View(w)'.timer = View(w).timer
      /\ View(w)'.queue = View(w).queue /\ View(w)'.lost = View(w).lost
  BY <1>1 DEF View
<1>3. \A v \in Works \ {w} :
           /\ data'[v] = data[v] /\ stored'[v] = stored[v] /\ ran'[v] = ran[v]
           /\ v \in open' <=> v \in open
           /\ v \in timers' <=> v \in timers
           /\ OfWorks(queue', {v}) = OfWorks(queue, {v})
           /\ v \in lost' <=> v \in lost
  BY <1>1
<1>4. /\ Taken(View(w), View(w)', i, msgs) /\ View(w).inbox[i].sink = s
      /\ Inv(View(w), crashes)
      /\ Inv(View(w)', crashes) => IInv'
  BY <1>1, <1>3, AnswerStep
<1> QED BY <1>2, <1>4

\* The functions, as long as they are the same.
LEMMA SharedFunctions ==
  ASSUME IInv
  PROVE  /\ data = [v \in Works |-> data[v]] /\ stored = [v \in Works |-> stored[v]]
         /\ ran = [v \in Works |-> ran[v]] /\ bus = [v \in Works |-> bus[v]] /\ inbox = [v \in Works |-> inbox[v]]
         /\ last = [v \in Works |-> last[v]] /\ out = [v \in Works |-> out[v]] /\ issued = [v \in Works |-> issued[v]]
         /\ open \subseteq Works /\ timers \subseteq Works /\ old \subseteq Works /\ lost \subseteq Works
         /\ beat \in BOOLEAN /\ queue \in Seq(Entries) /\ crashes \in 0..MaxCrashes
BY DEF IInv, Shared

\* The step of a handler that passes a message on.
LEMMA PassStep ==
  ASSUME IInv, NEW w \in Works, NEW s, NEW i \in Turns(w, s), NEW e \in Messages, Pass(w, i, e)
  PROVE  /\ Taken(View(w), View(w)', i, <<e>>) /\ View(w).inbox[i].sink = s
         /\ SameRest(View(w), View(w)')
         /\ Inv(View(w), crashes)
         /\ Inv(View(w)', crashes) => IInv'
<1>1. Answer(w, i, <<e>>) /\ data' = data /\ stored' = stored /\ ran' = ran /\ old' = old
      /\ UNCHANGED <<open, timers, beat, queue, lost>>
  BY DEF Pass, sideVars, stamperVars
<1>2. data = [v \in Works |-> data[v]] /\ stored = [v \in Works |-> stored[v]]
      /\ ran = [v \in Works |-> ran[v]] /\ old \subseteq Works
  BY SharedFunctions
<1>3. <<e>> \in Seq(Messages)
  OBVIOUS
<1>4. /\ Taken(View(w), View(w)', i, <<e>>) /\ View(w).inbox[i].sink = s
      /\ View(w)'.open = View(w).open /\ View(w)'.timer = View(w).timer
      /\ View(w)'.queue = View(w).queue /\ View(w)'.lost = View(w).lost
      /\ Inv(View(w), crashes)
      /\ Inv(View(w)', crashes) => IInv'
  <2>1. ASSUME NEW msgs \in Seq(Messages), Answer(w, i, msgs)
        PROVE  /\ Taken(View(w), View(w)', i, msgs) /\ View(w).inbox[i].sink = s
               /\ View(w)'.open = View(w).open /\ View(w)'.timer = View(w).timer
               /\ View(w)'.queue = View(w).queue /\ View(w)'.lost = View(w).lost
               /\ Inv(View(w), crashes)
               /\ Inv(View(w)', crashes) => IInv'
    BY <1>1, <1>2, <2>1, ChangeStep
  <2> QED BY <1>1, <1>3, <2>1
<1>5. SameRest(View(w), View(w)')
  BY <1>1, <1>4 DEF SameRest, View
<1> QED BY <1>4, <1>5

\* What the invariant says of the message a handler has.
Handling(w, s, i) ==
  /\ inbox[w][i] \in Messages /\ inbox[w][i].sink = s /\ s \in Sinks
  /\ Agrees(inbox[w][i], data[w], ran[w])
  /\ data[w] \in Records /\ ran[w] \in Neurons \cup {NoNeuron}
  /\ s # "input" => data[w].attempts > 0
  /\ data[w].pending = "set" => data[w].of = ran[w] /\ Late(inbox[w][i])
  /\ stored[w] \in Seq(Results)
  /\ w \notin open /\ w \notin timers /\ w \notin lost /\ OfWorks(queue, {w}) = <<>>

\* It follows for every message but the report of a failure, which may be handled late.
LEMMA HandlerFacts ==
  ASSUME IInv, NEW w \in Works, NEW s, NEW i \in Turns(w, s), s # "failure_input"
  PROVE  Handling(w, s, i)
<1> DEFINE x == View(w)
<1>1. x.inbox = inbox[w] /\ x.data = data[w] /\ x.ran = ran[w] /\ x.stored = stored[w]
      /\ x.open = (w \in open) /\ x.timer = (w \in timers) /\ x.lost = (w \in lost) /\ x.queue = OfWorks(queue, {w})
  BY DEF View
<1>2. Inv(x, crashes)
  BY DEF IInv
<1> HIDE DEF x
<1>3. i \in DOMAIN x.inbox /\ x.inbox[i].sink = s
  BY <1>1 DEF Turns
<1>4. /\ Typed(x) /\ Alone(x, i)
      /\ x.inbox[i].sink # "input" => x.data.attempts > 0
      /\ x.data.pending = "set" => x.data.of = x.ran /\ Late(x.inbox[i])
  BY <1>2, <1>3, HandledAttempts
<1>5. /\ x.inbox[i] \in Messages /\ x.inbox[i].sink \in Sinks /\ Agrees(x.inbox[i], x.data, x.ran)
      /\ ~x.open /\ ~x.timer /\ ~x.lost /\ x.queue = <<>>
  BY <1>4 DEF Alone
<1>6. x.data \in Records /\ x.ran \in Neurons \cup {NoNeuron} /\ x.stored \in Seq(Results)
  BY <1>4 DEF Typed
<1> QED BY <1>1, <1>3, <1>4, <1>5, <1>6 DEF Handling

\* A handler that passes a message on keeps the invariant.
LEMMA PassKeeps ==
  ASSUME IInv, NEW w \in Works, NEW s, NEW i \in Turns(w, s), NEW e \in Messages, Pass(w, i, e),
         s \notin {"input", "failure_input", "success_input"},
         Moves(e), e.sink \notin {"input", "create", "success_input", "task_output"},
         Agrees(e, data[w], ran[w]),
         data[w].pending = "set" /\ Late(inbox[w][i]) => Late(e),
         PendingExact(inbox[w][i], data[w]) => PendingExact(e, data[w])
  PROVE  IInv'
<1> DEFINE x == View(w)
           y == View(w)'
<1>1. /\ Taken(x, y, i, <<e>>) /\ x.inbox[i].sink = s /\ SameRest(x, y)
      /\ Inv(x, crashes) /\ (Inv(y, crashes) => IInv')
  BY PassStep
<1>2. x.inbox = inbox[w] /\ x.data = data[w] /\ x.ran = ran[w]
  BY DEF View
<1> HIDE DEF x, y
<1>3. Inv(y, crashes)
  BY <1>1, <1>2, PassedOn
<1> QED BY <1>1, <1>3

\* So does a handler that raises.
LEMMA RaiseKeeps ==
  ASSUME IInv, NEW w \in Works, NEW s, NEW i \in Turns(w, s), Raise(w, i),
         s \notin {"input", "failure_input", "success_input"}
  PROVE  IInv'
<1> DEFINE x == View(w)
           y == View(w)'
<1>1. Answer(w, i, <<>>) /\ data' = data /\ stored' = stored /\ ran' = ran /\ lost' = lost \cup {w}
      /\ open' = open /\ timers' = timers /\ beat' = beat /\ queue' = queue /\ old' = old
  BY DEF Raise, sideVars, stamperVars
<1>2. <<>> \in Seq(Messages)
  OBVIOUS
<1>3. /\ Taken(x, y, i, <<>>) /\ x.inbox[i].sink = s
      /\ Inv(x, crashes) /\ (Inv(y, crashes) => IInv')
  <2>1. ASSUME NEW msgs \in Seq(Messages), Answer(w, i, msgs)
        PROVE  /\ Taken(x, y, i, msgs) /\ x.inbox[i].sink = s
               /\ Inv(x, crashes) /\ (Inv(y, crashes) => IInv')
    BY <1>1, <2>1, SharedFunctions, AnswerStep
  <2> QED BY <1>1, <1>2, <2>1
<1>4. /\ y.data = x.data /\ y.open = x.open /\ y.timer = x.timer /\ y.queue = x.queue
      /\ y.stored = x.stored /\ y.ran = x.ran /\ y.lost = TRUE
  BY <1>1 DEF View
<1> HIDE DEF x, y
<1>5. Inv(y, crashes)
  BY <1>3, <1>4, GivenUp
<1> QED BY <1>3, <1>5

\* A handler answers with a message e and changes the data of its work to d.
ChangesData(w, s, i, e, d) ==
  /\ i \in Turns(w, s) /\ e \in Messages /\ d \in Records
  /\ Answer(w, i, <<e>>) /\ data' = [data EXCEPT ![w] = d]
  /\ UNCHANGED <<open, timers, beat, queue, lost, stored, ran>> /\ old' \subseteq Works
  /\ s \notin {"failure_input", "success_input"}
  /\ s = "input" <=> e.sink = "create"
  /\ Moves(e) /\ e.sink \notin {"input", "task_output", "success_input"}
  /\ d.attempts = data[w].attempts + (IF e.sink = "create" THEN 1 ELSE 0)
  /\ Agrees(inbox[w][i], d, ran[w]) /\ Agrees(e, d, ran[w])
  /\ d.pending = "set" => d.of = ran[w] /\ Late(inbox[w][i]) /\ Late(e)
  /\ PendingExact(inbox[w][i], data[w]) => PendingExact(e, d)

\* It keeps the invariant, too.
LEMMA DataKeeps ==
  ASSUME IInv, NEW w \in Works, NEW s, NEW i, NEW e, NEW d, ChangesData(w, s, i, e, d)
  PROVE  IInv'
<1>0. /\ i \in Turns(w, s) /\ e \in Messages /\ d \in Records
      /\ Answer(w, i, <<e>>) /\ data' = [data EXCEPT ![w] = d]
      /\ UNCHANGED <<open, timers, beat, queue, lost, stored, ran>> /\ old' \subseteq Works
      /\ s \notin {"failure_input", "success_input"}
      /\ s = "input" <=> e.sink = "create"
      /\ Moves(e) /\ e.sink \notin {"input", "task_output", "success_input"}
      /\ d.attempts = data[w].attempts + (IF e.sink = "create" THEN 1 ELSE 0)
      /\ Agrees(inbox[w][i], d, ran[w]) /\ Agrees(e, d, ran[w])
      /\ d.pending = "set" => d.of = ran[w] /\ Late(inbox[w][i]) /\ Late(e)
      /\ PendingExact(inbox[w][i], data[w]) => PendingExact(e, d)
  BY DEF ChangesData
<1> DEFINE x == View(w)
           y == View(w)'
<1>1. /\ data = [v \in Works |-> data[v]] /\ stored = [v \in Works |-> stored[v]]
      /\ ran = [v \in Works |-> ran[v]] /\ stored' = stored /\ ran' = ran
  BY <1>0, SharedFunctions
<1>2. data' = [v \in Works |-> data'[v]] /\ data'[w] = d /\ \A v \in Works \ {w} : data'[v] = data[v]
  BY <1>0, <1>1
<1>3. <<e>> \in Seq(Messages)
  BY <1>0
<1>4. /\ Taken(x, y, i, <<e>>) /\ x.inbox[i].sink = s
      /\ y.open = x.open /\ y.timer = x.timer /\ y.queue = x.queue /\ y.lost = x.lost
      /\ Inv(x, crashes) /\ (Inv(y, crashes) => IInv')
  <2>1. ASSUME NEW msgs \in Seq(Messages), Answer(w, i, msgs)
        PROVE  /\ Taken(x, y, i, msgs) /\ x.inbox[i].sink = s
               /\ y.open = x.open /\ y.timer = x.timer /\ y.queue = x.queue /\ y.lost = x.lost
               /\ Inv(x, crashes) /\ (Inv(y, crashes) => IInv')
    BY <1>0, <1>1, <1>2, <2>1, ChangeStep
  <2> QED BY <1>0, <1>3, <2>1
<1>5. /\ x.inbox = inbox[w] /\ x.data = data[w] /\ x.ran = ran[w] /\ y.ran = x.ran
      /\ y.data = d /\ y.stored = x.stored
  BY <1>1, <1>2 DEF View
<1> HIDE DEF x, y
<1>6. x.stored \in Seq(Results) /\ i \in DOMAIN x.inbox
  BY <1>4 DEF Inv, WorkInv, Typed, Taken
<1>7. Num(x.stored, ResultsOf("success")) \in Nat
  BY <1>6, NumType
<1>8. Num(y.stored, ResultsOf("success"))
           = Num(x.stored, ResultsOf("success")) + (IF e.sink = "success_input" THEN 1 ELSE 0)
  BY <1>0, <1>5, <1>7
<1>9. Inv(y, crashes)
  BY <1>0, <1>4, <1>5, <1>6, <1>8, ChangedOn
<1> QED BY <1>4, <1>9

----------------------------------------------------------------------------
(* Retry strategy and transforms *)

\* The messages that carry nothing.
LEMMA Plain ==
  ASSUME NEW s \in Sinks \cup Exits, NEW b \in Bodies
  PROVE  /\ Message(s, b, NoNeuron) \in Messages
         /\ Message(s, b, NoNeuron).sink = s /\ Message(s, b, NoNeuron).body = b
BY SinkFacts, MadeUp

\* A failed attempt is a message that moves a work on.
LEMMA FailedAttemptFacts ==
  /\ FailedAttempt \in Messages /\ Moves(FailedAttempt)
  /\ FailedAttempt.sink = "failed_attempt" /\ FailedAttempt.body = "exception"
<1>1. FailedAttempt \in Messages /\ FailedAttempt.sink = "failed_attempt" /\ FailedAttempt.body = "exception"
  BY SinkFacts, Plain DEF FailedAttempt, Bodies
<1> QED BY <1>1, SinkFacts

\* A failed attempt can follow whatever is not late.
LEMMA FailedAttemptKeeps ==
  ASSUME IInv, NEW w \in Works, NEW s, NEW i \in Turns(w, s), Pass(w, i, FailedAttempt),
         s \in {"create", "route", "store_success", "store_failure"}
  PROVE  IInv'
<1>1. /\ inbox[w][i].sink = s /\ Agrees(inbox[w][i], data[w], ran[w]) /\ data[w].attempts > 0
      /\ data[w].pending = "set" => Late(inbox[w][i])
  <2>1. Handling(w, s, i)
    BY HandlerFacts
  <2> QED BY <2>1 DEF Handling
<1>2. ~Late(inbox[w][i])
  BY <1>1 DEF Late
<1>3. Agrees(FailedAttempt, data[w], ran[w])
  BY <1>1, FailedAttemptFacts DEF Agrees, Claims
<1>4. PendingExact(FailedAttempt, data[w])
  BY <1>1, <1>2, FailedAttemptFacts DEF PendingExact, Converting
<1> QED BY <1>2, <1>3, <1>4, FailedAttemptFacts, PassKeeps

\* The retry state after one more attempt.
LEMMA NextAttemptData ==
  ASSUME IInv, NEW w \in Works, data[w] \in Records, NextAttempt(w)
  PROVE  \E d \in Records :
           /\ data' = [data EXCEPT ![w] = d]
           /\ d.attempts = data[w].attempts + 1 /\ d.started = data[w].started
           /\ d.pending = data[w].pending /\ d.of = data[w].of
<1> DEFINE d == [data[w] EXCEPT !.attempts = data[w].attempts + 1]
<1>1. d \in Records /\ d.attempts = data[w].attempts + 1 /\ d.started = data[w].started
      /\ d.pending = data[w].pending /\ d.of = data[w].of
  BY DEF Records
<1>2. data' = [data EXCEPT ![w] = d]
  BY DEF NextAttempt
<1> QED BY <1>1, <1>2

\* The first attempt.
LEMMA StepRetryInput ==
  ASSUME IInv, NEW w \in Works, RetryInput(w)
  PROVE  IInv'
<1>1. PICK i \in Turns(w, "input") :
        /\ Answer(w, i, <<FirstOrNext>>) /\ NextAttempt(w)
        /\ UNCHANGED <<open, timers, beat, queue, lost, stored, ran>> /\ old' = old
  BY DEF RetryInput, sideVars, stamperVars
<1>2. /\ inbox[w][i] \in Messages /\ inbox[w][i].sink = "input"
      /\ Agrees(inbox[w][i], data[w], ran[w]) /\ data[w] \in Records
      /\ data[w].pending = "set" => data[w].of = ran[w] /\ Late(inbox[w][i])
  <2>1. Handling(w, "input", i)
    BY <1>1, HandlerFacts
  <2> QED BY <2>1 DEF Handling
<1>3. PICK d \in Records :
           /\ data' = [data EXCEPT ![w] = d]
           /\ d.attempts = data[w].attempts + 1 /\ d.started = data[w].started
           /\ d.pending = data[w].pending /\ d.of = data[w].of
  BY <1>1, <1>2, NextAttemptData
<1>4. /\ FirstOrNext \in Messages /\ Moves(FirstOrNext)
      /\ FirstOrNext.sink = "create" /\ FirstOrNext.body = "value"
  <2>1. FirstOrNext \in Messages /\ FirstOrNext.sink = "create" /\ FirstOrNext.body = "value"
    BY SinkFacts, Plain DEF FirstOrNext, Bodies
  <2> QED BY <2>1, SinkFacts
<1>5. ~Late(inbox[w][i])
  BY <1>2 DEF Late
<1>6. data[w].attempts \in Nat
  BY <1>2 DEF Records
<1>7. Agrees(inbox[w][i], d, ran[w]) /\ Agrees(FirstOrNext, d, ran[w])
  <2>1. inbox[w][i].body # "exhausted"
    BY <1>2 DEF Agrees
  <2> QED BY <1>2, <1>3, <1>4, <1>6, <2>1 DEF Agrees, Claims
<1>8. PendingExact(FirstOrNext, d)
  BY <1>2, <1>3, <1>4, <1>5 DEF PendingExact, Converting
<1>9. old' \subseteq Works
  BY <1>1, SharedFunctions
<1>20. ChangesData(w, "input", i, FirstOrNext, d)
  BY <1>1, <1>2, <1>3, <1>4, <1>5, <1>7, <1>8, <1>9 DEF ChangesData
<1> QED BY <1>20, DataKeeps

\* A failed attempt exhausts the retries or starts the timer.
LEMMA StepRetryFailedAttempt ==
  ASSUME IInv, NEW w \in Works, RetryFailedAttempt(w)
  PROVE  IInv'
<1>1. PICK i \in Turns(w, "failed_attempt") :
        \/ data[w].attempts = 0 /\ Raise(w, i)
        \/ /\ data[w].attempts > 0 /\ data[w].attempts >= MaxAttempts
           /\ Pass(w, i, Message("left", "exhausted", NoNeuron))
        \/ /\ data[w].attempts > 0 /\ data[w].attempts < MaxAttempts
           /\ Answer(w, i, <<>>) /\ timers' = timers \cup {w}
           /\ UNCHANGED <<data, open, beat, queue, old, stored, ran, lost>>
  BY DEF RetryFailedAttempt, stamperVars
<1>2. /\ inbox[w][i] \in Messages /\ inbox[w][i].sink = "failed_attempt"
      /\ Agrees(inbox[w][i], data[w], ran[w]) /\ data[w] \in Records /\ data[w].attempts > 0
      /\ data[w].pending = "set" => Late(inbox[w][i])
      /\ stored[w] \in Seq(Results) /\ ran[w] \in Neurons \cup {NoNeuron}
      /\ w \notin open /\ w \notin timers /\ w \notin lost /\ OfWorks(queue, {w}) = <<>>
  <2>1. Handling(w, "failed_attempt", i)
    BY <1>1, HandlerFacts
  <2> QED BY <2>1 DEF Handling
<1>3. ~Late(inbox[w][i])
  BY <1>2 DEF Late
<1>4. CASE Raise(w, i)
  BY <1>4, RaiseKeeps
<1>5. CASE data[w].attempts >= MaxAttempts /\ Pass(w, i, Message("left", "exhausted", NoNeuron))
  <2> DEFINE e == Message("left", "exhausted", NoNeuron)
  <2>1. e \in Messages /\ e.sink = "left" /\ e.body = "exhausted"
    BY SinkFacts, Plain DEF Bodies
  <2> HIDE DEF e
  <2>2. Moves(e)
    BY <2>1, SinkFacts
  <2>3. Agrees(e, data[w], ran[w])
    BY <1>2, <1>5, <2>1 DEF Agrees, Claims
  <2>4. PendingExact(e, data[w])
    BY <1>2, <1>3, <2>1 DEF PendingExact, Converting
  <2>5. Pass(w, i, e)
    BY <1>5 DEF e
  <2> QED BY <1>3, <2>1, <2>2, <2>3, <2>4, <2>5, PassKeeps
<1>6. CASE /\ data[w].attempts < MaxAttempts
           /\ Answer(w, i, <<>>) /\ timers' = timers \cup {w}
           /\ UNCHANGED <<data, open, beat, queue, old, stored, ran, lost>>
  <2> DEFINE x == View(w)
             y == View(w)'
  <2>1. <<>> \in Seq(Messages)
    OBVIOUS
  <2>2. /\ Taken(x, y, i, <<>>) /\ x.inbox[i].sink = "failed_attempt"
        /\ Inv(x, crashes) /\ (Inv(y, crashes) => IInv')
    <3>1. ASSUME NEW msgs \in Seq(Messages), Answer(w, i, msgs)
          PROVE  /\ Taken(x, y, i, msgs) /\ x.inbox[i].sink = "failed_attempt"
                 /\ Inv(x, crashes) /\ (Inv(y, crashes) => IInv')
      BY <1>6, <3>1, SharedFunctions, AnswerStep
    <3> QED BY <1>6, <2>1, <3>1
  <2>3. /\ x.inbox = inbox[w] /\ x.data = data[w] /\ x.ran = ran[w]
        /\ y.data = x.data /\ y.stored = x.stored /\ y.ran = x.ran /\ y.stored = stored[w]
        /\ y.queue = <<>> /\ y.open = FALSE /\ y.timer = TRUE /\ y.lost = FALSE
    <3>1. (w \in open') = FALSE /\ (w \in timers') = TRUE /\ (w \in lost') = FALSE
      BY <1>2, <1>6
    <3>2. y.open = FALSE /\ y.timer = TRUE /\ y.lost = FALSE
      BY <3>1 DEF View
    <3> QED BY <1>2, <1>6, <3>2 DEF View
  <2> HIDE DEF x, y
  <2>4. <<>> \in Seq(Entries) /\ Len(<<>>) = 0 /\ DOMAIN <<>> = {}
    OBVIOUS
  <2>5. SideTyped(y)
    BY <1>2, <2>3, <2>4 DEF SideTyped
  <2>6. Len(y.queue) + One(y.open) + One(y.timer) + One(y.lost) = 1
    BY <2>3, <2>4 DEF One
  <2>7. Inv(y, crashes)
    BY <1>2, <1>3, <1>6, <2>2, <2>3, <2>4, <2>5, <2>6, Waiting
  <2> QED BY <2>2, <2>7
<1> QED BY <1>1, <1>4, <1>5, <1>6

\* The payload creator.
LEMMA StepCreatePayload ==
  ASSUME IInv, NEW w \in Works, CreatePayload(w)
  PROVE  IInv'
<1> DEFINE e == Message("route", "value", NoNeuron)
<1>1. PICK i \in Turns(w, "create") : Pass(w, i, e) \/ Pass(w, i, FailedAttempt) \/ Raise(w, i)
  BY DEF CreatePayload
<1>2. e \in Messages /\ e.sink = "route" /\ e.body = "value"
  BY SinkFacts, Plain DEF Bodies
<1> HIDE DEF e
<1>3. /\ inbox[w][i].sink = "create" /\ data[w].attempts > 0
      /\ data[w].pending = "set" => Late(inbox[w][i])
  <2>1. Handling(w, "create", i)
    BY <1>1, HandlerFacts
  <2> QED BY <2>1 DEF Handling
<1>4. CASE Pass(w, i, e)
  <2>1. ~Late(inbox[w][i]) /\ Moves(e)
    BY <1>2, <1>3, SinkFacts DEF Late
  <2>2. Agrees(e, data[w], ran[w]) /\ PendingExact(e, data[w])
    BY <1>2, <1>3, <2>1 DEF Agrees, Claims, PendingExact, Converting
  <2> QED BY <1>2, <1>4, <2>1, <2>2, PassKeeps
<1>5. CASE Pass(w, i, FailedAttempt)
  BY <1>5, FailedAttemptKeeps
<1>6. CASE Raise(w, i)
  BY <1>6, RaiseKeeps
<1> QED BY <1>1, <1>4, <1>5, <1>6

\* The router: the neuron is one of NumNeurons.
LEMMA StepRoute ==
  ASSUME IInv, NEW w \in Works, Route(w)
  PROVE  IInv'
<1> DEFINE e == Message("forward", "value", data[w].routed % NumNeurons)
           d == [data[w] EXCEPT !.routed = data[w].routed + 1]
<1>1. PICK i \in Turns(w, "route") :
        \/ /\ Answer(w, i, <<e>>)
           /\ data' = [data EXCEPT ![w].routed = @ + 1]
           /\ UNCHANGED <<open, timers, beat, queue, lost, stored, ran>> /\ old' = old
        \/ Pass(w, i, FailedAttempt)
  BY DEF Route, sideVars, stamperVars
<1>2. /\ inbox[w][i] \in Messages /\ inbox[w][i].sink = "route" /\ Agrees(inbox[w][i], data[w], ran[w])
      /\ data[w] \in Records /\ data[w].attempts > 0
      /\ data[w].pending = "set" => data[w].of = ran[w] /\ Late(inbox[w][i])
  <2>1. Handling(w, "route", i)
    BY <1>1, HandlerFacts
  <2> QED BY <2>1 DEF Handling
<1>3. CASE /\ Answer(w, i, <<e>>)
           /\ data' = [data EXCEPT ![w].routed = @ + 1]
           /\ UNCHANGED <<open, timers, beat, queue, lost, stored, ran>> /\ old' = old
  <2>1. data[w].routed % NumNeurons \in Neurons
    BY <1>2, SinkFacts DEF Records, Neurons
  <2>2. e \in Messages /\ e.sink = "forward" /\ e.body = "value"
    BY <2>1, SinkFacts, MadeUp DEF Bodies
  <2>3. d \in Records /\ d.attempts = data[w].attempts /\ d.started = data[w].started
        /\ d.pending = data[w].pending /\ d.of = data[w].of /\ data[w].attempts \in Nat
    BY <1>2 DEF Records
  <2>4. data' = [data EXCEPT ![w] = d]
    BY <1>3
  <2> HIDE DEF e, d
  <2>5. ~Late(inbox[w][i]) /\ Moves(e)
    BY <1>2, <2>2, SinkFacts DEF Late
  <2>6. Agrees(inbox[w][i], d, ran[w]) /\ Agrees(e, d, ran[w]) /\ PendingExact(e, d)
    BY <1>2, <2>2, <2>3, <2>5 DEF Agrees, Claims, PendingExact, Converting
  <2>7. old' \subseteq Works
    BY <1>3, SharedFunctions
  <2>8. /\ d.attempts = data[w].attempts + (IF e.sink = "create" THEN 1 ELSE 0)
        /\ d.pending # "set"
    BY <1>2, <2>2, <2>3, <2>5
  <2>20. ChangesData(w, "route", i, e, d)
    BY <1>1, <1>3, <2>2, <2>3, <2>4, <2>5, <2>6, <2>7, <2>8 DEF ChangesData
  <2> QED BY <2>20, DataKeeps
<1>4. CASE Pass(w, i, FailedAttempt)
  BY <1>4, FailedAttemptKeeps
<1> QED BY <1>1, <1>3, <1>4

\* The output converter.
LEMMA StepConvert ==
  ASSUME IInv, NEW w \in Works, Convert(w)
  PROVE  IInv'
<1> DEFINE a == Message("converted_public_output", "value", NoNeuron)
           b == Message("conversion_failed", "exception", NoNeuron)
<1>1. PICK i \in Turns(w, "convert") : Pass(w, i, a) \/ Pass(w, i, b) \/ Raise(w, i)
  BY DEF Convert
<1>2. /\ a \in Messages /\ a.sink = "converted_public_output" /\ a.body = "value"
      /\ b \in Messages /\ b.sink = "conversion_failed" /\ b.body = "exception"
  BY SinkFacts, Plain DEF Bodies
<1> HIDE DEF a, b
<1>3. inbox[w][i].sink = "convert" /\ data[w].attempts > 0
  <2>1. Handling(w, "convert", i)
    BY <1>1, HandlerFacts
  <2> QED BY <2>1 DEF Handling
<1>4. ASSUME NEW e \in {a, b}, Pass(w, i, e) PROVE IInv'
  <2>1. Late(e) /\ Moves(e) /\ e \in Messages
        /\ e.sink \notin {"input", "create", "success_input", "task_output"}
    BY <1>2, SinkFacts DEF Late
  <2>2. Agrees(e, data[w], ran[w])
    BY <1>2, <1>3 DEF Agrees, Claims
  <2>3. PendingExact(inbox[w][i], data[w]) => PendingExact(e, data[w])
    BY <1>2, <1>3 DEF PendingExact, Converting
  <2> QED BY <1>4, <2>1, <2>2, <2>3, PassKeeps
<1>5. CASE Raise(w, i)
  BY <1>5, RaiseKeeps
<1> QED BY <1>1, <1>4, <1>5

----------------------------------------------------------------------------
(* Communicator and preparer *)

\* The start of a request is recorded before the request is sent.
LEMMA StepStampInput ==
  ASSUME IInv, NEW w \in Works, StampInput(w)
  PROVE  IInv'
<1>1. PICK i \in Turns(w, "forward") :
        /\ Answer(w, i, <<[inbox[w][i] EXCEPT !.sink = "execute"]>>)
        /\ data' = [data EXCEPT ![w].started = TRUE]
        /\ old' = old \ {w}
        /\ UNCHANGED <<open, timers, beat, queue, lost, stored, ran>>
  BY DEF StampInput, sideVars
<1>2. /\ inbox[w][i] \in Messages /\ inbox[w][i].sink = "forward" /\ Agrees(inbox[w][i], data[w], ran[w])
      /\ data[w] \in Records /\ data[w].attempts > 0
      /\ data[w].pending = "set" => data[w].of = ran[w] /\ Late(inbox[w][i])
  <2>1. Handling(w, "forward", i)
    BY <1>1, HandlerFacts
  <2> QED BY <2>1 DEF Handling
<1> DEFINE e == [inbox[w][i] EXCEPT !.sink = "execute"]
           d == [data[w] EXCEPT !.started = TRUE]
<1>3. e \in Messages /\ e.sink = "execute" /\ e.body = inbox[w][i].body
  <2>1. "execute" \in Sinks \cup Exits
    BY SinkFacts
  <2> QED BY <1>2, <2>1 DEF Messages
<1>4. d \in Records /\ d.attempts = data[w].attempts /\ d.started = TRUE
      /\ d.pending = data[w].pending /\ d.of = data[w].of /\ data[w].attempts \in Nat
  BY <1>2 DEF Records
<1>5. data' = [data EXCEPT ![w] = d]
  BY <1>1
<1>6. Answer(w, i, <<e>>)
  BY <1>1
<1> HIDE DEF e, d
<1>7. ~Late(inbox[w][i]) /\ Moves(e)
  BY <1>2, <1>3, SinkFacts DEF Late
<1>8. inbox[w][i].body # "exhausted"
  BY <1>2 DEF Agrees
<1>9. Agrees(inbox[w][i], d, ran[w]) /\ Agrees(e, d, ran[w])
  BY <1>2, <1>3, <1>4, <1>8 DEF Agrees, Claims
<1>10. PendingExact(inbox[w][i], data[w]) => PendingExact(e, d)
  BY <1>2, <1>3, <1>4, <1>7 DEF PendingExact, Converting
<1>11. old' \subseteq Works
  BY <1>1, SharedFunctions
<1>12. /\ d.attempts = data[w].attempts + (IF e.sink = "create" THEN 1 ELSE 0)
       /\ d.pending # "set"
  BY <1>2, <1>3, <1>4, <1>7
<1>20. ChangesData(w, "forward", i, e, d)
  BY <1>1, <1>3, <1>4, <1>5, <1>6, <1>7, <1>9, <1>10, <1>11, <1>12 DEF ChangesData
<1> QED BY <1>20, DataKeeps

\* The communicator saves the input whose neuron the answer will be credited to.
LEMMA StepExecute ==
  ASSUME IInv, NEW w \in Works, Execute(w)
  PROVE  IInv'
<1>1. PICK i \in Turns(w, "execute") :
        /\ data' = [data EXCEPT ![w].input = inbox[w][i].target]
        /\ \/ /\ Answer(w, i, <<>>)
              /\ open' = open \cup {w}
              /\ ran' = [ran EXCEPT ![w] = inbox[w][i].target]
           \/ /\ Answer(w, i, <<FailedAttempt>>)
              /\ open' = open /\ ran' = ran
        /\ UNCHANGED <<timers, beat, queue, old, stored, lost>>
  BY DEF Execute, stamperVars
<1>2. /\ inbox[w][i] \in Messages /\ inbox[w][i].sink = "execute" /\ Agrees(inbox[w][i], data[w], ran[w])
      /\ data[w] \in Records /\ data[w].attempts > 0
      /\ data[w].pending = "set" => data[w].of = ran[w] /\ Late(inbox[w][i])
      /\ stored[w] \in Seq(Results)
      /\ w \notin open /\ w \notin timers /\ w \notin lost /\ OfWorks(queue, {w}) = <<>>
  <2>1. Handling(w, "execute", i)
    BY <1>1, HandlerFacts
  <2> QED BY <2>1 DEF Handling
<1> DEFINE n == inbox[w][i].target
           d == [data[w] EXCEPT !.input = n]
<1>3. d \in Records /\ d.attempts = data[w].attempts /\ d.started = data[w].started /\ d.input = n
      /\ d.pending = data[w].pending /\ d.of = data[w].of /\ data[w].attempts \in Nat
      /\ n \in Neurons \cup {NoNeuron}
  <2>1. n \in Neurons \cup {NoNeuron}
    BY <1>2 DEF Messages
  <2> QED BY <1>2, <2>1 DEF Records
<1>4. data' = [data EXCEPT ![w] = d]
  BY <1>1
<1>5. ~Late(inbox[w][i]) /\ data[w].started /\ inbox[w][i].body # "exhausted"
  BY <1>2 DEF Late, Agrees
<1>6. CASE Answer(w, i, <<>>) /\ open' = open \cup {w} /\ ran' = [ran EXCEPT ![w] = n]
  <2> DEFINE x == View(w)
             y == View(w)'
  <2>1. <<>> \in Seq(Messages)
    OBVIOUS
  <2>2. /\ data' = [v \in Works |-> data'[v]] /\ data'[w] = d /\ \A v \in Works \ {w} : data'[v] = data[v]
        /\ ran' = [v \in Works |-> ran'[v]] /\ ran'[w] = n /\ \A v \in Works \ {w} : ran'[v] = ran[v]
    BY <1>4, <1>6, SharedFunctions
  <2>3. /\ Taken(x, y, i, <<>>) /\ x.inbox[i].sink = "execute"
        /\ Inv(x, crashes) /\ (Inv(y, crashes) => IInv')
    <3>1. ASSUME NEW msgs \in Seq(Messages), Answer(w, i, msgs)
          PROVE  /\ Taken(x, y, i, msgs) /\ x.inbox[i].sink = "execute"
                 /\ Inv(x, crashes) /\ (Inv(y, crashes) => IInv')
      BY <1>1, <1>6, <2>2, <3>1, SharedFunctions, AnswerStep
    <3> QED BY <1>6, <2>1, <3>1
  <2>4. /\ x.inbox = inbox[w] /\ x.data = data[w]
        /\ y.data = d /\ y.stored = x.stored /\ y.ran = n /\ y.stored = stored[w]
        /\ y.queue = <<>> /\ y.open = TRUE /\ y.timer = FALSE /\ y.lost = FALSE
    <3>1. (w \in open') = TRUE /\ (w \in timers') = FALSE /\ (w \in lost') = FALSE
      BY <1>1, <1>2, <1>6
    <3>2. y.open = TRUE /\ y.timer = FALSE /\ y.lost = FALSE
      BY <3>1 DEF View
    <3> QED BY <1>1, <1>2, <1>6, <2>2, <3>2 DEF View
  <2> HIDE DEF x, y, d, n
  <2>5. <<>> \in Seq(Entries) /\ Len(<<>>) = 0 /\ DOMAIN <<>> = {}
    OBVIOUS
  <2>6. SideTyped(y)
    BY <1>2, <1>3, <2>4, <2>5 DEF SideTyped
  <2>7. Len(y.queue) + One(y.open) + One(y.timer) + One(y.lost) = 1
    BY <2>4, <2>5 DEF One
  <2>8. Agrees(inbox[w][i], d, n)
    BY <1>2, <1>3, <1>5 DEF Agrees, Claims
  <2>9. Inv(y, crashes)
    BY <1>2, <1>3, <1>5, <2>3, <2>4, <2>5, <2>6, <2>7, <2>8, Waiting
  <2> QED BY <2>3, <2>9
<1>7. CASE Answer(w, i, <<FailedAttempt>>) /\ open' = open /\ ran' = ran
  <2> HIDE DEF d, n
  <2>1. Agrees(inbox[w][i], d, ran[w]) /\ Agrees(FailedAttempt, d, ran[w])
    BY <1>2, <1>3, <1>5, FailedAttemptFacts DEF Agrees, Claims
  <2>2. PendingExact(FailedAttempt, d) /\ d.pending # "set"
    BY <1>2, <1>3, <1>5, FailedAttemptFacts DEF PendingExact, Converting
  <2>3. d.attempts = data[w].attempts + (IF FailedAttempt.sink = "create" THEN 1 ELSE 0)
    BY <1>3, FailedAttemptFacts
  <2>4. old' \subseteq Works /\ UNCHANGED <<open, timers, beat, queue, lost, stored, ran>>
    BY <1>1, <1>7, SharedFunctions
  <2>20. ChangesData(w, "execute", i, FailedAttempt, d)
    BY <1>1, <1>3, <1>4, <1>7, <2>1, <2>2, <2>3, <2>4, FailedAttemptFacts DEF ChangesData
  <2> QED BY <2>20, DataKeeps
<1> QED BY <1>1, <1>6, <1>7

\* The preparer keeps an output for the neuron it came from.
LEMMA StepPrepareResult ==
  ASSUME IInv, NEW w \in Works, PrepareResult(w)
  PROVE  IInv'
<1> DEFINE f(m) == [m EXCEPT !.sink = "store_failure"]
           r == Message("right", "internal", NoNeuron)
           e == Message("convert", "value", NoNeuron)
<1>1. PICK i \in Turns(w, "timestamped_result") :
        \/ /\ inbox[w][i].body = "failure"
           /\ Pass(w, i, f(inbox[w][i]))
        \/ /\ inbox[w][i].body = "value" /\ data[w].pending = "set"
           /\ Pass(w, i, r)
        \/ /\ inbox[w][i].body = "value" /\ data[w].pending # "set"
           /\ Answer(w, i, <<e>>)
           /\ data' = [data EXCEPT ![w].pending = "set", ![w].of = inbox[w][i].target]
           /\ UNCHANGED <<open, timers, beat, queue, lost, stored, ran>> /\ old' = old
  BY DEF PrepareResult, PreparationError, sideVars, stamperVars
<1> DEFINE m == inbox[w][i]
<1>2. /\ m \in Messages /\ m.sink = "timestamped_result" /\ Agrees(m, data[w], ran[w])
      /\ data[w] \in Records /\ data[w].attempts > 0
      /\ data[w].pending = "set" => data[w].of = ran[w] /\ Late(m)
  <2>1. Handling(w, "timestamped_result", i)
    BY <1>1, HandlerFacts
  <2> QED BY <2>1 DEF Handling
<1>3. m.target = ran[w] /\ m.target \in Neurons \cup {NoNeuron} /\ data[w].attempts \in Nat
  BY <1>2, SinkFacts DEF Agrees, Claims, Records
<1>4. CASE m.body = "failure" /\ Pass(w, i, f(m))
  <2>1. f(m) \in Messages /\ f(m).sink = "store_failure" /\ f(m).body = "failure" /\ f(m).target = ran[w]
    <3>1. "store_failure" \in Sinks \cup Exits
      BY SinkFacts
    <3> QED BY <1>2, <1>3, <1>4, <3>1 DEF Messages
  <2>2. \E g \in Messages : g.sink = "store_failure" /\ g.body = "failure" /\ g.target = ran[w] /\ Pass(w, i, g)
    BY <1>4, <2>1
  <2>3. PICK g \in Messages : g.sink = "store_failure" /\ g.body = "failure" /\ g.target = ran[w] /\ Pass(w, i, g)
    BY <2>2
  <2>4. ~Late(m) /\ Moves(g)
    BY <1>2, <1>4, <2>3, SinkFacts DEF Late
  <2>5. Agrees(g, data[w], ran[w]) /\ PendingExact(g, data[w])
    BY <1>2, <2>3, <2>4 DEF Agrees, Claims, PendingExact, Converting
  <2> QED BY <2>3, <2>4, <2>5, PassKeeps
<1>5. CASE m.body = "value" /\ data[w].pending = "set" /\ Pass(w, i, r)
  <2>1. r \in Messages /\ r.sink = "right" /\ r.body = "internal"
    BY SinkFacts, Plain DEF Bodies
  <2> HIDE DEF r
  <2>2. Late(r) /\ Moves(r)
    BY <2>1, SinkFacts DEF Late
  <2>3. Agrees(r, data[w], ran[w])
    BY <1>2, <2>1 DEF Agrees, Claims
  <2>4. Moves(m)
    BY <1>2, SinkFacts
  <2>5. PendingExact(m, data[w]) => PendingExact(r, data[w])
    BY <1>2, <1>5, <2>4 DEF PendingExact, Converting
  <2> QED BY <1>5, <2>1, <2>2, <2>3, <2>5, PassKeeps
<1>6. CASE /\ m.body = "value" /\ data[w].pending # "set"
           /\ Answer(w, i, <<e>>)
           /\ data' = [data EXCEPT ![w].pending = "set", ![w].of = m.target]
           /\ UNCHANGED <<open, timers, beat, queue, lost, stored, ran>> /\ old' = old
  <2> DEFINE d == [data[w] EXCEPT !.pending = "set", !.of = m.target]
  <2>1. d \in Records /\ d.attempts = data[w].attempts /\ d.started = data[w].started
        /\ d.pending = "set" /\ d.of = ran[w]
    BY <1>2, <1>3 DEF Records
  <2>2. data' = [data EXCEPT ![w] = d]
    BY <1>6, SharedFunctions
  <2>3. e \in Messages /\ e.sink = "convert" /\ e.body = "value"
    BY SinkFacts, Plain DEF Bodies
  <2> HIDE DEF d, e
  <2>4. Late(m) /\ Late(e) /\ Moves(e)
    BY <1>2, <1>6, <2>3, SinkFacts DEF Late
  <2>5. Agrees(m, d, ran[w]) /\ Agrees(e, d, ran[w])
    BY <1>2, <1>6, <2>1, <2>3 DEF Agrees, Claims
  <2>6. PendingExact(e, d)
    BY <2>1, <2>3 DEF PendingExact, Converting
  <2>7. d.attempts = data[w].attempts + (IF e.sink = "create" THEN 1 ELSE 0)
    BY <1>3, <2>1, <2>3
  <2>8. old' \subseteq Works
    BY <1>6, SharedFunctions
  <2>20. ChangesData(w, "timestamped_result", i, e, d)
    BY <1>1, <1>6, <2>1, <2>2, <2>3, <2>4, <2>5, <2>6, <2>7, <2>8 DEF ChangesData
  <2> QED BY <2>20, DataKeeps
<1> QED BY <1>1, <1>4, <1>5, <1>6

\* What the preparer clears.
LEMMA ClearedData ==
  ASSUME IInv, NEW w \in Works, data[w] \in Records, ClearPending(w)
  PROVE  \E d \in Records :
           /\ data' = [data EXCEPT ![w] = d]
           /\ d.attempts = data[w].attempts /\ d.started = data[w].started /\ d.pending = "cleared"
<1> DEFINE d == [data[w] EXCEPT !.pending = "cleared", !.of = NoNeuron]
<1>1. d \in Records /\ d.attempts = data[w].attempts /\ d.started = data[w].started /\ d.pending = "cleared"
  BY DEF Records
<1>2. data' = [data EXCEPT ![w] = d]
  BY SharedFunctions DEF ClearPending
<1> QED BY <1>1, <1>2

\* A converted output becomes a result of that neuron.
LEMMA StepPrepareConverted ==
  ASSUME IInv, NEW w \in Works, PrepareConverted(w)
  PROVE  IInv'
<1> DEFINE r == Message("right", "internal", NoNeuron)
           e == Message("store_success", "value", data[w].of)
<1>1. PICK i \in Turns(w, "converted_public_output") :
        \/ data[w].pending # "set" /\ Pass(w, i, r)
        \/ /\ data[w].pending = "set"
           /\ Answer(w, i, <<e>>)
           /\ ClearPending(w)
           /\ UNCHANGED <<open, timers, beat, queue, lost, stored, ran>> /\ old' = old
  BY DEF PrepareConverted, PreparationError, sideVars, stamperVars
<1> DEFINE m == inbox[w][i]
<1>2. /\ m \in Messages /\ m.sink = "converted_public_output" /\ Agrees(m, data[w], ran[w])
      /\ data[w] \in Records /\ data[w].attempts > 0 /\ ran[w] \in Neurons \cup {NoNeuron}
      /\ data[w].pending = "set" => data[w].of = ran[w] /\ Late(m)
  <2>1. Handling(w, "converted_public_output", i)
    BY <1>1, HandlerFacts
  <2> QED BY <2>1 DEF Handling
<1>3. CASE data[w].pending # "set" /\ Pass(w, i, r)
  <2>1. r \in Messages /\ r.sink = "right" /\ r.body = "internal"
    BY SinkFacts, Plain DEF Bodies
  <2> HIDE DEF r
  <2>2. Moves(r) /\ Agrees(r, data[w], ran[w])
    BY <1>2, <2>1, SinkFacts DEF Agrees, Claims
  <2>3. ~PendingExact(m, data[w])
    BY <1>2, <1>3 DEF PendingExact, Converting
  <2> QED BY <1>3, <2>1, <2>2, <2>3, PassKeeps
<1>4. CASE /\ data[w].pending = "set"
           /\ Answer(w, i, <<e>>)
           /\ ClearPending(w)
           /\ UNCHANGED <<open, timers, beat, queue, lost, stored, ran>> /\ old' = old
  <2>1. PICK d \in Records :
           /\ data' = [data EXCEPT ![w] = d]
           /\ d.attempts = data[w].attempts /\ d.started = data[w].started /\ d.pending = "cleared"
    BY <1>2, <1>4, ClearedData
  <2>2. e \in Messages /\ e.sink = "store_success" /\ e.body = "value" /\ e.target = ran[w]
    <3>1. data[w].of = ran[w]
      BY <1>2, <1>4
    <3>2. Message("store_success", "value", ran[w]) \in Messages
          /\ Message("store_success", "value", ran[w]).sink = "store_success"
          /\ Message("store_success", "value", ran[w]).body = "value"
          /\ Message("store_success", "value", ran[w]).target = ran[w]
      BY <1>2, SinkFacts, MadeUp DEF Bodies
    <3> QED BY <3>1, <3>2
  <2> HIDE DEF e
  <2>3. Moves(e) /\ data[w].attempts \in Nat
    BY <1>2, <2>2, SinkFacts DEF Records
  <2>4. Agrees(m, d, ran[w]) /\ Agrees(e, d, ran[w])
    BY <1>2, <2>1, <2>2 DEF Agrees, Claims
  <2>5. PendingExact(e, d)
    BY <2>1, <2>2 DEF PendingExact, Converting
  <2>6. d.attempts = data[w].attempts + (IF e.sink = "create" THEN 1 ELSE 0)
    BY <2>1, <2>2, <2>3
  <2>7. old' \subseteq Works
    BY <1>4, SharedFunctions
  <2>20. ChangesData(w, "converted_public_output", i, e, d)
    BY <1>1, <1>4, <2>1, <2>2, <2>3, <2>4, <2>5, <2>6, <2>7 DEF ChangesData
  <2> QED BY <2>20, DataKeeps
<1> QED BY <1>1, <1>3, <1>4

\* An output that cannot be converted is forgotten.
LEMMA StepPrepareUnconverted ==
  ASSUME IInv, NEW w \in Works, PrepareUnconverted(w)
  PROVE  IInv'
<1> DEFINE e == Message("right", "unconverted", NoNeuron)
<1>1. PICK i \in Turns(w, "conversion_failed") :
        /\ Answer(w, i, <<e>>)
        /\ IF data[w].pending = "absent" THEN UNCHANGED data ELSE ClearPending(w)
        /\ UNCHANGED <<open, timers, beat, queue, lost, stored, ran>> /\ old' = old
  BY DEF PrepareUnconverted, PreparationError, sideVars, stamperVars
<1> DEFINE m == inbox[w][i]
<1>2. /\ m \in Messages /\ m.sink = "conversion_failed" /\ Agrees(m, data[w], ran[w])
      /\ data[w] \in Records /\ data[w].attempts > 0
  <2>1. Handling(w, "conversion_failed", i)
    BY <1>1, HandlerFacts
  <2> QED BY <2>1 DEF Handling
<1>3. e \in Messages /\ e.sink = "right" /\ e.body = "unconverted"
  BY SinkFacts, Plain DEF Bodies
<1> HIDE DEF e
<1>4. PICK d \in Records :
           /\ data' = [data EXCEPT ![w] = d]
           /\ d.attempts = data[w].attempts /\ d.started = data[w].started /\ d.pending # "set"
  <2>1. CASE data[w].pending = "absent"
    <3>1. data' = [data EXCEPT ![w] = data[w]] /\ data[w].pending # "set"
      BY <1>1, <2>1, SharedFunctions
    <3> QED BY <1>2, <3>1
  <2>2. CASE data[w].pending # "absent"
    <3>1. PICK d \in Records :
           /\ data' = [data EXCEPT ![w] = d]
           /\ d.attempts = data[w].attempts /\ d.started = data[w].started /\ d.pending = "cleared"
      BY <1>1, <1>2, <2>2, ClearedData
    <3> QED BY <3>1
  <2> QED BY <2>1, <2>2
<1>5. Moves(e) /\ data[w].attempts \in Nat
  BY <1>2, <1>3, SinkFacts DEF Records
<1>6. Agrees(m, d, ran[w]) /\ Agrees(e, d, ran[w])
  BY <1>2, <1>3, <1>4 DEF Agrees, Claims
<1>7. PendingExact(e, d)
  BY <1>3, <1>4 DEF PendingExact, Converting
<1>8. d.attempts = data[w].attempts + (IF e.sink = "create" THEN 1 ELSE 0)
  BY <1>3, <1>4, <1>5
<1>9. old' \subseteq Works
  BY <1>1, SharedFunctions
<1>20. ChangesData(w, "conversion_failed", i, e, d)
  BY <1>1, <1>3, <1>4, <1>5, <1>6, <1>7, <1>8, <1>9 DEF ChangesData
<1> QED BY <1>20, DataKeeps

----------------------------------------------------------------------------
(* Storers, dispatcher and error mux *)

\* A result more in the store.
LEMMA StoredOne ==
  ASSUME NEW q \in Seq(Results), NEW k \in {"success", "failure"}, NEW n \in Neurons \cup {NoNeuron}
  PROVE  /\ Append(q, [kind |-> k, target |-> n]) \in Seq(Results)
         /\ Num(q, ResultsOf("failure")) \in Nat /\ Num(q, ResultsOf("success")) \in Nat
         /\ \A j : Num(Append(q, [kind |-> k, target |-> n]), ResultsOf(j))
                   = Num(q, ResultsOf(j)) + (IF j = k THEN 1 ELSE 0)
<1> DEFINE r == [kind |-> k, target |-> n]
<1>1. r \in Results /\ r.kind = k
  BY DEF Results
<1> HIDE DEF r
<1>2. Append(q, r) \in Seq(Results)
  BY <1>1
<1>3. Num(q, ResultsOf("failure")) \in Nat /\ Num(q, ResultsOf("success")) \in Nat
  BY NumType
<1>4. ASSUME NEW j PROVE Num(Append(q, r), ResultsOf(j)) = Num(q, ResultsOf(j)) + (IF j = k THEN 1 ELSE 0)
  <2>1. In(r, ResultsOf(j)) = IF j = k THEN 1 ELSE 0
    BY <1>1 DEF In, ResultsOf
  <2> QED BY <1>1, <2>1, NumAppend
<1> QED BY <1>2, <1>3, <1>4 DEF r

\* What storing a result does to the store of its work.
LEMMA StoreFacts ==
  ASSUME IInv, NEW w \in Works, NEW kind, NEW m, Store(w, kind, m)
  PROVE  /\ stored' = [v \in Works |-> stored'[v]]
         /\ stored'[w] = Append(stored[w], [kind |-> kind, target |-> m.target])
         /\ \A v \in Works \ {w} : stored'[v] = stored[v]
<1>1. stored = [v \in Works |-> stored[v]]
  BY SharedFunctions
<1>2. stored' = [stored EXCEPT ![w] = Append(stored[w], [kind |-> kind, target |-> m.target])]
  BY DEF Store
<1> QED BY <1>1, <1>2

\* The success storer: one success more in the store, one dispatch more to come.
LEMMA StepStoreSuccess ==
  ASSUME IInv, NEW w \in Works, StoreSuccess(w)
  PROVE  IInv'
<1> DEFINE e == Message("success_input", "value", NoNeuron)
<1>1. PICK i \in Turns(w, "store_success") :
        \/ /\ Store(w, "success", inbox[w][i])
           /\ Answer(w, i, <<e>>)
           /\ UNCHANGED <<data, open, timers, beat, queue, old, ran, lost>>
        \/ Pass(w, i, FailedAttempt)
  BY DEF StoreSuccess, sideVars, stamperVars
<1>2. e \in Messages /\ e.sink = "success_input" /\ e.body = "value"
  BY SinkFacts, Plain DEF Bodies
<1> HIDE DEF e
<1>3. /\ inbox[w][i] \in Messages /\ inbox[w][i].sink = "store_success"
      /\ Agrees(inbox[w][i], data[w], ran[w]) /\ data[w] \in Records /\ data[w].attempts > 0
      /\ data[w].pending = "set" => Late(inbox[w][i])
      /\ stored[w] \in Seq(Results)
  <2>1. Handling(w, "store_success", i)
    BY <1>1, HandlerFacts
  <2> QED BY <2>1 DEF Handling
<1>4. CASE /\ Store(w, "success", inbox[w][i])
           /\ Answer(w, i, <<e>>)
           /\ UNCHANGED <<data, open, timers, beat, queue, old, ran, lost>>
  <2> DEFINE x == View(w)
             y == View(w)'
             n == inbox[w][i].target
  <2>1. <<e>> \in Seq(Messages)
    BY <1>2
  <2>2. /\ stored' = [v \in Works |-> stored'[v]] /\ stored'[w] = Append(stored[w], [kind |-> "success", target |-> n])
        /\ \A v \in Works \ {w} : stored'[v] = stored[v]
    BY <1>4, StoreFacts
  <2>3. /\ data' = data /\ ran' = ran /\ data = [v \in Works |-> data[v]] /\ ran = [v \in Works |-> ran[v]]
        /\ UNCHANGED <<open, timers, beat, queue, lost>> /\ old' \subseteq Works
    BY <1>4, SharedFunctions
  <2>4. /\ Taken(x, y, i, <<e>>) /\ x.inbox[i].sink = "store_success"
        /\ y.open = x.open /\ y.timer = x.timer /\ y.queue = x.queue /\ y.lost = x.lost
        /\ Inv(x, crashes) /\ (Inv(y, crashes) => IInv')
    <3>1. ASSUME NEW msgs \in Seq(Messages), Answer(w, i, msgs)
          PROVE  /\ Taken(x, y, i, msgs) /\ x.inbox[i].sink = "store_success"
                 /\ y.open = x.open /\ y.timer = x.timer /\ y.queue = x.queue /\ y.lost = x.lost
                 /\ Inv(x, crashes) /\ (Inv(y, crashes) => IInv')
      BY <2>2, <2>3, <3>1, ChangeStep
    <3> QED BY <1>4, <2>1, <3>1
  <2>5. /\ x.inbox = inbox[w] /\ x.data = data[w] /\ x.ran = ran[w] /\ y.ran = x.ran
        /\ y.data = x.data /\ x.stored = stored[w] /\ y.stored = Append(x.stored, [kind |-> "success", target |-> n])
    BY <2>2, <2>3 DEF View
  <2>6. n \in Neurons \cup {NoNeuron}
    BY <1>3, SinkFacts
  <2> HIDE DEF x, y, n
  <2>7. /\ y.stored \in Seq(Results)
        /\ Num(y.stored, ResultsOf("failure")) = Num(x.stored, ResultsOf("failure"))
        /\ Num(y.stored, ResultsOf("success")) = Num(x.stored, ResultsOf("success")) + 1
    <3>1. /\ y.stored \in Seq(Results) /\ Num(x.stored, ResultsOf("failure")) \in Nat
          /\ \A j : Num(y.stored, ResultsOf(j)) = Num(x.stored, ResultsOf(j)) + (IF j = "success" THEN 1 ELSE 0)
      BY <1>3, <2>5, <2>6, StoredOne
    <3>2. Num(y.stored, ResultsOf("failure")) = Num(x.stored, ResultsOf("failure")) + 0
      BY <3>1
    <3> QED BY <3>1, <3>2
  <2>8. ~Late(x.inbox[i]) /\ Moves(e) /\ x.data.pending # "set"
    BY <1>2, <1>3, <2>5, SinkFacts DEF Late
  <2>9. Agrees(e, x.data, x.ran) /\ PendingExact(e, y.data)
    BY <1>2, <1>3, <2>5, <2>8 DEF Agrees, Claims, PendingExact, Converting
  <2>10. y.data.attempts = x.data.attempts + (IF e.sink = "create" THEN 1 ELSE 0)
    BY <1>2, <1>3, <2>5 DEF Records
  <2>11. /\ Agrees(x.inbox[i], y.data, x.ran) /\ Agrees(e, y.data, x.ran) /\ y.data.pending # "set"
         /\ y.data \in Records
    BY <1>3, <2>5, <2>8, <2>9
  <2>12. Num(y.stored, ResultsOf("success"))
           = Num(x.stored, ResultsOf("success")) + (IF e.sink = "success_input" THEN 1 ELSE 0)
    BY <1>2, <2>7
  <2>13. /\ x.inbox[i].sink \notin {"failure_input", "success_input"}
         /\ x.inbox[i].sink = "input" <=> e.sink = "create"
         /\ e.sink \notin {"input", "task_output"}
    BY <1>2, <2>4
  <2>14. Inv(y, crashes)
    BY <1>2, <2>4, <2>5, <2>7, <2>8, <2>9, <2>10, <2>11, <2>12, <2>13, ChangedOn
  <2> QED BY <2>4, <2>14
<1>5. CASE Pass(w, i, FailedAttempt)
  BY <1>5, FailedAttemptKeeps
<1> QED BY <1>1, <1>4, <1>5

\* The failure storer: the report of the failure and the failed attempt leave together.
LEMMA StepStoreFailure ==
  ASSUME IInv, NEW w \in Works, StoreFailure(w)
  PROVE  IInv'
<1> DEFINE a == Message("failure_input", "failure", NoNeuron)
<1>1. PICK i \in Turns(w, "store_failure") :
        \/ /\ Store(w, "failure", inbox[w][i])
           /\ Answer(w, i, <<a, FailedAttempt>>)
           /\ UNCHANGED <<data, open, timers, beat, queue, old, ran, lost>>
        \/ Pass(w, i, FailedAttempt)
  BY DEF StoreFailure, sideVars, stamperVars
<1>2. a \in Messages /\ a.sink = "failure_input" /\ a.body = "failure"
  BY SinkFacts, Plain DEF Bodies
<1> HIDE DEF a
<1>3. /\ inbox[w][i] \in Messages /\ inbox[w][i].sink = "store_failure"
      /\ stored[w] \in Seq(Results)
  <2>1. Handling(w, "store_failure", i)
    BY <1>1, HandlerFacts
  <2> QED BY <2>1 DEF Handling
<1>4. CASE /\ Store(w, "failure", inbox[w][i])
           /\ Answer(w, i, <<a, FailedAttempt>>)
           /\ UNCHANGED <<data, open, timers, beat, queue, old, ran, lost>>
  <2> DEFINE x == View(w)
             y == View(w)'
             n == inbox[w][i].target
  <2>1. <<a, FailedAttempt>> \in Seq(Messages)
    BY <1>2, FailedAttemptFacts
  <2>2. /\ stored' = [v \in Works |-> stored'[v]] /\ stored'[w] = Append(stored[w], [kind |-> "failure", target |-> n])
        /\ \A v \in Works \ {w} : stored'[v] = stored[v]
    BY <1>4, StoreFacts
  <2>3. /\ data' = data /\ ran' = ran /\ data = [v \in Works |-> data[v]] /\ ran = [v \in Works |-> ran[v]]
        /\ UNCHANGED <<open, timers, beat, queue, lost>> /\ old' \subseteq Works
    BY <1>4, SharedFunctions
  <2>4. /\ Taken(x, y, i, <<a, FailedAttempt>>) /\ x.inbox[i].sink = "store_failure"
        /\ y.open = x.open /\ y.timer = x.timer /\ y.queue = x.queue /\ y.lost = x.lost
        /\ Inv(x, crashes) /\ (Inv(y, crashes) => IInv')
    <3>1. ASSUME NEW msgs \in Seq(Messages), Answer(w, i, msgs)
          PROVE  /\ Taken(x, y, i, msgs) /\ x.inbox[i].sink = "store_failure"
                 /\ y.open = x.open /\ y.timer = x.timer /\ y.queue = x.queue /\ y.lost = x.lost
                 /\ Inv(x, crashes) /\ (Inv(y, crashes) => IInv')
      BY <2>2, <2>3, <3>1, ChangeStep
    <3> QED BY <1>4, <2>1, <3>1
  <2>5. /\ x.inbox = inbox[w] /\ y.ran = x.ran /\ y.data = x.data
        /\ x.stored = stored[w] /\ y.stored = Append(x.stored, [kind |-> "failure", target |-> n])
    BY <2>2, <2>3 DEF View
  <2>6. n \in Neurons \cup {NoNeuron}
    BY <1>3, SinkFacts
  <2> HIDE DEF x, y, n
  <2>7. /\ y.stored \in Seq(Results)
        /\ Num(y.stored, ResultsOf("failure")) = Num(x.stored, ResultsOf("failure")) + 1
        /\ Num(y.stored, ResultsOf("success")) = Num(x.stored, ResultsOf("success"))
    <3>1. /\ y.stored \in Seq(Results) /\ Num(x.stored, ResultsOf("success")) \in Nat
          /\ \A j : Num(y.stored, ResultsOf(j)) = Num(x.stored, ResultsOf(j)) + (IF j = "failure" THEN 1 ELSE 0)
      BY <1>3, <2>5, <2>6, StoredOne
    <3>2. Num(y.stored, ResultsOf("success")) = Num(x.stored, ResultsOf("success")) + 0
      BY <3>1
    <3> QED BY <3>1, <3>2
  <2>8. ~Late(x.inbox[i]) /\ x.inbox[i].sink \notin {"input", "failure_input", "success_input"}
    BY <2>4 DEF Late
  <2>9. Num(y.stored, ResultsOf("failure"))
           = Num(x.stored, ResultsOf("failure")) + (IF a.sink = "failure_input" THEN 1 ELSE 0)
    BY <1>2, <2>7
  <2>10. ASSUME NEW b \in Messages, Taken(x, y, i, <<a, b>>), b.sink = "failed_attempt", b.body = "exception"
         PROVE  Inv(y, crashes)
    BY <1>2, <2>4, <2>5, <2>7, <2>8, <2>9, <2>10, ReportedOn
  <2>11. Inv(y, crashes)
    BY <2>4, <2>10, FailedAttemptFacts
  <2> QED BY <2>4, <2>11
<1>5. CASE Pass(w, i, FailedAttempt)
  BY <1>5, FailedAttemptKeeps
<1> QED BY <1>1, <1>4, <1>5

\* The dispatcher: the result and the output leave together.
LEMMA StepDispatchSuccess ==
  ASSUME IInv, NEW w \in Works, DispatchSuccess(w)
  PROVE  IInv'
<1> DEFINE a == Message("successful_task_result", "value", NoNeuron)
           b == Message("task_output", "value", NoNeuron)
           x == View(w)
           y == View(w)'
<1>1. PICK i \in Turns(w, "success_input") :
        /\ Answer(w, i, <<a, b>>)
        /\ UNCHANGED <<data, open, timers, beat, queue, old, stored, ran, lost>>
  BY DEF DispatchSuccess, sideVars, stamperVars
<1>2. /\ a \in Messages /\ a.sink = "successful_task_result" /\ a.body = "value"
      /\ b \in Messages /\ b.sink = "task_output" /\ b.body = "value"
  BY SinkFacts, Plain DEF Bodies
<1> HIDE DEF a, b
<1>3. <<a, b>> \in Seq(Messages)
  BY <1>2
<1>4. /\ data' = data /\ stored' = stored /\ ran' = ran /\ data = [v \in Works |-> data[v]]
      /\ stored = [v \in Works |-> stored[v]] /\ ran = [v \in Works |-> ran[v]]
      /\ UNCHANGED <<open, timers, beat, queue, lost>> /\ old' \subseteq Works
  BY <1>1, SharedFunctions
<1>5. /\ Taken(x, y, i, <<a, b>>) /\ x.inbox[i].sink = "success_input"
      /\ y.open = x.open /\ y.timer = x.timer /\ y.queue = x.queue /\ y.lost = x.lost
      /\ Inv(x, crashes) /\ (Inv(y, crashes) => IInv')
  <2>1. ASSUME NEW msgs \in Seq(Messages), Answer(w, i, msgs)
        PROVE  /\ Taken(x, y, i, msgs) /\ x.inbox[i].sink = "success_input"
               /\ y.open = x.open /\ y.timer = x.timer /\ y.queue = x.queue /\ y.lost = x.lost
               /\ Inv(x, crashes) /\ (Inv(y, crashes) => IInv')
    BY <1>1, <1>4, <2>1, ChangeStep
  <2> QED BY <1>1, <1>3, <2>1
<1>6. y.data = x.data /\ y.ran = x.ran /\ y.stored = x.stored
  BY <1>4 DEF View
<1> HIDE DEF x, y
<1>7. x.stored \in Seq(Results)
  BY <1>5 DEF Inv, WorkInv, Typed
<1>8. Num(x.stored, ResultsOf("failure")) \in Nat
  BY <1>7, NumType
<1>9. Num(y.stored, ResultsOf("failure"))
           = Num(x.stored, ResultsOf("failure")) + (IF a.sink = "failure_input" THEN 1 ELSE 0)
  BY <1>2, <1>6, <1>8
<1>10. ~Late(x.inbox[i])
  BY <1>5 DEF Late
<1>11. Inv(y, crashes)
  BY <1>2, <1>5, <1>6, <1>7, <1>9, <1>10, ReportedOn
<1> QED BY <1>5, <1>11

\* The dispatcher reports a failure, perhaps while the next attempt is on its way already.
LEMMA StepDispatchFailure ==
  ASSUME IInv, NEW w \in Works, DispatchFailure(w)
  PROVE  IInv'
<1> DEFINE e == Message("executor_failure", "failure", NoNeuron)
           x == View(w)
           y == View(w)'
<1>1. PICK i \in Turns(w, "failure_input") : Pass(w, i, e)
  BY DEF DispatchFailure
<1>2. e \in Messages
  BY SinkFacts, Plain DEF Bodies
<1>3. /\ Taken(x, y, i, <<e>>) /\ x.inbox[i].sink = "failure_input" /\ SameRest(x, y)
      /\ Inv(x, crashes) /\ (Inv(y, crashes) => IInv')
  <2> HIDE DEF e
  <2> QED BY <1>1, <1>2, PassStep
<1> HIDE DEF x, y
<1>4. \A g : g = e /\ Taken(x, y, i, <<g>>) => WorkInv(y, crashes) /\ (UncrashedInv(x) => UncrashedInv(y))
  BY <1>3, Reported DEF Inv
<1>5. WorkInv(y, crashes) /\ (UncrashedInv(x) => UncrashedInv(y))
  BY <1>3, <1>4
<1> QED BY <1>3, <1>5 DEF Inv

\* The error mux.
LEMMA StepForwardError ==
  ASSUME IInv, NEW w \in Works, ForwardError(w)
  PROVE  IInv'
<1>1. PICK s \in {"left", "right"} : \E i \in Turns(w, s) : Pass(w, i, [inbox[w][i] EXCEPT !.sink = "error"])
  BY DEF ForwardError
<1>2. PICK i \in Turns(w, s) : Pass(w, i, [inbox[w][i] EXCEPT !.sink = "error"])
  BY <1>1
<1>3. /\ inbox[w][i] \in Messages /\ inbox[w][i].sink = s /\ Agrees(inbox[w][i], data[w], ran[w])
      /\ data[w].attempts > 0
  <2>1. Handling(w, s, i)
    BY <1>1, <1>2, HandlerFacts
  <2> QED BY <1>1, <2>1 DEF Handling
<1> DEFINE e == [inbox[w][i] EXCEPT !.sink = "error"]
<1>4. e \in Messages /\ e.sink = "error" /\ e.body = inbox[w][i].body
  <2>1. "error" \in Sinks \cup Exits
    BY SinkFacts
  <2> QED BY <1>3, <2>1 DEF Messages
<1>5. Pass(w, i, e)
  BY <1>2
<1> HIDE DEF e
<1>6. Moves(e) /\ Late(e) /\ Moves(inbox[w][i])
  BY <1>1, <1>3, <1>4, SinkFacts DEF Late
<1>7. Agrees(e, data[w], ran[w])
  BY <1>3, <1>4 DEF Agrees, Claims
<1>8. PendingExact(inbox[w][i], data[w]) => PendingExact(e, data[w])
  BY <1>1, <1>3, <1>4, <1>6 DEF PendingExact, Converting
<1> QED BY <1>1, <1>4, <1>5, <1>6, <1>7, <1>8, PassKeeps

----------------------------------------------------------------------------
(* Timestamper *)

\* What is in the queue when an output has been added and the old ones may have been dropped.
LEMMA RetainedFacts ==
  ASSUME NEW l \in Seq(Entries), NEW e \in Entries, OfWorks(l, {e.work}) = <<>>
  PROVE  /\ Retained(Append(l, e)) \in Seq(Entries)
         /\ OfWorks(Retained(Append(l, e)), {e.work}) \in {<<>>, <<e>>}
         /\ \A v : v # e.work => OfWorks(Retained(Append(l, e)), {v}) \in {<<>>, OfWorks(l, {v})}
         /\ \A v : v \in InQueue(Retained(Append(l, e))) <=> OfWorks(Retained(Append(l, e)), {v}) # <<>>
         /\ \A v : v \in InQueue(l) <=> OfWorks(l, {v}) # <<>>
<1> DEFINE a == Append(l, e)
           q == Retained(a)
<1>1. a \in Seq(Entries)
  OBVIOUS
<1>2. \A v : OfWorks(a, {v}) = Grown(OfWorks(l, {v}), e, {v})
  BY OfWorksAppend
<1>3. /\ OfWorks(a, {e.work}) = <<e>>
      /\ \A v : v # e.work => OfWorks(a, {v}) = OfWorks(l, {v})
  <2>1. Append(<<>>, e) = <<e>>
    OBVIOUS
  <2>2. OfWorks(a, {e.work}) = <<e>>
    BY <1>2, <2>1 DEF Grown
  <2>3. ASSUME NEW v, v # e.work PROVE OfWorks(a, {v}) = OfWorks(l, {v})
    BY <1>2, <2>3 DEF Grown
  <2> QED BY <2>2, <2>3
<1>4. \A works, v : OfWorksRight(a, works, v)
  BY <1>1, OfWorksFacts
<1>5. q = a \/ q = OfWorks(a, Works \ old)
  BY DEF Retained
<1> HIDE DEF a
<1>6. q \in Seq(Entries)
  <2>1. OfWorksRight(a, Works \ old, 0)
    BY <1>4
  <2>2. OfWorks(a, Works \ old) \in Seq(Entries)
    BY <2>1 DEF OfWorksRight
  <2> QED BY <1>1, <1>5, <2>2
<1>7. ASSUME NEW v PROVE OfWorks(q, {v}) = OfWorks(a, {v}) \/ OfWorks(q, {v}) = <<>>
  <2>1. OfWorksRight(a, Works \ old, v)
    BY <1>4
  <2>2. OfWorks(OfWorks(a, Works \ old), {v}) = OfWorks(a, {v}) \/ OfWorks(OfWorks(a, Works \ old), {v}) = <<>>
    BY <2>1 DEF OfWorksRight
  <2> QED BY <1>5, <2>2
<1> HIDE DEF q
<1>8. ASSUME NEW v PROVE v \in InQueue(q) <=> OfWorks(q, {v}) # <<>>
  <2>1. OfWorksRight(q, {}, v)
    BY <1>6, OfWorksFacts
  <2> QED BY <2>1 DEF OfWorksRight
<1>9. ASSUME NEW v PROVE v \in InQueue(l) <=> OfWorks(l, {v}) # <<>>
  <2>1. OfWorksRight(l, {}, v)
    BY OfWorksFacts
  <2> QED BY <2>1 DEF OfWorksRight
<1>10. OfWorks(q, {e.work}) \in {<<>>, <<e>>}
  BY <1>3, <1>7
<1>11. ASSUME NEW v, v # e.work PROVE OfWorks(q, {v}) \in {<<>>, OfWorks(l, {v})}
  BY <1>3, <1>7, <1>11
<1> QED BY <1>6, <1>8, <1>9, <1>10, <1>11 DEF q, a

\* An output that waits for a beat.
LEMMA WaitsForBeat ==
  ASSUME IInv, NEW w \in Works, NEW i \in Turns(w, "executor_output"), NEW q,
         q = Retained(Append(queue, Queued(w, inbox[w][i]))),
         Answer(w, i, <<>>), queue' = q,
         lost' = lost \cup ((InQueue(queue) \cup {w}) \ InQueue(q)),
         UNCHANGED <<data, open, timers, beat, old, stored, ran>>
  PROVE  IInv'
<1>1. /\ inbox[w][i] \in Messages /\ inbox[w][i].sink = "executor_output" /\ Agrees(inbox[w][i], data[w], ran[w])
      /\ data[w] \in Records /\ data[w].attempts > 0 /\ ran[w] \in Neurons \cup {NoNeuron}
      /\ data[w].pending = "set" => data[w].of = ran[w] /\ Late(inbox[w][i])
      /\ stored[w] \in Seq(Results)
      /\ w \notin open /\ w \notin timers /\ w \notin lost /\ OfWorks(queue, {w}) = <<>>
  <2>1. Handling(w, "executor_output", i)
    BY HandlerFacts
  <2> QED BY <2>1 DEF Handling
<1> DEFINE e == Queued(w, inbox[w][i])
<1>2. e \in Entries /\ e.work = w /\ e.target = ran[w]
  <2>1. inbox[w][i].body \in {"value", "failure"} /\ inbox[w][i].target = ran[w]
    BY <1>1 DEF Agrees, Claims
  <2> QED BY <1>1, <2>1 DEF Queued, Entries
<1>3. queue \in Seq(Entries)
  BY SharedFunctions
<1> HIDE DEF e
<1>4. /\ q \in Seq(Entries) /\ OfWorks(q, {w}) \in {<<>>, <<e>>}
      /\ \A v : v # w => OfWorks(q, {v}) \in {<<>>, OfWorks(queue, {v})}
      /\ \A v : v \in InQueue(q) <=> OfWorks(q, {v}) # <<>>
      /\ \A v : v \in InQueue(queue) <=> OfWorks(queue, {v}) # <<>>
  <2>1. q = Retained(Append(queue, e)) /\ OfWorks(queue, {e.work}) = <<>>
    BY <1>1, <1>2 DEF e
  <2> HIDE DEF Retained, InQueue
  <2> QED BY <1>2, <1>3, <2>1, RetainedFacts
<1>5. /\ inbox' = [inbox EXCEPT ![w] = RemoveAt(inbox[w], i)]
      /\ bus' = [bus EXCEPT ![w] = bus[w] \o <<>>]
      /\ last' = last /\ out' = out /\ issued' = issued /\ crashes' = crashes
      /\ data' = data /\ open' = open /\ timers' = timers /\ beat' = beat /\ old' = old
      /\ stored' = stored /\ ran' = ran
  BY DEF Answer
<1>6. /\ bus = [v \in Works |-> bus[v]] /\ inbox = [v \in Works |-> inbox[v]]
      /\ last = [v \in Works |-> last[v]] /\ out = [v \in Works |-> out[v]] /\ issued = [v \in Works |-> issued[v]]
      /\ data = [v \in Works |-> data[v]] /\ stored = [v \in Works |-> stored[v]] /\ ran = [v \in Works |-> ran[v]]
      /\ open \subseteq Works /\ timers \subseteq Works /\ old \subseteq Works /\ lost \subseteq Works
      /\ beat \in BOOLEAN /\ crashes \in 0..MaxCrashes
  BY SharedFunctions
<1>7. /\ inbox'[w] = RemoveAt(inbox[w], i) /\ bus'[w] = bus[w] \o <<>>
      /\ \A v \in Works \ {w} : inbox'[v] = inbox[v] /\ bus'[v] = bus[v]
      /\ bus' = [v \in Works |-> bus'[v]] /\ inbox' = [v \in Works |-> inbox'[v]]
  BY <1>5, <1>6
<1>8. InQueue(queue) \subseteq Works
  <2>1. ASSUME NEW k \in DOMAIN queue PROVE queue[k].work \in Works
    <3>1. k \in 1..Len(queue)
      BY <1>3, LenProperties
    <3>2. queue[k] \in Entries
      BY <1>3, <3>1, ElementOfSeq
    <3> QED BY <3>2 DEF Entries
  <2> QED BY <2>1 DEF InQueue
<1>9. Shared'
  <2>1. lost' \subseteq Works
    BY <1>6, <1>8
  <2>2. queue' \in Seq(Entries)
    BY <1>4
  <2> QED BY <1>5, <1>6, <1>7, <2>1, <2>2 DEF Shared
<1>10. ASSUME NEW v \in Works \ {w} PROVE Inv(View(v)', crashes)
  <2>1. Inv(View(v), crashes)
    BY DEF IInv
  <2>2. CASE OfWorks(q, {v}) = OfWorks(queue, {v})
    <3>1. v \in lost' <=> v \in lost
      BY <1>4, <2>2
    <3>2. Undisturbed(v)
      BY <1>5, <1>7, <2>2, <3>1 DEF Undisturbed
    <3> QED BY <2>1, <3>2, SameView
  <2>3. CASE OfWorks(q, {v}) # OfWorks(queue, {v})
    <3> DEFINE x == View(v)
               y == View(v)'
    <3>1. OfWorks(q, {v}) = <<>> /\ OfWorks(queue, {v}) # <<>>
      BY <1>4, <2>3
    <3>2. (v \in lost') = TRUE
      BY <1>4, <3>1
    <3>3. y.lost = TRUE
      BY <3>2 DEF View
    <3>4. x.queue # <<>> /\ y.queue = <<>>
      BY <3>1 DEF View
    <3>5. /\ y.bus = x.bus /\ y.inbox = x.inbox /\ y.last = x.last /\ y.out = x.out /\ y.issued = x.issued
          /\ y.data = x.data /\ y.open = x.open /\ y.timer = x.timer /\ y.stored = x.stored /\ y.ran = x.ran
      BY <1>5, <1>7 DEF View
    <3> HIDE DEF x, y
    <3>6. Dropped(x, y)
      BY <3>3, <3>4, <3>5 DEF Dropped, Silent
    <3>7. Inv(x, crashes)
      BY <2>1 DEF x
    <3>8. Inv(y, crashes)
      BY <3>6, <3>7, DroppedWork DEF Inv
    <3> QED BY <3>8 DEF y
  <2> QED BY <2>2, <2>3
<1>11. Inv(View(w)', crashes)
  <2> DEFINE x == View(w)
             y == View(w)'
  <2>1. Inv(x, crashes)
    BY DEF IInv
  <2>2. /\ x.inbox = inbox[w] /\ x.data = data[w] /\ x.ran = ran[w]
        /\ y.data = x.data /\ y.stored = x.stored /\ y.ran = x.ran /\ y.stored = stored[w]
        /\ y.queue = OfWorks(q, {w}) /\ y.open = FALSE /\ y.timer = FALSE /\ y.lost = (w \in lost')
        /\ y.inbox = RemoveAt(x.inbox, i) /\ y.bus = x.bus \o <<>> /\ y.last = x.last /\ y.out = x.out /\ y.issued = x.issued
    <3>1. (w \in open') = FALSE /\ (w \in timers') = FALSE
      BY <1>1, <1>5
    <3>2. y.open = FALSE /\ y.timer = FALSE
      BY <3>1 DEF View
    <3> QED BY <1>5, <1>7, <3>2 DEF View
  <2> HIDE DEF x, y
  <2>3. i \in DOMAIN x.inbox /\ <<>> \in Seq(Messages)
    BY <2>2 DEF Turns
  <2>4. Taken(x, y, i, <<>>)
    BY <2>2, <2>3 DEF Taken
  <2>5. /\ Len(y.queue) + One(y.open) + One(y.timer) + One(y.lost) = 1
        /\ y.queue \in Seq(Entries) /\ y.lost \in BOOLEAN
        /\ \A k \in DOMAIN y.queue : y.queue[k].target = y.ran
    <3>1. CASE OfWorks(q, {w}) = <<>>
      <4>1. w \notin InQueue(q)
        BY <1>4, <3>1
      <4>2. (w \in lost') = TRUE
        BY <4>1
      <4>3. <<>> \in Seq(Entries) /\ Len(<<>>) = 0 /\ DOMAIN <<>> = {}
        OBVIOUS
      <4>4. y.queue = <<>> /\ y.open = FALSE /\ y.timer = FALSE /\ y.lost = TRUE
        BY <2>2, <3>1, <4>2
      <4>5. Len(y.queue) + One(y.open) + One(y.timer) + One(y.lost) = 1
        BY <4>3, <4>4 DEF One
      <4> QED BY <4>3, <4>4, <4>5
    <3>2. CASE OfWorks(q, {w}) = <<e>>
      <4>1. <<e>> # <<>>
        OBVIOUS
      <4>2. w \in InQueue(q)
        BY <1>4, <3>2, <4>1
      <4>3. (w \in lost') = FALSE
        BY <1>1, <4>2
      <4>4. <<e>> \in Seq(Entries) /\ Len(<<e>>) = 1 /\ DOMAIN <<e>> = {1} /\ <<e>>[1] = e
        BY <1>2
      <4>5. y.queue = <<e>> /\ y.open = FALSE /\ y.timer = FALSE /\ y.lost = FALSE /\ y.ran = ran[w]
        BY <2>2, <3>2, <4>3
      <4>6. Len(y.queue) + One(y.open) + One(y.timer) + One(y.lost) = 1
        BY <4>4, <4>5 DEF One
      <4>7. \A k \in DOMAIN y.queue : y.queue[k].target = y.ran
        BY <1>2, <4>4, <4>5
      <4> QED BY <4>4, <4>5, <4>6, <4>7
    <3> QED BY <1>4, <3>1, <3>2
  <2>6. SideTyped(y)
    BY <1>1, <2>2, <2>5 DEF SideTyped
  <2>7. ~Late(x.inbox[i]) /\ x.inbox[i].sink \notin {"input", "failure_input", "success_input"}
        /\ Agrees(x.inbox[i], y.data, y.ran)
    BY <1>1, <2>2 DEF Late
  <2>8. Inv(y, crashes)
    BY <2>1, <2>2, <2>4, <2>5, <2>6, <2>7, Waiting
  <2> QED BY <2>8 DEF y
<1>12. \A v \in Works : Inv(View(v)', crashes')
  BY <1>5, <1>10, <1>11
<1> QED BY <1>9, <1>12 DEF IInv

\* An output is stamped at once, given up, or waits for a beat.
LEMMA StepStampOutput ==
  ASSUME IInv, NEW w \in Works, StampOutput(w)
  PROVE  IInv'
<1>1. PICK i \in Turns(w, "executor_output") :
        \/ /\ beat /\ data[w].started
           /\ Pass(w, i, [inbox[w][i] EXCEPT !.sink = "timestamped_result"])
        \/ /\ beat /\ ~data[w].started
           /\ Raise(w, i)
        \/ /\ ~beat
           /\ Answer(w, i, <<>>)
           /\ queue' = Retained(Append(queue, Queued(w, inbox[w][i])))
           /\ lost' = lost \cup ((InQueue(queue) \cup {w}) \ InQueue(Retained(Append(queue, Queued(w, inbox[w][i])))))
           /\ UNCHANGED <<data, open, timers, beat, old, stored, ran>>
  BY DEF StampOutput, sideVars
<1>2. CASE Pass(w, i, [inbox[w][i] EXCEPT !.sink = "timestamped_result"])
  <2>1. /\ inbox[w][i] \in Messages /\ inbox[w][i].sink = "executor_output"
        /\ Agrees(inbox[w][i], data[w], ran[w]) /\ data[w].attempts > 0
        /\ data[w].pending = "set" => Late(inbox[w][i])
    <3>1. Handling(w, "executor_output", i)
      BY HandlerFacts
    <3> QED BY <3>1 DEF Handling
  <2> DEFINE e == [inbox[w][i] EXCEPT !.sink = "timestamped_result"]
  <2>2. e \in Messages /\ e.sink = "timestamped_result" /\ e.body = inbox[w][i].body /\ e.target = inbox[w][i].target
    <3>1. "timestamped_result" \in Sinks \cup Exits
      BY SinkFacts
    <3> QED BY <2>1, <3>1 DEF Messages
  <2>3. Pass(w, i, e)
    BY <1>2
  <2> HIDE DEF e
  <2>4. ~Late(inbox[w][i]) /\ Moves(e) /\ inbox[w][i].body \in {"value", "failure"} /\ inbox[w][i].target = ran[w]
    BY <2>1, <2>2, SinkFacts DEF Late, Agrees, Claims
  <2>5. Agrees(e, data[w], ran[w]) /\ PendingExact(e, data[w])
    BY <2>1, <2>2, <2>4 DEF Agrees, Claims, PendingExact, Converting
  <2> QED BY <2>1, <2>2, <2>3, <2>4, <2>5, PassKeeps
<1>3. CASE Raise(w, i)
  BY <1>3, RaiseKeeps
<1>4. CASE /\ Answer(w, i, <<>>)
           /\ queue' = Retained(Append(queue, Queued(w, inbox[w][i])))
           /\ lost' = lost \cup ((InQueue(queue) \cup {w}) \ InQueue(Retained(Append(queue, Queued(w, inbox[w][i])))))
           /\ UNCHANGED <<data, open, timers, beat, old, stored, ran>>
  BY <1>4, WaitsForBeat
<1> QED BY <1>1, <1>2, <1>3, <1>4

----------------------------------------------------------------------------
(* Inputs, the bus, timers, the communicator's answers, beats and crashes *)

\* What waits outside the actors waits in one place only.
LEMMA SideAlone ==
  ASSUME NEW x, NEW c, Inv(x, c)
  PROVE  /\ x.open => ~x.timer /\ x.queue = <<>> /\ ~x.lost
         /\ x.timer => ~x.open /\ x.queue = <<>> /\ ~x.lost
         /\ x.queue # <<>> => ~x.open /\ ~x.timer /\ ~x.lost /\ Len(x.queue) = 1
<1>1. Typed(x) /\ Places(x) <= 1
  BY DEF Inv, WorkInv, InOnePlace
<1> DEFINE a == Num(x.bus, Movers)
           b == Num(x.inbox, Movers)
           d == Num(x.out, VerdictsLeft)
           l == Len(x.queue)
<1>2. a \in Nat /\ b \in Nat /\ d \in Nat /\ l \in Nat /\ (l = 0 <=> x.queue = <<>>)
  BY <1>1, PlaceTypes
<1>3. /\ One(x.open) \in {0, 1} /\ (One(x.open) = 1 <=> x.open)
      /\ One(x.timer) \in {0, 1} /\ (One(x.timer) = 1 <=> x.timer)
      /\ One(x.lost) \in {0, 1} /\ (One(x.lost) = 1 <=> x.lost)
      /\ One(x.last = NoMessage) \in {0, 1}
  BY <1>1, PlaceTypes
<1>4. a + b + d + l + One(x.open) + One(x.timer) + One(x.lost) + One(x.last = NoMessage) <= 1
  BY <1>1 DEF Places
<1> HIDE DEF a, b, d, l
<1>5. l + One(x.open) + One(x.timer) + One(x.lost) <= 1
  BY <1>2, <1>3, <1>4, PartsOfOne
<1>6. /\ One(x.open) = 1 => One(x.timer) = 0 /\ l = 0 /\ One(x.lost) = 0
      /\ One(x.timer) = 1 => One(x.open) = 0 /\ l = 0 /\ One(x.lost) = 0
      /\ l # 0 => One(x.open) = 0 /\ One(x.timer) = 0 /\ One(x.lost) = 0 /\ l = 1
  BY <1>2, <1>3, <1>5
<1> QED BY <1>2, <1>3, <1>6 DEF l

\* An input arrives.
LEMMA StepInput ==
  ASSUME IInv, NEW w \in Works, Input(w)
  PROVE  IInv'
<1> DEFINE m == Message("input", "value", NoNeuron)
           x == View(w)
           y == View(w)'
<1>1. /\ last[w] = NoMessage /\ last' = [last EXCEPT ![w] = m] /\ inbox' = [inbox EXCEPT ![w] = <<last'[w]>>]
      /\ UNCHANGED <<bus, data, open, timers, beat, queue, old, stored, out, issued, ran, lost, crashes>>
  BY DEF Input, sideVars, stamperVars, historyVars
<1> HIDE DEF m
<1>2. /\ last'[w] = m /\ inbox'[w] = <<m>>
      /\ \A v \in Works \ {w} : last'[v] = last[v] /\ inbox'[v] = inbox[v]
      /\ last' = [v \in Works |-> last'[v]] /\ inbox' = [v \in Works |-> inbox'[v]]
  <2>1. last = [v \in Works |-> last[v]] /\ inbox = [v \in Works |-> inbox[v]]
    BY SharedFunctions
  <2>2. last'[w] = m /\ last' = [v \in Works |-> last'[v]] /\ \A v \in Works \ {w} : last'[v] = last[v]
    BY <1>1, <2>1
  <2>3. inbox' = [inbox EXCEPT ![w] = <<m>>]
    BY <1>1, <2>2
  <2> QED BY <2>1, <2>2, <2>3
<1>3. Shared'
  BY <1>1, <1>2, SharedFunctions DEF Shared
<1>4. \A v \in Works \ {w} : Undisturbed(v)
  BY <1>1, <1>2 DEF Undisturbed
<1>5. Inv(x, crashes)
  BY DEF IInv
<1>6. Started(x, y, m)
  <2>1. x.last = NoMessage /\ y.last = m /\ y.inbox = <<m>>
    BY <1>1, <1>2 DEF View
  <2>2. y.bus = x.bus /\ y.out = x.out /\ y.issued = x.issued
    BY <1>1 DEF View
  <2>3. SameRest(x, y)
    BY <1>1 DEF SameRest, View
  <2> HIDE DEF x, y
  <2> QED BY <2>1, <2>2, <2>3 DEF Started, m
<1> HIDE DEF x, y
<1>7. Inv(y, crashes)
  BY <1>5, <1>6, StartedWork DEF Inv
<1>8. Inv(View(w)', crashes)
  BY <1>7 DEF y
<1> QED BY <1>1, <1>3, <1>4, <1>8, OneWork

\* The bus logs a message and hands it on.
LEMMA StepDeliver ==
  ASSUME IInv, NEW w \in Works, Deliver(w)
  PROVE  IInv'
<1> DEFINE m == Head(bus[w])
           x == View(w)
           y == View(w)'
<1>1. /\ bus[w] # <<>> /\ bus' = [bus EXCEPT ![w] = Tail(bus[w])]
      /\ last' = IF m.sink \in OnChild THEN last ELSE [last EXCEPT ![w] = m]
      /\ inbox' = IF m.sink \in Exits THEN inbox ELSE [inbox EXCEPT ![w] = Append(inbox[w], m)]
      /\ out' = IF m.sink \in Exits
                THEN [out EXCEPT ![w] = Append(out[w], [sink |-> m.sink, body |-> m.body])] ELSE out
      /\ issued' = IF m.sink = "create" THEN [issued EXCEPT ![w] = issued[w] + 1] ELSE issued
      /\ UNCHANGED <<data, open, timers, beat, queue, old, stored, ran, lost, crashes>>
  BY DEF Deliver, sideVars, stamperVars
<1>2. /\ bus = [v \in Works |-> bus[v]] /\ inbox = [v \in Works |-> inbox[v]]
      /\ last = [v \in Works |-> last[v]] /\ out = [v \in Works |-> out[v]] /\ issued = [v \in Works |-> issued[v]]
  BY SharedFunctions
<1> HIDE DEF m
<1>3. /\ bus'[w] = Tail(bus[w]) /\ bus' = [v \in Works |-> bus'[v]] /\ \A v \in Works \ {w} : bus'[v] = bus[v]
  BY <1>1, <1>2
<1>4. /\ last'[w] = IF m.sink \in OnChild THEN last[w] ELSE m
      /\ last' = [v \in Works |-> last'[v]] /\ \A v \in Works \ {w} : last'[v] = last[v]
  BY <1>1, <1>2
<1>5. /\ inbox'[w] = IF m.sink \in Exits THEN inbox[w] ELSE Append(inbox[w], m)
      /\ inbox' = [v \in Works |-> inbox'[v]] /\ \A v \in Works \ {w} : inbox'[v] = inbox[v]
  BY <1>1, <1>2
<1>6. /\ out'[w] = IF m.sink \in Exits THEN Append(out[w], [sink |-> m.sink, body |-> m.body]) ELSE out[w]
      /\ out' = [v \in Works |-> out'[v]] /\ \A v \in Works \ {w} : out'[v] = out[v]
  BY <1>1, <1>2
<1>7. /\ issued'[w] = IF m.sink = "create" THEN issued[w] + 1 ELSE issued[w]
      /\ issued' = [v \in Works |-> issued'[v]] /\ \A v \in Works \ {w} : issued'[v] = issued[v]
  BY <1>1, <1>2
<1>8. Shared'
  BY <1>1, <1>3, <1>4, <1>5, <1>6, <1>7, SharedFunctions DEF Shared
<1>9. \A v \in Works \ {w} : Undisturbed(v)
  BY <1>1, <1>3, <1>4, <1>5, <1>6, <1>7 DEF Undisturbed
<1>10. Inv(x, crashes)
  BY DEF IInv
<1>11. Delivered(x, y, m)
  <2>1. x.bus # <<>> /\ m = Head(x.bus) /\ y.bus = Tail(x.bus)
    BY <1>1, <1>3 DEF View, m
  <2>2. y.last = IF m.sink \in OnChild THEN x.last ELSE m
    BY <1>4 DEF View
  <2>3. y.inbox = IF m.sink \in Exits THEN x.inbox ELSE Append(x.inbox, m)
    BY <1>5 DEF View
  <2>4. y.out = IF m.sink \in Exits THEN Append(x.out, [sink |-> m.sink, body |-> m.body]) ELSE x.out
    BY <1>6 DEF View
  <2>5. y.issued = IF m.sink = "create" THEN x.issued + 1 ELSE x.issued
    BY <1>7 DEF View
  <2>6. SameRest(x, y)
    BY <1>1 DEF SameRest, View
  <2> HIDE DEF x, y
  <2> QED BY <2>1, <2>2, <2>3, <2>4, <2>5, <2>6 DEF Delivered
<1> HIDE DEF x, y
<1>12. Inv(y, crashes)
  BY <1>10, <1>11, DeliveredWork, DeliveredUncrashed DEF Inv
<1>13. Inv(View(w)', crashes)
  BY <1>12 DEF y
<1> QED BY <1>1, <1>8, <1>9, <1>13, OneWork

\* The timer of a retry fires.
LEMMA StepTimerFires ==
  ASSUME IInv, NEW w \in Works, TimerFires(w)
  PROVE  IInv'
<1> DEFINE e == FirstOrNext
           x == View(w)
           y == View(w)'
<1>1. /\ w \in timers /\ timers' = timers \ {w} /\ NextAttempt(w)
      /\ bus' = [bus EXCEPT ![w] = Append(bus[w], e)]
      /\ UNCHANGED <<inbox, last, open, beat, queue, old, stored, out, issued, ran, lost, crashes>>
  BY DEF TimerFires, stamperVars, historyVars
<1>2. e \in Messages /\ e.sink = "create" /\ e.body = "value"
  BY SinkFacts, Plain DEF FirstOrNext, Bodies
<1> HIDE DEF e
<1>3. Moves(e)
  BY <1>2, SinkFacts
<1>4. Inv(x, crashes) /\ Typed(x) /\ x.timer = TRUE
  BY <1>1 DEF IInv, Inv, WorkInv, View
<1>5. x.data = data[w] /\ x.stored = stored[w] /\ x.ran = ran[w] /\ x.bus = bus[w] /\ x.queue = OfWorks(queue, {w})
      /\ x.open = (w \in open) /\ x.lost = (w \in lost)
  BY DEF View
<1>6. data[w] \in Records /\ stored[w] \in Seq(Results) /\ ran[w] \in Neurons \cup {NoNeuron} /\ bus[w] \in Seq(Messages)
  <2> HIDE DEF x
  <2> QED BY <1>4, <1>5 DEF Typed
<1>7. PICK d \in Records :
           /\ data' = [data EXCEPT ![w] = d]
           /\ d.attempts = data[w].attempts + 1 /\ d.started = data[w].started
           /\ d.pending = data[w].pending /\ d.of = data[w].of
  BY <1>1, <1>6, NextAttemptData
<1>8. /\ data' = [v \in Works |-> data'[v]] /\ data'[w] = d /\ \A v \in Works \ {w} : data'[v] = data[v]
      /\ bus' = [v \in Works |-> bus'[v]] /\ bus'[w] = bus[w] \o <<e>> /\ \A v \in Works \ {w} : bus'[v] = bus[v]
  <2>1. data = [v \in Works |-> data[v]] /\ bus = [v \in Works |-> bus[v]]
    BY SharedFunctions
  <2>2. Append(bus[w], e) = bus[w] \o <<e>>
    BY <1>2, <1>6, AppendIsConcat
  <2>3. bus' = [v \in Works |-> bus'[v]] /\ bus'[w] = bus[w] \o <<e>> /\ \A v \in Works \ {w} : bus'[v] = bus[v]
    BY <1>1, <2>1, <2>2
  <2> QED BY <1>7, <2>1, <2>3
<1>9. Shared'
  <2>1. timers' \subseteq Works
    BY <1>1, SharedFunctions
  <2> QED BY <1>1, <1>8, <2>1, SharedFunctions DEF Shared
<1>10. \A v \in Works \ {w} : Undisturbed(v)
  BY <1>1, <1>8 DEF Undisturbed
<1>11. /\ y.bus = x.bus \o <<e>> /\ y.inbox = x.inbox /\ y.last = x.last /\ y.out = x.out /\ y.issued = x.issued
       /\ y.queue = x.queue /\ y.open = x.open /\ y.timer = FALSE /\ y.lost = x.lost /\ y.stored = x.stored /\ y.ran = x.ran
       /\ y.data = d
  <2>1. (w \in timers') = FALSE
    BY <1>1
  <2>2. y.timer = FALSE
    BY <2>1 DEF View
  <2> QED BY <1>1, <1>8, <2>2 DEF View
<1> HIDE DEF x, y
<1>12. x.queue = <<>> /\ ~x.open /\ ~x.lost /\ x.open \in BOOLEAN /\ x.lost \in BOOLEAN /\ x.queue \in Seq(Entries)
  BY <1>4, SideAlone DEF Typed
<1>13. SideTyped(y)
  BY <1>5, <1>6, <1>11, <1>12 DEF SideTyped
<1>14. Agrees(e, d, x.ran) /\ d.attempts = x.data.attempts + 1
  <2>1. d.attempts > 0
    BY <1>6, <1>7 DEF Records
  <2> QED BY <1>2, <1>5, <1>7, <2>1 DEF Agrees, Claims
<1>15. /\ e.sink \notin {"input", "task_output", "success_input"} \cup Converting /\ e.body # "internal"
       /\ y.data.attempts = x.data.attempts + (IF e.sink = "create" THEN 1 ELSE 0)
       /\ y.data.started = x.data.started /\ y.data.pending = x.data.pending
       /\ Agrees(e, y.data, x.ran)
  BY <1>2, <1>5, <1>7, <1>11, <1>14 DEF Converting
<1>16. Inv(y, crashes)
  BY <1>2, <1>3, <1>4, <1>11, <1>12, <1>13, <1>15, Spoken
<1>17. Inv(View(w)', crashes)
  BY <1>16 DEF y
<1> QED BY <1>1, <1>9, <1>10, <1>17, OneWork

\* The communicator answers.
LEMMA StepResolve ==
  ASSUME IInv, NEW w \in Works, Resolve(w)
  PROVE  IInv'
<1> DEFINE x == View(w)
           y == View(w)'
<1>1. PICK e \in {Message("executor_output", b, data[w].input) : b \in {"value", "failure"}} \cup {FailedAttempt} :
        /\ w \in open /\ open' = open \ {w}
        /\ bus' = [bus EXCEPT ![w] = Append(bus[w], e)]
        /\ UNCHANGED <<inbox, last, data, timers, beat, queue, old, stored, out, issued, ran, lost, crashes>>
  BY DEF Resolve, stamperVars, historyVars
<1>2. Inv(x, crashes) /\ Typed(x) /\ MessagesAgree(x) /\ x.open = TRUE
  BY <1>1 DEF IInv, Inv, WorkInv, View
<1>3. x.data = data[w] /\ x.stored = stored[w] /\ x.ran = ran[w] /\ x.bus = bus[w]
  BY DEF View
<1>4. /\ data[w] \in Records /\ stored[w] \in Seq(Results) /\ ran[w] \in Neurons \cup {NoNeuron} /\ bus[w] \in Seq(Messages)
      /\ data[w].attempts > 0 /\ data[w].started /\ data[w].input = ran[w]
  <2> HIDE DEF x
  <2> QED BY <1>2, <1>3 DEF Typed, MessagesAgree
<1>5. /\ e \in Messages /\ e.sink \in {"executor_output", "failed_attempt"}
      /\ e.sink = "executor_output" => e.target = ran[w] /\ e.body \in {"value", "failure"}
      /\ e.body \notin {"internal", "exhausted"}
  <2>1. CASE e = FailedAttempt
    BY <2>1, FailedAttemptFacts
  <2>2. CASE e # FailedAttempt
    <3>1. PICK b \in {"value", "failure"} : e = Message("executor_output", b, data[w].input)
      BY <1>1, <2>2
    <3>2. "executor_output" \in Sinks \cup Exits /\ b \in Bodies /\ data[w].input \in Neurons \cup {NoNeuron}
      BY <1>4, SinkFacts DEF Bodies
    <3>3. e \in Messages /\ e.sink = "executor_output" /\ e.body = b /\ e.target = ran[w]
      BY <1>4, <3>1, <3>2, MadeUp
    <3> QED BY <3>3
  <2> QED BY <2>1, <2>2
<1>6. Moves(e)
  BY <1>5, SinkFacts
<1>7. bus' = [v \in Works |-> bus'[v]] /\ bus'[w] = bus[w] \o <<e>> /\ \A v \in Works \ {w} : bus'[v] = bus[v]
  <2>1. bus = [v \in Works |-> bus[v]]
    BY SharedFunctions
  <2>2. Append(bus[w], e) = bus[w] \o <<e>>
    <3>1. bus[w] \in Seq(Messages) /\ e \in Messages
      BY <1>4, <1>5
    <3> QED BY <3>1, AppendIsConcat
  <2> QED BY <1>1, <2>1, <2>2
<1>8. Shared'
  <2>1. open' \subseteq Works
    BY <1>1, SharedFunctions
  <2> QED BY <1>1, <1>7, <2>1, SharedFunctions DEF Shared
<1>9. \A v \in Works \ {w} : Undisturbed(v)
  BY <1>1, <1>7 DEF Undisturbed
<1>10. /\ y.bus = x.bus \o <<e>> /\ y.inbox = x.inbox /\ y.last = x.last /\ y.out = x.out /\ y.issued = x.issued
       /\ y.queue = x.queue /\ y.open = FALSE /\ y.timer = x.timer /\ y.lost = x.lost /\ y.stored = x.stored /\ y.ran = x.ran
       /\ y.data = x.data
  <2>1. (w \in open') = FALSE
    BY <1>1
  <2>2. y.open = FALSE
    BY <2>1 DEF View
  <2> QED BY <1>1, <1>7, <2>2 DEF View
<1> HIDE DEF x, y
<1>11. x.queue = <<>> /\ ~x.timer /\ ~x.lost /\ x.timer \in BOOLEAN /\ x.lost \in BOOLEAN /\ x.queue \in Seq(Entries)
  BY <1>2, SideAlone DEF Typed
<1>12. SideTyped(y)
  BY <1>3, <1>4, <1>10, <1>11 DEF SideTyped
<1>13. Agrees(e, y.data, x.ran)
  BY <1>3, <1>4, <1>5, <1>10 DEF Agrees, Claims
<1>14. /\ e.sink \notin {"input", "task_output", "success_input"} \cup Converting /\ e.body # "internal"
       /\ e.sink # "create"
  BY <1>5 DEF Converting
<1>15. y.data.attempts = x.data.attempts + (IF e.sink = "create" THEN 1 ELSE 0)
  BY <1>3, <1>4, <1>10, <1>14 DEF Records
<1>16. Inv(y, crashes)
  BY <1>2, <1>5, <1>6, <1>10, <1>11, <1>12, <1>13, <1>14, <1>15, Spoken
<1>17. Inv(View(w)', crashes)
  BY <1>16 DEF y
<1> QED BY <1>1, <1>8, <1>9, <1>17, OneWork

\* A beat sends every output that waits: at most one of each work.
LEMMA StepBlockBeat ==
  ASSUME IInv, BlockBeat
  PROVE  IInv'
<1>1. /\ beat' = TRUE /\ queue' = <<>>
      /\ bus' = [v \in Works |-> bus[v] \o Stamped(OfWorks(queue, {v}))]
      /\ UNCHANGED <<inbox, last, data, open, timers, old, stored, out, issued, ran, lost, crashes>>
  BY DEF BlockBeat, sideVars, historyVars
<1>2. Shared'
  <2>1. bus' = [v \in Works |-> bus'[v]]
    BY <1>1
  <2>2. queue' \in Seq(Entries)
    BY <1>1
  <2> QED BY <1>1, <2>1, <2>2, SharedFunctions DEF Shared
<1>3. ASSUME NEW w \in Works PROVE Inv(View(w)', crashes)
  <2> DEFINE x == View(w)
             y == View(w)'
  <2>1. Inv(x, crashes) /\ Typed(x) /\ MessagesAgree(x)
    BY DEF IInv, Inv, WorkInv
  <2>2. /\ y.bus = x.bus \o Stamped(x.queue)
        /\ y.inbox = x.inbox /\ y.last = x.last /\ y.out = x.out /\ y.issued = x.issued
        /\ y.queue = OfWorks(<<>>, {w}) /\ y.open = x.open /\ y.timer = x.timer /\ y.lost = x.lost
        /\ y.stored = x.stored /\ y.ran = x.ran /\ y.data = x.data
    BY <1>1 DEF View
  <2>3. y.queue = <<>>
    BY <2>2, OfWorksEmpty
  <2>4. y.open = x.open /\ y.timer = x.timer /\ y.lost = x.lost
    BY <2>2
  <2>5. View(w)' = [bus |-> y.bus, inbox |-> y.inbox, last |-> y.last, data |-> y.data,
                    open |-> y.open, timer |-> y.timer, queue |-> y.queue,
                    lost |-> y.lost, stored |-> y.stored, out |-> y.out, issued |-> y.issued, ran |-> y.ran]
        /\ View(w) = [bus |-> x.bus, inbox |-> x.inbox, last |-> x.last, data |-> x.data,
                      open |-> x.open, timer |-> x.timer, queue |-> x.queue,
                      lost |-> x.lost, stored |-> x.stored, out |-> x.out, issued |-> x.issued, ran |-> x.ran]
    BY DEF View
  <2>6. CASE x.queue = <<>>
    <3>1. Stamped(x.queue) = <<>>
      <4>1. DOMAIN <<>> = {}
        OBVIOUS
      <4> QED BY <2>6, <4>1 DEF Stamped
    <3>2. x.bus \in Seq(Messages)
      BY <2>1 DEF Typed
    <3> HIDE DEF x, y
    <3>3. y.bus = x.bus
      BY <2>2, <3>1, <3>2, ConcatEmptySeq
    <3>4. y = x
      BY <2>2, <2>3, <2>5, <2>6, <3>3 DEF x, y
    <3> QED BY <2>1, <3>4 DEF y
  <2>7. CASE x.queue # <<>>
    <3> HIDE DEF x, y
    <3>1. Len(x.queue) = 1 /\ ~x.open /\ ~x.timer /\ ~x.lost /\ x.queue \in Seq(Entries)
      BY <2>1, <2>7, SideAlone DEF Typed
    <3>2. /\ x.queue[1] \in Entries /\ x.queue[1].target = x.ran /\ x.data.attempts > 0
          /\ DOMAIN x.queue = {1}
      <4>1. DOMAIN x.queue = 1..1
        BY <3>1, LenProperties
      <4>2. x.queue[1] \in Entries
        BY <3>1, <4>1, ElementOfSeq
      <4> QED BY <2>1, <2>7, <4>1, <4>2 DEF MessagesAgree
    <3> DEFINE e == Message("timestamped_result", x.queue[1].body, x.queue[1].target)
    <3>3. e \in Messages /\ e.sink = "timestamped_result" /\ e.body \in {"value", "failure"} /\ e.target = x.ran
      <4>1. x.queue[1].body \in {"value", "failure"} /\ x.queue[1].target \in Neurons \cup {NoNeuron}
        BY <3>2 DEF Entries
      <4> QED BY <3>2, <4>1, SinkFacts, MadeUp DEF Bodies
    <3>4. Stamped(x.queue) = <<e>>
      <4>1. Stamped(x.queue) = [j \in {1} |-> e]
        BY <3>2 DEF Stamped
      <4>2. <<e>> = [j \in {1} |-> e]
        OBVIOUS
      <4> QED BY <4>1, <4>2
    <3> HIDE DEF e
    <3>5. Moves(e)
      BY <3>3, SinkFacts
    <3>6. /\ x.data \in Records /\ x.stored \in Seq(Results) /\ x.ran \in Neurons \cup {NoNeuron}
          /\ x.open \in BOOLEAN /\ x.timer \in BOOLEAN /\ x.lost \in BOOLEAN /\ <<>> \in Seq(Entries)
      BY <2>1 DEF Typed
    <3>7. SideTyped(y)
      BY <2>2, <2>3, <3>6 DEF SideTyped
    <3>8. Agrees(e, y.data, x.ran)
      BY <2>2, <3>2, <3>3 DEF Agrees, Claims
    <3>9. /\ e.sink \notin {"input", "task_output", "success_input"} \cup Converting /\ e.body # "internal"
          /\ e.sink # "create"
      BY <3>3 DEF Converting
    <3>10. y.data.attempts = x.data.attempts + (IF e.sink = "create" THEN 1 ELSE 0)
      BY <2>2, <3>6, <3>9 DEF Records
    <3>11. Inv(y, crashes)
      BY <2>1, <2>2, <2>3, <2>7, <3>1, <3>3, <3>4, <3>5, <3>7, <3>8, <3>9, <3>10, Spoken
    <3> QED BY <3>11 DEF y
  <2> QED BY <2>6, <2>7
<1>4. \A v \in Works : Inv(View(v)', crashes')
  BY <1>1, <1>3
<1> QED BY <1>2, <1>4 DEF IInv

\* Time makes starts too old and changes nothing else.
LEMMA StepTimePasses ==
  ASSUME IInv, TimePasses
  PROVE  IInv'
<1>1. /\ old' \subseteq Works
      /\ UNCHANGED <<bus, inbox, last, data, open, timers, beat, queue, stored, out, issued, ran, lost, crashes>>
  BY DEF TimePasses, flowVars, sideVars, historyVars
<1>2. Shared'
  BY <1>1, SharedFunctions DEF Shared
<1>3. ASSUME NEW w \in Works PROVE Inv(View(w)', crashes')
  <2>1. Undisturbed(w)
    BY <1>1 DEF Undisturbed
  <2>2. View(w)' = View(w)
    BY <2>1, SameView
  <2> QED BY <1>1, <2>2 DEF IInv
<1>4. \A v \in Works : Inv(View(v)', crashes')
  BY <1>3
<1> QED BY <1>2, <1>4 DEF IInv

\* A crash leaves the last logged message of each work at most.
LEMMA StepCrash ==
  ASSUME IInv, Crash
  PROVE  IInv'
<1>1. /\ crashes < MaxCrashes /\ crashes' = crashes + 1
      /\ bus' = [v \in Works |-> <<>>]
      /\ inbox' = [v \in Works |-> IF last[v].sink \in Sinks THEN <<last[v]>> ELSE <<>>]
      /\ open' = {} /\ timers' = {} /\ beat' = FALSE /\ queue' = <<>> /\ lost' = {}
      /\ UNCHANGED <<last, data, old, stored, out, issued, ran>>
  BY DEF Crash, historyVars
<1>2. crashes \in Nat /\ crashes' \in 0..MaxCrashes /\ crashes' # 0
  <2>1. MaxCrashes \in Nat
    BY TaskAssumption
  <2> QED BY <1>1, <2>1, SharedFunctions
<1>3. Shared'
  <2>1. queue' \in Seq(Entries) /\ bus' = [v \in Works |-> bus'[v]] /\ inbox' = [v \in Works |-> inbox'[v]]
    BY <1>1
  <2> QED BY <1>1, <1>2, <2>1, SharedFunctions DEF Shared
<1>4. ASSUME NEW w \in Works PROVE Inv(View(w)', crashes')
  <2> DEFINE x == View(w)
             y == View(w)'
  <2>1. WorkInv(x, crashes)
    BY DEF IInv, Inv
  <2>2. Crashed(x, y)
    <3>1. /\ y.bus = <<>> /\ y.inbox = IF x.last.sink \in Sinks THEN <<x.last>> ELSE <<>>
          /\ y.last = x.last /\ y.data = x.data /\ y.stored = x.stored
          /\ y.out = x.out /\ y.issued = x.issued /\ y.ran = x.ran
      BY <1>1 DEF View
    <3>2. y.queue = <<>>
      BY <1>1, OfWorksEmpty DEF View
    <3>3. (w \in open') = FALSE /\ (w \in timers') = FALSE /\ (w \in lost') = FALSE
      BY <1>1
    <3>4. y.open = FALSE /\ y.timer = FALSE /\ y.lost = FALSE
      BY <3>3 DEF View
    <3> HIDE DEF x, y
    <3> QED BY <3>1, <3>2, <3>4 DEF Crashed
  <2> HIDE DEF x, y
  <2>3. WorkInv(y, crashes')
    BY <1>1, <1>2, <2>1, <2>2, CrashedWork
  <2> QED BY <1>2, <2>3 DEF Inv, y
<1>5. \A v \in Works : Inv(View(v)', crashes')
  BY <1>4
<1> QED BY <1>3, <1>5 DEF IInv

----------------------------------------------------------------------------
(* The invariant is inductive *)

\* Nothing has happened yet: every work waits for its input.
LEMMA InitInv ==
  ASSUME Init
  PROVE  IInv
<1>1. MaxCrashes \in Nat /\ MaxAttempts \in Nat /\ NoMessage.sink = "none" /\ NoMessage.body = "value" /\ NoNeuron \in Nat
  BY SinkFacts, TaskAssumption
<1>2. Shared
  <2>1. /\ bus = [w \in Works |-> bus[w]] /\ inbox = [w \in Works |-> inbox[w]]
        /\ last = [w \in Works |-> last[w]] /\ data = [w \in Works |-> data[w]]
    BY DEF Init
  <2>2. /\ stored = [w \in Works |-> stored[w]] /\ out = [w \in Works |-> out[w]]
        /\ issued = [w \in Works |-> issued[w]] /\ ran = [w \in Works |-> ran[w]]
    BY DEF Init
  <2>3. /\ open \subseteq Works /\ timers \subseteq Works /\ old \subseteq Works /\ lost \subseteq Works
        /\ beat \in BOOLEAN
    BY DEF Init
  <2>4. queue \in Seq(Entries) /\ crashes \in 0..MaxCrashes
    BY <1>1 DEF Init
  <2> QED BY <2>1, <2>2, <2>3, <2>4 DEF Shared
<1>3. ASSUME NEW w \in Works PROVE Inv(View(w), crashes)
  <2> DEFINE x == View(w)
  <2>1. /\ x.bus = <<>> /\ x.inbox = <<>> /\ x.last = NoMessage /\ x.data = FreshData
        /\ x.stored = <<>> /\ x.out = <<>> /\ x.issued = 0 /\ x.ran = NoNeuron
    BY DEF Init, View
  <2>2. x.queue = <<>>
    BY OfWorksEmpty DEF Init, View
  <2>3. (w \in open) = FALSE /\ (w \in timers) = FALSE /\ (w \in lost) = FALSE
    BY DEF Init
  <2>4. x.open = FALSE /\ x.timer = FALSE /\ x.lost = FALSE
    BY <2>3 DEF View
  <2> HIDE DEF x
  <2>5. /\ FreshData \in Records /\ FreshData.attempts = 0 /\ FreshData.pending = "absent"
    BY DEF FreshData, Records
  <2>6. \A S : Num(<<>>, S) = 0
    BY NumSmall
  <2>7. DOMAIN <<>> = {} /\ Len(<<>>) = 0
    OBVIOUS
  <2>8. Typed(x)
    <3>1. /\ x.bus \in Seq(Messages) /\ x.inbox \in Seq(Messages) /\ x.queue \in Seq(Entries)
          /\ x.stored \in Seq(Results) /\ x.out \in Seq(Outs)
      BY <2>1, <2>2
    <3>2. x.issued \in Nat /\ x.ran \in Neurons \cup {NoNeuron} /\ x.last \in Messages \cup {NoMessage}
          /\ x.data \in Records
      BY <2>1, <2>5
    <3>3. x.open \in BOOLEAN /\ x.timer \in BOOLEAN /\ x.lost \in BOOLEAN
      BY <2>4
    <3> QED BY <3>1, <3>2, <3>3 DEF Typed
  <2>9. Places(x) = 1
    <3>1. Num(x.bus, Movers) = 0 /\ Num(x.inbox, Movers) = 0 /\ Num(x.out, VerdictsLeft) = 0 /\ Len(x.queue) = 0
      BY <2>1, <2>2, <2>6, <2>7
    <3>2. One(x.open) = 0 /\ One(x.timer) = 0 /\ One(x.lost) = 0 /\ One(x.last = NoMessage) = 1
      BY <2>1, <2>4 DEF One
    <3> QED BY <3>1, <3>2 DEF Places
  <2>10. InOnePlace(x, crashes) /\ Untouched(x)
    BY <2>1, <2>5, <2>9 DEF InOnePlace, Untouched
  <2>11. Ordered(x)
    BY <2>1, <2>7 DEF Ordered
  <2>12. MessagesAgree(x)
    BY <1>1, <2>1, <2>2, <2>4, <2>7 DEF MessagesAgree, Agrees, Claims
  <2>13. PendingAgrees(x)
    BY <2>1, <2>5 DEF PendingAgrees
  <2>14. Num(x.bus, To("create")) = 0
    BY <2>1, <2>6
  <2>15. AttemptsCounted(x)
    BY <1>1, <2>1, <2>5, <2>14 DEF AttemptsCounted, Cap
  <2>16. ResultsCounted(x)
    <3>1. \A S : Num(x.bus, S) = 0 /\ Num(x.inbox, S) = 0 /\ Num(x.out, S) = 0 /\ Num(x.stored, S) = 0
      BY <2>1, <2>6
    <3> QED BY <3>1 DEF ResultsCounted
  <2>17. UncrashedInv(x)
    BY <2>1, <2>5, <2>7, <2>14, <2>16 DEF UncrashedInv
  <2> QED BY <2>8, <2>10, <2>11, <2>12, <2>13, <2>15, <2>17 DEF Inv, WorkInv, x
<1> QED BY <1>2, <1>3 DEF IInv

\* Every handler keeps the invariant.
LEMMA HandleKeeps ==
  ASSUME IInv, NEW w \in Works, Handle(w)
  PROVE  IInv'
<1>1. CASE RetryInput(w)           BY <1>1, StepRetryInput
<1>2. CASE RetryFailedAttempt(w)   BY <1>2, StepRetryFailedAttempt
<1>3. CASE CreatePayload(w)        BY <1>3, StepCreatePayload
<1>4. CASE Route(w)                BY <1>4, StepRoute
<1>5. CASE StampInput(w)           BY <1>5, StepStampInput
<1>6. CASE Execute(w)              BY <1>6, StepExecute
<1>7. CASE StampOutput(w)          BY <1>7, StepStampOutput
<1>8. CASE PrepareResult(w)        BY <1>8, StepPrepareResult
<1>9. CASE Convert(w)              BY <1>9, StepConvert
<1>10. CASE PrepareConverted(w)    BY <1>10, StepPrepareConverted
<1>11. CASE PrepareUnconverted(w)  BY <1>11, StepPrepareUnconverted
<1>12. CASE StoreSuccess(w)        BY <1>12, StepStoreSuccess
<1>13. CASE StoreFailure(w)        BY <1>13, StepStoreFailure
<1>14. CASE DispatchSuccess(w)     BY <1>14, StepDispatchSuccess
<1>15. CASE DispatchFailure(w)     BY <1>15, StepDispatchFailure
<1>16. CASE ForwardError(w)        BY <1>16, StepForwardError
<1> QED BY <1>1, <1>2, <1>3, <1>4, <1>5, <1>6, <1>7, <1>8, <1>9, <1>10, <1>11, <1>12, <1>13, <1>14, <1>15, <1>16
        DEF Handle

\* So does a step that changes nothing.
LEMMA Stutters ==
  ASSUME IInv, UNCHANGED vars
  PROVE  IInv'
<1>1. UNCHANGED <<bus, inbox, last, data, open, timers, beat, queue, old, stored, out, issued, ran, lost, crashes>>
  BY DEF vars, flowVars, sideVars, stamperVars, historyVars
<1>2. Shared'
  BY <1>1 DEF IInv, Shared
<1>3. ASSUME NEW w \in Works PROVE Inv(View(w)', crashes')
  <2>1. Undisturbed(w)
    BY <1>1 DEF Undisturbed
  <2>2. View(w)' = View(w)
    BY <2>1, SameView
  <2> QED BY <1>1, <2>2 DEF IInv
<1>4. \A v \in Works : Inv(View(v)', crashes')
  BY <1>3
<1> QED BY <1>2, <1>4 DEF IInv

\* Every step keeps the invariant.
LEMMA NextKeeps ==
  ASSUME IInv, [Next]_vars
  PROVE  IInv'
<1>1. ASSUME NEW w \in Works, Input(w) PROVE IInv'
  BY <1>1, StepInput
<1>2. ASSUME NEW w \in Works, Deliver(w) PROVE IInv'
  BY <1>2, StepDeliver
<1>3. ASSUME NEW w \in Works, Handle(w) PROVE IInv'
  BY <1>3, HandleKeeps
<1>4. ASSUME NEW w \in Works, TimerFires(w) PROVE IInv'
  BY <1>4, StepTimerFires
<1>5. ASSUME NEW w \in Works, Resolve(w) PROVE IInv'
  BY <1>5, StepResolve
<1>6. CASE TimePasses
  BY <1>6, StepTimePasses
<1>7. CASE BlockBeat
  BY <1>7, StepBlockBeat
<1>8. CASE Crash
  BY <1>8, StepCrash
<1>9. CASE UNCHANGED vars
  BY <1>9, Stutters
<1> QED BY <1>1, <1>2, <1>3, <1>4, <1>5, <1>6, <1>7, <1>8, <1>9 DEF Next

\* The invariant holds throughout: every work that runs through the task is where its
\* messages, its user data, the store and its history say it is.
THEOREM InvariantHolds == Spec => []IInv
<1>1. Init => IInv
  BY InitInv
<1>2. IInv /\ [Next]_vars => IInv'
  BY NextKeeps
<1> QED BY <1>1, <1>2, PTL DEF Spec

----------------------------------------------------------------------------
(* What follows from it *)

\* The types of the variables are those of the works.
LEMMA TypesFollow == IInv => TypeOK
<1> SUFFICES ASSUME IInv PROVE TypeOK
  OBVIOUS
<1>1. \A w \in Works : Typed(View(w))
  BY DEF IInv, Inv, WorkInv
<1>2. ASSUME NEW w \in Works
      PROVE  /\ bus[w] \in Seq(Messages) /\ inbox[w] \in Seq(Messages)
             /\ last[w] \in Messages \cup {NoMessage} /\ data[w] \in Records
             /\ stored[w] \in Seq(Results) /\ out[w] \in Seq(Outs)
             /\ issued[w] \in Nat /\ ran[w] \in Neurons \cup {NoNeuron}
  BY <1>1 DEF Typed, View
<1>3. /\ bus \in [Works -> Seq(Messages)] /\ inbox \in [Works -> Seq(Messages)]
      /\ last \in [Works -> Messages \cup {NoMessage}]
      /\ stored \in [Works -> Seq(Results)]
      /\ issued \in [Works -> Nat] /\ ran \in [Works -> Neurons \cup {NoNeuron}]
  BY <1>2, SharedFunctions
<1>4. data \in [Works -> Records] /\ out \in [Works -> Seq(Outs)]
  BY <1>2, SharedFunctions
<1> QED BY <1>3, <1>4, SharedFunctions DEF TypeOK, Records, Entries, Outs

\* The counts of the properties are those of the invariant.
LEMMA MessageCounts ==
  ASSUME NEW q \in Seq(Messages)
  PROVE  /\ Count(q, Moves) = Num(q, Movers)
         /\ Count(q, IsFailure) = Num(q, To("executor_failure"))
         /\ Count(q, IsFailureInput) = Num(q, To("failure_input"))
<1>1. ASSUME NEW k \in DOMAIN q PROVE q[k] \in Messages
  BY LenProperties, ElementOfSeq
<1>2. {k \in DOMAIN q : Moves(q[k])} = {k \in DOMAIN q : q[k] \in Movers}
  BY <1>1 DEF Movers
<1>3. {k \in DOMAIN q : IsFailure(q[k])} = {k \in DOMAIN q : q[k] \in To("executor_failure")}
  BY <1>1 DEF To, IsFailure
<1>4. {k \in DOMAIN q : IsFailureInput(q[k])} = {k \in DOMAIN q : q[k] \in To("failure_input")}
  BY <1>1 DEF To, IsFailureInput
<1>5. Count(q, Moves) = Num(q, Movers)
  BY <1>2 DEF Count, Num
<1>6. Count(q, IsFailure) = Num(q, To("executor_failure"))
  BY <1>3 DEF Count, Num
<1>7. Count(q, IsFailureInput) = Num(q, To("failure_input"))
  BY <1>4 DEF Count, Num
<1> QED BY <1>5, <1>6, <1>7

\* Those of what left the task.
LEMMA OutCounts ==
  ASSUME NEW q \in Seq(Outs)
  PROVE  /\ Count(q, IsVerdict) = Num(q, VerdictsLeft)
         /\ Count(q, IsFailure) = Num(q, Left("executor_failure"))
         /\ Count(q, IsSuccess) = Num(q, Left("successful_task_result"))
         /\ Count(q, IsOutput) = Num(q, Left("task_output"))
         /\ Count(q, LAMBDA e : e.sink = "error") = Num(q, Left("error"))
         /\ Count(q, IsExhausted) = Num(q, {e \in Outs : e.body = "exhausted"})
         /\ Count(q, IsInternal) = Num(q, {e \in Outs : e.body = "internal"})
<1>1. ASSUME NEW k \in DOMAIN q PROVE q[k] \in Outs
  BY LenProperties, ElementOfSeq
<1>2. {k \in DOMAIN q : IsVerdict(q[k])} = {k \in DOMAIN q : q[k] \in VerdictsLeft}
  BY <1>1 DEF VerdictsLeft, IsVerdict
<1>3. {k \in DOMAIN q : IsFailure(q[k])} = {k \in DOMAIN q : q[k] \in Left("executor_failure")}
  BY <1>1 DEF Left, IsFailure
<1>4. {k \in DOMAIN q : IsSuccess(q[k])} = {k \in DOMAIN q : q[k] \in Left("successful_task_result")}
  BY <1>1 DEF Left, IsSuccess
<1>5. {k \in DOMAIN q : IsOutput(q[k])} = {k \in DOMAIN q : q[k] \in Left("task_output")}
  BY <1>1 DEF Left, IsOutput
<1>6. {k \in DOMAIN q : q[k].sink = "error"} = {k \in DOMAIN q : q[k] \in Left("error")}
  BY <1>1 DEF Left
<1>7. {k \in DOMAIN q : IsExhausted(q[k])} = {k \in DOMAIN q : q[k] \in {e \in Outs : e.body = "exhausted"}}
  BY <1>1 DEF IsExhausted
<1>8. {k \in DOMAIN q : IsInternal(q[k])} = {k \in DOMAIN q : q[k] \in {e \in Outs : e.body = "internal"}}
  BY <1>1 DEF IsInternal
<1>9. Count(q, IsVerdict) = Num(q, VerdictsLeft)
  BY <1>2 DEF Count, Num
<1>10. Count(q, IsFailure) = Num(q, Left("executor_failure"))
  BY <1>3 DEF Count, Num
<1>11. Count(q, IsSuccess) = Num(q, Left("successful_task_result"))
  BY <1>4 DEF Count, Num
<1>12. Count(q, IsOutput) = Num(q, Left("task_output"))
  BY <1>5 DEF Count, Num
<1>13. Count(q, LAMBDA e : e.sink = "error") = Num(q, Left("error"))
  BY <1>6 DEF Count, Num
<1>14. Count(q, IsExhausted) = Num(q, {e \in Outs : e.body = "exhausted"})
  BY <1>7 DEF Count, Num
<1>15. Count(q, IsInternal) = Num(q, {e \in Outs : e.body = "internal"})
  BY <1>8 DEF Count, Num
<1> QED BY <1>9, <1>10, <1>11, <1>12, <1>13, <1>14, <1>15

\* Those of the store.
LEMMA StoredCounts ==
  ASSUME NEW q \in Seq(Results)
  PROVE  /\ Count(q, IsStoredSuccess) = Num(q, ResultsOf("success"))
         /\ Count(q, IsStoredFailure) = Num(q, ResultsOf("failure"))
<1>1. ASSUME NEW k \in DOMAIN q PROVE q[k] \in Results
  BY LenProperties, ElementOfSeq
<1>2. {k \in DOMAIN q : IsStoredSuccess(q[k])} = {k \in DOMAIN q : q[k] \in ResultsOf("success")}
  BY <1>1 DEF ResultsOf, IsStoredSuccess
<1>3. {k \in DOMAIN q : IsStoredFailure(q[k])} = {k \in DOMAIN q : q[k] \in ResultsOf("failure")}
  BY <1>1 DEF ResultsOf, IsStoredFailure
<1>4. Count(q, IsStoredSuccess) = Num(q, ResultsOf("success"))
  BY <1>2 DEF Count, Num
<1>5. Count(q, IsStoredFailure) = Num(q, ResultsOf("failure"))
  BY <1>3 DEF Count, Num
<1> QED BY <1>4, <1>5

\* The places of a work, counted by the property and by the invariant.
LEMMA TokensArePlaces ==
  ASSUME IInv, NEW w \in Works
  PROVE  Tokens(w) = Places(View(w))
<1> DEFINE x == View(w)
<1>1. /\ x.bus = bus[w] /\ x.inbox = inbox[w] /\ x.out = out[w] /\ x.queue = OfWorks(queue, {w})
      /\ x.open = (w \in open) /\ x.timer = (w \in timers) /\ x.lost = (w \in lost) /\ x.last = last[w]
  BY DEF View
<1>2. Typed(x)
  BY DEF IInv, Inv, WorkInv
<1> HIDE DEF x
<1>3. bus[w] \in Seq(Messages) /\ inbox[w] \in Seq(Messages) /\ out[w] \in Seq(Outs)
  BY <1>1, <1>2 DEF Typed
<1>4. Count(queue, LAMBDA e : e.work = w) = Len(x.queue)
  <2>1. queue \in Seq(Entries)
    BY SharedFunctions
  <2>2. ASSUME NEW k \in DOMAIN queue PROVE queue[k] \in Entries
    BY <2>1, LenProperties, ElementOfSeq
  <2>3. {k \in DOMAIN queue : queue[k].work = w} = {k \in DOMAIN queue : queue[k] \in {e \in Entries : e.work = w}}
    BY <2>2
  <2>4. Count(queue, LAMBDA e : e.work = w) = Num(queue, {e \in Entries : e.work = w})
    BY <2>3 DEF Count, Num
  <2>5. OfWorksRight(queue, {}, w)
    BY <2>1, OfWorksFacts
  <2> QED BY <1>1, <2>4, <2>5 DEF OfWorksRight
<1>5. /\ Count(bus[w], Moves) = Num(x.bus, Movers) /\ Count(inbox[w], Moves) = Num(x.inbox, Movers)
      /\ Count(out[w], IsVerdict) = Num(x.out, VerdictsLeft)
  BY <1>1, <1>3, MessageCounts, OutCounts
<1>6. /\ One(w \in open) = One(x.open) /\ One(w \in timers) = One(x.timer) /\ One(w \in lost) = One(x.lost)
      /\ One(last[w] = NoMessage) = One(x.last = NoMessage)
  BY <1>1 DEF One
<1> QED BY <1>4, <1>5, <1>6 DEF Tokens, Places, x

\* A work is in one place.
LEMMA OneFlowFollows == IInv => OneFlow
<1> SUFFICES ASSUME IInv, NEW w \in Works PROVE Tokens(w) <= 1 /\ (crashes = 0 => Tokens(w) = 1)
  BY DEF OneFlow
<1>1. Tokens(w) = Places(View(w))
  BY TokensArePlaces
<1>2. InOnePlace(View(w), crashes)
  BY DEF IInv, Inv, WorkInv
<1> QED BY <1>1, <1>2 DEF InOnePlace

\* The create messages that are logged or on the bus are capped.
LEMMA AttemptsFollow == IInv => AttemptsBounded
<1> SUFFICES ASSUME IInv, NEW w \in Works PROVE issued[w] <= IF MaxAttempts = 0 THEN 1 ELSE MaxAttempts
  BY DEF AttemptsBounded
<1> DEFINE x == View(w)
<1>1. Typed(x) /\ AttemptsCounted(x)
  BY DEF IInv, Inv, WorkInv
<1>2. x.issued = issued[w]
  BY DEF View
<1> HIDE DEF x
<1>3. x.issued \in Nat /\ Num(x.bus, To("create")) \in Nat
  BY <1>1, NumType DEF Typed
<1>4. x.issued <= Cap
  <2>1. MaxAttempts \in Nat
    BY SinkFacts
  <2> QED BY <1>1, <1>3, <2>1 DEF AttemptsCounted, Cap
<1> QED BY <1>2, <1>4 DEF Cap

\* A message that needs user data finds it.
LEMMA NoCorruptionFollows == IInv => NoStateCorruption
<1> SUFFICES ASSUME IInv, NEW w \in Works, NEW i \in DOMAIN inbox[w]
             PROVE  /\ inbox[w][i].sink = "failed_attempt" => data[w].attempts > 0
                    /\ inbox[w][i].sink = "executor_output" => data[w].started
  BY DEF NoStateCorruption
<1> DEFINE x == View(w)
<1>1. MessagesAgree(x)
  BY DEF IInv, Inv, WorkInv
<1>2. x.inbox = inbox[w] /\ x.data = data[w]
  BY DEF View
<1> HIDE DEF x
<1>3. Agrees(inbox[w][i], data[w], x.ran)
  BY <1>1, <1>2 DEF MessagesAgree
<1> QED BY <1>3 DEF Agrees

\* A work that has its verdict has nothing else that moves it on.
LEMMA VerdictAlone ==
  ASSUME NEW x, NEW c, WorkInv(x, c), Num(x.out, VerdictsLeft) > 0
  PROVE  /\ Num(x.bus, Movers) = 0 /\ Num(x.inbox, Movers) = 0 /\ Num(x.out, VerdictsLeft) = 1
         /\ \A S \in SUBSET Movers : Num(x.bus, S) = 0 /\ Num(x.inbox, S) = 0
<1>1. Typed(x) /\ Places(x) <= 1
  BY DEF WorkInv, InOnePlace
<1> DEFINE a == Num(x.bus, Movers)
           b == Num(x.inbox, Movers)
           d == Num(x.out, VerdictsLeft)
           l == Len(x.queue)
<1>2. a \in Nat /\ b \in Nat /\ d \in Nat /\ l \in Nat
  BY <1>1, PlaceTypes
<1>3. /\ One(x.open) \in {0, 1} /\ One(x.timer) \in {0, 1} /\ One(x.lost) \in {0, 1}
      /\ One(x.last = NoMessage) \in {0, 1}
  BY <1>1, PlaceTypes
<1>4. a + b + d + l + One(x.open) + One(x.timer) + One(x.lost) + One(x.last = NoMessage) <= 1 /\ d > 0
  BY <1>1 DEF Places
<1> HIDE DEF a, b, d, l
<1>5. a = 0 /\ b = 0 /\ d = 1
  BY <1>2, <1>3, <1>4
<1>6. ASSUME NEW S \in SUBSET Movers PROVE Num(x.bus, S) = 0 /\ Num(x.inbox, S) = 0
  <2>1. x.bus \in Seq(Messages) /\ x.inbox \in Seq(Messages)
    BY <1>1 DEF Typed
  <2>2. Num(x.bus, S) <= a /\ Num(x.inbox, S) <= b
    BY <2>1, NumFacts DEF a, b
  <2>3. Num(x.bus, S) \in Nat /\ Num(x.inbox, S) \in Nat
    BY <2>1, NumType
  <2> QED BY <1>5, <2>2, <2>3
<1> QED BY <1>5, <1>6 DEF a, b, d

\* The verdict is alone, so no attempt is on the bus: every attempt that was counted was issued.
LEMMA ExhaustedFollows == IInv => ExhaustedAfterAllAttempts
<1> SUFFICES ASSUME IInv, NEW w \in Works, crashes = 0, Count(out[w], IsExhausted) > 0
             PROVE  issued[w] >= MaxAttempts
  BY DEF ExhaustedAfterAllAttempts
<1> DEFINE x == View(w)
           E == {e \in Outs : e.body = "exhausted"}
<1>1. WorkInv(x, crashes) /\ UncrashedInv(x) /\ Typed(x) /\ MessagesAgree(x)
  BY DEF IInv, Inv, WorkInv
<1>2. x.out = out[w] /\ x.issued = issued[w]
  BY DEF View
<1> HIDE DEF x
<1>3. x.out \in Seq(Outs) /\ x.issued \in Nat
  BY <1>1 DEF Typed
<1>4. Num(x.out, E) > 0
  BY <1>2, <1>3, OutCounts
<1>5. PICK k \in DOMAIN x.out : x.out[k] \in E
  <2>1. Num(x.out, E) = 0 <=> \A i \in DOMAIN x.out : x.out[i] \notin E
    BY <1>3, NumFacts
  <2> QED BY <1>4, <2>1
<1>6. x.out[k].sink = "error" /\ x.data.attempts >= MaxAttempts /\ x.out[k] \in Outs
  BY <1>1, <1>5 DEF MessagesAgree
<1>7. Num(x.out, VerdictsLeft) > 0
  <2>1. Num(x.out, VerdictsLeft) # 0
    BY <1>1, <1>6, QuietOut DEF Verdicts
  <2>2. Num(x.out, VerdictsLeft) \in Nat
    BY <1>3, NumType
  <2> QED BY <2>1, <2>2
<1>8. Num(x.bus, To("create")) = 0
  <2>1. To("create") \subseteq Movers
    BY SinkFacts DEF To, Movers
  <2>2. \A S \in SUBSET Movers : Num(x.bus, S) = 0 /\ Num(x.inbox, S) = 0
    BY <1>1, <1>7, VerdictAlone
  <2> QED BY <2>1, <2>2
<1>9. x.data.attempts = x.issued
  BY <1>1, <1>3, <1>8 DEF UncrashedInv
<1> QED BY <1>2, <1>6, <1>9

\* Messages and the store balance; a success is stored once because the work is in one place.
LEMMA ReportsFollow == IInv => ReportsAgreeWithStore
<1> SUFFICES ASSUME IInv, crashes = 0, NEW w \in Works
             PROVE  /\ Count(out[w], IsFailure) + Count(bus[w], IsFailure)
                         + Count(bus[w], IsFailureInput) + Count(inbox[w], IsFailureInput)
                       = Count(stored[w], IsStoredFailure)
                    /\ Count(stored[w], IsStoredSuccess) <= 1
                    /\ Count(out[w], IsOutput) <= Count(out[w], IsSuccess)
                    /\ Count(out[w], IsSuccess) <= Count(stored[w], IsStoredSuccess)
                    /\ Count(out[w], IsInternal) = 0
                    /\ Count(out[w], LAMBDA e : e.sink = "error") > 0 => Count(stored[w], IsStoredSuccess) = 0
  BY DEF ReportsAgreeWithStore
<1> DEFINE x == View(w)
<1>1. WorkInv(x, crashes) /\ UncrashedInv(x) /\ Typed(x) /\ ResultsCounted(x) /\ Places(x) <= 1
  BY DEF IInv, Inv, WorkInv, UncrashedInv, InOnePlace
<1>2. x.out = out[w] /\ x.bus = bus[w] /\ x.inbox = inbox[w] /\ x.stored = stored[w]
  BY DEF View
<1> HIDE DEF x
<1>3. x.out \in Seq(Outs) /\ x.bus \in Seq(Messages) /\ x.inbox \in Seq(Messages) /\ x.stored \in Seq(Results)
  BY <1>1 DEF Typed
<1> DEFINE busFailure == Num(x.bus, To("executor_failure"))
           busFailureInput == Num(x.bus, To("failure_input"))
           inboxFailureInput == Num(x.inbox, To("failure_input"))
           outFailure == Num(x.out, Left("executor_failure"))
           failures == Num(x.stored, ResultsOf("failure"))
           successes == Num(x.stored, ResultsOf("success"))
           busInput == Num(x.bus, To("success_input"))
           inboxInput == Num(x.inbox, To("success_input"))
           busOutput == Num(x.bus, To("task_output"))
           outOutput == Num(x.out, Left("task_output"))
           busSuccess == Num(x.bus, To("successful_task_result"))
           outSuccess == Num(x.out, Left("successful_task_result"))
           errors == Num(x.out, Left("error"))
           busMovers == Num(x.bus, Movers)
           inboxMovers == Num(x.inbox, Movers)
           verdicts == Num(x.out, VerdictsLeft)
<1>4. /\ Count(out[w], IsFailure) = outFailure /\ Count(bus[w], IsFailure) = busFailure
      /\ Count(bus[w], IsFailureInput) = busFailureInput /\ Count(inbox[w], IsFailureInput) = inboxFailureInput
      /\ Count(stored[w], IsStoredFailure) = failures /\ Count(stored[w], IsStoredSuccess) = successes
      /\ Count(out[w], IsOutput) = outOutput /\ Count(out[w], IsSuccess) = outSuccess
      /\ Count(out[w], LAMBDA e : e.sink = "error") = errors
  BY <1>2, <1>3, MessageCounts, OutCounts, StoredCounts
<1>5. Count(out[w], IsInternal) = 0
  <2>1. Count(out[w], IsInternal) = Num(x.out, {e \in Outs : e.body = "internal"})
    BY <1>2, <1>3, OutCounts
  <2>2. \A k \in DOMAIN x.out : x.out[k] \notin {e \in Outs : e.body = "internal"}
    BY <1>1 DEF UncrashedInv
  <2>3. Num(x.out, {e \in Outs : e.body = "internal"}) = 0
    BY <1>3, <2>2, NumFacts
  <2> QED BY <2>1, <2>3
<1>6. /\ busInput \in Nat /\ inboxInput \in Nat /\ busOutput \in Nat /\ outOutput \in Nat
      /\ busSuccess \in Nat /\ outSuccess \in Nat /\ errors \in Nat /\ successes \in Nat
      /\ busMovers \in Nat /\ inboxMovers \in Nat /\ verdicts \in Nat
  BY <1>3, NumType
<1>7. /\ outFailure + busFailure + busFailureInput + inboxFailureInput = failures
      /\ successes = busInput + inboxInput + busOutput + outOutput
      /\ busSuccess + outSuccess = busOutput + outOutput
      /\ busSuccess <= busOutput
  BY <1>1 DEF ResultsCounted
<1>8. busMovers + inboxMovers + verdicts <= 1
  <2> DEFINE l == Len(x.queue)
  <2>1. l \in Nat /\ One(x.open) \in Nat /\ One(x.timer) \in Nat /\ One(x.lost) \in Nat
        /\ One(x.last = NoMessage) \in Nat
    BY <1>1, PlaceTypes
  <2>2. busMovers + inboxMovers + verdicts + l + One(x.open) + One(x.timer) + One(x.lost) + One(x.last = NoMessage) <= 1
    BY <1>1 DEF Places
  <2> HIDE DEF l, busMovers, inboxMovers, verdicts
  <2> QED BY <1>6, <2>1, <2>2
<1>9. busInput + busOutput <= busMovers
  <2>1. To("success_input") \cap To("task_output") = {}
    BY DEF To
  <2>2. To("success_input") \cup To("task_output") \in SUBSET Movers
    BY SinkFacts DEF To, Movers
  <2>3. busInput + busOutput = Num(x.bus, To("success_input") \cup To("task_output"))
    BY <1>3, <2>1, NumDisjoint
  <2>4. Num(x.bus, To("success_input") \cup To("task_output")) <= busMovers
    BY <1>3, <2>2, NumFacts
  <2> QED BY <2>3, <2>4
<1>10. inboxInput <= inboxMovers
  <2>1. To("success_input") \in SUBSET Movers
    BY SinkFacts DEF To, Movers
  <2> QED BY <1>3, <2>1, NumFacts
<1>11. outOutput + errors <= verdicts
  <2>1. Left("task_output") \cap Left("error") = {}
    BY DEF Left
  <2>2. Left("task_output") \cup Left("error") \in SUBSET VerdictsLeft
    BY DEF Left, VerdictsLeft, Verdicts
  <2>3. outOutput + errors = Num(x.out, Left("task_output") \cup Left("error"))
    BY <1>3, <2>1, NumDisjoint
  <2>4. Num(x.out, Left("task_output") \cup Left("error")) <= verdicts
    BY <1>3, <2>2, NumFacts
  <2> QED BY <2>3, <2>4
<1> HIDE DEF busFailure, busFailureInput, inboxFailureInput, outFailure, failures, successes, busInput, inboxInput,
             busOutput, outOutput, busSuccess, outSuccess, errors, busMovers, inboxMovers, verdicts
<1>12. /\ successes <= 1 /\ outOutput <= outSuccess /\ outSuccess <= successes
       /\ errors > 0 => successes = 0
  BY <1>6, <1>7, <1>8, <1>9, <1>10, <1>11
<1> QED BY <1>4, <1>5, <1>7, <1>12

----------------------------------------------------------------------------
(* The credit for a result *)

\* A result is stored for the target of the message that brings it.
LEMMA StoringCredits ==
  ASSUME IInv, NEW w \in Works, NEW s \in {"store_success", "store_failure"}, NEW i \in Turns(w, s),
         NEW k, Store(w, k, inbox[w][i])
  PROVE  \A v \in Works : stored'[v] # stored[v] => stored'[v][Len(stored'[v])].target = ran[v]
<1>1. /\ inbox[w][i].sink = s /\ Agrees(inbox[w][i], data[w], ran[w])
      /\ stored[w] \in Seq(Results)
  <2>1. Handling(w, s, i)
    BY HandlerFacts
  <2> QED BY <2>1 DEF Handling
<1>2. inbox[w][i].target = ran[w]
  BY <1>1 DEF Agrees, Claims
<1> DEFINE r == [kind |-> k, target |-> inbox[w][i].target]
<1>3. stored'[w] = Append(stored[w], r) /\ \A v \in Works \ {w} : stored'[v] = stored[v]
  BY StoreFacts
<1>4. r.target = ran[w]
  BY <1>2
<1> HIDE DEF r
<1>5. Len(stored'[w]) = Len(stored[w]) + 1 /\ stored'[w][Len(stored[w]) + 1] = r
  BY <1>1, <1>3, AppendProperties
<1> QED BY <1>3, <1>4, <1>5

\* No other step touches the store.
LEMMA StoreUntouched ==
  ASSUME NEW w \in Works,
         \/ Input(w) \/ Deliver(w) \/ TimerFires(w) \/ Resolve(w)
         \/ RetryInput(w) \/ RetryFailedAttempt(w) \/ CreatePayload(w) \/ Route(w)
         \/ StampInput(w) \/ Execute(w) \/ StampOutput(w)
         \/ PrepareResult(w) \/ Convert(w) \/ PrepareConverted(w) \/ PrepareUnconverted(w)
         \/ DispatchSuccess(w) \/ DispatchFailure(w) \/ ForwardError(w)
         \/ TimePasses \/ BlockBeat \/ Crash
  PROVE  stored' = stored
<1>1. CASE Input(w) \/ Deliver(w) \/ TimerFires(w) \/ Resolve(w)
  BY <1>1 DEF Input, Deliver, TimerFires, Resolve
<1>2. CASE RetryInput(w) \/ RetryFailedAttempt(w) \/ CreatePayload(w) \/ Route(w)
  BY <1>2 DEF RetryInput, RetryFailedAttempt, CreatePayload, Route, Pass, Raise
<1>3. CASE StampInput(w) \/ Execute(w) \/ StampOutput(w)
  BY <1>3 DEF StampInput, Execute, StampOutput, Pass, Raise
<1>4. CASE PrepareResult(w) \/ Convert(w) \/ PrepareConverted(w) \/ PrepareUnconverted(w)
  BY <1>4 DEF PrepareResult, Convert, PrepareConverted, PrepareUnconverted, Pass, Raise
<1>5. CASE DispatchSuccess(w) \/ DispatchFailure(w) \/ ForwardError(w)
  BY <1>5 DEF DispatchSuccess, DispatchFailure, ForwardError, Pass
<1>6. CASE TimePasses \/ BlockBeat \/ Crash
  BY <1>6 DEF TimePasses, BlockBeat, Crash
<1> QED BY <1>1, <1>2, <1>3, <1>4, <1>5, <1>6

\* Every step credits whom it should.
LEMMA NextCredits ==
  ASSUME IInv, [Next]_vars
  PROVE  \A v \in Works : stored'[v] # stored[v] => stored'[v][Len(stored'[v])].target = ran[v]
<1>1. ASSUME NEW w \in Works, StoreSuccess(w)
      PROVE  \A v \in Works : stored'[v] # stored[v] => stored'[v][Len(stored'[v])].target = ran[v]
  <2>1. PICK i \in Turns(w, "store_success") : Store(w, "success", inbox[w][i]) \/ stored' = stored
    BY <1>1 DEF StoreSuccess, Pass
  <2>2. CASE Store(w, "success", inbox[w][i])
    BY <2>1, <2>2, StoringCredits
  <2>3. CASE stored' = stored
    BY <2>3
  <2> QED BY <2>1, <2>2, <2>3
<1>2. ASSUME NEW w \in Works, StoreFailure(w)
      PROVE  \A v \in Works : stored'[v] # stored[v] => stored'[v][Len(stored'[v])].target = ran[v]
  <2>1. PICK i \in Turns(w, "store_failure") : Store(w, "failure", inbox[w][i]) \/ stored' = stored
    BY <1>2 DEF StoreFailure, Pass
  <2>2. CASE Store(w, "failure", inbox[w][i])
    BY <2>1, <2>2, StoringCredits
  <2>3. CASE stored' = stored
    BY <2>3
  <2> QED BY <2>1, <2>2, <2>3
<1>3. ASSUME NEW w \in Works, Input(w) \/ Deliver(w) \/ Handle(w) \/ TimerFires(w) \/ Resolve(w)
      PROVE  StoreSuccess(w) \/ StoreFailure(w) \/ stored' = stored
  BY <1>3, StoreUntouched DEF Handle
<1>4. CASE \E w \in Works : Input(w) \/ Deliver(w) \/ Handle(w) \/ TimerFires(w) \/ Resolve(w)
  BY <1>1, <1>2, <1>3, <1>4
<1>5. CASE TimePasses \/ BlockBeat \/ Crash
  BY <1>5 DEF TimePasses, BlockBeat, Crash
<1>6. CASE UNCHANGED vars
  BY <1>6 DEF vars
<1> QED BY <1>4, <1>5, <1>6 DEF Next

----------------------------------------------------------------------------
(* Theorems *)

\* The variables keep their types.
THEOREM TypesHold == Spec => []TypeOK
BY InvariantHolds, TypesFollow, PTL

\* A work is in one place at a time; without a crash none is ever lost track of.
THEOREM FlowIsOne == Spec => []OneFlow
BY InvariantHolds, OneFlowFollows, PTL

\* The retry strategy issues at most max_attempts attempts, also when a crash makes it
\* handle a message again.
THEOREM AttemptsAreBounded == Spec => []AttemptsBounded
BY InvariantHolds, AttemptsFollow, PTL

\* No handler is called for a message whose user data is missing.
THEOREM StateIsNotCorrupted == Spec => []NoStateCorruption
BY InvariantHolds, NoCorruptionFollows, PTL

\* Without crashes, "retries exhausted" leaves the task only after max_attempts attempts.
THEOREM ExhaustedIsHonest == Spec => []ExhaustedAfterAllAttempts
BY InvariantHolds, ExhaustedFollows, PTL

\* Without crashes, the results that leave the task are those in the store.
THEOREM ReportsAreStored == Spec => []ReportsAgreeWithStore
BY InvariantHolds, ReportsFollow, PTL

\* A result goes into the store for the neuron that was asked last, whatever is retried,
\* delayed or replayed in between.
THEOREM CreditIsDue == Spec => CreditGoesToExecutor
<1>1. IInv /\ [Next]_vars
      => [\A w \in Works : stored'[w] # stored[w] => stored'[w][Len(stored'[w])].target = ran[w]]_vars
  BY NextCredits
<1> QED BY <1>1, InvariantHolds, PTL DEF Spec, CreditGoesToExecutor
=============================================================================
