------------------------- MODULE ContextStoreProofs -------------------------
(***************************************************************************)
(* Proofs about ContextStore, for any threads, values, contexts and        *)
(* crashes: logs rebuild what is in memory, and children remember their    *)
(* parents as they were.                                                   *)
(*                                                                         *)
(* Rebuild is a recursive function on the positions of a log.  Induction   *)
(* over the naturals shows that it exists and that one more entry is one   *)
(* more step of the recovery (RebuildAppend).  The invariant then says     *)
(* what each log rebuilds: the memory of its context or, while a thread    *)
(* has logged a change and not made it, the changed memory; and nothing    *)
(* but its creation for a context that was not handed out yet.             *)
(***************************************************************************)
EXTENDS ContextStore, Integers, SequenceTheorems, FiniteSetTheorems, WellFoundedInduction, TLAPS

----------------------------------------------------------------------------
(* Recovery of a log, entry by entry *)

\* Induction over the naturals: the intervals 1..n are well-founded by inclusion.
LEMMA Induction ==
  ASSUME NEW S, 0 \in S, \A n \in Nat : n \in S => n + 1 \in S
  PROVE  Nat \subseteq S
<1> DEFINE Bad == {n \in Nat : n \notin S}
           Intervals == {1..n : n \in Bad}
<1> SUFFICES ASSUME Bad # {} PROVE FALSE
  OBVIOUS
<1>1. Intervals \subseteq FiniteSubsetsOf(Nat) /\ Intervals # {}
  <2>1. ASSUME NEW n \in Nat PROVE 1..n \in FiniteSubsetsOf(Nat)
    <3>1. IsFiniteSet(1..n)
      BY FS_Interval
    <3>2. 1..n \in SUBSET Nat
      OBVIOUS
    <3> QED BY <3>1, <3>2, Zenon DEF FiniteSubsetsOf
  <2>2. Bad \subseteq Nat
    OBVIOUS
  <2> HIDE DEF Bad
  <2> QED BY <2>1, <2>2
<1>2. IsWellFoundedOn(StrictSubsetOrdering(Nat), FiniteSubsetsOf(Nat))
  BY FS_StrictSubsetOrderingWellFounded
<1>3. PICK I \in Intervals : \A J \in Intervals : <<J, I>> \notin StrictSubsetOrdering(Nat)
  <2> HIDE DEF Intervals
  <2> QED BY <1>1, <1>2, WFMin
<1>4. PICK n \in Bad : I = 1..n
  BY <1>3
<1>5. n # 0 /\ n - 1 \in Nat /\ n - 1 \notin S
  BY <1>4
<1>6. 1..(n - 1) \in Intervals
  BY <1>5
<1>7. <<1..(n - 1), 1..n>> \in StrictSubsetOrdering(Nat)
  <2>1. 1..(n - 1) \in SUBSET Nat /\ 1..n \in SUBSET Nat /\ 1..(n-1) \subseteq 1..n /\ n \in 1..n /\ n \notin 1..(n-1)
    BY <1>4, <1>5
  <2> QED BY <2>1, Zenon DEF StrictSubsetOrdering
<1> QED BY <1>3, <1>4, <1>6, <1>7

\* f is the recovery of the first entries of l, up to k of them.
Replay(f, l, k) == f = [n \in 0..k |-> IF n = 0 THEN Gone ELSE Recovered(f[n - 1], l[n])]

\* There is one such function for a log and a number of entries.
LEMMA ReplayUnique ==
  ASSUME NEW l, NEW k \in Nat, NEW f, NEW g, Replay(f, l, k), Replay(g, l, k)
  PROVE  f = g
<1> DEFINE Same == {n \in Nat : n <= k => f[n] = g[n]}
<1>1. 0 \in Same
  BY DEF Replay
<1>2. ASSUME NEW n \in Nat, n \in Same PROVE n + 1 \in Same
  <2>1. CASE n + 1 <= k
    <3>1. f[n] = g[n] /\ (n + 1) - 1 = n /\ n + 1 # 0 /\ n + 1 \in 0..k
      BY <1>2, <2>1
    <3>2. f[n + 1] = Recovered(f[n], l[n + 1]) /\ g[n + 1] = Recovered(g[n], l[n + 1])
      BY <3>1 DEF Replay
    <3> QED BY <3>1, <3>2
  <2> QED BY <2>1
<1>3. Nat \subseteq Same
  <2> HIDE DEF Same
  <2> QED BY <1>1, <1>2, Induction
<1>4. \A n \in 0..k : f[n] = g[n]
  BY <1>3
<1>5. f = [n \in 0..k |-> f[n]] /\ g = [n \in 0..k |-> g[n]]
  BY DEF Replay
<1> QED BY <1>4, <1>5

\* It goes on with one more entry.
LEMMA ReplayNext ==
  ASSUME NEW l, NEW k \in Nat, NEW f, Replay(f, l, k)
  PROVE  Replay([n \in 0..(k + 1) |-> IF n = k + 1 THEN Recovered(f[k], l[k + 1]) ELSE f[n]], l, k + 1)
<1> DEFINE g == [n \in 0..(k + 1) |-> IF n = k + 1 THEN Recovered(f[k], l[k + 1]) ELSE f[n]]
<1>1. ASSUME NEW n \in 0..(k + 1)
      PROVE  g[n] = IF n = 0 THEN Gone ELSE Recovered(g[n - 1], l[n])
  <2>1. CASE n = 0
    BY <2>1 DEF Replay
  <2>2. CASE n = k + 1
    <3>1. g[n] = Recovered(f[k], l[k + 1]) /\ g[n - 1] = f[k] /\ n # 0
      BY <2>2
    <3> QED BY <3>1, <2>2
  <2>3. CASE n # 0 /\ n # k + 1
    <3>1. g[n] = f[n] /\ g[n - 1] = f[n - 1] /\ n \in 0..k
      BY <2>3
    <3>2. f[n] = Recovered(f[n - 1], l[n])
      BY <3>1, <2>3 DEF Replay
    <3> QED BY <3>1, <3>2, <2>3
  <2> QED BY <2>1, <2>2, <2>3
<1>2. g = [n \in 0..(k + 1) |-> g[n]]
  OBVIOUS
<1> HIDE DEF g
<1>3. g = [n \in 0..(k + 1) |-> IF n = 0 THEN Gone ELSE Recovered(g[n - 1], l[n])]
  BY <1>1, <1>2
<1> QED BY <1>3 DEF Replay, g

\* It exists for every number of entries.
LEMMA ReplayExists ==
  ASSUME NEW l, NEW k \in Nat
  PROVE  \E f : Replay(f, l, k)
<1> DEFINE Done == {n \in Nat : \E f : Replay(f, l, n)}
<1>1. 0 \in Done
  <2>1. Replay([n \in 0..0 |-> Gone], l, 0)
    BY DEF Replay
  <2> QED BY <2>1
<1>2. ASSUME NEW n \in Nat, n \in Done PROVE n + 1 \in Done
  <2>1. PICK f : Replay(f, l, n)
    BY <1>2
  <2> DEFINE g == [i \in 0..(n + 1) |-> IF i = n + 1 THEN Recovered(f[n], l[n + 1]) ELSE f[i]]
  <2>2. Replay(g, l, n + 1)
    BY <2>1, ReplayNext
  <2> HIDE DEF g
  <2>3. \E h : Replay(h, l, n + 1)
    BY <2>2
  <2> QED BY <2>3
<1>3. Nat \subseteq Done
  <2> HIDE DEF Done
  <2> QED BY <1>1, <1>2, Induction
<1> QED BY <1>3

\* Rebuild is its value after all entries.
LEMMA RebuildIsReplay ==
  ASSUME NEW l, Len(l) \in Nat, NEW f, Replay(f, l, Len(l))
  PROVE  Rebuild(l) = f[Len(l)]
<1> DEFINE g == CHOOSE g : Replay(g, l, Len(l))
<1>1. g = f
  <2>1. Replay(g, l, Len(l))
    OBVIOUS
  <2> HIDE DEF g
  <2> QED BY <2>1, ReplayUnique
<1>2. Rebuild(l) = g[Len(l)]
  BY DEF Rebuild, Replay
<1> QED BY <1>1, <1>2

\* A log that is empty rebuilds to nothing.
LEMMA RebuildEmpty == Rebuild(<<>>) = Gone
<1>1. PICK f : Replay(f, <<>>, 0)
  BY ReplayExists
<1>2. f[0] = Gone
  BY <1>1 DEF Replay
<1>3. Len(<<>>) = 0
  OBVIOUS
<1> QED BY <1>1, <1>2, <1>3, RebuildIsReplay

\* One more entry is one more step of the recovery.
LEMMA RebuildAppend ==
  ASSUME NEW S, NEW l \in Seq(S), NEW e \in S
  PROVE  Rebuild(Append(l, e)) = Recovered(Rebuild(l), e)
<1> DEFINE m == Append(l, e)
           k == Len(l)
<1>1. k \in Nat /\ Len(m) = k + 1 /\ m[k + 1] = e /\ \A n \in 1..k : m[n] = l[n]
  OBVIOUS
<1>2. PICK f : Replay(f, l, k)
  BY <1>1, ReplayExists
<1>3. Replay(f, m, k)
  <2> HIDE DEF m, k
  <2>1. ASSUME NEW n \in 0..k
        PROVE (IF n = 0 THEN Gone ELSE Recovered(f[n - 1], l[n])) = (IF n = 0 THEN Gone ELSE Recovered(f[n - 1], m[n]))
    BY <1>1
  <2> QED BY <1>2, <2>1 DEF Replay
<1> HIDE DEF m
<1> DEFINE g == [n \in 0..(k + 1) |-> IF n = k + 1 THEN Recovered(f[k], m[k + 1]) ELSE f[n]]
<1>4. Replay(g, m, k + 1)
  BY <1>1, <1>3, ReplayNext
<1>5. g[k + 1] = Recovered(f[k], e)
  BY <1>1
<1>6. Rebuild(l) = f[k]
  BY <1>1, <1>2, RebuildIsReplay
<1>7. Rebuild(m) = g[k + 1]
  <2> HIDE DEF g, k
  <2> QED BY <1>1, <1>4, RebuildIsReplay
<1> QED BY <1>5, <1>6, <1>7 DEF m

----------------------------------------------------------------------------
(* Sets of ids in their order *)

InOrder(q) == \A i, j \in DOMAIN q : i < j => q[i] < q[j]

\* A set of ids can be put in order.
LEMMA OrderExists ==
  ASSUME NEW m \in Nat, NEW S \in SUBSET (1..m)
  PROVE  \E q \in [1..Cardinality(S) -> S] : InOrder(q)
<1> DEFINE Sortable == {n \in Nat : \A T \in SUBSET (1..n) : \E q \in [1..Cardinality(T) -> T] : InOrder(q)}
<1>1. 0 \in Sortable
  <2> SUFFICES ASSUME NEW T \in SUBSET (1..0) PROVE \E q \in [1..Cardinality(T) -> T] : InOrder(q)
    OBVIOUS
  <2>1. T = {} /\ Cardinality({}) = 0
    BY FS_EmptySet
  <2>2. <<>> \in [1..0 -> {}] /\ InOrder(<<>>)
    BY DEF InOrder
  <2> QED BY <2>1, <2>2
<1>2. ASSUME NEW n \in Nat, n \in Sortable PROVE n + 1 \in Sortable
  <2> SUFFICES ASSUME NEW T \in SUBSET (1..(n + 1)) PROVE \E q \in [1..Cardinality(T) -> T] : InOrder(q)
    OBVIOUS
  <2> DEFINE U == T \ {n + 1}
  <2>1. U \in SUBSET (1..n)
    OBVIOUS
  <2>2. PICK q \in [1..Cardinality(U) -> U] : InOrder(q)
    BY <1>2, <2>1
  <2>3. IsFiniteSet(T)
    <3>1. IsFiniteSet(1..(n + 1))
      BY FS_Interval
    <3> QED BY <3>1, FS_Subset
  <2>4. Cardinality(U) \in Nat /\ Cardinality(U) = IF n + 1 \in T THEN Cardinality(T) - 1 ELSE Cardinality(T)
    BY <2>3, FS_RemoveElement, FS_CardinalityType
  <2>5. CASE n + 1 \notin T
    <3>1. U = T
      BY <2>5
    <3> QED BY <2>2, <3>1
  <2>6. CASE n + 1 \in T
    <3> DEFINE k == Cardinality(U)
               p == [i \in 1..(k + 1) |-> IF i = k + 1 THEN n + 1 ELSE q[i]]
    <3>1. Cardinality(T) = k + 1 /\ k \in Nat
      BY <2>3, <2>4, <2>6, FS_CardinalityType
    <3>2. \A i \in 1..k : q[i] \in T /\ q[i] < n + 1 /\ q[i] \in Nat
      <4> SUFFICES ASSUME NEW i \in 1..k PROVE q[i] \in T /\ q[i] < n + 1 /\ q[i] \in Nat
        OBVIOUS
      <4>1. q[i] \in U
        BY <2>2
      <4>2. q[i] \in 1..n
        BY <2>1, <4>1
      <4> QED BY <4>1, <4>2
    <3>3. DOMAIN q = 1..k /\ \A i, j \in 1..k : i < j => q[i] < q[j]
      BY <2>2 DEF InOrder
    <3> HIDE DEF k, U
    <3>4. p \in [1..(k + 1) -> T]
      BY <2>6, <3>1, <3>2
    <3>5. InOrder(p)
      <4> SUFFICES ASSUME NEW i \in 1..(k + 1), NEW j \in 1..(k + 1), i < j PROVE p[i] < p[j]
        BY DEF InOrder
      <4>1. i \in 1..k /\ p[i] = q[i]
        BY <3>1
      <4>2. CASE j = k + 1
        BY <3>2, <4>1, <4>2
      <4>3. CASE j # k + 1
        BY <3>1, <3>3, <4>1, <4>3
      <4> QED BY <4>2, <4>3
    <3> HIDE DEF p
    <3> QED BY <3>1, <3>4, <3>5
  <2> QED BY <2>5, <2>6
<1>3. Nat \subseteq Sortable
  <2> HIDE DEF Sortable
  <2> QED BY <1>1, <1>2, Induction
<1> QED BY <1>3

\* The sequence of a set of ids has the ids as its elements, and is empty only for
\* the empty set.
LEMMA InIdOrderSeq ==
  ASSUME NEW m \in Nat, NEW S \in SUBSET (1..m)
  PROVE  /\ InIdOrder(S) \in Seq(S)
         /\ InIdOrder(S) = <<>> <=> S = {}
<1> DEFINE q == InIdOrder(S)
<1>1. q \in [1..Cardinality(S) -> S]
  <2>1. \E p \in [1..Cardinality(S) -> S] : InOrder(p)
    BY OrderExists
  <2> QED BY <2>1, Zenon DEF InIdOrder, InOrder
<1>2. IsFiniteSet(S)
  <2>1. IsFiniteSet(1..m)
    BY FS_Interval
  <2> QED BY <2>1, FS_Subset
<1>3. Cardinality(S) \in Nat /\ (Cardinality(S) = 0 <=> S = {})
  BY <1>2, FS_EmptySet, FS_CardinalityType
<1> HIDE DEF q
<1>4. q \in Seq(S) /\ Len(q) = Cardinality(S)
  BY <1>1, <1>3
<1>5. q = <<>> <=> Len(q) = 0
  BY <1>4
<1> QED BY <1>3, <1>4, <1>5 DEF q

----------------------------------------------------------------------------
(* Types *)

Data == Values \cup {NoValue, Corrupt}
Snapshots == [ctx : Nat, payload : Data, data : Data]
AnyState == [payload : Data, data : Data, parents : Seq(Snapshots), done : BOOLEAN]

Entries == [type : {"created"}, parents : Seq(Nat)] \cup [type : {"initialized"}, state : AnyState]
           \cup [type : {"child"}, ctx : Nat] \cup [type : {"message", "data"}, old : Data, new : Data]
           \cup [type : {"note", "completed"}]

ThreadStates == [pc : Pcs, ctx : Nat, new : AnyState, want : Seq(Nat), locked : SUBSET Nat, child : Nat]

\* Contexts just created, and contexts that are gone.
LEMMA StateTypes ==
  /\ New \in AnyState /\ New.done = FALSE /\ New.parents = <<>>
  /\ Gone \in AnyState /\ Gone.done = TRUE /\ Gone.parents = <<>>
<1>1. NoValue \in Data /\ <<>> \in Seq(Snapshots)
  BY DEF Data
<1> QED BY <1>1 DEF New, Gone, AnyState

\* The kinds of log entries.
LEMMA EntryTypes ==
  /\ \A ps \in Seq(Nat) : Created(ps) \in Entries /\ Created(ps).type = "created" /\ Created(ps).parents = ps
  /\ \A s \in AnyState : Initialized(s) \in Entries /\ Initialized(s).type = "initialized" /\ Initialized(s).state = s
  /\ \A c \in Nat : ChildCreated(c) \in Entries /\ ChildCreated(c).type = "child" /\ ChildCreated(c).ctx = c
  /\ \A old, new \in Data : /\ MessageSent(old, new) \in Entries /\ MessageSent(old, new).type = "message"
                            /\ UserDataChange(old, new) \in Entries /\ UserDataChange(old, new).type = "data"
  /\ UserNote \in Entries /\ UserNote.type = "note"
  /\ ContextCompleted \in Entries /\ ContextCompleted.type = "completed"
<1>1. \A ps \in Seq(Nat) : Created(ps) \in Entries /\ Created(ps).type = "created" /\ Created(ps).parents = ps
  BY DEF Created, Entries
<1>2. \A s \in AnyState : Initialized(s) \in Entries /\ Initialized(s).type = "initialized" /\ Initialized(s).state = s
  BY DEF Initialized, Entries
<1>3. \A c \in Nat : ChildCreated(c) \in Entries /\ ChildCreated(c).type = "child" /\ ChildCreated(c).ctx = c
  BY DEF ChildCreated, Entries
<1>4. \A old, new \in Data : /\ MessageSent(old, new) \in Entries /\ MessageSent(old, new).type = "message"
                             /\ UserDataChange(old, new) \in Entries /\ UserDataChange(old, new).type = "data"
  BY DEF MessageSent, UserDataChange, Entries
<1>5. UserNote \in Entries /\ UserNote.type = "note" /\ ContextCompleted \in Entries /\ ContextCompleted.type = "completed"
  BY DEF UserNote, ContextCompleted, Entries
<1> QED BY <1>1, <1>2, <1>3, <1>4, <1>5

\* What a recovery makes of each kind of entry.
LEMMA RecoveredBy ==
  ASSUME NEW s \in AnyState
  PROVE  /\ \A ps \in Seq(Nat) : Recovered(s, Created(ps)) = New
         /\ \A st \in AnyState : Recovered(s, Initialized(st)) = st
         /\ \A c \in Nat : Recovered(s, ChildCreated(c)) = s
         /\ \A v \in Data : Recovered(s, MessageSent(s.payload, v)) = [s EXCEPT !.payload = v]
         /\ \A v \in Data : Recovered(s, UserDataChange(s.data, v)) = [s EXCEPT !.data = v]
         /\ Recovered(s, UserNote) = s
         /\ Recovered(s, ContextCompleted) = Gone
<1>1. \A ps \in Seq(Nat) : Recovered(s, Created(ps)) = New
  BY DEF Recovered, Created
<1>2. \A st \in AnyState : Recovered(s, Initialized(st)) = st
  BY DEF Recovered, Initialized
<1>3. \A c \in Nat : Recovered(s, ChildCreated(c)) = s
  BY DEF Recovered, ChildCreated
<1>4. \A v \in Data : Recovered(s, MessageSent(s.payload, v)) = [s EXCEPT !.payload = v]
  BY DEF Recovered, MessageSent, Patch
<1>5. \A v \in Data : Recovered(s, UserDataChange(s.data, v)) = [s EXCEPT !.data = v]
  BY DEF Recovered, UserDataChange, Patch
<1>6. Recovered(s, UserNote) = s /\ Recovered(s, ContextCompleted) = Gone
  BY DEF Recovered, UserNote, ContextCompleted
<1> QED BY <1>1, <1>2, <1>3, <1>4, <1>5, <1>6

----------------------------------------------------------------------------
(* The inductive invariant *)

Settled(s) == IF s.done THEN Gone ELSE s

Typed ==
  /\ log \in Seq(Seq(Entries)) /\ \A c \in CtxIds : log[c] # <<>>
  /\ mem \in [CtxIds -> AnyState]
  /\ thread \in [Threads -> ThreadStates]
  /\ given \subseteq CtxIds
  /\ crashes \in 0..MaxCrashes

\* A thread works in a context that was handed out, and creates one that was not.
AtWork ==
  \A t \in Threads :
    /\ thread[t].ctx \in {0} \cup given
    /\ thread[t].pc \in {"in", "logged"} => thread[t].ctx # 0
    /\ \A i \in DOMAIN thread[t].want : thread[t].want[i] \in given
    /\ thread[t].locked \subseteq given
    /\ thread[t].new.parents # <<>> => thread[t].pc = "logged"
    /\ thread[t].child \in {0} \cup CtxIds
    /\ thread[t].pc = "logged" => thread[t].new.parents = mem[thread[t].ctx].parents
    /\ thread[t].pc = "created" => /\ thread[t].child \in CtxIds \ given
                                   /\ ~mem[thread[t].child].done

\* No context is owned by two threads, and none is being created by two.
Exclusive ==
  \A t, u \in Threads :
    t # u => /\ Holds(t) \cap Holds(u) = {}
             /\ thread[t].pc = "created" /\ thread[u].pc = "created" => thread[t].child # thread[u].child

\* A context that was not handed out has nothing in its log but its creation.
OnlyCreated ==
  \A c \in CtxIds \ given : \E ps \in Seq(Nat) : ps # <<>> /\ log[c] = <<Created(ps)>>

LogsWellFormed == \A c \in CtxIds : WellFormedLog(log[c])

LogRebuildsMemory ==
  \A c \in given :
    (\A t \in Threads : thread[t].pc = "logged" => thread[t].ctx # c) => Rebuild(log[c]) = Settled(mem[c])

LogRebuildsChange ==
  \A t \in Threads : thread[t].pc = "logged" => Rebuild(log[thread[t].ctx]) = Settled(thread[t].new)

\* The creation of a child is noted at most once in a log, after the child exists.
NotedOnce ==
  \A p \in CtxIds : \A i \in DOMAIN log[p] :
    log[p][i].type = "child" => /\ log[p][i].ctx \in CtxIds
                                /\ \A j \in DOMAIN log[p] : log[p][j] = log[p][i] => j = i

\* s is the parent s.ctx as the logs lg have it at the note of its child c.
SnapshotIn(lg, c, s) ==
  /\ s.ctx \in DOMAIN lg
  /\ \E j \in DOMAIN lg[s.ctx] :
       /\ lg[s.ctx][j] = ChildCreated(c)
       /\ s.payload = Rebuild(SubSeq(lg[s.ctx], 1, j - 1)).payload
       /\ s.data = Rebuild(SubSeq(lg[s.ctx], 1, j - 1)).data

SnapshotsRight ==
  \A c \in CtxIds : \A i \in DOMAIN mem[c].parents : SnapshotIn(log, c, mem[c].parents[i])

IInv ==
  /\ Typed /\ AtWork /\ Exclusive /\ OnlyCreated /\ LogsWellFormed
  /\ LogRebuildsMemory /\ LogRebuildsChange /\ NotedOnce /\ SnapshotsRight

----------------------------------------------------------------------------
(* Steps that change nothing but the thread *)

\* There are no contexts at first.
LEMMA IInvInit ==
  Init => IInv
<1> SUFFICES ASSUME Init PROVE IInv
  OBVIOUS
<1>1. Len(log) = 0 /\ CtxIds = {} /\ log = <<>> /\ mem = <<>> /\ given = {}
  BY DEF Init, CtxIds
<1>2. \A t \in Threads : thread[t] = Outside
  BY DEF Init
<1>3. Outside \in ThreadStates /\ Outside.pc = "out" /\ Outside.ctx = 0 /\ Outside.locked = {}
      /\ Outside.want = <<>> /\ Outside.child = 0 /\ Outside.new.parents = <<>>
  BY StateTypes DEF Outside, ThreadStates, Pcs
<1>4. Typed
  <2>1. log \in Seq(Seq(Entries)) /\ mem \in [{} -> AnyState]
    BY <1>1
  <2>2. thread \in [Threads -> ThreadStates]
    BY <1>3 DEF Init
  <2>3. crashes \in 0..MaxCrashes
    BY ContextStoreAssumption DEF Init
  <2> QED BY <1>1, <2>1, <2>2, <2>3 DEF Typed
<1>5. AtWork
  BY <1>1, <1>2, <1>3 DEF AtWork
<1>6. Exclusive
  BY <1>2, <1>3 DEF Exclusive, Holds
<1>7. LogRebuildsChange
  BY <1>2, <1>3 DEF LogRebuildsChange
<1>8. OnlyCreated /\ LogsWellFormed /\ LogRebuildsMemory /\ NotedOnce /\ SnapshotsRight
  BY <1>1 DEF OnlyCreated, LogsWellFormed, LogRebuildsMemory, NotedOnce, SnapshotsRight
<1> QED BY <1>4, <1>5, <1>6, <1>7, <1>8 DEF IInv

\* What a thread owns in the state r.
Owns(r) == r.locked \cup ({r.ctx} \ {0})

\* A step of a thread that changes no log and no memory, and leaves no context owned twice.
LEMMA IdleStep ==
  ASSUME IInv, NEW t \in Threads, NEW r \in ThreadStates,
         UNCHANGED <<log, mem, given, crashes>>,
         thread' = [thread EXCEPT ![t] = r],
         thread[t].pc # "logged", r.pc \in {"out", "in", "locking"}, r.new.parents = <<>>,
         r.ctx \in {0} \cup given, r.pc = "in" => r.ctx # 0,
         \A i \in DOMAIN r.want : r.want[i] \in given,
         r.locked \subseteq given, r.child \in {0} \cup CtxIds,
         \A u \in Threads \ {t} : Holds(u) \cap Owns(r) = {}
  PROVE  IInv'
<1>1. thread \in [Threads -> ThreadStates]
  BY DEF IInv, Typed
<1>2. thread'[t] = r /\ \A u \in Threads : u # t => thread'[u] = thread[u]
  BY <1>1
<1>3. CtxIds' = CtxIds
  BY DEF CtxIds
<1>4. Typed'
  <2>1. thread' \in [Threads -> ThreadStates]
    BY <1>1
  <2> QED BY <1>3, <2>1 DEF IInv, Typed
<1>5. AtWork'
  BY <1>2, <1>3 DEF IInv, AtWork
<1>6. Exclusive'
  <2>1. Holds(t)' = Owns(r) /\ \A u \in Threads : u # t => Holds(u)' = Holds(u)
    BY <1>2 DEF Holds, Owns
  <2>2. \A u, v \in Threads : u # v => Holds(u) \cap Holds(v) = {}
    BY DEF IInv, Exclusive
  <2>3. ASSUME NEW u \in Threads, NEW v \in Threads, u # v
        PROVE  Holds(u)' \cap Holds(v)' = {}
    BY <2>1, <2>2, <2>3
  <2>4. ASSUME NEW u \in Threads, NEW v \in Threads, u # v, thread'[u].pc = "created", thread'[v].pc = "created"
        PROVE  thread'[u].child # thread'[v].child
    BY <1>2, <2>4 DEF IInv, Exclusive
  <2> QED BY <2>3, <2>4 DEF Exclusive
<1>7. OnlyCreated' /\ LogsWellFormed'
  BY <1>3 DEF IInv, OnlyCreated, LogsWellFormed
<1>8. LogRebuildsMemory'
  BY <1>2 DEF IInv, LogRebuildsMemory
<1>9. LogRebuildsChange'
  BY <1>2 DEF IInv, LogRebuildsChange
<1>10. NotedOnce' /\ SnapshotsRight'
  BY <1>3 DEF IInv, NotedOnce, SnapshotsRight
<1> QED BY <1>4, <1>5, <1>6, <1>7, <1>8, <1>9, <1>10 DEF IInv

\* What is known of a thread.
LEMMA ThreadFacts ==
  ASSUME IInv, NEW t \in Threads
  PROVE  /\ thread[t] \in ThreadStates
         /\ thread[t].ctx \in Nat /\ thread[t].child \in Nat /\ thread[t].locked \in SUBSET Nat
         /\ thread[t].want \in Seq(Nat) /\ thread[t].new \in AnyState /\ thread[t].pc \in Pcs
         /\ thread = [u \in Threads |-> thread[u]]
         /\ given \subseteq CtxIds /\ CtxIds \subseteq Nat /\ Len(log) \in Nat /\ 0 \notin CtxIds
<1>1. thread \in [Threads -> ThreadStates] /\ given \subseteq CtxIds /\ log \in Seq(Seq(Entries))
  BY DEF IInv, Typed
<1>2. Len(log) \in Nat /\ CtxIds \subseteq Nat /\ 0 \notin CtxIds
  BY <1>1 DEF CtxIds
<1> QED BY <1>1, <1>2 DEF ThreadStates

\* A thread outside the store owns nothing.
LEMMA OutsideFacts ==
  /\ Outside \in ThreadStates /\ Outside.pc = "out" /\ Outside.ctx = 0 /\ Outside.locked = {}
  /\ Outside.want = <<>> /\ Outside.child = 0 /\ Outside.new.parents = <<>>
BY StateTypes DEF Outside, ThreadStates, Pcs

\* A context is handed out to one thread at a time.
LEMMA GetContextStep ==
  ASSUME IInv, NEW t \in Threads, NEW c \in given, GetContext(t, c)
  PROVE  IInv'
<1> DEFINE r == [thread[t] EXCEPT !.pc = "in", !.ctx = c]
<1>1. thread[t] \in ThreadStates /\ c \in Nat /\ c # 0
  BY ThreadFacts
<1>2. r \in ThreadStates /\ r.pc = "in" /\ r.ctx = c /\ r.new = thread[t].new /\ r.want = thread[t].want
      /\ r.locked = thread[t].locked /\ r.child = thread[t].child
  BY <1>1 DEF ThreadStates, Pcs
<1>3. thread' = [thread EXCEPT ![t] = r] /\ UNCHANGED <<log, mem, given, crashes>> /\ thread[t].pc = "out"
      /\ \A u \in Threads \ {t} : c \notin Holds(u)
  BY DEF GetContext, Free
<1>4. \A u \in Threads \ {t} : Holds(u) \cap Owns(r) = {}
  <2>1. \A u \in Threads \ {t} : Holds(u) \cap Holds(t) = {}
    BY DEF IInv, Exclusive
  <2>2. Owns(r) \subseteq Holds(t) \cup {c}
    BY <1>2 DEF Owns, Holds
  <2> QED BY <1>3, <2>1, <2>2
<1>5. /\ thread[t].new.parents = <<>> /\ \A i \in DOMAIN thread[t].want : thread[t].want[i] \in given
      /\ thread[t].locked \subseteq given /\ thread[t].child \in {0} \cup CtxIds
  BY <1>3 DEF IInv, AtWork
<1> HIDE DEF r
<1> QED BY <1>1, <1>2, <1>3, <1>4, <1>5, IdleStep

\* A thread leaves its context.
LEMMA ReleaseStep ==
  ASSUME IInv, NEW t \in Threads, Release(t)
  PROVE  IInv'
<1>1. thread' = [thread EXCEPT ![t] = Outside] /\ UNCHANGED <<log, mem, given, crashes>> /\ thread[t].pc = "in"
  BY DEF Release
<1>2. Owns(Outside) = {}
  BY OutsideFacts DEF Owns
<1>3. \A i \in DOMAIN Outside.want : Outside.want[i] \in given
  BY OutsideFacts
<1>4. Outside.locked \subseteq given /\ Outside.ctx \in {0} \cup given /\ Outside.child \in {0} \cup CtxIds
  BY OutsideFacts
<1> QED BY <1>1, <1>2, <1>3, <1>4, OutsideFacts, IdleStep

\* The parents to lock are contexts handed out.
LEMMA StartCreateStep ==
  ASSUME IInv, NEW t \in Threads, NEW parents \in ParentLists, StartCreate(t, parents)
  PROVE  IInv'
<1> DEFINE r == [thread[t] EXCEPT !.pc = "locking", !.want = LockOrder(parents)]
<1>1. thread[t] \in ThreadStates
  BY ThreadFacts
<1>2. LockOrder(parents) \in Seq(ToSet(parents))
  <2>1. ToSet(parents) \in SUBSET (1..Len(log)) /\ Len(log) \in Nat
    BY ThreadFacts DEF StartCreate, CtxIds
  <2>2. ASSUME NEW S, S = ToSet(parents) PROVE InIdOrder(S) \in Seq(S)
    BY <2>1, <2>2, InIdOrderSeq
  <2> QED BY <2>2 DEF LockOrder
<1>3. LockOrder(parents) \in Seq(Nat) /\ \A i \in DOMAIN LockOrder(parents) : LockOrder(parents)[i] \in given
  <2>1. ToSet(parents) \subseteq given /\ given \subseteq Nat
    BY ThreadFacts DEF StartCreate
  <2>2. ASSUME NEW S, S \subseteq given, NEW q \in Seq(S)
        PROVE  q \in Seq(Nat) /\ \A i \in DOMAIN q : q[i] \in given
    <3>1. DOMAIN q = 1..Len(q) /\ Len(q) \in Nat /\ \A i \in 1..Len(q) : q[i] \in S
      OBVIOUS
    <3>2. \A i \in 1..Len(q) : q[i] \in given /\ q[i] \in Nat
      BY <2>1, <2>2, <3>1
    <3> QED BY <3>1, <3>2
  <2> QED BY <1>2, <2>1, <2>2
<1>4. r \in ThreadStates /\ r.pc = "locking" /\ r.ctx = thread[t].ctx /\ r.new = thread[t].new
      /\ r.want = LockOrder(parents) /\ r.locked = thread[t].locked /\ r.child = thread[t].child
  BY <1>1, <1>3 DEF ThreadStates, Pcs
<1>5. thread' = [thread EXCEPT ![t] = r] /\ UNCHANGED <<log, mem, given, crashes>> /\ thread[t].pc \in {"out", "in"}
  BY DEF StartCreate
<1>6. \A u \in Threads \ {t} : Holds(u) \cap Owns(r) = {}
  <2>1. Owns(r) = Holds(t)
    BY <1>4 DEF Owns, Holds
  <2> QED BY <2>1 DEF IInv, Exclusive
<1>7. /\ thread[t].new.parents = <<>> /\ thread[t].ctx \in {0} \cup given
      /\ thread[t].locked \subseteq given /\ thread[t].child \in {0} \cup CtxIds
  BY <1>5 DEF IInv, AtWork
<1> HIDE DEF r
<1> QED BY <1>3, <1>4, <1>5, <1>6, <1>7, IdleStep

\* A parent is locked when nobody owns it.
LEMMA LockParentStep ==
  ASSUME IInv, NEW t \in Threads, LockParent(t)
  PROVE  IInv'
<1> DEFINE w == thread[t].want
           c == Head(w)
           r == [thread[t] EXCEPT !.want = Tail(w), !.locked = thread[t].locked \cup {c}]
<1>1. thread[t] \in ThreadStates /\ w \in Seq(Nat) /\ w # <<>> /\ given \subseteq Nat
  BY ThreadFacts DEF LockParent
<1>2. \A i \in DOMAIN w : w[i] \in given
  BY DEF IInv, AtWork
<1>3. Tail(w) \in Seq(Nat) /\ c \in given /\ \A i \in DOMAIN Tail(w) : Tail(w)[i] \in given
  <2> HIDE DEF w
  <2>1. DOMAIN Tail(w) = 1..(Len(w) - 1) /\ Len(w) \in Nat /\ Len(w) # 0 /\ \A i \in DOMAIN Tail(w) : Tail(w)[i] = w[i + 1]
    BY <1>1
  <2> QED BY <1>1, <1>2, <2>1
<1>4. r \in ThreadStates /\ r.pc = thread[t].pc /\ r.ctx = thread[t].ctx /\ r.new = thread[t].new
      /\ r.want = Tail(w) /\ r.locked = thread[t].locked \cup {c} /\ r.child = thread[t].child
  <2> HIDE DEF c, w
  <2>1. Tail(w) \in Seq(Nat) /\ c \in Nat
    BY <1>1, <1>3
  <2> QED BY <1>1, <2>1 DEF ThreadStates
<1>5. thread' = [thread EXCEPT ![t] = r] /\ UNCHANGED <<log, mem, given, crashes>> /\ thread[t].pc = "locking"
      /\ \A u \in Threads \ {t} : c \notin Holds(u)
  BY DEF LockParent, Free
<1>6. \A u \in Threads \ {t} : Holds(u) \cap Owns(r) = {}
  <2>1. \A u \in Threads \ {t} : Holds(u) \cap Holds(t) = {}
    BY DEF IInv, Exclusive
  <2> HIDE DEF c
  <2>2. Owns(r) \subseteq Holds(t) \cup {c}
    BY <1>4 DEF Owns, Holds
  <2> QED BY <1>5, <2>1, <2>2
<1>7. /\ thread[t].new.parents = <<>> /\ thread[t].ctx \in {0} \cup given
      /\ thread[t].locked \subseteq given /\ thread[t].child \in {0} \cup CtxIds
  BY <1>5 DEF IInv, AtWork
<1> HIDE DEF r, c, w
<1> QED BY <1>3, <1>4, <1>5, <1>6, <1>7, IdleStep

\* A thread that has created, or failed to, is where it came from.
LEMMA BackFacts ==
  ASSUME IInv, NEW t \in Threads
  PROVE  /\ Back(t) \in ThreadStates /\ Back(t).pc \in {"out", "in"} /\ Back(t).ctx = thread[t].ctx
         /\ Back(t).pc = "in" => Back(t).ctx # 0
         /\ Back(t).locked = {} /\ Back(t).want = <<>> /\ Back(t).child = 0 /\ Back(t).new.parents = <<>>
         /\ Owns(Back(t)) \subseteq Holds(t)
<1>1. thread[t].ctx \in Nat
  BY ThreadFacts
<1>2. Outside.new = Gone /\ Gone \in AnyState /\ Gone.parents = <<>>
  BY StateTypes DEF Outside
<1> DEFINE pc == IF thread[t].ctx = 0 THEN "out" ELSE "in"
           c == thread[t].ctx
           r == [Outside EXCEPT !.pc = pc, !.ctx = c]
<1>4. Back(t) = r
  BY DEF Back
<1>5. pc \in {"out", "in"} /\ pc \in Pcs /\ (pc = "in" => c # 0)
  BY DEF Pcs
<1>6. /\ r \in ThreadStates /\ r.pc = pc /\ r.ctx = c
      /\ r.locked = {} /\ r.want = <<>> /\ r.child = 0 /\ r.new = Outside.new
  <2> HIDE DEF pc, c
  <2> QED BY <1>1, <1>5, OutsideFacts DEF c, ThreadStates
<1> HIDE DEF r, pc
<1> QED BY <1>2, <1>4, <1>5, <1>6, StateTypes DEF Owns, Holds

\* All locks are given back.
LEMMA RefuseCreateStep ==
  ASSUME IInv, NEW t \in Threads, RefuseCreate(t)
  PROVE  IInv'
<1>1. thread' = [thread EXCEPT ![t] = Back(t)] /\ UNCHANGED <<log, mem, given, crashes>> /\ thread[t].pc = "locking"
  BY DEF RefuseCreate
<1>2. \A u \in Threads \ {t} : Holds(u) \cap Owns(Back(t)) = {}
  BY BackFacts DEF IInv, Exclusive
<1>3. thread[t].ctx \in {0} \cup given
  BY DEF IInv, AtWork
<1>4. \A i \in DOMAIN Back(t).want : Back(t).want[i] \in given
  BY BackFacts
<1>5. /\ Back(t).locked \subseteq given /\ Back(t).child \in {0} \cup CtxIds /\ Back(t).ctx \in {0} \cup given
      /\ Back(t) \in ThreadStates /\ Back(t).pc \in {"out", "in", "locking"} /\ Back(t).new.parents = <<>>
      /\ Back(t).pc = "in" => Back(t).ctx # 0
  BY <1>3, BackFacts
<1>6. ASSUME NEW r, r = Back(t) PROVE IInv'
  BY <1>1, <1>2, <1>4, <1>5, <1>6, IdleStep
<1> QED BY <1>6

----------------------------------------------------------------------------
(* Logs that grow *)

Grown(l, m) == Len(l) <= Len(m) /\ \A j \in 1..Len(l) : m[j] = l[j]

\* A log with one more entry.
LEMMA GrownByOne ==
  ASSUME NEW l \in Seq(Entries), NEW e \in Entries
  PROVE  /\ Append(l, e) \in Seq(Entries) /\ Append(l, e) # <<>>
         /\ Len(Append(l, e)) = Len(l) + 1 /\ Append(l, e)[Len(l) + 1] = e
         /\ Grown(l, Append(l, e)) /\ Len(l) \in Nat
         /\ SubSeq(Append(l, e), 1, Len(l)) = l
<1>1. /\ Append(l, e) \in Seq(Entries) /\ Append(l, e) # <<>>
      /\ Len(Append(l, e)) = Len(l) + 1 /\ Append(l, e)[Len(l) + 1] = e /\ Len(l) \in Nat
      /\ \A j \in 1..Len(l) : Append(l, e)[j] = l[j]
  OBVIOUS
<1> DEFINE m == Append(l, e)
           q == SubSeq(m, 1, Len(l))
<1>2. q = l
  <2> HIDE DEF m
  <2>1. q \in Seq(Entries) /\ Len(q) = Len(l) /\ \A j \in 1..Len(l) : q[j] = m[j]
    BY <1>1 DEF m
  <2> HIDE DEF q
  <2>2. \A j \in 1..Len(q) : q[j] = l[j]
    BY <1>1, <2>1 DEF m
  <2> QED BY <2>1, <2>2, SeqEqual
<1> QED BY <1>1, <1>2 DEF Grown

\* A log that grew begins as before.
LEMMA SamePrefix ==
  ASSUME NEW l \in Seq(Entries), NEW m \in Seq(Entries), Grown(l, m), NEW k \in 0..Len(l)
  PROVE  SubSeq(m, 1, k) = SubSeq(l, 1, k)
<1> DEFINE p == SubSeq(m, 1, k)
           q == SubSeq(l, 1, k)
<1>1. Len(l) \in Nat /\ Len(m) \in Nat /\ Len(l) <= Len(m) /\ \A j \in 1..Len(l) : m[j] = l[j]
  BY DEF Grown
<1>2. p \in Seq(Entries) /\ Len(p) = k /\ \A j \in 1..k : p[j] = m[j]
  BY <1>1
<1>3. q \in Seq(Entries) /\ Len(q) = k /\ \A j \in 1..k : q[j] = l[j]
  BY <1>1
<1> HIDE DEF p, q
<1>4. \A j \in 1..Len(p) : p[j] = q[j]
  BY <1>1, <1>2, <1>3
<1>5. p = q
  BY <1>2, <1>3, <1>4, SeqEqual
<1> QED BY <1>5 DEF p, q

\* A snapshot stays right when logs grow.
LEMMA SnapshotKept ==
  ASSUME NEW lg \in Seq(Seq(Entries)), NEW lh \in Seq(Seq(Entries)), Len(lg) <= Len(lh),
         \A p \in 1..Len(lg) : Grown(lg[p], lh[p]),
         NEW c, NEW s, SnapshotIn(lg, c, s)
  PROVE  SnapshotIn(lh, c, s)
<1>1. Len(lg) \in Nat /\ Len(lh) \in Nat /\ DOMAIN lg = 1..Len(lg) /\ DOMAIN lh = 1..Len(lh)
  OBVIOUS
<1> DEFINE p == s.ctx
           l == lg[p]
           m == lh[p]
<1>2. p \in 1..Len(lg) /\ p \in DOMAIN lh
  BY <1>1 DEF SnapshotIn
<1>3. l \in Seq(Entries) /\ m \in Seq(Entries) /\ Grown(l, m)
  BY <1>1, <1>2
<1>4. PICK j \in DOMAIN l : /\ l[j] = ChildCreated(c)
                            /\ s.payload = Rebuild(SubSeq(l, 1, j - 1)).payload
                            /\ s.data = Rebuild(SubSeq(l, 1, j - 1)).data
  BY DEF SnapshotIn
<1> HIDE DEF p, l, m
<1>5. j \in 1..Len(l) /\ j - 1 \in 0..Len(l) /\ j \in DOMAIN m /\ m[j] = l[j]
  BY <1>3, <1>4 DEF Grown
<1>6. SubSeq(m, 1, j - 1) = SubSeq(l, 1, j - 1)
  BY <1>3, <1>5, SamePrefix
<1> QED BY <1>2, <1>4, <1>5, <1>6 DEF SnapshotIn, p, l, m

\* A change may follow whatever is not the completion.
LEMMA WellFormedAppend ==
  ASSUME NEW l \in Seq(Entries), l # <<>>, WellFormedLog(l), l[Len(l)].type # "completed",
         NEW e \in Entries, e.type \notin {"created", "initialized"}
  PROVE  WellFormedLog(Append(l, e))
<1> DEFINE m == Append(l, e)
           k == Len(l)
<1>1. k \in Nat /\ k # 0 /\ Len(m) = k + 1 /\ m[k + 1] = e /\ (\A j \in 1..k : m[j] = l[j]) /\ DOMAIN m = 1..(k + 1)
      /\ DOMAIN l = 1..k /\ l[k].type # "completed"
  OBVIOUS
<1> HIDE DEF m, k
<1> SUFFICES ASSUME NEW i \in 1..(k + 1)
             PROVE  /\ m[i].type = "created" <=> i = 1
                    /\ m[i].type = "initialized" => i = 2 /\ m[1].parents # <<>>
                    /\ m[i].type = "completed" => i = Len(m)
  BY <1>1 DEF WellFormedLog, m
<1>2. m[1] = l[1]
  BY <1>1
<1>3. CASE i = k + 1
  BY <1>1, <1>3
<1>4. CASE i # k + 1
  <2>1. i \in 1..k /\ m[i] = l[i] /\ (i = k => l[i].type # "completed")
    BY <1>1, <1>4
  <2>2. /\ l[i].type = "created" <=> i = 1
        /\ l[i].type = "initialized" => i = 2 /\ l[1].parents # <<>>
        /\ l[i].type = "completed" => i = k
    BY <1>1, <2>1 DEF WellFormedLog, k
  <2> QED BY <1>2, <2>1, <2>2
<1> QED BY <1>3, <1>4

\* A log that rebuilds a context in progress does not end with its completion.
LEMMA NotCompleted ==
  ASSUME NEW l \in Seq(Entries), l # <<>>, Rebuild(l).done = FALSE
  PROVE  l[Len(l)].type # "completed"
<1>1. PICK s \in Seq(Entries), e \in Entries : l = Append(s, e)
  BY SequenceEmptyOrAppend
<1>2. Rebuild(l) = Recovered(Rebuild(s), e)
  BY <1>1, RebuildAppend
<1>3. l[Len(l)] = e
  BY <1>1
<1>4. e.type = "completed" => Recovered(Rebuild(s), e) = Gone
  BY DEF Recovered
<1> QED BY <1>2, <1>3, <1>4, StateTypes

\* A context that a thread owns, but is not changing, is what its log rebuilds.
LEMMA OwnedLog ==
  ASSUME IInv, NEW t \in Threads, NEW c \in given, c \in Holds(t), thread[t].pc # "logged"
  PROVE  /\ Rebuild(log[c]) = Settled(mem[c])
         /\ mem[c].done = FALSE => Rebuild(log[c]) = mem[c] /\ log[c][Len(log[c])].type # "completed"
         /\ c \in CtxIds /\ mem[c] \in AnyState /\ log[c] \in Seq(Entries) /\ log[c] # <<>>
<1>1. c \in CtxIds /\ c # 0 /\ mem[c] \in AnyState /\ log[c] \in Seq(Entries) /\ log[c] # <<>>
  <2>1. c \in CtxIds /\ c # 0
    BY ThreadFacts
  <2>2. log \in Seq(Seq(Entries)) /\ mem[c] \in AnyState /\ log[c] # <<>>
    BY <2>1 DEF IInv, Typed
  <2> QED BY <2>1, <2>2 DEF CtxIds
<1>2. ASSUME NEW u \in Threads, thread[u].pc = "logged", thread[u].ctx = c PROVE FALSE
  <2>1. c \in Holds(u)
    BY <1>1, <1>2 DEF Holds
  <2>2. u # t
    BY <1>2
  <2> QED BY <2>1, <2>2 DEF IInv, Exclusive
<1>3. Rebuild(log[c]) = Settled(mem[c])
  BY <1>2 DEF IInv, LogRebuildsMemory
<1>4. mem[c].done = FALSE => Rebuild(log[c]) = mem[c]
  BY <1>3 DEF Settled
<1> QED BY <1>1, <1>3, <1>4, NotCompleted

\* The log of a context just created rebuilds an empty context.
LEMMA RebuildCreation ==
  ASSUME NEW ps \in Seq(Nat)
  PROVE  Rebuild(<<Created(ps)>>) = New
<1> DEFINE e == Created(ps)
           s == Rebuild(<<>>)
<1>1. e \in Entries /\ Recovered(Gone, e) = New
  BY EntryTypes, StateTypes, RecoveredBy
<1>2. s = Gone
  BY RebuildEmpty
<1> HIDE DEF e
<1>3. <<e>> = Append(<<>>, e) /\ <<>> \in Seq(Entries)
  OBVIOUS
<1>4. Rebuild(Append(<<>>, e)) = Recovered(s, e)
  BY <1>1, <1>3, RebuildAppend
<1> QED BY <1>1, <1>2, <1>3, <1>4 DEF e

----------------------------------------------------------------------------
(* The two steps of a change *)

\* A change is logged: its log rebuilds the changed memory, all other logs are as they were.
LEMMA LogChangeStep ==
  ASSUME IInv, NEW t \in Threads, NEW e \in Entries, e.type \in {"message", "data", "note", "completed"},
         NEW n \in AnyState, n.parents = mem[thread[t].ctx].parents,
         Recovered(mem[thread[t].ctx], e) = Settled(n), LogChange(t, e, n)
  PROVE  IInv'
<1> DEFINE c == thread[t].ctx
           r == [thread[t] EXCEPT !.pc = "logged", !.new = n]
<1>1. /\ thread[t].pc = "in" /\ ~mem[c].done
      /\ log' = [log EXCEPT ![c] = Append(log[c], e)] /\ thread' = [thread EXCEPT ![t] = r]
      /\ mem' = mem /\ given' = given /\ crashes' = crashes
  BY DEF LogChange
<1>2. c \in given /\ c # 0 /\ c \in Holds(t)
  BY <1>1 DEF IInv, AtWork, Holds
<1>3. thread[t] \in ThreadStates
  BY ThreadFacts
<1>4. r \in ThreadStates /\ r.pc = "logged" /\ r.ctx = c /\ r.new = n /\ r.want = thread[t].want
      /\ r.locked = thread[t].locked /\ r.child = thread[t].child
  BY <1>3 DEF ThreadStates, Pcs
<1>5. /\ Rebuild(log[c]) = mem[c] /\ log[c][Len(log[c])].type # "completed"
      /\ c \in CtxIds /\ mem[c] \in AnyState /\ log[c] \in Seq(Entries) /\ log[c] # <<>>
  <2>1. mem[c] \in AnyState
    BY <1>1, <1>2, OwnedLog
  <2>2. mem[c].done = FALSE
    BY <1>1, <2>1 DEF AnyState
  <2> HIDE DEF c
  <2> QED BY <1>1, <1>2, <2>2, OwnedLog
<1> HIDE DEF r, c
<1>6. /\ log \in Seq(Seq(Entries)) /\ Len(log) \in Nat /\ CtxIds = 1..Len(log) /\ DOMAIN log = CtxIds /\ given \subseteq CtxIds
      /\ thread \in [Threads -> ThreadStates]
  BY DEF IInv, Typed, CtxIds
<1>7. thread'[t] = r /\ \A u \in Threads : u # t => thread'[u] = thread[u]
  BY <1>1, <1>6
<1>8. /\ log'[c] = Append(log[c], e) /\ \A p \in CtxIds : p # c => log'[p] = log[p]
      /\ Len(log') = Len(log) /\ log' \in Seq(Seq(Entries)) /\ CtxIds' = CtxIds
  <2>1. Append(log[c], e) \in Seq(Entries)
    BY <1>5, GrownByOne
  <2> QED BY <1>1, <1>5, <1>6, <2>1 DEF CtxIds
<1>9. \A p \in CtxIds : log[p] \in Seq(Entries) /\ Grown(log[p], log'[p]) /\ log'[p] # <<>>
  <2> SUFFICES ASSUME NEW p \in CtxIds PROVE log[p] \in Seq(Entries) /\ Grown(log[p], log'[p]) /\ log'[p] # <<>>
    OBVIOUS
  <2>1. log[p] \in Seq(Entries) /\ log[p] # <<>>
    BY <1>6 DEF IInv, Typed
  <2>2. CASE p = c
    BY <1>5, <1>8, <2>2, GrownByOne
  <2>3. CASE p # c
    <3>1. Grown(log[p], log[p])
      BY <2>1 DEF Grown
    <3> QED BY <1>8, <2>1, <2>3, <3>1
  <2> QED BY <2>1, <2>2, <2>3
<1>10. Typed'
  <2>1. thread' \in [Threads -> ThreadStates]
    BY <1>1, <1>4, <1>6
  <2> QED BY <1>1, <1>8, <1>9, <2>1 DEF IInv, Typed
<1>11. AtWork'
  <2>1. n.parents = mem[c].parents
    BY DEF c
  <2> QED BY <1>1, <1>2, <1>4, <1>7, <1>8, <2>1 DEF IInv, AtWork
<1>12. Exclusive'
  <2>1. \A u \in Threads : Holds(u)' = Holds(u)
    BY <1>4, <1>7 DEF Holds, c
  <2>2. \A u \in Threads : thread'[u].pc = "created" => thread[u].pc = "created" /\ thread'[u].child = thread[u].child
    BY <1>4, <1>7
  <2> QED BY <2>1, <2>2 DEF IInv, Exclusive
<1>13. OnlyCreated'
  BY <1>1, <1>2, <1>8 DEF IInv, OnlyCreated
<1>14. LogsWellFormed'
  <2>1. WellFormedLog(log[c])
    BY <1>5 DEF IInv, LogsWellFormed
  <2>2. e.type \notin {"created", "initialized"}
    OBVIOUS
  <2>3. WellFormedLog(log'[c])
    BY <1>5, <1>8, <2>1, <2>2, WellFormedAppend
  <2> QED BY <1>8, <2>3 DEF IInv, LogsWellFormed
<1>15. Rebuild(log'[c]) = Settled(n)
  <2>1. Rebuild(log'[c]) = Recovered(Rebuild(log[c]), e)
    BY <1>5, <1>8, RebuildAppend
  <2> QED BY <1>5, <2>1 DEF c
<1>16. LogRebuildsMemory'
  <2> SUFFICES ASSUME NEW d \in given, \A u \in Threads : thread'[u].pc = "logged" => thread'[u].ctx # d
               PROVE  Rebuild(log'[d]) = Settled(mem[d])
    BY <1>1 DEF LogRebuildsMemory
  <2>1. d # c /\ d \in CtxIds
    BY <1>4, <1>6, <1>7
  <2>2. \A u \in Threads : thread[u].pc = "logged" => thread[u].ctx # d
    BY <1>1, <1>7
  <2> QED BY <1>8, <2>1, <2>2 DEF IInv, LogRebuildsMemory
<1>17. LogRebuildsChange'
  <2> SUFFICES ASSUME NEW u \in Threads, thread'[u].pc = "logged"
               PROVE  Rebuild(log'[thread'[u].ctx]) = Settled(thread'[u].new)
    BY DEF LogRebuildsChange
  <2>1. CASE u = t
    BY <1>4, <1>7, <1>15, <2>1
  <2>2. CASE u # t
    <3>1. thread'[u] = thread[u]
      BY <1>7, <2>2
    <3>2. thread[u].ctx \in given /\ thread[u].ctx # 0
      BY <3>1 DEF IInv, AtWork
    <3>3. thread[u].ctx # c
      BY <1>2, <2>2, <3>2 DEF IInv, Exclusive, Holds
    <3> QED BY <1>6, <1>8, <3>1, <3>2, <3>3 DEF IInv, LogRebuildsChange
  <2> QED BY <2>1, <2>2
<1>18. NotedOnce'
  <2> SUFFICES ASSUME NEW p \in CtxIds, NEW i \in DOMAIN log'[p], log'[p][i].type = "child"
               PROVE  log'[p][i].ctx \in CtxIds /\ \A j \in DOMAIN log'[p] : log'[p][j] = log'[p][i] => j = i
    BY <1>8 DEF NotedOnce
  <2>1. CASE p # c
    BY <1>8, <2>1 DEF IInv, NotedOnce
  <2>2. CASE p = c
    <3> DEFINE l == log[c]
               m == log'[c]
               k == Len(l)
    <3>1. l \in Seq(Entries) /\ m = Append(l, e)
      BY <1>5, <1>8
    <3>2. k \in Nat /\ DOMAIN l = 1..k /\ DOMAIN m = 1..(k + 1) /\ m[k + 1] = e /\ \A j \in 1..k : m[j] = l[j]
      <4> HIDE DEF l, m
      <4> QED BY <3>1
    <3>3. \A x \in DOMAIN l : l[x].type = "child" => l[x].ctx \in CtxIds /\ \A j \in DOMAIN l : l[j] = l[x] => j = x
      BY <1>5 DEF IInv, NotedOnce
    <3> HIDE DEF l, k
    <3>4. m[i].type = "child" /\ i \in DOMAIN m
      BY <2>2
    <3> HIDE DEF m
    <3>5. i \in 1..k /\ m[i] = l[i]
      BY <3>2, <3>4
    <3>6. \A j \in DOMAIN m : m[j] = m[i] => j \in 1..k
      BY <3>2, <3>4
    <3>7. m[i].ctx \in CtxIds /\ \A j \in DOMAIN m : m[j] = m[i] => j = i
      BY <3>2, <3>3, <3>4, <3>5, <3>6
    <3> QED BY <2>2, <3>7 DEF m
  <2> QED BY <2>1, <2>2
<1>19. SnapshotsRight'
  <2> SUFFICES ASSUME NEW d \in CtxIds, NEW i \in DOMAIN mem[d].parents
               PROVE  SnapshotIn(log', d, mem[d].parents[i])
    BY <1>1, <1>8 DEF SnapshotsRight
  <2>1. SnapshotIn(log, d, mem[d].parents[i])
    BY DEF IInv, SnapshotsRight
  <2>2. Len(log) <= Len(log')
    BY <1>6, <1>8
  <2>3. \A p \in 1..Len(log) : Grown(log[p], log'[p])
    BY <1>6, <1>9
  <2> QED BY <1>6, <1>8, <2>1, <2>2, <2>3, SnapshotKept
<1> QED BY <1>10, <1>11, <1>12, <1>13, <1>14, <1>16, <1>17, <1>18, <1>19 DEF IInv

\* Each kind of change has the entry that recovery makes it of.
LEMMA ChangeStep ==
  ASSUME IInv, NEW t \in Threads, Change(t)
  PROVE  IInv'
<1> DEFINE s == mem[thread[t].ctx]
<1>1. thread[t].pc = "in"
  BY DEF Change, AppendUserNote, Complete, AppendMessage, SetUserData
<1>2. s \in AnyState
  <2>1. thread[t].ctx \in given /\ thread[t].ctx \in CtxIds
    BY <1>1, ThreadFacts DEF IInv, AtWork
  <2> QED BY <2>1 DEF IInv, Typed
<1>3. s.payload \in Data /\ s.data \in Data /\ s.done \in BOOLEAN
  BY <1>2 DEF AnyState
<1>4. CASE AppendUserNote(t)
  <2>1. LogChange(t, UserNote, s) /\ ~s.done
    BY <1>4 DEF AppendUserNote, LogChange
  <2>2. Recovered(s, UserNote) = Settled(s)
    BY <1>2, <2>1, RecoveredBy DEF Settled
  <2> QED BY <1>2, <2>1, <2>2, EntryTypes, LogChangeStep
<1>5. CASE Complete(t)
  <2> DEFINE n == [s EXCEPT !.done = TRUE]
  <2>1. LogChange(t, ContextCompleted, n)
    BY <1>5 DEF Complete
  <2>2. n \in AnyState /\ n.parents = s.parents /\ n.done = TRUE
    <3> HIDE DEF s
    <3> QED BY <1>2 DEF AnyState
  <2> HIDE DEF n
  <2>3. Recovered(s, ContextCompleted) = Settled(n)
    BY <1>2, <2>2, RecoveredBy DEF Settled
  <2> QED BY <2>1, <2>2, <2>3, EntryTypes, LogChangeStep
<1>6. CASE \E v \in Values : AppendMessage(t, v)
  <2>1. PICK v \in Values : AppendMessage(t, v)
    BY <1>6
  <2> DEFINE n == [s EXCEPT !.payload = v]
             e == MessageSent(s.payload, v)
  <2>2. v \in Data
    BY DEF Data
  <2>3. LogChange(t, e, n) /\ ~s.done
    BY <2>1 DEF AppendMessage, LogChange
  <2>4. n \in AnyState /\ n.parents = s.parents /\ n.done = s.done
    <3> HIDE DEF s
    <3> QED BY <1>2, <2>2 DEF AnyState
  <2>5. Recovered(s, e) = n
    BY <1>2, <2>2, RecoveredBy
  <2>6. e \in Entries /\ e.type = "message"
    BY <1>3, <2>2, EntryTypes
  <2> HIDE DEF n, e
  <2>7. Recovered(s, e) = Settled(n)
    BY <2>3, <2>4, <2>5 DEF Settled
  <2> QED BY <2>3, <2>4, <2>6, <2>7, LogChangeStep
<1>7. CASE \E d \in Values \cup {NoValue} : SetUserData(t, d)
  <2>1. PICK v \in Values \cup {NoValue} : SetUserData(t, v)
    BY <1>7
  <2> DEFINE n == [s EXCEPT !.data = v]
             e == UserDataChange(s.data, v)
  <2>2. v \in Data
    BY DEF Data
  <2>3. LogChange(t, e, n) /\ ~s.done
    BY <2>1 DEF SetUserData, LogChange
  <2>4. n \in AnyState /\ n.parents = s.parents /\ n.done = s.done
    <3> HIDE DEF s
    <3> QED BY <1>2, <2>2 DEF AnyState
  <2>5. Recovered(s, e) = n
    BY <1>2, <2>2, RecoveredBy
  <2>6. e \in Entries /\ e.type = "data"
    BY <1>3, <2>2, EntryTypes
  <2> HIDE DEF n, e
  <2>7. Recovered(s, e) = Settled(n)
    BY <2>3, <2>4, <2>5 DEF Settled
  <2> QED BY <2>3, <2>4, <2>6, <2>7, LogChangeStep
<1> QED BY <1>4, <1>5, <1>6, <1>7 DEF Change

\* The logged change is made: memory catches up with the log.
LEMMA UpdateMemoryStep ==
  ASSUME IInv, NEW t \in Threads, UpdateMemory(t)
  PROVE  IInv'
<1> DEFINE c == thread[t].ctx
           n == thread[t].new
           r == [thread[t] EXCEPT !.pc = "in", !.new = Gone]
<1>1. /\ thread[t].pc = "logged"
      /\ mem' = [mem EXCEPT ![c] = n] /\ thread' = [thread EXCEPT ![t] = r]
      /\ log' = log /\ given' = given /\ crashes' = crashes
  BY DEF UpdateMemory
<1>2. c \in given /\ c # 0 /\ c \in Holds(t) /\ c \in CtxIds /\ CtxIds' = CtxIds
  BY <1>1, ThreadFacts DEF IInv, AtWork, Holds, CtxIds
<1>3. thread[t] \in ThreadStates /\ n \in AnyState
  BY ThreadFacts
<1>4. r \in ThreadStates /\ r.pc = "in" /\ r.ctx = c /\ r.new = Gone /\ r.want = thread[t].want
      /\ r.locked = thread[t].locked /\ r.child = thread[t].child
  BY <1>3, StateTypes DEF ThreadStates, Pcs
<1>5. n.parents = mem[c].parents /\ Rebuild(log[c]) = Settled(n)
  BY <1>1 DEF IInv, AtWork, LogRebuildsChange
<1>6. Holds(t)' = Holds(t)
  BY <1>1, <1>4, ThreadFacts DEF Holds
<1> HIDE DEF r, c, n
<1>7. thread \in [Threads -> ThreadStates] /\ mem \in [CtxIds -> AnyState]
  BY DEF IInv, Typed
<1>8. thread'[t] = r /\ \A u \in Threads : u # t => thread'[u] = thread[u]
  BY <1>1, <1>7
<1>9. mem' \in [CtxIds -> AnyState] /\ mem'[c] = n /\ \A d \in CtxIds : d # c => mem'[d] = mem[d]
  BY <1>1, <1>2, <1>3, <1>7
<1>10. \A d \in CtxIds : mem'[d].parents = mem[d].parents
  BY <1>5, <1>9
<1>11. Typed'
  <2>1. thread' \in [Threads -> ThreadStates]
    BY <1>1, <1>4, <1>7
  <2> QED BY <1>1, <1>2, <1>9, <2>1 DEF IInv, Typed
<1>12. AtWork'
  <2> SUFFICES ASSUME NEW u \in Threads
               PROVE  /\ thread'[u].ctx \in {0} \cup given
                      /\ thread'[u].pc \in {"in", "logged"} => thread'[u].ctx # 0
                      /\ \A i \in DOMAIN thread'[u].want : thread'[u].want[i] \in given
                      /\ thread'[u].locked \subseteq given
                      /\ thread'[u].new.parents # <<>> => thread'[u].pc = "logged"
                      /\ thread'[u].child \in {0} \cup CtxIds
                      /\ thread'[u].pc = "logged" => thread'[u].new.parents = mem'[thread'[u].ctx].parents
                      /\ thread'[u].pc = "created" => /\ thread'[u].child \in CtxIds \ given
                                                      /\ ~mem'[thread'[u].child].done
    BY <1>1, <1>2 DEF AtWork
  <2>1. CASE u = t
    BY <1>2, <1>4, <1>8, <2>1, StateTypes DEF IInv, AtWork
  <2>2. CASE u # t
    <3>1. thread[u].ctx \in {0} \cup given /\ (thread[u].pc = "logged" => thread[u].ctx \in CtxIds)
      BY ThreadFacts DEF IInv, AtWork
    <3> QED BY <1>2, <1>8, <1>9, <1>10, <2>2, <3>1 DEF IInv, AtWork
  <2> QED BY <2>1, <2>2
<1>13. Exclusive'
  <2>1. \A u \in Threads : Holds(u)' = Holds(u)
    BY <1>6, <1>8 DEF Holds
  <2>2. \A u \in Threads : thread'[u].pc = "created" => thread[u].pc = "created" /\ thread'[u].child = thread[u].child
    BY <1>4, <1>8
  <2> QED BY <2>1, <2>2 DEF IInv, Exclusive
<1>14. OnlyCreated' /\ LogsWellFormed' /\ NotedOnce'
  BY <1>1, <1>2 DEF IInv, OnlyCreated, LogsWellFormed, NotedOnce
<1>15. LogRebuildsMemory'
  <2> SUFFICES ASSUME NEW d \in given, \A u \in Threads : thread'[u].pc = "logged" => thread'[u].ctx # d
               PROVE  Rebuild(log[d]) = Settled(mem'[d])
    BY <1>1 DEF LogRebuildsMemory
  <2>1. d \in CtxIds
    BY DEF IInv, Typed
  <2>2. CASE d = c
    BY <1>5, <1>9, <2>2
  <2>3. CASE d # c
    <3>1. \A u \in Threads : thread[u].pc = "logged" => thread[u].ctx # d
      BY <1>8, <2>3 DEF c
    <3> QED BY <1>9, <2>1, <2>3, <3>1 DEF IInv, LogRebuildsMemory
  <2> QED BY <2>2, <2>3
<1>16. LogRebuildsChange'
  BY <1>1, <1>4, <1>8 DEF IInv, LogRebuildsChange
<1>17. SnapshotsRight'
  BY <1>1, <1>2, <1>10 DEF IInv, SnapshotsRight
<1> QED BY <1>11, <1>12, <1>13, <1>14, <1>15, <1>16, <1>17 DEF IInv

----------------------------------------------------------------------------
(* The creation of a context *)

\* What a child starts with: a snapshot of each of its parents.
LEMMA InitialStateFacts ==
  ASSUME mem \in [CtxIds -> AnyState], Len(log) \in Nat, NEW ps \in Seq(CtxIds)
  PROVE  /\ InitialState(ps) \in AnyState /\ InitialState(ps).done = FALSE
         /\ DOMAIN InitialState(ps).parents = DOMAIN ps
         /\ \A i \in DOMAIN ps : InitialState(ps).parents[i] = Snapshot(ps[i])
         /\ ps = <<>> => InitialState(ps) = New
<1> DEFINE sn == [i \in DOMAIN ps |-> Snapshot(ps[i])]
<1>1. DOMAIN ps = 1..Len(ps) /\ Len(ps) \in Nat /\ \A i \in DOMAIN ps : ps[i] \in CtxIds
  OBVIOUS
<1>2. \A i \in DOMAIN ps : Snapshot(ps[i]) \in Snapshots
  <2> SUFFICES ASSUME NEW i \in DOMAIN ps PROVE Snapshot(ps[i]) \in Snapshots
    OBVIOUS
  <2>1. mem[ps[i]].payload \in Data /\ mem[ps[i]].data \in Data /\ ps[i] \in Nat
    BY <1>1 DEF AnyState, CtxIds
  <2> QED BY <2>1 DEF Snapshot, Snapshots
<1>3. sn \in Seq(Snapshots) /\ Len(sn) = Len(ps) /\ DOMAIN sn = DOMAIN ps /\ \A i \in DOMAIN ps : sn[i] = Snapshot(ps[i])
  BY <1>1, <1>2
<1>4. Len(ps) = 1 => sn[1].payload \in Data /\ sn[1].data \in Data
  <2> SUFFICES ASSUME Len(ps) = 1 PROVE sn[1].payload \in Data /\ sn[1].data \in Data
    OBVIOUS
  <2>1. sn[1] \in Snapshots
    BY <1>1, <1>2
  <2> HIDE DEF sn
  <2> QED BY <2>1 DEF Snapshots
<1>5. ps = <<>> => sn = <<>> /\ Len(ps) = 0
  BY <1>3
<1>6. InitialState(ps) = IF Len(ps) = 1 THEN [New EXCEPT !.payload = sn[1].payload, !.data = sn[1].data, !.parents = sn]
                         ELSE [New EXCEPT !.parents = sn]
  BY DEF InitialState
<1> HIDE DEF sn
<1>7. CASE Len(ps) = 1
  <2> DEFINE a == sn[1].payload
             b == sn[1].data
             s == [New EXCEPT !.payload = a, !.data = b, !.parents = sn]
  <2>1. a \in Data /\ b \in Data
    BY <1>4, <1>7
  <2> HIDE DEF a, b
  <2>2. s \in AnyState /\ s.done = FALSE /\ s.parents = sn
    BY <1>3, <2>1, StateTypes DEF AnyState
  <2>3. InitialState(ps) = s
    BY <1>6, <1>7 DEF a, b
  <2> QED BY <1>3, <1>5, <1>7, <2>2, <2>3
<1>8. CASE Len(ps) # 1
  <2> DEFINE s == [New EXCEPT !.parents = sn]
  <2>1. s \in AnyState /\ s.done = FALSE /\ s.parents = sn
    BY <1>3, StateTypes DEF AnyState
  <2>2. InitialState(ps) = s
    BY <1>6, <1>8
  <2>3. sn = <<>> => s = New
    <3>1. [New EXCEPT !.parents = New.parents] = New
      BY StateTypes DEF AnyState
    <3> QED BY <3>1, StateTypes
  <2> QED BY <1>3, <1>5, <2>1, <2>2, <2>3
<1> QED BY <1>7, <1>8

\* A child is created: its parents note it and it takes their snapshots, under their locks.
LEMMA CreateContextStep ==
  ASSUME IInv, NEW t \in Threads, CreateContext(t)
  PROVE  IInv'
<1> DEFINE locked == thread[t].locked
           ps == InIdOrder(locked)
           c == Len(log) + 1
           s0 == InitialState(ps)
           lh == [p \in 1..c |-> IF p = c THEN <<Created(ps)>>
                                 ELSE IF p \in locked THEN Append(log[p], ChildCreated(c))
                                 ELSE log[p]]
           r == IF ps = <<>> THEN Back(t) ELSE [thread[t] EXCEPT !.pc = "created", !.child = c]
<1>1. /\ thread[t].pc = "locking" /\ \A p \in locked : Usable(p)
      /\ log' = lh /\ mem' = Append(mem, s0) /\ thread' = [thread EXCEPT ![t] = r]
      /\ given' = IF ps = <<>> THEN given \cup {c} ELSE given
      /\ crashes' = crashes
  BY DEF CreateContext
<1>2. /\ thread \in [Threads -> ThreadStates] /\ mem \in [CtxIds -> AnyState] /\ log \in Seq(Seq(Entries))
      /\ Len(log) \in Nat /\ CtxIds = 1..Len(log) /\ given \subseteq CtxIds /\ DOMAIN log = CtxIds
  BY DEF IInv, Typed, CtxIds
<1>3. locked \subseteq given /\ locked \subseteq Holds(t)
  BY DEF IInv, AtWork, Holds
<1>4. ps \in Seq(locked) /\ (ps = <<>> <=> locked = {})
  <2>1. locked \in SUBSET (1..Len(log))
    BY <1>2, <1>3
  <2> HIDE DEF locked
  <2> QED BY <1>2, <2>1, InIdOrderSeq
<1>5. ps \in Seq(CtxIds) /\ ps \in Seq(Nat) /\ \A i \in DOMAIN ps : ps[i] \in locked
  <2> HIDE DEF locked, ps
  <2>1. locked \subseteq CtxIds /\ CtxIds \subseteq Nat
    BY <1>2, <1>3
  <2>2. ps \in Seq(CtxIds) /\ ps \in Seq(Nat)
    BY <1>4, <2>1, SeqMonotonic
  <2> QED BY <1>4, <2>2
<1>6. /\ s0 \in AnyState /\ s0.done = FALSE /\ DOMAIN s0.parents = DOMAIN ps
      /\ \A i \in DOMAIN ps : s0.parents[i] = Snapshot(ps[i])
      /\ ps = <<>> => s0 = New
  BY <1>2, <1>5, InitialStateFacts
\* The parents, whose locks are held, are in progress and their logs rebuild them.
<1>7. ASSUME NEW p \in locked
      PROVE  Rebuild(log[p]) = mem[p] /\ log[p][Len(log[p])].type # "completed"
  <2>1. p \in given /\ p \in Holds(t) /\ p \in CtxIds
    BY <1>2, <1>3
  <2>2. mem[p].done = FALSE
    BY <1>1, <1>2, <2>1 DEF Usable, AnyState
  <2> QED BY <1>1, <2>1, <2>2, OwnedLog
<1>8. /\ c \in Nat /\ c # 0 /\ c \notin CtxIds /\ CtxIds \subseteq 1..c /\ \A p \in 1..c : p = c \/ p \in CtxIds
      /\ 1..c = CtxIds \cup {c}
  BY <1>2
<1>9. \A p \in CtxIds : log[p] \in Seq(Entries) /\ log[p] # <<>>
  BY <1>2 DEF IInv, Typed
<1>10. ThreadStates # {} /\ thread[t] \in ThreadStates
  BY <1>2
<1>11. r \in ThreadStates
  <2>1. CASE ps = <<>>
    BY <2>1, BackFacts
  <2>2. CASE ps # <<>>
    <3> DEFINE q == [thread[t] EXCEPT !.pc = "created", !.child = c]
    <3>1. r = q
      BY <2>2
    <3> HIDE DEF c
    <3>2. q \in ThreadStates
      BY <1>8, <1>10 DEF ThreadStates, Pcs
    <3> QED BY <3>1, <3>2
  <2> QED BY <2>1, <2>2
<1>12. ps # <<>> => /\ r.pc = "created" /\ r.ctx = thread[t].ctx /\ r.child = c /\ r.locked = locked
                    /\ r.new = thread[t].new /\ r.want = thread[t].want
  BY <1>10 DEF ThreadStates
<1>13. ps = <<>> => r = Back(t)
  OBVIOUS
<1>14. /\ DOMAIN lh = 1..c /\ lh[c] = <<Created(ps)>>
       /\ \A p \in locked : lh[p] = Append(log[p], ChildCreated(c))
       /\ \A p \in CtxIds \ locked : lh[p] = log[p]
  <2>1. c \in 1..c /\ locked \subseteq 1..c /\ c \notin locked
    BY <1>2, <1>3, <1>8
  <2> HIDE DEF c, ps, locked
  <2>2. DOMAIN lh = 1..c /\ lh[c] = <<Created(ps)>>
    BY <2>1
  <2>3. \A p \in locked : lh[p] = Append(log[p], ChildCreated(c))
    BY <2>1
  <2>4. \A p \in CtxIds \ locked : lh[p] = log[p]
    BY <1>8
  <2> QED BY <2>2, <2>3, <2>4
<1>15. Created(ps) \in Entries /\ Created(ps).type = "created" /\ Created(ps).parents = ps
       /\ ChildCreated(c) \in Entries /\ ChildCreated(c).type = "child" /\ ChildCreated(c).ctx = c
  BY <1>5, <1>8, EntryTypes
<1> HIDE DEF r, ps, s0, c, lh, locked
<1>16. /\ lh \in Seq(Seq(Entries)) /\ Len(lh) = c
       /\ \A p \in CtxIds : Grown(log[p], lh[p]) /\ lh[p] # <<>>
  <2>1. ASSUME NEW p \in CtxIds PROVE Grown(log[p], lh[p]) /\ lh[p] # <<>> /\ lh[p] \in Seq(Entries)
    <3>1. CASE p \in locked
      BY <1>9, <1>14, <1>15, <3>1, GrownByOne
    <3>2. CASE p \notin locked
      <4>1. Grown(log[p], log[p])
        BY <1>9 DEF Grown
      <4> QED BY <1>9, <1>14, <3>2, <4>1
    <3> QED BY <3>1, <3>2
  <2>2. lh[c] \in Seq(Entries)
    BY <1>14, <1>15
  <2>3. \A p \in 1..c : lh[p] \in Seq(Entries)
    BY <1>8, <2>1, <2>2
  <2>4. lh = [p \in 1..c |-> lh[p]]
    BY DEF lh
  <2>5. lh \in Seq(Seq(Entries)) /\ Len(lh) = c
    BY <1>8, <2>3, <2>4
  <2> QED BY <2>1, <2>5
<1>17. CtxIds' = 1..c /\ CtxIds' = CtxIds \cup {c}
  <2>1. CtxIds' = 1..c
    BY <1>1, <1>16 DEF CtxIds
  <2> QED BY <1>8, <2>1, Zenon
<1>18. /\ mem' \in [1..c -> AnyState] /\ mem'[c] = s0 /\ \A p \in CtxIds : mem'[p] = mem[p]
  <2>1. ASSUME NEW n \in Nat, NEW m \in [1..n -> AnyState], NEW s \in AnyState
        PROVE  /\ Append(m, s) \in [1..(n + 1) -> AnyState] /\ Append(m, s)[n + 1] = s
               /\ \A p \in 1..n : Append(m, s)[p] = m[p]
    <3>1. m \in Seq(AnyState) /\ Len(m) = n
      OBVIOUS
    <3> DEFINE a == Append(m, s)
    <3>2. a \in Seq(AnyState) /\ Len(a) = n + 1 /\ a[n + 1] = s /\ \A p \in 1..n : a[p] = m[p]
      BY <3>1
    <3> HIDE DEF a
    <3>3. a \in [1..(n + 1) -> AnyState]
      BY <3>2
    <3> QED BY <3>2, <3>3 DEF a
  <2>2. mem \in [1..Len(log) -> AnyState]
    BY <1>2
  <2>3. /\ Append(mem, s0) \in [1..(Len(log) + 1) -> AnyState] /\ Append(mem, s0)[Len(log) + 1] = s0
        /\ \A p \in 1..Len(log) : Append(mem, s0)[p] = mem[p]
    BY <1>2, <1>6, <2>1, <2>2
  <2> QED BY <1>1, <1>2, <2>3 DEF c
<1>19. thread'[t] = r /\ (\A u \in Threads : u # t => thread'[u] = thread[u]) /\ thread' \in [Threads -> ThreadStates]
  BY <1>1, <1>2, <1>11
<1>20. given \subseteq given' /\ given' \subseteq given \cup {c} /\ (c \in given' <=> ps = <<>>)
  BY <1>1, <1>2, <1>8
<1>21. r.pc # "logged" /\ Holds(t)' \subseteq Holds(t) /\ (thread'[t].pc = "created" => ps # <<>> /\ thread'[t].child = c)
  <2>1. CASE ps = <<>>
    <3>1. Holds(t)' \subseteq Holds(t)
      BY <1>13, <1>19, <2>1, BackFacts DEF Holds, Owns
    <3> QED BY <1>13, <1>19, <2>1, <3>1, BackFacts
  <2>2. CASE ps # <<>>
    BY <1>12, <1>19, <2>2 DEF Holds, locked
  <2> QED BY <2>1, <2>2
<1>22. Typed'
  <2>1. \A p \in 1..c : lh[p] # <<>>
    <3>1. lh[c] # <<>>
      BY <1>14
    <3> QED BY <1>8, <1>16, <3>1
  <2>2. given' \subseteq 1..c
    BY <1>2, <1>8, <1>17, <1>20
  <2> QED BY <1>1, <1>16, <1>17, <1>18, <1>19, <2>1, <2>2 DEF IInv, Typed
<1>23. AtWork'
  <2> SUFFICES ASSUME NEW u \in Threads
               PROVE  /\ thread'[u].ctx \in {0} \cup given'
                      /\ thread'[u].pc \in {"in", "logged"} => thread'[u].ctx # 0
                      /\ \A i \in DOMAIN thread'[u].want : thread'[u].want[i] \in given'
                      /\ thread'[u].locked \subseteq given'
                      /\ thread'[u].new.parents # <<>> => thread'[u].pc = "logged"
                      /\ thread'[u].child \in {0} \cup CtxIds'
                      /\ thread'[u].pc = "logged" => thread'[u].new.parents = mem'[thread'[u].ctx].parents
                      /\ thread'[u].pc = "created" => /\ thread'[u].child \in CtxIds' \ given'
                                                      /\ ~mem'[thread'[u].child].done
    BY DEF AtWork
  <2>1. CASE u # t
    <3>1. thread'[u] = thread[u]
      BY <1>19, <2>1
    <3>2. thread[u].ctx \in {0} \cup given /\ (thread[u].pc = "logged" => thread[u].ctx \in CtxIds)
          /\ (thread[u].pc = "created" => thread[u].child \in CtxIds \ given /\ thread[u].child \notin given')
      BY <1>8, <1>20, ThreadFacts DEF IInv, AtWork
    <3> QED BY <1>17, <1>18, <1>20, <3>1, <3>2 DEF IInv, AtWork
  <2>2. CASE u = t /\ ps = <<>>
    <3>1. thread'[u] = Back(t)
      BY <1>13, <1>19, <2>2
    <3>2. \A i \in DOMAIN Back(t).want : Back(t).want[i] \in given'
      BY BackFacts
    <3>3. thread[t].ctx \in {0} \cup given'
      BY <1>20 DEF IInv, AtWork
    <3> QED BY <3>1, <3>2, <3>3, BackFacts
  <2>3. CASE u = t /\ ps # <<>>
    <3>1. thread'[u] = r
      BY <1>19, <2>3
    <3> QED BY <1>1, <1>3, <1>6, <1>12, <1>17, <1>18, <1>20, <2>3, <3>1 DEF IInv, AtWork
  <2> QED BY <2>1, <2>2, <2>3
<1>24. Exclusive'
  <2>1. \A u \in Threads : Holds(u)' \subseteq Holds(u)
    BY <1>19, <1>21 DEF Holds
  <2>2. ASSUME NEW u \in Threads, NEW v \in Threads, u # v PROVE Holds(u)' \cap Holds(v)' = {}
    BY <2>1, <2>2 DEF IInv, Exclusive
  <2>3. ASSUME NEW u \in Threads, u # t, thread'[u].pc = "created"
        PROVE  thread[u].pc = "created" /\ thread'[u].child = thread[u].child /\ thread'[u].child # c
    BY <1>8, <1>19, <2>3 DEF IInv, AtWork
  <2>4. ASSUME NEW u \in Threads, NEW v \in Threads, u # v, thread'[u].pc = "created", thread'[v].pc = "created"
        PROVE  thread'[u].child # thread'[v].child
    BY <1>21, <2>3, <2>4 DEF IInv, Exclusive
  <2> QED BY <2>2, <2>4 DEF Exclusive
<1>25. OnlyCreated'
  <2> SUFFICES ASSUME NEW d \in CtxIds', d \notin given'
               PROVE  \E q \in Seq(Nat) : q # <<>> /\ lh[d] = <<Created(q)>>
    BY <1>1 DEF OnlyCreated
  <2>1. CASE d = c
    BY <1>5, <1>14, <1>20, <2>1
  <2>2. CASE d # c
    <3>1. d \in CtxIds \ given /\ d \notin locked
      BY <1>3, <1>17, <1>20, <2>2
    <3> QED BY <1>14, <3>1 DEF IInv, OnlyCreated
  <2> QED BY <2>1, <2>2
<1>26. LogsWellFormed'
  <2> SUFFICES ASSUME NEW p \in CtxIds' PROVE WellFormedLog(lh[p])
    BY <1>1 DEF LogsWellFormed
  <2>1. CASE p = c
    <3>1. Len(<<Created(ps)>>) = 1 /\ DOMAIN <<Created(ps)>> = {1} /\ <<Created(ps)>>[1] = Created(ps)
      OBVIOUS
    <3>2. WellFormedLog(<<Created(ps)>>)
      BY <1>15, <3>1 DEF WellFormedLog
    <3> QED BY <1>14, <2>1, <3>2
  <2>2. CASE p \in locked
    <3>1. p \in CtxIds /\ WellFormedLog(log[p])
      BY <1>2, <1>3, <2>2 DEF IInv, LogsWellFormed
    <3>2. ChildCreated(c).type \notin {"created", "initialized"}
      BY <1>15
    <3> QED BY <1>7, <1>9, <1>14, <1>15, <2>2, <3>1, <3>2, WellFormedAppend
  <2>3. CASE p # c /\ p \notin locked
    BY <1>14, <1>17, <2>3 DEF IInv, LogsWellFormed
  <2> QED BY <2>1, <2>2, <2>3
<1>27. \A p \in given : Rebuild(lh[p]) = Rebuild(log[p])
  <2> SUFFICES ASSUME NEW p \in given PROVE Rebuild(lh[p]) = Rebuild(log[p])
    OBVIOUS
  <2>1. p \in CtxIds
    BY <1>2
  <2>2. CASE p \in locked
    <3>1. Rebuild(lh[p]) = Recovered(Rebuild(log[p]), ChildCreated(c))
      BY <1>9, <1>14, <1>15, <2>1, <2>2, RebuildAppend
    <3>2. Rebuild(log[p]) \in AnyState
      BY <1>2, <1>7, <2>1, <2>2
    <3> QED BY <1>8, <3>1, <3>2, RecoveredBy
  <2>3. CASE p \notin locked
    BY <1>14, <2>1, <2>3
  <2> QED BY <2>2, <2>3
<1>28. \A u \in Threads : /\ thread'[u].pc = "logged" <=> thread[u].pc = "logged"
                          /\ thread'[u].pc = "logged" => thread'[u] = thread[u] /\ thread[u].ctx \in given
  <2> SUFFICES ASSUME NEW u \in Threads
               PROVE  /\ thread'[u].pc = "logged" <=> thread[u].pc = "logged"
                      /\ thread'[u].pc = "logged" => thread'[u] = thread[u] /\ thread[u].ctx \in given
    OBVIOUS
  <2>1. CASE u = t
    BY <1>1, <1>19, <1>21, <2>1
  <2>2. CASE u # t
    BY <1>19, <2>2 DEF IInv, AtWork
  <2> QED BY <2>1, <2>2
<1>29. LogRebuildsMemory'
  <2> SUFFICES ASSUME NEW d \in given', \A u \in Threads : thread'[u].pc = "logged" => thread'[u].ctx # d
               PROVE  Rebuild(lh[d]) = Settled(mem'[d])
    BY <1>1 DEF LogRebuildsMemory
  <2>1. CASE d = c
    <3>1. ps = <<>> /\ mem'[d] = New
      BY <1>6, <1>18, <1>20, <2>1
    <3>2. Rebuild(lh[d]) = New
      BY <1>5, <1>14, <2>1, RebuildCreation
    <3> QED BY <3>1, <3>2, StateTypes DEF Settled
  <2>2. CASE d # c
    <3>1. d \in given /\ d \in CtxIds
      BY <1>2, <1>20, <2>2
    <3>2. \A u \in Threads : thread[u].pc = "logged" => thread[u].ctx # d
      BY <1>28
    <3> QED BY <1>18, <1>27, <3>1, <3>2 DEF IInv, LogRebuildsMemory
  <2> QED BY <2>1, <2>2
<1>30. LogRebuildsChange'
  BY <1>1, <1>27, <1>28 DEF IInv, LogRebuildsChange
<1>31. NotedOnce'
  <2> SUFFICES ASSUME NEW p \in CtxIds', NEW i \in DOMAIN lh[p], lh[p][i].type = "child"
               PROVE  lh[p][i].ctx \in CtxIds' /\ \A j \in DOMAIN lh[p] : lh[p][j] = lh[p][i] => j = i
    BY <1>1 DEF NotedOnce
  <2>1. CASE p = c
    <3>1. DOMAIN <<Created(ps)>> = {1} /\ <<Created(ps)>>[1] = Created(ps)
      OBVIOUS
    <3> QED BY <1>14, <1>15, <2>1, <3>1
  <2>2. CASE p # c /\ p \notin locked
    BY <1>14, <1>17, <2>2 DEF IInv, NotedOnce
  <2>3. CASE p \in locked
    <3> DEFINE l == log[p]
               m == lh[p]
               k == Len(l)
    <3>1. p \in CtxIds /\ l \in Seq(Entries) /\ m = Append(l, ChildCreated(c))
      BY <1>2, <1>3, <1>9, <1>14, <2>3
    <3>2. k \in Nat /\ DOMAIN l = 1..k /\ DOMAIN m = 1..(k + 1) /\ m[k + 1] = ChildCreated(c) /\ \A j \in 1..k : m[j] = l[j]
      <4> HIDE DEF l, m
      <4> QED BY <3>1
    <3>3. \A x \in DOMAIN l : l[x].type = "child" => l[x].ctx \in CtxIds /\ \A j \in DOMAIN l : l[j] = l[x] => j = x
      BY <3>1 DEF IInv, NotedOnce
    <3> HIDE DEF l, m, k
    <3>4. m[i].type = "child" /\ i \in DOMAIN m
      BY DEF m
    <3>5. \A j \in 1..k : m[j] # ChildCreated(c)
      BY <1>8, <1>15, <3>2, <3>3
    <3>6. CASE i = k + 1
      BY <1>15, <1>17, <3>2, <3>5, <3>6 DEF m
    <3>7. CASE i # k + 1
      <4>1. i \in 1..k /\ m[i] = l[i]
        BY <3>2, <3>4, <3>7
      <4>2. m[i].ctx \in CtxIds /\ \A j \in DOMAIN m : m[j] = m[i] => j = i
        BY <3>2, <3>3, <3>4, <3>5, <4>1
      <4> QED BY <1>17, <4>2 DEF m
    <3> QED BY <3>6, <3>7
  <2> QED BY <1>17, <2>1, <2>2, <2>3
<1>32. SnapshotsRight'
  <2> SUFFICES ASSUME NEW d \in CtxIds', NEW i \in DOMAIN mem'[d].parents
               PROVE  SnapshotIn(lh, d, mem'[d].parents[i])
    BY <1>1 DEF SnapshotsRight
  <2>1. CASE d # c
    <3>1. d \in CtxIds /\ mem'[d] = mem[d]
      BY <1>17, <1>18, <2>1
    <3>2. SnapshotIn(log, d, mem[d].parents[i])
      BY <3>1 DEF IInv, SnapshotsRight
    <3>3. Len(log) <= Len(lh)
      BY <1>2, <1>16 DEF c
    <3>4. \A p \in 1..Len(log) : Grown(log[p], lh[p])
      BY <1>2, <1>16
    <3> QED BY <1>2, <1>16, <3>1, <3>2, <3>3, <3>4, SnapshotKept
  <2>2. CASE d = c
    <3> DEFINE p == ps[i]
               l == log[p]
               j == Len(l) + 1
    <3>1. i \in DOMAIN ps /\ mem'[d].parents[i] = Snapshot(p) /\ p \in locked
      BY <1>5, <1>6, <1>18, <2>2
    <3>2. p \in CtxIds /\ l \in Seq(Entries) /\ lh[p] = Append(l, ChildCreated(c)) /\ Rebuild(l) = mem[p]
      BY <1>2, <1>3, <1>7, <1>9, <1>14, <3>1
    <3> HIDE DEF p, l
    <3>3. j \in DOMAIN lh[p] /\ lh[p][j] = ChildCreated(c) /\ SubSeq(lh[p], 1, j - 1) = l
      <4>1. Len(l) \in Nat /\ j - 1 = Len(l) /\ SubSeq(lh[p], 1, Len(l)) = l /\ lh[p][Len(l) + 1] = ChildCreated(c)
            /\ lh[p] \in Seq(Entries) /\ Len(lh[p]) = Len(l) + 1
        BY <1>15, <3>2, GrownByOne
      <4> QED BY <4>1
    <3>4. Snapshot(p).ctx = p /\ Snapshot(p).payload = mem[p].payload /\ Snapshot(p).data = mem[p].data
      BY DEF Snapshot
    <3>5. p \in DOMAIN lh
      BY <1>8, <1>14, <3>2
    <3> HIDE DEF j
    <3>6. SnapshotIn(lh, c, Snapshot(p))
      BY <3>2, <3>3, <3>4, <3>5 DEF SnapshotIn, l
    <3> QED BY <2>2, <3>1, <3>6 DEF p
  <2> QED BY <2>1, <2>2
<1> QED BY <1>22, <1>23, <1>24, <1>25, <1>26, <1>29, <1>30, <1>31, <1>32 DEF IInv

\* The child's initial state is logged, and it can be handed out.
LEMMA InitializeContextStep ==
  ASSUME IInv, NEW t \in Threads, InitializeContext(t)
  PROVE  IInv'
<1> DEFINE c == thread[t].child
           e == Initialized(mem[c])
           r == Back(t)
<1>1. /\ thread[t].pc = "created"
      /\ log' = [log EXCEPT ![c] = Append(log[c], e)] /\ thread' = [thread EXCEPT ![t] = r]
      /\ given' = given \cup {c} /\ mem' = mem /\ crashes' = crashes
  BY DEF InitializeContext
<1>2. /\ thread \in [Threads -> ThreadStates] /\ mem \in [CtxIds -> AnyState] /\ log \in Seq(Seq(Entries))
      /\ Len(log) \in Nat /\ CtxIds = 1..Len(log) /\ given \subseteq CtxIds /\ DOMAIN log = CtxIds
  BY DEF IInv, Typed, CtxIds
<1>3. c \in CtxIds /\ c \notin given /\ ~mem[c].done
  BY <1>1 DEF IInv, AtWork
<1>4. mem[c] \in AnyState /\ mem[c].done = FALSE
  <2>1. mem[c] \in AnyState
    BY <1>2, <1>3
  <2> QED BY <1>3, <2>1 DEF AnyState
<1>5. PICK ps \in Seq(Nat) : ps # <<>> /\ log[c] = <<Created(ps)>>
  BY <1>3 DEF IInv, OnlyCreated
<1>6. e \in Entries /\ e.type = "initialized" /\ Created(ps) \in Entries /\ Created(ps).type = "created" /\ Created(ps).parents = ps
  BY <1>4, <1>5, EntryTypes
<1>7. /\ r \in ThreadStates /\ r.pc # "logged" /\ r.pc # "created" /\ Owns(r) \subseteq Holds(t)
      /\ r.ctx \in {0} \cup given /\ (r.pc = "in" => r.ctx # 0) /\ (\A i \in DOMAIN r.want : r.want[i] \in given)
      /\ r.locked \subseteq given /\ r.new.parents = <<>> /\ r.child \in {0} \cup CtxIds
  <2>1. thread[t].ctx \in {0} \cup given
    BY DEF IInv, AtWork
  <2>2. \A i \in DOMAIN r.want : r.want[i] \in given
    BY BackFacts
  <2> QED BY <2>1, <2>2, BackFacts
<1> HIDE DEF c, e, r
<1>8. \A p \in CtxIds : log[p] \in Seq(Entries) /\ log[p] # <<>>
  BY <1>2 DEF IInv, Typed
<1>9. /\ log'[c] = Append(log[c], e) /\ (\A p \in CtxIds : p # c => log'[p] = log[p])
      /\ Len(log') = Len(log) /\ log' \in Seq(Seq(Entries)) /\ CtxIds' = CtxIds
  <2>1. Append(log[c], e) \in Seq(Entries)
    BY <1>3, <1>6, <1>8, GrownByOne
  <2> QED BY <1>1, <1>2, <1>3, <2>1 DEF CtxIds
<1>10. \A p \in CtxIds : Grown(log[p], log'[p]) /\ log'[p] # <<>>
  <2> SUFFICES ASSUME NEW p \in CtxIds PROVE Grown(log[p], log'[p]) /\ log'[p] # <<>>
    OBVIOUS
  <2>1. CASE p = c
    <3>1. Grown(log[c], Append(log[c], e)) /\ Append(log[c], e) # <<>>
      BY <1>3, <1>6, <1>8, GrownByOne
    <3> QED BY <1>9, <2>1, <3>1
  <2>2. CASE p # c
    <3>1. Grown(log[p], log[p])
      BY <1>8 DEF Grown
    <3> QED BY <1>8, <1>9, <2>2, <3>1
  <2> QED BY <2>1, <2>2
<1>11. thread'[t] = r /\ (\A u \in Threads : u # t => thread'[u] = thread[u]) /\ thread' \in [Threads -> ThreadStates]
  BY <1>1, <1>2, <1>7
<1>12. log'[c] = <<Created(ps), e>>
  <2>1. ASSUME NEW x, NEW y PROVE Append(<<x>>, y) = <<x, y>>
    <3> DEFINE a == Append(<<x>>, y)
               b == <<x, y>>
    <3>1. a \in Seq({x, y}) /\ Len(a) = 2 /\ a[1] = x /\ a[2] = y
      OBVIOUS
    <3>2. b \in Seq({x, y}) /\ Len(b) = 2 /\ b[1] = x /\ b[2] = y
      OBVIOUS
    <3> HIDE DEF a, b
    <3>3. \A i \in 1..Len(a) : a[i] = b[i]
      BY <3>1, <3>2
    <3>4. a = b
      BY <3>1, <3>2, <3>3, SeqEqual
    <3> QED BY <3>4 DEF a, b
  <2>2. log'[c] = Append(<<Created(ps)>>, e)
    BY <1>5, <1>9
  <2> QED BY <2>1, <2>2
<1>13. Typed'
  BY <1>1, <1>2, <1>3, <1>9, <1>10, <1>11 DEF IInv, Typed
<1>14. AtWork'
  <2> SUFFICES ASSUME NEW u \in Threads
               PROVE  /\ thread'[u].ctx \in {0} \cup given'
                      /\ thread'[u].pc \in {"in", "logged"} => thread'[u].ctx # 0
                      /\ \A i \in DOMAIN thread'[u].want : thread'[u].want[i] \in given'
                      /\ thread'[u].locked \subseteq given'
                      /\ thread'[u].new.parents # <<>> => thread'[u].pc = "logged"
                      /\ thread'[u].child \in {0} \cup CtxIds
                      /\ thread'[u].pc = "logged" => thread'[u].new.parents = mem[thread'[u].ctx].parents
                      /\ thread'[u].pc = "created" => /\ thread'[u].child \in CtxIds \ given'
                                                      /\ ~mem[thread'[u].child].done
    BY <1>1, <1>9 DEF AtWork
  <2>1. CASE u = t
    BY <1>1, <1>7, <1>11, <2>1
  <2>2. CASE u # t
    <3>1. thread'[u] = thread[u]
      BY <1>11, <2>2
    <3>2. thread[u].pc = "created" => thread[u].child # c
      BY <1>1, <2>2 DEF IInv, Exclusive, c
    <3> QED BY <1>1, <3>1, <3>2 DEF IInv, AtWork
  <2> QED BY <2>1, <2>2
<1>15. Exclusive'
  <2>1. \A u \in Threads : Holds(u)' \subseteq Holds(u)
    BY <1>7, <1>11 DEF Holds, Owns
  <2>2. \A u \in Threads : thread'[u].pc = "created" => thread[u].pc = "created" /\ thread'[u].child = thread[u].child
    BY <1>7, <1>11
  <2>3. ASSUME NEW u \in Threads, NEW v \in Threads, u # v PROVE Holds(u)' \cap Holds(v)' = {}
    BY <2>1, <2>3 DEF IInv, Exclusive
  <2> QED BY <2>2, <2>3 DEF IInv, Exclusive
<1>16. OnlyCreated'
  BY <1>1, <1>9 DEF IInv, OnlyCreated
<1>17. LogsWellFormed'
  <2> DEFINE m == <<Created(ps), e>>
  <2>1. Len(m) = 2 /\ DOMAIN m = {1, 2} /\ m[1] = Created(ps) /\ m[2] = e
    OBVIOUS
  <2> HIDE DEF m
  <2>2. WellFormedLog(m)
    BY <1>5, <1>6, <2>1 DEF WellFormedLog
  <2>3. WellFormedLog(log'[c])
    BY <1>12, <2>2 DEF m
  <2> QED BY <1>9, <2>3 DEF IInv, LogsWellFormed
<1>18. \A u \in Threads : /\ thread'[u].pc = "logged" <=> thread[u].pc = "logged"
                          /\ thread'[u].pc = "logged" => thread'[u] = thread[u] /\ thread[u].ctx \in given
  <2> SUFFICES ASSUME NEW u \in Threads
               PROVE  /\ thread'[u].pc = "logged" <=> thread[u].pc = "logged"
                      /\ thread'[u].pc = "logged" => thread'[u] = thread[u] /\ thread[u].ctx \in given
    OBVIOUS
  <2>1. CASE u = t
    BY <1>1, <1>7, <1>11, <2>1
  <2>2. CASE u # t
    BY <1>11, <2>2 DEF IInv, AtWork
  <2> QED BY <2>1, <2>2
<1>19. LogRebuildsMemory'
  <2> SUFFICES ASSUME NEW d \in given', \A u \in Threads : thread'[u].pc = "logged" => thread'[u].ctx # d
               PROVE  Rebuild(log'[d]) = Settled(mem[d])
    BY <1>1 DEF LogRebuildsMemory
  <2>1. CASE d = c
    <3>2. Rebuild(<<Created(ps)>>) = New
      BY RebuildCreation
    <3>3. Rebuild(log'[c]) = Recovered(New, e)
      BY <1>3, <1>5, <1>6, <1>8, <1>9, <3>2, RebuildAppend
    <3>4. Recovered(New, e) = mem[c]
      BY <1>4, StateTypes, RecoveredBy DEF e
    <3> QED BY <1>4, <2>1, <3>3, <3>4 DEF Settled
  <2>2. CASE d # c
    <3>1. d \in given /\ d \in CtxIds
      BY <1>1, <1>2, <2>2
    <3>2. \A u \in Threads : thread[u].pc = "logged" => thread[u].ctx # d
      BY <1>18
    <3> QED BY <1>9, <2>2, <3>1, <3>2 DEF IInv, LogRebuildsMemory
  <2> QED BY <2>1, <2>2
<1>20. LogRebuildsChange'
  <2> SUFFICES ASSUME NEW u \in Threads, thread'[u].pc = "logged"
               PROVE  Rebuild(log'[thread'[u].ctx]) = Settled(thread'[u].new)
    BY DEF LogRebuildsChange
  <2>1. thread'[u] = thread[u] /\ thread[u].ctx \in CtxIds /\ thread[u].ctx # c
    BY <1>2, <1>3, <1>18
  <2> QED BY <1>9, <1>18, <2>1 DEF IInv, LogRebuildsChange
<1>21. NotedOnce'
  <2> SUFFICES ASSUME NEW p \in CtxIds, NEW i \in DOMAIN log'[p], log'[p][i].type = "child"
               PROVE  log'[p][i].ctx \in CtxIds /\ \A j \in DOMAIN log'[p] : log'[p][j] = log'[p][i] => j = i
    BY <1>9 DEF NotedOnce
  <2>1. CASE p # c
    BY <1>9, <2>1 DEF IInv, NotedOnce
  <2>2. CASE p = c
    <3>1. DOMAIN <<Created(ps), e>> = {1, 2} /\ <<Created(ps), e>>[1] = Created(ps) /\ <<Created(ps), e>>[2] = e
      OBVIOUS
    <3> QED BY <1>6, <1>12, <2>2, <3>1
  <2> QED BY <2>1, <2>2
<1>22. SnapshotsRight'
  <2> SUFFICES ASSUME NEW d \in CtxIds, NEW i \in DOMAIN mem[d].parents
               PROVE  SnapshotIn(log', d, mem[d].parents[i])
    BY <1>1, <1>9 DEF SnapshotsRight
  <2>1. SnapshotIn(log, d, mem[d].parents[i])
    BY DEF IInv, SnapshotsRight
  <2>2. Len(log) <= Len(log')
    BY <1>2, <1>9
  <2>3. \A p \in 1..Len(log) : Grown(log[p], log'[p])
    BY <1>2, <1>10
  <2> QED BY <1>2, <1>9, <2>1, <2>2, <2>3, SnapshotKept
<1> QED BY <1>13, <1>14, <1>15, <1>16, <1>17, <1>19, <1>20, <1>21, <1>22 DEF IInv

----------------------------------------------------------------------------
(* Crash and recovery *)

\* A recovery makes of a context that was handed out the memory it had or was about
\* to have, and nothing of the others.
LEMMA RebuiltContext ==
  ASSUME IInv, NEW c \in CtxIds
  PROVE  /\ Rebuild(log[c]) \in AnyState /\ Rebuild(log[c]) = Settled(Rebuild(log[c]))
         /\ Rebuild(log[c]).parents = mem[c].parents \/ Rebuild(log[c]).parents = <<>>
<1>1. mem[c] \in AnyState
  BY DEF IInv, Typed
<1>2. ASSUME NEW s \in AnyState
      PROVE  /\ Settled(s) \in AnyState /\ Settled(Settled(s)) = Settled(s)
             /\ Settled(s).parents = s.parents \/ Settled(s).parents = <<>>
  BY StateTypes DEF Settled
<1>3. CASE c \notin given
  <2>1. PICK ps \in Seq(Nat) : log[c] = <<Created(ps)>>
    BY <1>3 DEF IInv, OnlyCreated
  <2>3. Rebuild(log[c]) = New
    BY <2>1, RebuildCreation
  <2> QED BY <2>3, StateTypes DEF Settled
<1>4. CASE c \in given /\ \A t \in Threads : thread[t].pc = "logged" => thread[t].ctx # c
  <2>1. Rebuild(log[c]) = Settled(mem[c])
    BY <1>4 DEF IInv, LogRebuildsMemory
  <2> QED BY <1>1, <1>2, <2>1
<1>5. CASE \E t \in Threads : thread[t].pc = "logged" /\ thread[t].ctx = c
  <2>1. PICK t \in Threads : thread[t].pc = "logged" /\ thread[t].ctx = c
    BY <1>5
  <2>2. thread[t].new \in AnyState /\ thread[t].new.parents = mem[c].parents
    BY <2>1, ThreadFacts DEF IInv, AtWork
  <2>3. Rebuild(log[c]) = Settled(thread[t].new)
    BY <2>1 DEF IInv, LogRebuildsChange
  <2> QED BY <1>2, <2>2, <2>3
<1> QED BY <1>3, <1>4, <1>5

\* Recovery rebuilds every log.
LEMMA CrashAndRecoverStep ==
  ASSUME IInv, CrashAndRecover
  PROVE  IInv'
<1>1. /\ crashes < MaxCrashes /\ crashes' = crashes + 1 /\ thread' = [t \in Threads |-> Outside]
      /\ mem' = [c \in CtxIds |-> Rebuild(log[c])] /\ log' = log /\ given' = given /\ CtxIds' = CtxIds
  BY DEF CrashAndRecover, CtxIds
<1>2. \A t \in Threads : thread'[t] = Outside
  BY <1>1
<1>3. \A c \in CtxIds : mem'[c] = Rebuild(log[c])
  BY <1>1
<1>4. Typed'
  <2>1. crashes' \in 0..MaxCrashes
    BY <1>1, ContextStoreAssumption DEF IInv, Typed
  <2>2. mem' \in [CtxIds -> AnyState]
    BY <1>1, RebuiltContext
  <2>3. thread' \in [Threads -> ThreadStates]
    BY <1>1, OutsideFacts
  <2> QED BY <1>1, <2>1, <2>2, <2>3 DEF IInv, Typed
<1>5. AtWork'
  <2>1. \A i \in DOMAIN Outside.want : Outside.want[i] \in given'
    BY OutsideFacts
  <2> QED BY <1>2, <2>1, OutsideFacts DEF AtWork
<1>6. Exclusive'
  BY <1>2, OutsideFacts DEF Exclusive, Holds
<1>7. OnlyCreated' /\ LogsWellFormed' /\ NotedOnce'
  BY <1>1 DEF IInv, OnlyCreated, LogsWellFormed, NotedOnce
<1>8. LogRebuildsMemory'
  <2>1. \A d \in given : Rebuild(log[d]) = Settled(mem'[d])
    BY <1>3, RebuiltContext DEF IInv, Typed
  <2> QED BY <1>1, <2>1 DEF LogRebuildsMemory
<1>9. LogRebuildsChange'
  BY <1>2, OutsideFacts DEF LogRebuildsChange
<1>10. SnapshotsRight'
  <2> SUFFICES ASSUME NEW d \in CtxIds, NEW i \in DOMAIN mem'[d].parents
               PROVE  SnapshotIn(log, d, mem'[d].parents[i])
    BY <1>1 DEF SnapshotsRight
  <2>1. mem'[d].parents = mem[d].parents \/ mem'[d].parents = <<>>
    BY <1>3, RebuiltContext
  <2>2. mem'[d].parents = mem[d].parents
    BY <2>1
  <2> QED BY <2>2 DEF IInv, SnapshotsRight
<1> QED BY <1>4, <1>5, <1>6, <1>7, <1>8, <1>9, <1>10 DEF IInv

----------------------------------------------------------------------------
(* The theorems *)

\* Every step keeps the invariant.
LEMMA IInvStep ==
  IInv /\ [Next]_vars => IInv'
<1> SUFFICES ASSUME IInv, [Next]_vars PROVE IInv'
  OBVIOUS
<1>1. CASE \E t \in Threads : Proceed(t)
  <2>1. PICK t \in Threads : Proceed(t)
    BY <1>1
  <2> QED BY <2>1, ReleaseStep, UpdateMemoryStep, LockParentStep, CreateContextStep, RefuseCreateStep,
             InitializeContextStep DEF Proceed
<1>2. CASE \E t \in Threads : Change(t)
  BY <1>2, ChangeStep
<1>3. CASE \E t \in Threads : \E c \in given : GetContext(t, c)
  BY <1>3, GetContextStep
<1>4. CASE \E t \in Threads : \E ps \in ParentLists : StartCreate(t, ps)
  BY <1>4, StartCreateStep
<1>5. CASE CrashAndRecover
  BY <1>5, CrashAndRecoverStep
<1>6. CASE UNCHANGED vars
  <2>1. log' = log /\ mem' = mem /\ thread' = thread /\ given' = given /\ crashes' = crashes
    BY <1>6 DEF vars
  <2>2. CtxIds' = CtxIds /\ \A t \in Threads : Holds(t)' = Holds(t)
    BY <2>1 DEF CtxIds, Holds
  <2>3. Typed' /\ AtWork' /\ Exclusive'
    BY <2>1, <2>2 DEF IInv, Typed, AtWork, Exclusive
  <2>4. OnlyCreated' /\ LogsWellFormed' /\ NotedOnce' /\ SnapshotsRight'
    BY <2>1, <2>2 DEF IInv, OnlyCreated, LogsWellFormed, NotedOnce, SnapshotsRight
  <2>5. LogRebuildsMemory' /\ LogRebuildsChange'
    BY <2>1 DEF IInv, LogRebuildsMemory, LogRebuildsChange
  <2> QED BY <2>3, <2>4, <2>5 DEF IInv
<1> QED BY <1>1, <1>2, <1>3, <1>4, <1>5, <1>6 DEF Next

\* The invariant holds in every state.
LEMMA IInvAlways ==
  Spec => []IInv
<1>1. Init => IInv
  BY IInvInit
<1>2. IInv /\ [Next]_vars => IInv'
  BY IInvStep
<1> QED BY <1>1, <1>2, PTL DEF Spec

\* A state whose parents are contexts.
LEMMA StateWithParents ==
  ASSUME NEW s \in AnyState, s.parents \in Seq([ctx : CtxIds, payload : Data, data : Data])
  PROVE  s \in States
BY DEF AnyState, States, Data

\* The parents of a context are contexts.
LEMMA ParentsExist ==
  ASSUME IInv, NEW c \in CtxIds
  PROVE  mem[c] \in States
<1>1. mem[c] \in AnyState /\ DOMAIN log = CtxIds
  <2>1. mem[c] \in AnyState
    BY DEF IInv, Typed
  <2>2. log \in Seq(Seq(Entries))
    BY DEF IInv, Typed
  <2> QED BY <2>1, <2>2 DEF CtxIds
<1> DEFINE ps == mem[c].parents
           Here == [ctx : CtxIds, payload : Data, data : Data]
<1>2. ps \in Seq(Snapshots)
  BY <1>1 DEF AnyState
<1>3. \A i \in DOMAIN ps : ps[i].ctx \in CtxIds
  BY <1>1 DEF IInv, SnapshotsRight, SnapshotIn
<1>4. ps \in Seq(Here)
  <2> HIDE DEF ps
  <2>1. ASSUME NEW i \in 1..Len(ps) PROVE ps[i] \in Here
    <3>1. ps[i] \in Snapshots /\ ps[i].ctx \in CtxIds
      BY <1>2, <1>3
    <3> QED BY <3>1 DEF Snapshots
  <2>2. Len(ps) \in Nat /\ ps = [i \in 1..Len(ps) |-> ps[i]]
    BY <1>2
  <2> HIDE DEF Here
  <2> QED BY <2>1, <2>2
<1> QED BY <1>1, <1>4, StateWithParents

\* The invariant implies the types,
LEMMA TypeOKFromIInv ==
  IInv => TypeOK
<1> SUFFICES ASSUME IInv PROVE TypeOK
  OBVIOUS
<1>1. \A c \in CtxIds : mem[c] \in States
  BY ParentsExist
<1>2. ASSUME NEW t \in Threads
      PROVE  thread[t] \in [pc : Pcs, ctx : {0} \cup CtxIds, new : States, want : Seq(CtxIds),
                            locked : SUBSET CtxIds, child : {0} \cup CtxIds]
  <2>1. thread[t] \in ThreadStates
    BY ThreadFacts
  <2>2. /\ thread[t].ctx \in {0} \cup CtxIds /\ thread[t].locked \in SUBSET CtxIds /\ thread[t].child \in {0} \cup CtxIds
    BY ThreadFacts DEF IInv, AtWork
  <2>3. thread[t].want \in Seq(CtxIds)
    <3> DEFINE w == thread[t].want
    <3>1. w \in Seq(Nat) /\ \A i \in DOMAIN w : w[i] \in CtxIds
      BY ThreadFacts DEF IInv, AtWork
    <3> HIDE DEF w
    <3>2. Len(w) \in Nat /\ w = [i \in 1..Len(w) |-> w[i]] /\ \A i \in 1..Len(w) : w[i] \in CtxIds
      BY <3>1
    <3>3. w \in Seq(CtxIds)
      BY <3>2
    <3> QED BY <3>3 DEF w
  <2>4. thread[t].new \in States
    <3> DEFINE n == thread[t].new
    <3>1. n \in AnyState
      BY ThreadFacts
    <3>2. CASE n.parents = <<>>
      <4>1. n.parents \in Seq([ctx : CtxIds, payload : Data, data : Data])
        BY <3>2
      <4> QED BY <3>1, <4>1, StateWithParents
    <3>3. CASE n.parents # <<>>
      <4>1. thread[t].pc = "logged" /\ thread[t].ctx \in CtxIds /\ n.parents = mem[thread[t].ctx].parents
        BY <3>3, ThreadFacts DEF IInv, AtWork
      <4>2. mem[thread[t].ctx] \in States
        BY <4>1, ParentsExist
      <4>3. n.parents \in Seq([ctx : CtxIds, payload : Data, data : Data])
        BY <4>1, <4>2 DEF States, Data
      <4> QED BY <3>1, <4>3, StateWithParents
    <3> QED BY <3>2, <3>3
  <2> QED BY <2>1, <2>2, <2>3, <2>4 DEF ThreadStates
<1>3. thread \in [Threads -> [pc : Pcs, ctx : {0} \cup CtxIds, new : States, want : Seq(CtxIds),
                              locked : SUBSET CtxIds, child : {0} \cup CtxIds]]
  <2>1. thread \in [Threads -> ThreadStates]
    BY DEF IInv, Typed
  <2> QED BY <1>2, <2>1
<1> QED BY <1>1, <1>3 DEF IInv, Typed, TypeOK

\* that every log rebuilds the state its context is in or about to be in,
LEMMA RecoverableFromIInv ==
  IInv => RecoverableState
<1> SUFFICES ASSUME IInv PROVE RecoverableState
  OBVIOUS
<1>1. ASSUME NEW c \in given PROVE Rebuild(log[c]) = Settled(Target(c))
  <2> DEFINE Changing == {t \in Threads : thread[t].pc = "logged" /\ thread[t].ctx = c}
  <2>1. CASE Changing = {}
    <3>1. Target(c) = mem[c]
      BY <2>1 DEF Target
    <3> QED BY <2>1, <3>1 DEF IInv, LogRebuildsMemory
  <2>2. CASE Changing # {}
    <3> DEFINE u == CHOOSE t \in Threads : thread[t].pc = "logged" /\ thread[t].ctx = c
    <3>1. u \in Threads /\ thread[u].pc = "logged" /\ thread[u].ctx = c
      BY <2>2
    <3>2. Target(c) = thread[u].new
      BY <2>2 DEF Target
    <3> HIDE DEF u
    <3> QED BY <3>1, <3>2 DEF IInv, LogRebuildsChange
  <2> QED BY <2>1, <2>2
<1> QED BY <1>1 DEF RecoverableState, IInv, LogsWellFormed, Settled

\* and that snapshots are right at the only note of the creation.
LEMMA SnapshotFromIInv ==
  IInv => SnapshotIsParentAtCreation
<1> SUFFICES ASSUME IInv, NEW c \in given, NEW i \in DOMAIN mem[c].parents
             PROVE  LET s == mem[c].parents[i]
                        at == CHOOSE j \in DOMAIN log[s.ctx] : log[s.ctx][j] = ChildCreated(c)
                        parent == Rebuild(SubSeq(log[s.ctx], 1, at - 1))
                    IN s.payload = parent.payload /\ s.data = parent.data
  BY DEF SnapshotIsParentAtCreation
<1> DEFINE s == mem[c].parents[i]
           l == log[s.ctx]
           at == CHOOSE j \in DOMAIN l : l[j] = ChildCreated(c)
<1>1. c \in CtxIds /\ c \in Nat /\ DOMAIN log = CtxIds
  <2>1. given \subseteq CtxIds /\ log \in Seq(Seq(Entries))
    BY DEF IInv, Typed
  <2> QED BY <2>1 DEF CtxIds
<1>2. SnapshotIn(log, c, s)
  BY <1>1 DEF IInv, SnapshotsRight
<1>3. PICK j \in DOMAIN l : /\ l[j] = ChildCreated(c)
                            /\ s.payload = Rebuild(SubSeq(l, 1, j - 1)).payload
                            /\ s.data = Rebuild(SubSeq(l, 1, j - 1)).data
  BY <1>2 DEF SnapshotIn
<1>4. s.ctx \in CtxIds
  BY <1>1, <1>2 DEF SnapshotIn
<1>5. \A k \in DOMAIN l : l[k] = l[j] => k = j
  <2>1. l[j].type = "child"
    BY <1>1, <1>3, EntryTypes
  <2> QED BY <1>3, <1>4, <2>1 DEF IInv, NotedOnce
<1>6. at = j
  <2> HIDE DEF l
  <2> QED BY <1>3, <1>5
<1> QED BY <1>3, <1>6

\* Contexts, their logs and what threads do in them are of their types: no log is
\* empty, and the parents that a context remembers are contexts.
THEOREM TypeCorrect == Spec => []TypeOK
<1>1. IInv => TypeOK
  BY TypeOKFromIInv
<1> QED BY <1>1, IInvAlways, PTL

\* For any number of threads, contexts, changes and crashes: the log of a context
\* that was handed out rebuilds its memory at every moment between the steps of a
\* change, and recovery refuses no log (context_store.py:324-425).
THEOREM Recoverable == Spec => []RecoverableState
<1>1. IInv => RecoverableState
  BY RecoverableFromIInv
<1> QED BY <1>1, IInvAlways, PTL

\* A child's snapshot of each parent is the parent as the log has it at the note of
\* the child's creation, whatever is done to the parents by others before and
\* after, and across crashes (context_store.py:453-469).
THEOREM SnapshotsFaithful == Spec => []SnapshotIsParentAtCreation
<1>1. IInv => SnapshotIsParentAtCreation
  BY SnapshotFromIInv
<1> QED BY <1>1, IInvAlways, PTL
=============================================================================
