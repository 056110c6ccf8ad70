----------------------------- MODULE ContextStore -----------------------------
(***************************************************************************)
(* The context store: contexts in memory, a log of every change to each of *)
(* them in the persistence layer, a lock per context, and recovery of the  *)
(* memory from the logs.                                                   *)
(*                                                                         *)
(* A change is two steps: its entry is appended to the log, then the       *)
(* memory is updated.  Entries for payload and user data are deltas: they  *)
(* rebuild the new value only from the old value they were computed from.  *)
(* Creating a context is three: lock the parents, create it in the         *)
(* persistence layer (which also notes it in the parents' logs), append    *)
(* its initial data.  A crash may fall between any two steps.              *)
(*                                                                         *)
(* The persistence layer is assumed to survive a crash and to do each of   *)
(* its calls at once.  Contexts are numbered by creation, which is how     *)
(* their uuid7 ids sort.  User data is one key.                            *)
(***************************************************************************)
EXTENDS Naturals, FiniteSets, Sequences, SequencesExt

CONSTANTS Threads,
          Values,       \* payloads and user data
          NoValue,      \* None
          Corrupt,      \* what a delta gives on a value it was not made from
          MaxContexts,  \* bound: contexts created
          MaxEntries,   \* bound: entries in all logs, after which nothing is changed
          MaxCrashes    \* bound: crashes

ASSUME ContextStoreAssumption ==
  /\ NoValue \notin Values /\ Corrupt \notin Values \cup {NoValue}
  /\ MaxContexts \in Nat /\ MaxEntries \in Nat /\ MaxCrashes \in Nat

VARIABLES
  log,     \* the log of each context, in the persistence layer
  mem,     \* each context in memory, or Gone
  thread,  \* each thread: what it is doing
  given,   \* contexts that create_context has handed out
  crashes

vars == <<log, mem, thread, given, crashes>>

----------------------------------------------------------------------------
(* Contexts and log entries *)

CtxIds == 1..Len(log)

\* sorted on a set of ids.
InIdOrder(S) ==
  CHOOSE q \in [1..Cardinality(S) -> S] : \A i, j \in DOMAIN q : i < j => q[i] < q[j]

New == [payload |-> NoValue, data |-> NoValue, parents |-> <<>>, done |-> FALSE]
Gone == [payload |-> NoValue, data |-> NoValue, parents |-> <<>>, done |-> TRUE]

\* What a child keeps of a parent.
Snapshot(c) == [ctx |-> c, payload |-> mem[c].payload, data |-> mem[c].data]

Created(ps) == [type |-> "created", parents |-> ps]
Initialized(s) == [type |-> "initialized", state |-> s]
ChildCreated(c) == [type |-> "child", ctx |-> c]
MessageSent(old, new) == [type |-> "message", old |-> old, new |-> new]
UserDataChange(old, new) == [type |-> "data", old |-> old, new |-> new]
UserNote == [type |-> "note"]
ContextCompleted == [type |-> "completed"]

\* Adding a delta to a value.
Patch(value, delta) == IF value = delta.old THEN delta.new ELSE Corrupt

\* recover_from: the effect of one log entry on the context being rebuilt.
Recovered(s, e) ==
  CASE e.type = "created"     -> New
    [] e.type = "initialized" -> e.state
    [] e.type = "message"     -> [s EXCEPT !.payload = Patch(@, e)]
    [] e.type = "data"        -> [s EXCEPT !.data = Patch(@, e)]
    [] e.type = "completed"   -> Gone
    [] OTHER                  -> s

\* recover_from on one log: the effect of all its entries, in their order.
Rebuild(entries) ==
  LET state[n \in 0..Len(entries)] ==
        IF n = 0 THEN Gone ELSE Recovered(state[n - 1], entries[n])
  IN state[Len(entries)]

----------------------------------------------------------------------------
(* Threads and locks *)

\* Outside any context; inside one; having logged a change that memory lacks;
\* locking the parents of a new context; having created it without its data.
Pcs == {"out", "in", "logged", "locking", "created"}

Outside == [pc |-> "out", ctx |-> 0, new |-> Gone, want |-> <<>>, locked |-> {}, child |-> 0]

Holds(t) == thread[t].locked \cup ({thread[t].ctx} \ {0})

\* Locks are reentrant.
Free(t, c) == \A u \in Threads \ {t} : c \notin Holds(u)

\* A context is in memory, in the state before or after the change in progress.
States == [payload : Values \cup {NoValue, Corrupt}, data : Values \cup {NoValue, Corrupt},
           parents : Seq([ctx : CtxIds, payload : Values \cup {NoValue, Corrupt},
                          data : Values \cup {NoValue, Corrupt}]),
           done : BOOLEAN]

TypeOK ==
  /\ DOMAIN mem = CtxIds /\ \A c \in CtxIds : mem[c] \in States
  /\ \A c \in CtxIds : log[c] # <<>>
  /\ thread \in [Threads -> [pc : Pcs, ctx : {0} \cup CtxIds, new : States,
                             want : Seq(CtxIds), locked : SUBSET CtxIds, child : {0} \cup CtxIds]]
  /\ given \subseteq CtxIds
  /\ crashes \in 0..MaxCrashes

Init ==
  /\ log = <<>> /\ mem = <<>>
  /\ thread = [t \in Threads |-> Outside]
  /\ given = {}
  /\ crashes = 0

----------------------------------------------------------------------------
(* get_context and the changes a thread makes inside it *)

\* A context that recovery dropped is not found.
GetContext(t, c) ==
  /\ thread[t].pc = "out"
  /\ c \in given /\ mem[c] # Gone
  /\ Free(t, c)
  /\ thread' = [thread EXCEPT ![t].pc = "in", ![t].ctx = c]
  /\ UNCHANGED <<log, mem, given, crashes>>

Release(t) ==
  /\ thread[t].pc = "in"
  /\ thread' = [thread EXCEPT ![t] = Outside]
  /\ UNCHANGED <<log, mem, given, crashes>>

\* _append_entry in the thread's context, whose memory is to become new.  Both
\* _assert_mutable and _append_entry refuse a completed context.
LogChange(t, entry, new) ==
  LET c == thread[t].ctx
  IN /\ thread[t].pc = "in"
     /\ ~mem[c].done
     /\ Cardinality(UNION {{d} \X DOMAIN log[d] : d \in CtxIds}) < MaxEntries
     /\ log' = [log EXCEPT ![c] = Append(@, entry)]
     /\ thread' = [thread EXCEPT ![t].pc = "logged", ![t].new = new]
     /\ UNCHANGED <<mem, given, crashes>>

AppendMessage(t, v) ==
  LET s == mem[thread[t].ctx]
  IN thread[t].pc = "in" /\ LogChange(t, MessageSent(s.payload, v), [s EXCEPT !.payload = v])

SetUserData(t, v) ==
  LET s == mem[thread[t].ctx]
  IN thread[t].pc = "in" /\ LogChange(t, UserDataChange(s.data, v), [s EXCEPT !.data = v])

AppendUserNote(t) ==
  thread[t].pc = "in" /\ LogChange(t, UserNote, mem[thread[t].ctx])

Complete(t) ==
  thread[t].pc = "in" /\ LogChange(t, ContextCompleted, [mem[thread[t].ctx] EXCEPT !.done = TRUE])

UpdateMemory(t) ==
  /\ thread[t].pc = "logged"
  /\ mem' = [mem EXCEPT ![thread[t].ctx] = thread[t].new]
  /\ thread' = [thread EXCEPT ![t].pc = "in", ![t].new = Gone]
  /\ UNCHANGED <<log, given, crashes>>

----------------------------------------------------------------------------
(* create_context *)

\* Mutant: parents are locked in the order the caller gave them.
LockOrderUnsorted(parents) == parents

\* _lock_contexts: by id, without repetition.
LockOrder(parents) == InIdOrder(ToSet(parents))

\* The framework creates contexts without parents or with the one context the
\* caller is in; a gather point creates them with several, from outside.
StartCreate(t, parents) ==
  /\ thread[t].pc \in {"out", "in"}
  /\ ToSet(parents) \subseteq given
  /\ thread[t].pc = "in" => parents = <<thread[t].ctx>>
  /\ Len(log) < MaxContexts
  /\ thread' = [thread EXCEPT ![t].pc = "locking", ![t].want = LockOrder(parents)]
  /\ UNCHANGED <<log, mem, given, crashes>>

\* Mutant: a parent's lock is not waited for.
LockParentAnyway(t) ==
  /\ thread[t].pc = "locking" /\ thread[t].want # <<>>
  /\ thread' = [thread EXCEPT ![t].want = Tail(@),
                              ![t].locked = @ \cup {Head(thread[t].want)}]
  /\ UNCHANGED <<log, mem, given, crashes>>

LockParent(t) ==
  /\ thread[t].pc = "locking" /\ thread[t].want # <<>>
  /\ LET c == Head(thread[t].want)
     IN /\ Free(t, c)
        /\ thread' = [thread EXCEPT ![t].want = Tail(@), ![t].locked = @ \cup {c}]
  /\ UNCHANGED <<log, mem, given, crashes>>

\* create_context returns to where it was called from.
Back(t) == [Outside EXCEPT !.pc = IF thread[t].ctx = 0 THEN "out" ELSE "in", !.ctx = thread[t].ctx]

\* A single parent passes its payload and data on; several do not.
InitialState(ps) ==
  LET snapshots == [i \in DOMAIN ps |-> Snapshot(ps[i])]
  IN IF Len(ps) = 1 THEN [New EXCEPT !.payload = snapshots[1].payload, !.data = snapshots[1].data,
                                     !.parents = snapshots]
     ELSE [New EXCEPT !.parents = snapshots]

\* A parent exists and is not completed.
Usable(c) == mem[c] # Gone /\ ~mem[c].done

\* Mutant: the new context is not registered in memory.
CreateContextUnregistered(t) ==
  LET ps == InIdOrder(thread[t].locked)
      c == Len(log) + 1
  IN /\ thread[t].pc = "locking" /\ thread[t].want = <<>>
     /\ \A p \in thread[t].locked : Usable(p)
     /\ Len(log) < MaxContexts
     /\ log' = [p \in 1..c |-> IF p = c THEN <<Created(ps)>>
                               ELSE IF p \in thread[t].locked THEN Append(log[p], ChildCreated(c))
                               ELSE log[p]]
     /\ thread' = [thread EXCEPT ![t] = Back(t)]
     /\ UNCHANGED <<mem, given, crashes>>

\* All parents are locked: create the context in the persistence layer, which adds
\* an entry to every parent's log, and in memory.
CreateContext(t) ==
  LET ps == InIdOrder(thread[t].locked)
      c == Len(log) + 1
  IN /\ thread[t].pc = "locking" /\ thread[t].want = <<>>
     /\ \A p \in thread[t].locked : Usable(p)
     /\ Len(log) < MaxContexts
     /\ log' = [p \in 1..c |-> IF p = c THEN <<Created(ps)>>
                               ELSE IF p \in thread[t].locked THEN Append(log[p], ChildCreated(c))
                               ELSE log[p]]
     /\ mem' = Append(mem, InitialState(ps))
     /\ IF ps = <<>> THEN /\ thread' = [thread EXCEPT ![t] = Back(t)]
                          /\ given' = given \cup {c}
        ELSE /\ thread' = [thread EXCEPT ![t].pc = "created", ![t].child = c]
             /\ UNCHANGED given
     /\ UNCHANGED crashes

\* InvalidContextIdException or ContextCompletedException; nothing is created.
RefuseCreate(t) ==
  /\ thread[t].pc = "locking" /\ thread[t].want = <<>>
  /\ \/ \E p \in thread[t].locked : ~Usable(p)
     \/ Len(log) = MaxContexts  \* the bound, not the code
  /\ thread' = [thread EXCEPT ![t] = Back(t)]
  /\ UNCHANGED <<log, mem, given, crashes>>

\* Mutant: the initial data of the child is not logged.
InitializeContextUnlogged(t) ==
  /\ thread[t].pc = "created"
  /\ given' = given \cup {thread[t].child}
  /\ thread' = [thread EXCEPT ![t] = Back(t)]
  /\ UNCHANGED <<log, mem, crashes>>

\* Append ContextDataInitialized, release the parents and hand the context out.
InitializeContext(t) ==
  LET c == thread[t].child
  IN /\ thread[t].pc = "created"
     /\ log' = [log EXCEPT ![c] = Append(@, Initialized(mem[c]))]
     /\ given' = given \cup {c}
     /\ thread' = [thread EXCEPT ![t] = Back(t)]
     /\ UNCHANGED <<mem, crashes>>

----------------------------------------------------------------------------
(* Crash and recovery *)

\* The process dies and a new one calls recover_from on the same persistence layer.
CrashAndRecover ==
  /\ crashes < MaxCrashes
  /\ crashes' = crashes + 1
  /\ thread' = [t \in Threads |-> Outside]
  /\ mem' = [c \in CtxIds |-> Rebuild(log[c])]
  /\ UNCHANGED <<log, given>>

----------------------------------------------------------------------------
ParentLists == {<<>>} \cup {<<p>> : p \in given} \cup {<<p, q>> : p, q \in given}

Change(t) == \/ AppendUserNote(t) \/ Complete(t)
             \/ \E v \in Values : AppendMessage(t, v)
             \/ \E d \in Values \cup {NoValue} : SetUserData(t, d)

Proceed(t) == \/ Release(t) \/ UpdateMemory(t)
              \/ LockParent(t) \/ CreateContext(t) \/ RefuseCreate(t) \/ InitializeContext(t)

Next ==
  \/ \E t \in Threads : \/ Proceed(t) \/ Change(t)
                        \/ \E c \in given : GetContext(t, c)
                        \/ \E ps \in ParentLists : StartCreate(t, ps)
  \/ CrashAndRecover

\* A thread that can take a step of an operation does, and handlers return, so a
\* context is released in the end; a lock that is free again and again is got.
Fairness == \A t \in Threads : SF_vars(Proceed(t)) /\ SF_vars(Release(t))

Spec == Init /\ [][Next]_vars
FairSpec == Spec /\ Fairness

----------------------------------------------------------------------------
(* Properties *)

\* What a context will be once the change that was logged last is done.
Target(c) ==
  IF \E t \in Threads : thread[t].pc = "logged" /\ thread[t].ctx = c
  THEN thread[CHOOSE t \in Threads : thread[t].pc = "logged" /\ thread[t].ctx = c].new
  ELSE mem[c]

\* It starts with the creation, which is followed by the initial data of a child; a
\* completion is last, neither a change nor the creation of a child follows it.
WellFormedLog(l) ==
  \A i \in DOMAIN l :
    /\ l[i].type = "created" <=> i = 1
    /\ l[i].type = "initialized" => i = 2 /\ l[1].parents # <<>>
    /\ l[i].type = "completed" => i = Len(l)

\* A crash at any moment loses nothing of a context that was handed out: its log
\* rebuilds its memory, or, when a change is between its two steps, the memory as
\* it will be; completed contexts rebuild to nothing.  And recovery never refuses a
\* log, of any context (context_store.py:324-425).
RecoverableState ==
  /\ \A c \in given : Rebuild(log[c]) = IF Target(c).done THEN Gone ELSE Target(c)
  /\ \A c \in CtxIds : WellFormedLog(log[c])

\* The snapshot a child keeps of each parent is the parent exactly as its log says
\* it was when the child was noted in it, although the parents have other users:
\* all of them are locked while they are read (context_store.py:453-469).
SnapshotIsParentAtCreation ==
  \A c \in given : \A i \in DOMAIN mem[c].parents :
    LET s == mem[c].parents[i]
        at == CHOOSE j \in DOMAIN log[s.ctx] : log[s.ctx][j] = ChildCreated(c)
        parent == Rebuild(SubSeq(log[s.ctx], 1, at - 1))
    IN s.payload = parent.payload /\ s.data = parent.data

\* Threads that lock several parents never wait for each other for ever: parents
\* are locked in the order of their ids (context_store.py:545-550).
CreationEnds == \A t \in Threads : thread[t].pc = "locking" ~> thread[t].pc # "locking"
=============================================================================
