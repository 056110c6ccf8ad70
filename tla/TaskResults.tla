----------------------------- MODULE TaskResults -----------------------------
(***************************************************************************)
(* InMemoryTaskResultStore, and the weighing function of the cat-images    *)
(* validator, which reads four views of it while storers add results.  A   *)
(* call of the store is one step, under its lock; a weighing is a step for *)
(* each view it reads.                                                     *)
(*                                                                         *)
(* A result of the validation task scores results of the mining task: asks *)
(* are the ids its payload names, scores what the executor answered.       *)
(***************************************************************************)
EXTENDS Epochs, FiniteSets, Sequences, Functions

CONSTANTS Targets,        \* hotkeys
          Scores,
          Stamps,         \* the blocks results are stamped with
          WeighedEpochs,
          Malformed,      \* asks of a payload without task result ids: no set of ids
          MaxStored       \* bound: results in the store

ASSUME ResultsAssumption ==
  /\ Scores \subseteq Nat /\ Stamps \subseteq Nat /\ MaxStored \in Nat

\* The epochs of a chain do not overlap, and the one before an epoch is one of them.
ASSUME WeighedAssumption ==
  /\ WeighedEpochs \subseteq [first_block : Int, last_block : Int]
  /\ \A d, e \in WeighedEpochs : d.last_block = e.last_block => d = e
  /\ \A e \in WeighedEpochs : HasPrevious(e) => Previous(e) \in WeighedEpochs

VARIABLES
  lists,     \* successful_store and executor_failure_store
  byId,      \* by_id: task -> the results under their ids
  reader     \* a weighing: what it has read, and in the end its weights.  It leaves no
             \* trace in the store, so that one in a behaviour stands for each.

resultsVars == <<lists, byId, reader>>

Tasks == {"mining", "validation"}
Kinds == {"success", "failure"}
Results(t, k) == Range(lists[t][k])
StoredIn(t) == Results(t, "success") \cup Results(t, "failure")
Stored == StoredIn("mining") \cup StoredIn("validation")

Idle == [pc |-> "idle"]

ResultsInit ==
  /\ lists = [t \in Tasks |-> [k \in Kinds |-> <<>>]]
  /\ byId = [t \in Tasks |-> <<>>]
  /\ reader = Idle

----------------------------------------------------------------------------
(* The store *)

NextId == Cardinality(Stored) + 1

\* A success of the validation task scores any results, those it did not ask for too.
Mined == {r.id : r \in Results("mining", "success")}
ScoreAnswers == UNION {[ids -> Scores] : ids \in SUBSET Mined}
Asks(t, k) == IF t = "validation" /\ k = "success" THEN SUBSET Mined \cup {Malformed} ELSE {{}}
\* Only a mining result's target is looked at.
TargetsOf(t) == IF t = "mining" THEN Targets ELSE {CHOOSE n \in Targets : TRUE}
Answers(t, k) == IF t = "validation" /\ k = "success" THEN ScoreAnswers ELSE {<<>>}

\* Mutant: a task without failures is taken for a task without results.
AddResetting(t, k, r) ==
  /\ lists' = IF k = "failure" /\ lists[t][k] = <<>>
              THEN [lists EXCEPT ![t] = [success |-> <<>>, failure |-> <<r>>]]
              ELSE [lists EXCEPT ![t][k] = Append(@, r)]
  /\ byId' = [byId EXCEPT ![t] = [i \in DOMAIN @ \cup {r.id} |-> IF i = r.id THEN r ELSE @[i]]]
  /\ UNCHANGED reader

\* Under one lock.  The first result of a task makes its lists.
Add(t, k, r) ==
  /\ lists' = [lists EXCEPT ![t][k] = Append(@, r)]
  /\ byId' = [byId EXCEPT ![t] = [i \in DOMAIN @ \cup {r.id} |-> IF i = r.id THEN r ELSE @[i]]]
  /\ UNCHANGED reader

\* A storer adds what it was given; block_at_finish may be older than other results'.
Store(t, k) ==
  /\ Cardinality(Stored) < MaxStored
  /\ \E b \in Stamps, n \in TargetsOf(t), a \in Asks(t, k), s \in Answers(t, k) :
       Add(t, k, [id |-> NextId, block |-> b, target |-> n, asks |-> a, scores |-> s])

\* The results of an epoch, by their places in their list.
OfEpoch(seq, e) == {i \in DOMAIN seq : ContainsBlock(e, seq[i].block)}
Before(seq, i, j) == seq[i].block < seq[j].block \/ (seq[i].block = seq[j].block /\ i < j)
IsSorted(seq, order) == \A a, b \in DOMAIN order : a < b => Before(seq, order[a], order[b])

\* Mutant: the results of an epoch in the order of their storing.
ViewUnsorted(t, k, e) == SelectSeq(lists[t][k], LAMBDA r : ContainsBlock(e, r.block))

\* get_..._for_epoch: sorted by block; results of a block stay in the order of storing.
View(t, k, e) ==
  LET chosen == OfEpoch(lists[t][k], e)
      order == CHOOSE q \in [1..Cardinality(chosen) -> chosen] : IsSorted(lists[t][k], q)
  IN  [a \in DOMAIN order |-> lists[t][k][order[a]]]

----------------------------------------------------------------------------
(* weighing_func *)

\* A single request is answered for itself alone.
Usable(v) ==
  /\ v.asks # Malformed
  /\ Cardinality(v.asks) = 1 => DOMAIN v.scores = v.asks

Scored(v) == v.asks \cap DOMAIN v.scores

\* A later validation overrides an earlier one.
AddScores(known, v) ==
  IF ~Usable(v) THEN known
  ELSE [id \in DOMAIN known \cup Scored(v) |-> IF id \in Scored(v) THEN v.scores[id] ELSE known[id]]

ScoresOf(validations) ==
  LET known[i \in 0..Len(validations)] ==
        IF i = 0 THEN <<>> ELSE AddScores(known[i - 1], validations[i])
  IN  known[Len(validations)]

\* _HotkeyAccumulator of each hotkey that has mined; a failure is scored 0.  The weight
\* is the count times the average score.
Accumulated(successes, failures, scores) ==
  LET Of(seq, n) == {r \in Range(seq) : r.target = n}
      scored(n) == {r \in Of(successes, n) : r.id \in DOMAIN scores}
  IN  [n \in {r.target : r \in Range(successes) \cup Range(failures)} |->
         [mining_count |-> Cardinality(Of(successes, n)) + Cardinality(Of(failures, n)),
          scored_count |-> Cardinality(scored(n)) + Cardinality(Of(failures, n)),
          scored_sum |-> SumFunction([r \in scored(n) |-> scores[r.id]])]]

\* previous() raises for the first epochs.
BeginWeighing(e) ==
  /\ reader = Idle
  /\ HasPrevious(e)
  /\ reader' = [pc |-> "failures", epoch |-> e, began |-> Stored,
                successes |-> View("mining", "success", Previous(e))]
  /\ UNCHANGED <<lists, byId>>

ReadFailures ==
  /\ reader.pc = "failures"
  /\ reader' = [pc |-> "previous", epoch |-> reader.epoch, began |-> reader.began,
                successes |-> reader.successes,
                failures |-> View("mining", "failure", Previous(reader.epoch))]
  /\ UNCHANGED <<lists, byId>>

ReadPrevious ==
  /\ reader.pc = "previous"
  /\ reader' = [pc |-> "current", epoch |-> reader.epoch, began |-> reader.began,
                successes |-> reader.successes, failures |-> reader.failures,
                validations |-> View("validation", "success", Previous(reader.epoch))]
  /\ UNCHANGED <<lists, byId>>

\* The last view is read; the rest works on what was read.
EndWeighing ==
  /\ reader.pc = "current"
  /\ LET validations == reader.validations \o View("validation", "success", reader.epoch) IN
     reader' = [pc |-> "done", epoch |-> reader.epoch, began |-> reader.began, ended |-> Stored,
                weights |-> Accumulated(reader.successes, reader.failures, ScoresOf(validations))]
  /\ UNCHANGED <<lists, byId>>

ResultsNext ==
  \/ \E t \in Tasks, k \in Kinds : Store(t, k)
  \/ \E e \in WeighedEpochs : BeginWeighing(e)
  \/ ReadFailures \/ ReadPrevious \/ EndWeighing

ResultsSpec == ResultsInit /\ [][ResultsNext]_resultsVars

----------------------------------------------------------------------------
(* Properties *)

\* What weights should be, whatever the order of results: a failure counts 0 and a
\* success what the latest usable validation says that asked for it and answered it.
Older(v, w) == v.block < w.block \/ (v.block = w.block /\ v.id <= w.id)
Judging(validated, m) == {v \in validated : Usable(v) /\ m.id \in Scored(v)}
Latest(judging) == CHOOSE w \in judging : \A v \in judging : Older(v, w)

WeightsOf(mined, failed, validated) ==
  LET mine(n) == {m \in mined : m.target = n}
      scored(n) == {m \in mine(n) : m \in failed \/ Judging(validated, m) # {}}
  IN  [n \in {m.target : m \in mined} |->
         [mining_count |-> Cardinality(mine(n)),
          scored_count |-> Cardinality(scored(n)),
          scored_sum |-> SumFunction([m \in scored(n) \ failed |->
                                        Latest(Judging(validated, m)).scores[m.id]])]]

\* What a weighing should find in a set of results: those mined in the epoch before e,
\* and what was validated in that epoch or in e.
Mining(S, d) == {r \in S \cap StoredIn("mining") : ContainsBlock(d, r.block)}
Validated(S, d, e) == {r \in S \cap Results("validation", "success") :
                         ContainsBlock(d, r.block) \/ ContainsBlock(e, r.block)}
Expected(S, e) ==
  LET before == CHOOSE d \in WeighedEpochs : d.last_block + 1 = e.first_block
  IN  WeightsOf(Mining(S, before), Mining(S, before) \cap Results("mining", "failure"),
                Validated(S, before, e))

\* Weights follow the definition for all that was stored when the weighing began and some
\* of what was stored while it read, whatever the order of storing and of the reads; so a
\* result counts in the epoch after its own only
\* (weighing_algorithm.py:55-131, task_result_store.py:288-320).
WeighsWhatWasStored ==
  reader.pc = "done" =>
    \E S \in SUBSET (reader.ended \ reader.began) :
      reader.weights = Expected(reader.began \cup S, reader.epoch)

\* The three places a result is kept in agree: what a task has under an id is what its
\* lists have, once (task_result_store.py:226-271).
ViewsAgree ==
  \A t \in Tasks :
    /\ StoredIn(t) = {byId[t][i] : i \in DOMAIN byId[t]}
    /\ Cardinality(DOMAIN byId[t]) = Len(lists[t]["success"]) + Len(lists[t]["failure"])
=============================================================================
