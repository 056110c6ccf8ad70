-------------------------- MODULE TaskResultsProofs --------------------------
(***************************************************************************)
(* Proofs about TaskResults, for any hotkeys, scores, blocks and epochs,   *)
(* any number of stored results and any interleaving of storers and        *)
(* weighings: the store keeps what it was given, once, and weights are     *)
(* those of what was stored.                                               *)
(***************************************************************************)
EXTENDS TaskResults, FiniteSetTheorems, WellFoundedInduction, TLAPS

----------------------------------------------------------------------------
(* Sorting *)

\* Induction over the naturals: the intervals 1..n are well-founded by inclusion.
LEMMA Induction ==
  ASSUME NEW S, 0 \in S, \A n \in Nat : n \in S => n + 1 \in S
  PROVE  Nat \subseteq S
<1> DEFINE Bad == {n \in Nat : n \notin S}
           Intervals == {1..n : n \in Bad}
<1> SUFFICES ASSUME Bad # {} PROVE FALSE
  OBVIOUS
<1>1. Intervals \subseteq FiniteSubsetsOf(Nat) /\ Intervals # {}
  <2>1. ASSUME NEW n \in Nat PROVE 1..n \in FiniteSubsetsOf(Nat)
    <3>1. IsFiniteSet(1..n)
      BY FS_Interval
    <3>2. 1..n \in SUBSET Nat
      OBVIOUS
    <3> QED BY <3>1, <3>2, Zenon DEF FiniteSubsetsOf
  <2>2. Bad \subseteq Nat
    OBVIOUS
  <2> HIDE DEF Bad
  <2> QED BY <2>1, <2>2
<1>2. IsWellFoundedOn(StrictSubsetOrdering(Nat), FiniteSubsetsOf(Nat))
  BY FS_StrictSubsetOrderingWellFounded
<1>3. PICK I \in Intervals : \A J \in Intervals : <<J, I>> \notin StrictSubsetOrdering(Nat)
  <2> HIDE DEF Intervals
  <2> QED BY <1>1, <1>2, WFMin
<1>4. PICK n \in Bad : I = 1..n
  BY <1>3
<1>5. n # 0 /\ n - 1 \in Nat /\ n - 1 \notin S
  BY <1>4
<1>6. 1..(n - 1) \in Intervals
  BY <1>5
<1>7. <<1..(n - 1), 1..n>> \in StrictSubsetOrdering(Nat)
  <2>1. 1..(n - 1) \in SUBSET Nat /\ 1..n \in SUBSET Nat /\ 1..(n-1) \subseteq 1..n /\ n \in 1..n /\ n \notin 1..(n-1)
    BY <1>4, <1>5
  <2> QED BY <2>1, Zenon DEF StrictSubsetOrdering
<1> QED BY <1>3, <1>4, <1>6, <1>7

\* The last of several places in the order of blocks.
LEMMA LastPlace ==
  ASSUME NEW seq, NEW m \in Nat, \A i \in 1..m : seq[i].block \in Nat,
         NEW T \in SUBSET (1..m), T # {}
  PROVE  \E x \in T : \A y \in T \ {x} : Before(seq, y, x)
<1> DEFINE Last(U) == \E x \in U : \A y \in U \ {x} : Before(seq, y, x)
           Good == {n \in Nat : \A U \in SUBSET (1..m) : U \subseteq 1..n /\ U # {} => Last(U)}
<1> HIDE DEF Last
<1>1. 0 \in Good
  <2>1. \A U : U \subseteq 1..0 => U = {}
    OBVIOUS
  <2> QED
    BY <2>1
<1> USE DEF Last
<1>2. ASSUME NEW n \in Nat, n \in Good PROVE n + 1 \in Good
  <2> SUFFICES ASSUME NEW U \in SUBSET (1..m), U \subseteq 1..(n + 1), U # {} PROVE Last(U)
    OBVIOUS
  <2> DEFINE R == U \ {n + 1}
  <2>1. R \in SUBSET (1..m) /\ R \subseteq 1..n
    OBVIOUS
  <2>2. CASE n + 1 \notin U
    <3>1. R = U
      BY <2>2
    <3> QED
      BY <1>2, <2>1, <3>1
  <2>3. CASE n + 1 \in U /\ R = {}
    BY <2>3
  <2>4. CASE n + 1 \in U /\ R # {}
    <3>1. PICK x \in R : \A y \in R \ {x} : Before(seq, y, x)
      BY <1>2, <2>1, <2>4
    <3>2. \A i \in U : i \in Nat /\ seq[i].block \in Nat
      OBVIOUS
    <3>3. x \in U /\ x # n + 1 /\ x < n + 1
      BY <2>1
    <3>4. CASE seq[x].block <= seq[n + 1].block
      <4>1. Before(seq, x, n + 1)
        BY <2>4, <3>2, <3>3, <3>4 DEF Before
      <4>2. \A y \in R \ {x} : Before(seq, y, n + 1)
        BY <2>1, <2>4, <3>1, <3>2, <3>3, <3>4 DEF Before
      <4> QED
        BY <2>4, <4>1, <4>2
    <3>5. CASE ~(seq[x].block <= seq[n + 1].block)
      <4>1. Before(seq, n + 1, x)
        BY <2>4, <3>2, <3>3, <3>5 DEF Before
      <4> QED
        BY <3>1, <3>3, <4>1
    <3> QED
      BY <3>4, <3>5
  <2> QED
    BY <2>2, <2>3, <2>4
<1>3. Nat \subseteq Good
  <2> HIDE DEF Good
  <2> QED
    BY <1>1, <1>2, Induction
<1>4. m \in Good
  BY <1>3
<1> QED
  BY <1>4

\* Places can be put in the order of blocks.
LEMMA SortExists ==
  ASSUME NEW seq, NEW m \in Nat, \A i \in 1..m : seq[i].block \in Nat, NEW T \in SUBSET (1..m)
  PROVE  \E q \in [1..Cardinality(T) -> T] : IsSorted(seq, q)
<1> DEFINE Sortable == {n \in Nat : \A U \in SUBSET (1..m) :
                          Cardinality(U) = n => \E q \in [1..n -> U] : IsSorted(seq, q)}
<1>0. \A U \in SUBSET (1..m) : IsFiniteSet(U)
  <2>1. IsFiniteSet(1..m)
    BY FS_Interval
  <2> QED
    BY <2>1, FS_Subset
<1>1. 0 \in Sortable
  <2> SUFFICES ASSUME NEW U \in SUBSET (1..m), Cardinality(U) = 0
               PROVE  \E q \in [1..0 -> U] : IsSorted(seq, q)
    OBVIOUS
  <2>1. <<>> \in [1..0 -> U] /\ IsSorted(seq, <<>>)
    BY DEF IsSorted
  <2> QED
    BY <2>1
<1>2. ASSUME NEW n \in Nat, n \in Sortable PROVE n + 1 \in Sortable
  <2> SUFFICES ASSUME NEW U \in SUBSET (1..m), Cardinality(U) = n + 1
               PROVE  \E q \in [1..(n + 1) -> U] : IsSorted(seq, q)
    OBVIOUS
  <2>1. IsFiniteSet(U) /\ U # {}
    BY <1>0, FS_EmptySet
  <2>2. PICK x \in U : \A y \in U \ {x} : Before(seq, y, x)
    BY <2>1, LastPlace
  <2> DEFINE R == U \ {x}
  <2>3. R \in SUBSET (1..m) /\ Cardinality(R) = n
    <3>1. Cardinality(R) = Cardinality(U) - 1
      BY <2>1, FS_RemoveElement
    <3> QED
      BY <3>1
  <2>4. PICK q \in [1..n -> R] : IsSorted(seq, q)
    BY <1>2, <2>3
  <2> DEFINE p == [i \in 1..(n + 1) |-> IF i = n + 1 THEN x ELSE q[i]]
  <2>5. p \in [1..(n + 1) -> U]
    BY <2>4
  <2>6. \A i \in 1..n : p[i] = q[i] /\ q[i] \in R
    BY <2>4
  <2>7. p[n + 1] = x /\ DOMAIN p = 1..(n + 1) /\ DOMAIN q = 1..n
    BY <2>4
  <2> HIDE DEF p
  <2>8. ASSUME NEW i \in 1..(n + 1), NEW j \in 1..(n + 1), i < j  PROVE  Before(seq, p[i], p[j])
    <3>1. i \in 1..n
      BY <2>8
    <3>2. CASE j = n + 1
      BY <2>2, <2>6, <2>7, <3>1, <3>2
    <3>3. CASE j # n + 1
      <4>1. j \in 1..n
        BY <3>3
      <4> QED
        BY <2>4, <2>6, <2>7, <2>8, <3>1, <4>1 DEF IsSorted
    <3> QED
      BY <3>2, <3>3
  <2> QED
    BY <2>5, <2>7, <2>8 DEF IsSorted
<1>3. Nat \subseteq Sortable
  <2> HIDE DEF Sortable
  <2> QED
    BY <1>1, <1>2, Induction
<1>4. Cardinality(T) \in Nat
  BY <1>0, FS_CardinalityType
<1> QED
  BY <1>3, <1>4

----------------------------------------------------------------------------
(* What validations say *)

Says(q, j, id) == Usable(q[j]) /\ id \in Scored(q[j])

\* f is what is known after the first validations of q, up to k of them.
Known(f, q, k) == f = [i \in 0..k |-> IF i = 0 THEN <<>> ELSE AddScores(f[i - 1], q[i])]

\* There is such a function for every number of validations.
LEMMA KnownExists ==
  ASSUME NEW q, NEW k \in Nat
  PROVE  \E f : Known(f, q, k)
<1> DEFINE Done == {n \in Nat : \E f : Known(f, q, n)}
<1>1. 0 \in Done
  <2>1. Known([i \in 0..0 |-> <<>>], q, 0)
    BY DEF Known
  <2> QED
    BY <2>1
<1>2. ASSUME NEW n \in Nat, n \in Done PROVE n + 1 \in Done
  <2>1. PICK f : Known(f, q, n)
    BY <1>2
  <2> DEFINE g == [i \in 0..(n + 1) |-> IF i = n + 1 THEN AddScores(f[n], q[n + 1]) ELSE f[i]]
  <2>2. ASSUME NEW i \in 0..(n + 1)
        PROVE  g[i] = IF i = 0 THEN <<>> ELSE AddScores(g[i - 1], q[i])
    <3>1. CASE i = 0
      BY <2>1, <3>1 DEF Known
    <3>2. CASE i = n + 1
      <4>1. g[i] = AddScores(f[n], q[n + 1]) /\ g[i - 1] = f[n] /\ i # 0
        BY <3>2
      <4> QED
        BY <3>2, <4>1
    <3>3. CASE i # 0 /\ i # n + 1
      <4>1. g[i] = f[i] /\ g[i - 1] = f[i - 1] /\ i \in 0..n
        BY <3>3
      <4>2. f[i] = AddScores(f[i - 1], q[i])
        BY <2>1, <3>3, <4>1 DEF Known
      <4> QED
        BY <3>3, <4>1, <4>2
    <3> QED
      BY <3>1, <3>2, <3>3
  <2>3. g = [i \in 0..(n + 1) |-> g[i]]
    OBVIOUS
  <2> HIDE DEF g
  <2>4. Known(g, q, n + 1)
    BY <2>2, <2>3 DEF Known
  <2> QED
    BY <2>4
<1>3. Nat \subseteq Done
  <2> HIDE DEF Done
  <2> QED
    BY <1>1, <1>2, Induction
<1> QED
  BY <1>3

\* A result has a score once some usable validation says it, and the score is what the
\* last of them says.
LEMMA ScoresAre ==
  ASSUME NEW S, NEW q \in Seq(S)
  PROVE  /\ \A id : id \in DOMAIN ScoresOf(q) <=> \E j \in DOMAIN q : Says(q, j, id)
         /\ \A id : \A j \in DOMAIN q :
              Says(q, j, id) /\ (\A l \in DOMAIN q : Says(q, l, id) => l <= j)
                => ScoresOf(q)[id] = q[j].scores[id]
<1> DEFINE k == Len(q)
           f == CHOOSE f : Known(f, q, k)
           Agrees(n) ==
             /\ \A id : id \in DOMAIN f[n] <=> \E j \in 1..n : Says(q, j, id)
             /\ \A id : \A j \in 1..n :
                  Says(q, j, id) /\ (\A l \in 1..n : Says(q, l, id) => l <= j)
                    => f[n][id] = q[j].scores[id]
           Good == {n \in Nat : n <= k => Agrees(n)}
<1>1. k \in Nat /\ DOMAIN q = 1..k
  OBVIOUS
<1>2. ScoresOf(q) = f[k]
  BY DEF ScoresOf, Known
<1>3. Known(f, q, k)
  BY <1>1, KnownExists
<1> HIDE DEF f, k
<1>4. 0 \in Good
  <2>1. f[0] = <<>>
    BY <1>1, <1>3 DEF Known
  <2>2. DOMAIN f[0] = {}
    BY <2>1
  <2> QED
    BY <2>2
<1>5. ASSUME NEW n \in Nat, n \in Good, n + 1 <= k  PROVE  Agrees(n + 1)
  <2> DEFINE v == q[n + 1]
  <2>1. f[n + 1] = AddScores(f[n], v)
    <3>1. n + 1 \in 0..k /\ n + 1 # 0 /\ (n + 1) - 1 = n
      BY <1>1, <1>5
    <3> QED
      BY <1>3, <3>1 DEF Known
  <2>2. Agrees(n)
    BY <1>1, <1>5
  <2>3. 1..(n + 1) = (1..n) \cup {n + 1} /\ \A j \in 1..n : j < n + 1
    OBVIOUS
  <2>4. CASE ~Usable(v)
    <3>1. f[n + 1] = f[n] /\ \A id : ~Says(q, n + 1, id)
      BY <2>1, <2>4 DEF AddScores, Says
    <3> QED
      BY <2>2, <2>3, <3>1
  <2>5. CASE Usable(v)
    <3>1. /\ DOMAIN f[n + 1] = DOMAIN f[n] \cup Scored(v)
          /\ \A id \in Scored(v) : f[n + 1][id] = v.scores[id]
          /\ \A id \in DOMAIN f[n] : id \notin Scored(v) => f[n + 1][id] = f[n][id]
      BY <2>1, <2>5 DEF AddScores
    <3>2. \A id : Says(q, n + 1, id) <=> id \in Scored(v)
      BY <2>5 DEF Says
    <3> HIDE DEF v
    <3>3. ASSUME NEW id  PROVE  id \in DOMAIN f[n + 1] <=> \E j \in 1..(n + 1) : Says(q, j, id)
      BY <2>2, <2>3, <3>1, <3>2
    <3>4. ASSUME NEW id, NEW j \in 1..(n + 1), Says(q, j, id),
                 \A l \in 1..(n + 1) : Says(q, l, id) => l <= j
          PROVE  f[n + 1][id] = q[j].scores[id]
      <4>1. CASE j = n + 1
        BY <3>1, <3>2, <3>4, <4>1 DEF v
      <4>2. CASE j # n + 1
        <5>1. j \in 1..n /\ id \notin Scored(v)
          BY <2>3, <3>2, <3>4, <4>2
        <5>2. id \in DOMAIN f[n] /\ f[n][id] = q[j].scores[id]
          BY <2>2, <2>3, <3>4, <5>1
        <5> QED
          BY <3>1, <5>1, <5>2
      <4> QED
        BY <4>1, <4>2
    <3> QED
      BY <3>3, <3>4
  <2> QED
    BY <2>4, <2>5
<1>6. Nat \subseteq Good
  <2> HIDE DEF Agrees
  <2>1. ASSUME NEW n \in Nat, n \in Good PROVE n + 1 \in Good
    BY <1>5, <2>1
  <2> HIDE DEF Good
  <2> QED
    BY <1>4, <2>1, Induction
<1>7. Agrees(k)
  BY <1>1, <1>6
<1> QED
  BY <1>1, <1>2, <1>7

----------------------------------------------------------------------------
(* The weights of what was read *)

\* In the order of blocks, and those of a block in the order of storing.
Sorted(q) ==
  \A a, b \in DOMAIN q : a < b => \/ q[a].block < q[b].block
                                  \/ q[a].block = q[b].block /\ q[a].id < q[b].id

\* What is read has blocks and ids.
Stamped(q) == \A r \in Range(q) : r.block \in Nat /\ r.id \in Nat

\* The elements of a sequence are finitely many.
LEMMA RangeIsFinite ==
  ASSUME NEW S, NEW q \in Seq(S)
  PROVE  IsFiniteSet(Range(q))
<1>1. Len(q) \in Nat /\ q \in [1..Len(q) -> Range(q)]
  BY DEF Range
<1>2. q \in Surjection(1..Len(q), Range(q))
  BY <1>1 DEF Surjection, Range
<1> QED
  BY <1>1, <1>2, FS_Interval, FS_Surjection

\* Some of finitely many places is the last.
LEMMA MaxExists ==
  ASSUME NEW m \in Nat, NEW T \in SUBSET (1..m), T # {}
  PROVE  \E x \in T : \A y \in T : y <= x
<1> DEFINE Good == {n \in Nat : \A U \in SUBSET (1..n) : U # {} => \E x \in U : \A y \in U : y <= x}
<1>1. 0 \in Good
  <2>1. \A U : U \subseteq 1..0 => U = {}
    OBVIOUS
  <2> QED
    BY <2>1
<1>2. ASSUME NEW n \in Nat, n \in Good PROVE n + 1 \in Good
  <2> SUFFICES ASSUME NEW U \in SUBSET (1..(n + 1)), U # {}
               PROVE  \E x \in U : \A y \in U : y <= x
    OBVIOUS
  <2>1. CASE n + 1 \in U
    BY <2>1
  <2>2. CASE n + 1 \notin U
    <3>1. U \in SUBSET (1..n)
      BY <2>2
    <3> QED
      BY <1>2, <3>1
  <2> QED
    BY <2>1, <2>2
<1>3. Nat \subseteq Good
  <2> HIDE DEF Good
  <2> QED
    BY <1>1, <1>2, Induction
<1> QED
  BY <1>3

\* The last validation of a sorted sequence that says a score is the latest of them.
LEMMA LastIsLatest ==
  ASSUME NEW S, NEW q \in Seq(S), Sorted(q), Stamped(q), NEW m,
         NEW j \in DOMAIN q, Says(q, j, m.id), \A l \in DOMAIN q : Says(q, l, m.id) => l <= j
  PROVE  Latest(Judging(Range(q), m)) = q[j]
<1> DEFINE J == Judging(Range(q), m)
<1>1. DOMAIN q = 1..Len(q) /\ Len(q) \in Nat
  OBVIOUS
<1>2. \A v : v \in J <=> \E l \in DOMAIN q : v = q[l] /\ Says(q, l, m.id)
  BY DEF Judging, Range, Says
<1>3. \A l \in DOMAIN q : q[l].block \in Nat /\ q[l].id \in Nat
  BY DEF Stamped, Range
<1> HIDE DEF J
<1>4. q[j] \in J /\ \A v \in J : Older(v, q[j])
  <2> SUFFICES ASSUME NEW v \in J PROVE Older(v, q[j])
    BY <1>2
  <2>1. PICK l \in DOMAIN q : v = q[l] /\ Says(q, l, m.id)
    BY <1>2
  <2>2. l = j \/ l < j
    BY <1>1, <2>1
  <2> QED
    BY <1>3, <2>1, <2>2 DEF Older, Sorted
<1>5. ASSUME NEW w \in J, \A v \in J : Older(v, w)  PROVE  w = q[j]
  <2>1. PICK l \in DOMAIN q : w = q[l] /\ Says(q, l, m.id)
    BY <1>2
  <2>2. Older(q[j], q[l])
    BY <1>4, <1>5, <2>1
  <2>3. ~(l < j)
    <3> SUFFICES ASSUME l < j PROVE FALSE
      OBVIOUS
    <3>1. q[l].block < q[j].block \/ (q[l].block = q[j].block /\ q[l].id < q[j].id)
      BY DEF Sorted
    <3> QED
      BY <1>3, <2>2, <3>1 DEF Older
  <2> QED
    BY <1>1, <2>1, <2>3
<1>6. Latest(J) \in J /\ \A v \in J : Older(v, Latest(J))
  BY <1>4 DEF Latest
<1> QED
  BY <1>5, <1>6 DEF J

\* The scores of a weighing are the latest ones.
LEMMA ScoresAreLatest ==
  ASSUME NEW S, NEW q \in Seq(S), Sorted(q), Stamped(q), NEW m
  PROVE  /\ m.id \in DOMAIN ScoresOf(q) <=> Judging(Range(q), m) # {}
         /\ m.id \in DOMAIN ScoresOf(q) =>
              ScoresOf(q)[m.id] = Latest(Judging(Range(q), m)).scores[m.id]
<1>1. m.id \in DOMAIN ScoresOf(q) <=> \E j \in DOMAIN q : Says(q, j, m.id)
  BY ScoresAre
<1>2. Judging(Range(q), m) # {} <=> \E j \in DOMAIN q : Says(q, j, m.id)
  BY DEF Judging, Range, Says
<1>3. ASSUME m.id \in DOMAIN ScoresOf(q)
      PROVE  ScoresOf(q)[m.id] = Latest(Judging(Range(q), m)).scores[m.id]
  <2> DEFINE T == {j \in DOMAIN q : Says(q, j, m.id)}
  <2>1. Len(q) \in Nat /\ DOMAIN q = 1..Len(q)
    OBVIOUS
  <2>2. T \in SUBSET (1..Len(q)) /\ T # {}
    BY <1>1, <1>3, <2>1
  <2>3. PICK j \in T : \A l \in T : l <= j
    <3> HIDE DEF T
    <3> QED
      BY <2>1, <2>2, MaxExists
  <2>4. j \in DOMAIN q /\ Says(q, j, m.id) /\ \A l \in DOMAIN q : Says(q, l, m.id) => l <= j
    BY <2>3
  <2>5. ScoresOf(q)[m.id] = q[j].scores[m.id]
    BY <2>4, ScoresAre
  <2>6. Latest(Judging(Range(q), m)) = q[j]
    BY <2>4, LastIsLatest
  <2> QED
    BY <2>5, <2>6
<1> QED
  BY <1>1, <1>2, <1>3

\* Sets without a common element have as many elements as both together.
LEMMA CountBoth ==
  ASSUME NEW S, NEW T, IsFiniteSet(S), IsFiniteSet(T), S \cap T = {}
  PROVE  Cardinality(S \cup T) = Cardinality(S) + Cardinality(T)
<1>1. Cardinality(S \cup T) = Cardinality(S) + Cardinality(T) - Cardinality(S \cap T)
  BY FS_Union
<1>2. Cardinality(S \cap T) = 0 /\ Cardinality(S) \in Nat /\ Cardinality(T) \in Nat
  BY FS_EmptySet, FS_CardinalityType
<1> QED
  BY <1>1, <1>2

\* The accumulators of a weighing come to the weights of the results it has read.
LEMMA AccumulatedIsWeights ==
  ASSUME NEW S, NEW ss \in Seq(S), NEW fs \in Seq(S), NEW vs \in Seq(S),
         Range(ss) \cap Range(fs) = {}, Sorted(vs), Stamped(vs)
  PROVE  Accumulated(ss, fs, ScoresOf(vs)) = WeightsOf(Range(ss) \cup Range(fs), Range(fs), Range(vs))
<1> DEFINE sc == ScoresOf(vs)
           V == Range(vs)
           A == Range(ss)
           F == Range(fs)
           Of(X, n) == {r \in X : r.target = n}
           said(n) == {r \in Of(A, n) : r.id \in DOMAIN sc}
           mine(n) == {m \in A \cup F : m.target = n}
           scored(n) == {m \in mine(n) : m \in F \/ Judging(V, m) # {}}
<1>1. IsFiniteSet(A) /\ IsFiniteSet(F) /\ A \cap F = {}
  BY RangeIsFinite
<1>2. \A m : /\ m.id \in DOMAIN sc <=> Judging(V, m) # {}
             /\ m.id \in DOMAIN sc => sc[m.id] = Latest(Judging(V, m)).scores[m.id]
  BY ScoresAreLatest
<1>3. Accumulated(ss, fs, sc) =
        [n \in {r.target : r \in A \cup F} |->
           [mining_count |-> Cardinality(Of(A, n)) + Cardinality(Of(F, n)),
            scored_count |-> Cardinality(said(n)) + Cardinality(Of(F, n)),
            scored_sum |-> SumFunction([r \in said(n) |-> sc[r.id]])]]
  BY DEF Accumulated
<1>4. WeightsOf(A \cup F, F, V) =
        [n \in {m.target : m \in A \cup F} |->
           [mining_count |-> Cardinality(mine(n)),
            scored_count |-> Cardinality(scored(n)),
            scored_sum |-> SumFunction([m \in scored(n) \ F |-> Latest(Judging(V, m)).scores[m.id]])]]
  BY DEF WeightsOf
<1> HIDE DEF sc, V, A, F
<1>5. ASSUME NEW n
      PROVE  /\ Cardinality(Of(A, n)) + Cardinality(Of(F, n)) = Cardinality(mine(n))
             /\ Cardinality(said(n)) + Cardinality(Of(F, n)) = Cardinality(scored(n))
             /\ SumFunction([r \in said(n) |-> sc[r.id]])
                  = SumFunction([m \in scored(n) \ F |-> Latest(Judging(V, m)).scores[m.id]])
  <2>1. IsFiniteSet(Of(A, n)) /\ IsFiniteSet(Of(F, n)) /\ IsFiniteSet(said(n))
    <3>1. Of(A, n) \in SUBSET A /\ Of(F, n) \in SUBSET F /\ said(n) \in SUBSET A
      OBVIOUS
    <3> HIDE DEF Of, said
    <3> QED
      BY <1>1, <3>1, FS_Subset
  <2>2. mine(n) = Of(A, n) \cup Of(F, n) /\ Of(A, n) \cap Of(F, n) = {}
    BY <1>1
  <2>3. scored(n) = said(n) \cup Of(F, n) /\ said(n) \cap Of(F, n) = {} /\ scored(n) \ F = said(n)
    BY <1>1, <1>2
  <2>4. [r \in said(n) |-> sc[r.id]] = [m \in said(n) |-> Latest(Judging(V, m)).scores[m.id]]
    BY <1>2
  <2> HIDE DEF Of, said, mine, scored
  <2> QED
    BY <2>1, <2>2, <2>3, <2>4, CountBoth
<1> HIDE DEF Of, said, mine, scored
<1> QED
  BY <1>3, <1>4, <1>5 DEF A, F, V, sc

----------------------------------------------------------------------------
(* The store *)

Entries == [id : Nat, block : Stamps, target : Targets \cup {CHOOSE n \in Targets : TRUE},
            asks : SUBSET Nat \cup {Malformed}, scores : UNION {[ids -> Scores] : ids \in SUBSET Nat}]

\* A list keeps results in the order of their storing, and no two results have one id.
ListsInv ==
  /\ lists \in [Tasks -> [Kinds -> Seq(Entries)]]
  /\ IsFiniteSet(Stored) /\ \A r \in Stored : r.id \in 1..Cardinality(Stored)
  /\ \A t \in Tasks, k \in Kinds : \A i, j \in DOMAIN lists[t][k] :
       i < j => lists[t][k][i].id < lists[t][k][j].id
  /\ \A t, u \in Tasks : \A k, l \in Kinds : \A r \in Results(t, k), s \in Results(u, l) :
       r.id = s.id => t = u /\ k = l

\* A result is found under its id, and nothing else is.
ByIdInv ==
  /\ byId \in [Tasks -> UNION {[I -> Entries] : I \in SUBSET Nat}]
  /\ \A t \in Tasks :
       /\ DOMAIN byId[t] = {r.id : r \in StoredIn(t)}
       /\ \A r \in StoredIn(t) : byId[t][r.id] = r
       /\ IsFiniteSet(DOMAIN byId[t])
       /\ Cardinality(DOMAIN byId[t]) = Len(lists[t]["success"]) + Len(lists[t]["failure"])

StoreInv == ListsInv /\ ByIdInv

\* What is stored is in some list.
LEMMA StoredIsListed ==
  /\ \A r : r \in Stored <=> \E t \in Tasks, k \in Kinds : r \in Results(t, k)
  /\ \A t \in Tasks : \A r : r \in StoredIn(t) <=> \E k \in Kinds : r \in Results(t, k)
BY DEF Stored, StoredIn, Tasks, Kinds

\* Appending adds one element.
LEMMA AppendAdds ==
  ASSUME NEW S, NEW q \in Seq(S), NEW r \in S
  PROVE  /\ Append(q, r) \in Seq(S) /\ Len(Append(q, r)) = Len(q) + 1 /\ Len(q) \in Nat
         /\ DOMAIN q = 1..Len(q) /\ DOMAIN Append(q, r) = 1..(Len(q) + 1)
         /\ \A i \in 1..Len(q) : Append(q, r)[i] = q[i]
         /\ Append(q, r)[Len(q) + 1] = r
         /\ Range(Append(q, r)) = Range(q) \cup {r}
<1>1. /\ Append(q, r) \in Seq(S) /\ Len(Append(q, r)) = Len(q) + 1 /\ Len(q) \in Nat
      /\ DOMAIN q = 1..Len(q) /\ DOMAIN Append(q, r) = 1..(Len(q) + 1)
      /\ \A i \in 1..Len(q) : Append(q, r)[i] = q[i]
      /\ Append(q, r)[Len(q) + 1] = r
  OBVIOUS
<1>2. 1..(Len(q) + 1) = (1..Len(q)) \cup {Len(q) + 1}
  BY <1>1
<1>3. Range(Append(q, r)) = Range(q) \cup {r}
  BY <1>1, <1>2 DEF Range
<1> QED
  BY <1>1, <1>3

\* What adding a result does to the store.
Added(t, k, r) ==
  /\ r \in Entries /\ r.id = Cardinality(Stored) + 1 /\ r \notin Stored
  /\ lists' \in [Tasks -> [Kinds -> Seq(Entries)]]
  /\ lists'[t][k] = Append(lists[t][k], r)
  /\ \A u \in Tasks, l \in Kinds : u # t \/ l # k => lists'[u][l] = lists[u][l]
  /\ \A u \in Tasks, l \in Kinds :
       Results(u, l)' = Results(u, l) \cup (IF u = t /\ l = k THEN {r} ELSE {})
  /\ Stored' = Stored \cup {r} /\ IsFiniteSet(Stored')
  /\ Cardinality(Stored) \in Nat /\ Cardinality(Stored') = Cardinality(Stored) + 1

\* What a storer adds.
LEMMA StoreAdds ==
  ASSUME ListsInv, NEW t \in Tasks, NEW k \in Kinds, Store(t, k)
  PROVE  \E r \in Entries : Add(t, k, r) /\ Added(t, k, r)
<1>1. PICK b \in Stamps, n \in TargetsOf(t), a \in Asks(t, k), s \in Answers(t, k) :
        Add(t, k, [id |-> NextId, block |-> b, target |-> n, asks |-> a, scores |-> s])
  BY DEF Store
<1> DEFINE r == [id |-> NextId, block |-> b, target |-> n, asks |-> a, scores |-> s]
<1>2. IsFiniteSet(Stored) /\ Cardinality(Stored) \in Nat
  BY FS_CardinalityType DEF ListsInv
<1>3. Mined \in SUBSET Nat
  <2>1. \A m \in Results("mining", "success") : m \in Stored
    BY StoredIsListed DEF Tasks, Kinds
  <2> QED
    BY <1>2, <2>1 DEF Mined, ListsInv
<1>4. a \in SUBSET Nat \cup {Malformed}
  BY <1>3 DEF Asks
<1>5. s \in UNION {[ids -> Scores] : ids \in SUBSET Nat}
  <2>1. CASE s = <<>>
    <3>1. <<>> \in [{} -> Scores] /\ {} \in SUBSET Nat
      OBVIOUS
    <3> QED
      BY <2>1, <3>1
  <2>2. CASE s \in ScoreAnswers
    BY <1>3, <2>2 DEF ScoreAnswers
  <2> QED
    BY <2>1, <2>2 DEF Answers
<1>6. n \in Targets \cup {CHOOSE m \in Targets : TRUE}
  BY DEF TargetsOf
<1>7. r \in Entries /\ r.id = Cardinality(Stored) + 1
  BY <1>2, <1>4, <1>5, <1>6 DEF Entries, NextId
<1> HIDE DEF r
<1>8. r \notin Stored
  BY <1>2, <1>7 DEF ListsInv
<1>9. lists' = [lists EXCEPT ![t][k] = Append(@, r)]
  BY <1>1 DEF Add, r
<1>10. lists[t][k] \in Seq(Entries)
  BY DEF ListsInv
<1>11. /\ Append(lists[t][k], r) \in Seq(Entries)
       /\ Range(Append(lists[t][k], r)) = Range(lists[t][k]) \cup {r}
  BY <1>7, <1>10, AppendAdds
<1>12. /\ lists' \in [Tasks -> [Kinds -> Seq(Entries)]]
       /\ lists'[t][k] = Append(lists[t][k], r)
       /\ \A u \in Tasks, l \in Kinds : u # t \/ l # k => lists'[u][l] = lists[u][l]
  BY <1>9, <1>11 DEF ListsInv
<1>13. ASSUME NEW u \in Tasks, NEW l \in Kinds
       PROVE  Results(u, l)' = Results(u, l) \cup (IF u = t /\ l = k THEN {r} ELSE {})
  BY <1>11, <1>12 DEF Results
<1>14. Stored' = Stored \cup {r}
  BY <1>13 DEF Stored, StoredIn, Tasks, Kinds
<1>15. IsFiniteSet(Stored') /\ Cardinality(Stored') = Cardinality(Stored) + 1
  BY <1>2, <1>8, <1>14, FS_AddElement
<1>16. Added(t, k, r)
  BY <1>2, <1>7, <1>8, <1>12, <1>13, <1>14, <1>15 DEF Added
<1> QED
  BY <1>1, <1>7, <1>16 DEF r

\* Adding a result keeps the lists what they are.
LEMMA AddKeepsLists ==
  ASSUME ListsInv, NEW t \in Tasks, NEW k \in Kinds, NEW r, Added(t, k, r)
  PROVE  ListsInv'
<1>1. \A s \in Stored : s.id \in 1..Cardinality(Stored)
  BY DEF ListsInv
<1>2. \A s \in Stored' : s.id \in 1..Cardinality(Stored')
  BY <1>1 DEF Added
<1>3. ASSUME NEW u \in Tasks, NEW l \in Kinds,
             NEW i \in DOMAIN lists'[u][l], NEW j \in DOMAIN lists'[u][l], i < j
      PROVE  lists'[u][l][i].id < lists'[u][l][j].id
  <2>1. CASE u # t \/ l # k
    BY <1>3, <2>1 DEF Added, ListsInv
  <2>2. CASE u = t /\ l = k
    <3> DEFINE q == lists[t][k]
    <3>1. q \in Seq(Entries) /\ lists'[u][l] = Append(q, r) /\ r \in Entries
      BY <2>2 DEF Added, ListsInv
    <3>2. \A m \in DOMAIN q : q[m].id \in 1..Cardinality(Stored)
      <4>1. \A m \in DOMAIN q : q[m] \in Results(t, k)
        BY DEF Results, Range
      <4> QED
        BY <1>1, <4>1, StoredIsListed
    <3>3. \A m, n \in DOMAIN q : m < n => q[m].id < q[n].id
      BY DEF ListsInv
    <3> HIDE DEF q
    <3>4. /\ Len(q) \in Nat /\ DOMAIN q = 1..Len(q) /\ i \in 1..(Len(q) + 1) /\ j \in 1..(Len(q) + 1)
          /\ \A m \in 1..Len(q) : Append(q, r)[m] = q[m]
          /\ Append(q, r)[Len(q) + 1] = r
      BY <3>1, AppendAdds
    <3>5. i \in 1..Len(q)
      BY <1>3, <3>4
    <3>6. CASE j = Len(q) + 1
      BY <3>1, <3>2, <3>4, <3>5, <3>6 DEF Added
    <3>7. CASE j \in 1..Len(q)
      BY <1>3, <3>1, <3>3, <3>4, <3>5, <3>7
    <3> QED
      BY <3>4, <3>6, <3>7
  <2> QED
    BY <2>1, <2>2
<1>4. ASSUME NEW u \in Tasks, NEW v \in Tasks, NEW l \in Kinds, NEW m \in Kinds,
             NEW x \in Results(u, l)', NEW y \in Results(v, m)', x.id = y.id
      PROVE  u = v /\ l = m
  <2>1. /\ x \in Results(u, l) \/ (x = r /\ u = t /\ l = k)
        /\ y \in Results(v, m) \/ (y = r /\ v = t /\ m = k)
    <3>1. /\ Results(u, l)' = Results(u, l) \cup (IF u = t /\ l = k THEN {r} ELSE {})
          /\ Results(v, m)' = Results(v, m) \cup (IF v = t /\ m = k THEN {r} ELSE {})
      BY DEF Added
    <3> QED
      BY <1>4, <3>1
  <2>2. \A w \in Tasks, n \in Kinds : \A z \in Results(w, n) : z.id # r.id
    <3>1. \A z \in Stored : z.id # r.id
      BY <1>1 DEF Added
    <3> QED
      BY <3>1, StoredIsListed
  <2>3. x \in Results(u, l) /\ y \in Results(v, m) => u = v /\ l = m
    BY <1>4 DEF ListsInv
  <2> QED
    BY <1>4, <2>1, <2>2, <2>3
<1> QED
  BY <1>2, <1>3, <1>4 DEF ListsInv, Added

\* Adding a result keeps what is found under the ids.
LEMMA AddKeepsById ==
  ASSUME ListsInv, ByIdInv, NEW t \in Tasks, NEW k \in Kinds, NEW r, Added(t, k, r), Add(t, k, r)
  PROVE  ByIdInv'
<1> DEFINE I == DOMAIN byId[t]
           I2 == I \cup {r.id}
           f == [i \in I2 |-> IF i = r.id THEN r ELSE byId[t][i]]
<1>1. /\ byId' = [byId EXCEPT ![t] = f]
      /\ byId \in [Tasks -> UNION {[J -> Entries] : J \in SUBSET Nat}]
      /\ r \in Entries /\ r.id = Cardinality(Stored) + 1 /\ Cardinality(Stored) \in Nat
  BY DEF Add, Added, ByIdInv
<1>2. PICK J \in SUBSET Nat : byId[t] \in [J -> Entries]
  <2>1. byId[t] \in UNION {[J -> Entries] : J \in SUBSET Nat}
    BY <1>1, Zenon
  <2> QED
    BY <2>1, Zenon
<1>3. I = J /\ I \in SUBSET Nat /\ I2 \in SUBSET Nat
  BY <1>1, <1>2
<1>4. f \in [I2 -> Entries]
  BY <1>1, <1>2, <1>3
<1>5. byId' \in [Tasks -> UNION {[K -> Entries] : K \in SUBSET Nat}]
  <2>1. f \in UNION {[K -> Entries] : K \in SUBSET Nat}
    BY <1>3, <1>4
  <2> HIDE DEF f
  <2> QED
    BY <1>1, <2>1
<1>6. byId'[t] = f /\ \A u \in Tasks : u # t => byId'[u] = byId[u]
  <2> HIDE DEF f
  <2> QED
    BY <1>1
<1>7. ASSUME NEW u \in Tasks
      PROVE  StoredIn(u)' = StoredIn(u) \cup (IF u = t THEN {r} ELSE {})
  <2>1. \A l \in Kinds : Results(u, l)' = Results(u, l) \cup (IF u = t /\ l = k THEN {r} ELSE {})
    BY DEF Added
  <2> QED
    BY <2>1 DEF StoredIn, Kinds
<1>8. \A s \in StoredIn(t) : s.id # r.id
  <2>1. \A s \in Stored : s.id # r.id
    BY <1>1 DEF ListsInv
  <2> QED
    BY <2>1, StoredIsListed
<1>9. I = {s.id : s \in StoredIn(t)} /\ \A s \in StoredIn(t) : byId[t][s.id] = s
  BY DEF ByIdInv
<1>10. r.id \notin I
  BY <1>8, <1>9
<1>11. DOMAIN f = I2 /\ f[r.id] = r /\ \A s \in StoredIn(t) : f[s.id] = s
  BY <1>8, <1>9
<1>12. IsFiniteSet(I2) /\ Cardinality(I2) = Cardinality(I) + 1
  <2>1. IsFiniteSet(I)
    BY DEF ByIdInv
  <2> QED
    BY <1>10, <2>1, FS_AddElement
<1>13. Len(lists'[t]["success"]) + Len(lists'[t]["failure"])
         = Len(lists[t]["success"]) + Len(lists[t]["failure"]) + 1
  <2>1. \A l \in Kinds : lists[t][l] \in Seq(Entries)
    BY DEF ListsInv
  <2>2. /\ Len(Append(lists[t][k], r)) = Len(lists[t][k]) + 1
        /\ \A l \in Kinds : Len(lists[t][l]) \in Nat
    BY <1>1, <2>1
  <2>3. lists'[t][k] = Append(lists[t][k], r) /\ \A l \in Kinds : l # k => lists'[t][l] = lists[t][l]
    BY DEF Added
  <2> DEFINE a == Len(lists[t]["success"])
             b == Len(lists[t]["failure"])
             c == Len(lists'[t]["success"])
             d == Len(lists'[t]["failure"])
  <2>4. a \in Nat /\ b \in Nat
    BY <2>2 DEF Kinds
  <2>5. (c = a + 1 /\ d = b) \/ (c = a /\ d = b + 1)
    <3>1. CASE k = "success"
      <4>1. d = b
        BY <2>3, <3>1 DEF Kinds
      <4>2. c = a + 1
        BY <2>2, <2>3, <3>1
      <4> QED
        BY <4>1, <4>2
    <3>2. CASE k = "failure"
      <4>1. c = a
        BY <2>3, <3>2 DEF Kinds
      <4>2. d = b + 1
        BY <2>2, <2>3, <3>2
      <4> QED
        BY <4>1, <4>2
    <3> QED
      BY <3>1, <3>2 DEF Kinds
  <2> HIDE DEF a, b, c, d
  <2>6. c + d = a + b + 1
    BY <2>4, <2>5
  <2> QED
    BY <2>6 DEF a, b, c, d
<1> HIDE DEF f
<1>14. ASSUME NEW u \in Tasks
       PROVE  /\ DOMAIN byId'[u] = {s.id : s \in StoredIn(u)'}
              /\ \A s \in StoredIn(u)' : byId'[u][s.id] = s
              /\ IsFiniteSet(DOMAIN byId'[u])
              /\ Cardinality(DOMAIN byId'[u]) = Len(lists'[u]["success"]) + Len(lists'[u]["failure"])
  <2>1. CASE u = t
    <3>1. StoredIn(u)' = StoredIn(t) \cup {r} /\ byId'[u] = f
      BY <1>6, <1>7, <2>1
    <3>2. I2 = {s.id : s \in StoredIn(u)'}
      BY <1>9, <3>1
    <3>3. Cardinality(I) = Len(lists[t]["success"]) + Len(lists[t]["failure"])
      BY DEF ByIdInv
    <3> QED
      BY <1>11, <1>12, <1>13, <2>1, <3>1, <3>2, <3>3
  <2>2. CASE u # t
    <3>1. StoredIn(u)' = StoredIn(u) /\ byId'[u] = byId[u]
      BY <1>6, <1>7, <2>2
    <3>2. lists'[u]["success"] = lists[u]["success"] /\ lists'[u]["failure"] = lists[u]["failure"]
      BY <2>2 DEF Added, Kinds
    <3> QED
      BY <3>1, <3>2 DEF ByIdInv
  <2> QED
    BY <2>1, <2>2
<1> QED
  BY <1>5, <1>14 DEF ByIdInv

\* Reading leaves the store as it is.
LEMMA StoreUnchanged ==
  ASSUME UNCHANGED <<lists, byId>>
  PROVE  /\ StoreInv => StoreInv'
         /\ Stored' = Stored /\ \A t, k : Results(t, k)' = Results(t, k)
         /\ \A t : StoredIn(t)' = StoredIn(t)
<1>1. /\ \A t, k : Results(t, k)' = Results(t, k)
      /\ \A t : StoredIn(t)' = StoredIn(t)
      /\ Stored' = Stored
  BY DEF Stored, StoredIn, Results
<1>2. ListsInv => ListsInv'
  BY <1>1 DEF ListsInv
<1>3. ByIdInv => ByIdInv'
  BY <1>1 DEF ByIdInv
<1> QED
  BY <1>1, <1>2, <1>3 DEF StoreInv

\* The store is consistent at all times.
LEMMA StoreInvariance == ResultsSpec => []StoreInv
<1>1. ResultsInit => StoreInv
  <2> SUFFICES ASSUME ResultsInit PROVE StoreInv
    OBVIOUS
  <2>1. lists = [t \in Tasks |-> [k \in Kinds |-> <<>>]] /\ byId = [t \in Tasks |-> <<>>]
    BY DEF ResultsInit
  <2>2. <<>> \in Seq(Entries) /\ Len(<<>>) = 0 /\ DOMAIN <<>> = {} /\ <<>> \in [{} -> Entries]
    OBVIOUS
  <2>3. /\ \A t \in Tasks, k \in Kinds : lists[t][k] = <<>> /\ Results(t, k) = {}
        /\ "success" \in Kinds /\ "failure" \in Kinds
    BY <2>1, <2>2 DEF Results, Range, Kinds
  <2>4. Stored = {} /\ \A t \in Tasks : StoredIn(t) = {}
    BY <2>3, StoredIsListed
  <2>5. ListsInv
    BY <2>1, <2>2, <2>3, <2>4, FS_EmptySet DEF ListsInv
  <2>6. byId \in [Tasks -> UNION {[I -> Entries] : I \in SUBSET Nat}]
    <3>1. <<>> \in UNION {[I -> Entries] : I \in SUBSET Nat}
      BY <2>2
    <3> QED
      BY <2>1, <3>1
  <2>7. \A t \in Tasks : DOMAIN byId[t] = {}
    BY <2>1
  <2>8. ASSUME NEW t \in Tasks
        PROVE  /\ DOMAIN byId[t] = {r.id : r \in StoredIn(t)}
               /\ \A r \in StoredIn(t) : byId[t][r.id] = r
               /\ IsFiniteSet(DOMAIN byId[t])
               /\ Cardinality(DOMAIN byId[t]) = Len(lists[t]["success"]) + Len(lists[t]["failure"])
    <3>1. StoredIn(t) = {} /\ DOMAIN byId[t] = {}
      BY <2>4, <2>7
    <3>2. IsFiniteSet({}) /\ Cardinality({}) = 0
      BY FS_EmptySet
    <3>3. Len(lists[t]["success"]) = 0 /\ Len(lists[t]["failure"]) = 0
      BY <2>2, <2>3
    <3> QED
      BY <3>1, <3>2, <3>3
  <2>9. ByIdInv
    BY <2>6, <2>8 DEF ByIdInv
  <2> QED
    BY <2>5, <2>9 DEF StoreInv
<1>2. StoreInv /\ [ResultsNext]_resultsVars => StoreInv'
  <2> SUFFICES ASSUME StoreInv, [ResultsNext]_resultsVars PROVE StoreInv'
    OBVIOUS
  <2>1. ASSUME NEW t \in Tasks, NEW k \in Kinds, Store(t, k) PROVE StoreInv'
    <3>1. PICK r \in Entries : Add(t, k, r) /\ Added(t, k, r)
      BY <2>1, StoreAdds DEF StoreInv
    <3> QED
      BY <3>1, AddKeepsLists, AddKeepsById DEF StoreInv
  <2>2. CASE UNCHANGED <<lists, byId>>
    BY <2>2, StoreUnchanged
  <2> QED
    BY <2>1, <2>2 DEF ResultsNext, BeginWeighing, ReadFailures, ReadPrevious, EndWeighing, resultsVars
<1> QED
  BY <1>1, <1>2, PTL DEF ResultsSpec

\* The three places a result is kept in agree at all times.
THEOREM StoreAgrees == ResultsSpec => []ViewsAgree
<1>1. StoreInv => ViewsAgree
  <2> SUFFICES ASSUME StoreInv, NEW t \in Tasks
               PROVE  /\ StoredIn(t) = {byId[t][i] : i \in DOMAIN byId[t]}
                      /\ Cardinality(DOMAIN byId[t])
                           = Len(lists[t]["success"]) + Len(lists[t]["failure"])
    BY DEF ViewsAgree
  <2>1. /\ DOMAIN byId[t] = {r.id : r \in StoredIn(t)}
        /\ \A r \in StoredIn(t) : byId[t][r.id] = r
        /\ Cardinality(DOMAIN byId[t]) = Len(lists[t]["success"]) + Len(lists[t]["failure"])
    BY DEF StoreInv, ByIdInv
  <2>2. {byId[t][i] : i \in DOMAIN byId[t]} = {byId[t][r.id] : r \in StoredIn(t)}
    BY <2>1
  <2>3. {byId[t][r.id] : r \in StoredIn(t)} = StoredIn(t)
    BY <2>1
  <2> QED
    BY <2>1, <2>2, <2>3
<1> QED
  BY <1>1, StoreInvariance, PTL

----------------------------------------------------------------------------
(* Reading *)

\* The results of an epoch, in any order.
InEpoch(t, k, e) == {r \in Results(t, k) : ContainsBlock(e, r.block)}

\* A view is sorted, and shows the results of the epoch: no other and all of them.
LEMMA ViewShowsEpoch ==
  ASSUME ListsInv, NEW t \in Tasks, NEW k \in Kinds, NEW e
  PROVE  /\ View(t, k, e) \in Seq(Entries) /\ Sorted(View(t, k, e))
         /\ Range(View(t, k, e)) = InEpoch(t, k, e)
<1> DEFINE L == lists[t][k]
           m == Len(L)
           C == OfEpoch(L, e)
           n == Cardinality(C)
           order == CHOOSE q \in [1..n -> C] : IsSorted(L, q)
           V == [a \in DOMAIN order |-> L[order[a]]]
<1>1. /\ L \in Seq(Entries) /\ m \in Nat /\ DOMAIN L = 1..m
      /\ \A i \in 1..m : L[i] \in Entries
      /\ \A i, j \in 1..m : i < j => L[i].id < L[j].id
  <2>1. L \in Seq(Entries) /\ \A i, j \in DOMAIN L : i < j => L[i].id < L[j].id
    BY DEF ListsInv
  <2> HIDE DEF L
  <2> QED
    BY <2>1
<1>2. View(t, k, e) = V
  BY DEF View
<1> HIDE DEF L
<1>3. \A i \in 1..m : L[i].block \in Nat /\ L[i].id \in Nat
  BY <1>1, ResultsAssumption DEF Entries
<1>4. C \in SUBSET (1..m) /\ IsFiniteSet(C) /\ n \in Nat
  <2>1. C \in SUBSET (1..m)
    BY <1>1 DEF OfEpoch
  <2> HIDE DEF C
  <2>2. IsFiniteSet(1..m)
    BY <1>1, FS_Interval
  <2>3. IsFiniteSet(C)
    BY <2>1, <2>2, FS_Subset
  <2>4. n \in Nat
    BY <2>3, FS_CardinalityType
  <2> QED
    BY <2>1, <2>3, <2>4
<1> HIDE DEF m, C
<1>5. order \in [1..n -> C] /\ IsSorted(L, order)
  <2>1. \E q \in [1..n -> C] : IsSorted(L, q)
    BY <1>1, <1>3, <1>4, SortExists
  <2> QED
    BY <2>1
<1> HIDE DEF order, n
<1>6. /\ DOMAIN order = 1..n /\ \A a \in 1..n : order[a] \in C /\ order[a] \in 1..m
      /\ DOMAIN V = 1..n /\ \A a \in 1..n : V[a] = L[order[a]]
  BY <1>4, <1>5
<1>7. V \in Seq(Entries)
  BY <1>1, <1>4, <1>6
<1> HIDE DEF V
<1>8. Sorted(V)
  <2> SUFFICES ASSUME NEW a \in 1..n, NEW b \in 1..n, a < b
               PROVE  \/ V[a].block < V[b].block
                      \/ V[a].block = V[b].block /\ V[a].id < V[b].id
    BY <1>6 DEF Sorted
  <2>1. Before(L, order[a], order[b])
    BY <1>5, <1>6 DEF IsSorted
  <2> QED
    BY <1>1, <1>6, <2>1 DEF Before
<1>9. \A i \in C : \E a \in 1..n : order[a] = i
  <2>1. ASSUME NEW a \in 1..n, NEW b \in 1..n, order[a] = order[b]  PROVE  a = b
    <3>1. ~Before(L, order[a], order[b]) /\ ~Before(L, order[b], order[a])
      BY <1>3, <1>6, <2>1 DEF Before
    <3>2. ~(a < b) /\ ~(b < a)
      BY <1>5, <1>6, <3>1 DEF IsSorted
    <3> QED
      BY <1>4, <3>2
  <2>2. order \in Injection(1..n, C)
    BY <1>5, <1>6, <2>1 DEF Injection, IsInjective
  <2>3. Cardinality(1..n) = Cardinality(C)
    BY <1>4, FS_Interval DEF n
  <2>4. order \in Surjection(1..n, C)
    BY <1>4, <2>2, <2>3, FS_Injection
  <2> QED
    BY <2>4 DEF Surjection
<1>10. Range(V) = InEpoch(t, k, e)
  <2>1. Range(V) = {L[i] : i \in C}
    <3>1. Range(V) = {L[order[a]] : a \in 1..n}
      BY <1>6 DEF Range
    <3> QED
      BY <1>6, <1>9, <3>1
  <2>2. InEpoch(t, k, e) = {L[i] : i \in C}
    <3>1. Results(t, k) = {L[i] : i \in 1..m}
      BY <1>1 DEF Results, Range, L
    <3>2. C = {i \in 1..m : ContainsBlock(e, L[i].block)}
      BY <1>1 DEF C, OfEpoch
    <3> QED
      BY <3>1, <3>2 DEF InEpoch
  <2> QED
    BY <2>1, <2>2
<1> QED
  BY <1>2, <1>7, <1>8, <1>10

\* Results of different tasks or kinds are different.
LEMMA ResultsApart ==
  ASSUME ListsInv, NEW t \in Tasks, NEW u \in Tasks, NEW k \in Kinds, NEW l \in Kinds,
         t # u \/ k # l
  PROVE  Results(t, k) \cap Results(u, l) = {}
BY DEF ListsInv

\* q is what a weighing has read of some results: those stored when it began, at least.
Reads(q, began, results, e) ==
  /\ q \in Seq(Entries) /\ Sorted(q)
  /\ \A r \in Range(q) : r \in results /\ ContainsBlock(e, r.block)
  /\ \A r \in began \cap results : ContainsBlock(e, r.block) => r \in Range(q)

\* Expected, of the results that are stored: mined ones, failures and validations.
ExpectedOf(S, e, mining, failures, validations) ==
  LET before == CHOOSE d \in WeighedEpochs : d.last_block + 1 = e.first_block
      mined == {r \in S \cap mining : ContainsBlock(before, r.block)}
  IN  WeightsOf(mined, mined \cap failures,
                {r \in S \cap validations : ContainsBlock(before, r.block) \/ ContainsBlock(e, r.block)})

Weighing ==
  /\ reader.epoch \in WeighedEpochs /\ HasPrevious(reader.epoch)
  /\ reader.began \subseteq Stored

\* What was read stays what it was, though results are stored after it was read.
Reading ==
  /\ reader.pc \in {"failures", "previous", "current"} /\ Weighing
  /\ Reads(reader.successes, reader.began, Results("mining", "success"), Previous(reader.epoch))
  /\ reader.pc \in {"previous", "current"} =>
       Reads(reader.failures, reader.began, Results("mining", "failure"), Previous(reader.epoch))
  /\ reader.pc = "current" =>
       Reads(reader.validations, reader.began, Results("validation", "success"), Previous(reader.epoch))

Weighed ==
  /\ reader.pc = "done" /\ Weighing
  /\ reader.began \subseteq reader.ended /\ reader.ended \subseteq Stored
  /\ \E S \in SUBSET (reader.ended \ reader.began) :
       reader.weights = ExpectedOf(reader.began \cup S, reader.epoch, StoredIn("mining"),
                                   Results("mining", "failure"), Results("validation", "success"))

ReaderInv == reader = Idle \/ Reading \/ Weighed

\* What is expected of some results does not depend on others.
LEMMA ExpectedStays ==
  ASSUME NEW X, NEW e, NEW ms, NEW fs, NEW vs, NEW ms2, NEW fs2, NEW vs2,
         X \cap ms = X \cap ms2, X \cap fs = X \cap fs2, X \cap vs = X \cap vs2
  PROVE  ExpectedOf(X, e, ms, fs, vs) = ExpectedOf(X, e, ms2, fs2, vs2)
<1> DEFINE before == CHOOSE d \in WeighedEpochs : d.last_block + 1 = e.first_block
           mined(m) == {r \in X \cap m : ContainsBlock(before, r.block)}
<1>1. mined(ms) = mined(ms2)
  OBVIOUS
<1>2. mined(ms) \cap fs = mined(ms) \cap fs2
  OBVIOUS
<1> QED
  BY <1>1, <1>2 DEF ExpectedOf

\* What was read remains so when later results are stored.
LEMMA ReadsStay ==
  ASSUME NEW q, NEW began, NEW old, NEW new, NEW e, old \subseteq new,
         began \cap new = began \cap old, Reads(q, began, old, e)
  PROVE  Reads(q, began, new, e)
BY DEF Reads

\* Storing a result changes nothing of what was read or weighed.
LEMMA AddKeepsReader ==
  ASSUME ReaderInv, NEW t \in Tasks, NEW k \in Kinds, NEW r, Added(t, k, r), UNCHANGED reader
  PROVE  ReaderInv'
<1>1. /\ r \notin Stored /\ Stored' = Stored \cup {r}
      /\ \A u \in Tasks, l \in Kinds :
           Results(u, l)' = Results(u, l) \cup (IF u = t /\ l = k THEN {r} ELSE {})
  BY DEF Added
<1>2. \A X : X \subseteq Stored => \A u \in Tasks, l \in Kinds :
        X \cap Results(u, l)' = X \cap Results(u, l) /\ Results(u, l) \subseteq Results(u, l)'
  BY <1>1
<1>3. Weighing => Weighing'
  BY <1>1 DEF Weighing
<1>4. "mining" \in Tasks /\ "validation" \in Tasks /\ "success" \in Kinds /\ "failure" \in Kinds
  BY DEF Tasks, Kinds
<1>5. Reading => Reading'
  <2> SUFFICES ASSUME Reading PROVE Reading'
    OBVIOUS
  <2>1. reader' = reader /\ Weighing /\ reader.began \subseteq Stored
    BY DEF Reading, Weighing
  <2>2. ASSUME NEW u \in Tasks, NEW l \in Kinds, NEW q, NEW e, Reads(q, reader.began, Results(u, l), e)
        PROVE  Reads(q, reader.began, Results(u, l)', e)
    <3>1. /\ reader.began \cap Results(u, l)' = reader.began \cap Results(u, l)
          /\ Results(u, l) \subseteq Results(u, l)'
      BY <1>2, <2>1
    <3> QED
      BY <2>2, <3>1, ReadsStay
  <2>3. Reads(reader.successes, reader.began, Results("mining", "success")', Previous(reader.epoch))
    BY <1>4, <2>2 DEF Reading
  <2>4. reader.pc \in {"previous", "current"} =>
          Reads(reader.failures, reader.began, Results("mining", "failure")', Previous(reader.epoch))
    BY <1>4, <2>2 DEF Reading
  <2>5. reader.pc = "current" =>
          Reads(reader.validations, reader.began, Results("validation", "success")', Previous(reader.epoch))
    BY <1>4, <2>2 DEF Reading
  <2> QED
    BY <1>3, <2>1, <2>3, <2>4, <2>5 DEF Reading
<1>6. Weighed => Weighed'
  <2> SUFFICES ASSUME Weighed PROVE Weighed'
    OBVIOUS
  <2>1. reader' = reader /\ reader.began \subseteq reader.ended /\ reader.ended \subseteq Stored
    BY DEF Weighed
  <2>2. PICK S \in SUBSET (reader.ended \ reader.began) :
          reader.weights = ExpectedOf(reader.began \cup S, reader.epoch, StoredIn("mining"),
                                      Results("mining", "failure"), Results("validation", "success"))
    BY DEF Weighed
  <2> DEFINE X == reader.began \cup S
  <2>3. X \subseteq Stored
    BY <2>1
  <2> HIDE DEF X
  <2>4. /\ X \cap Results("mining", "success")' = X \cap Results("mining", "success")
        /\ X \cap Results("mining", "failure")' = X \cap Results("mining", "failure")
        /\ X \cap Results("validation", "success")' = X \cap Results("validation", "success")
    BY <1>2, <1>4, <2>3
  <2>5. X \cap StoredIn("mining")' = X \cap StoredIn("mining")
    BY <2>4 DEF StoredIn
  <2>6. ExpectedOf(X, reader.epoch, StoredIn("mining"), Results("mining", "failure"),
                   Results("validation", "success"))
          = ExpectedOf(X, reader.epoch, StoredIn("mining")', Results("mining", "failure")',
                       Results("validation", "success")')
    BY <2>4, <2>5, ExpectedStays
  <2>7. reader.weights = ExpectedOf(reader.began \cup S, reader.epoch, StoredIn("mining")',
                           Results("mining", "failure")', Results("validation", "success")')
    BY <2>2, <2>6 DEF X
  <2>8. reader.ended \subseteq Stored'
    BY <1>1, <2>1
  <2>9. reader.pc = "done" /\ Weighing'
    BY <1>3 DEF Weighed
  <2> QED
    BY <2>1, <2>7, <2>8, <2>9 DEF Weighed
<1> QED
  BY <1>5, <1>6 DEF ReaderInv, Idle

\* A view that is read shows what was stored when the weighing began, at least.
LEMMA ViewReads ==
  ASSUME ListsInv, NEW t \in Tasks, NEW k \in Kinds, NEW e, NEW began
  PROVE  Reads(View(t, k, e), began, Results(t, k), e)
BY ViewShowsEpoch DEF Reads, InEpoch

\* The epoch before an epoch ends where it begins.
LEMMA PreviousIsBefore ==
  ASSUME NEW e \in WeighedEpochs, HasPrevious(e)
  PROVE  /\ Previous(e) = CHOOSE d \in WeighedEpochs : d.last_block + 1 = e.first_block
         /\ \A a, b \in Nat : ContainsBlock(Previous(e), a) /\ ContainsBlock(e, b) => a < b
<1>1. /\ WeighedEpochs \subseteq [first_block : Int, last_block : Int]
      /\ \A c, d \in WeighedEpochs : c.last_block = d.last_block => c = d
      /\ Previous(e) \in WeighedEpochs
  BY WeighedAssumption
<1>2. e.first_block \in Int /\ e.last_block \in Int
  BY <1>1
<1>3. Previous(e).last_block = e.first_block - 1
  BY <1>2 DEF Previous
<1>4. \A d \in WeighedEpochs : d.last_block + 1 = e.first_block <=> d = Previous(e)
  <2> SUFFICES ASSUME NEW d \in WeighedEpochs
               PROVE  d.last_block + 1 = e.first_block <=> d = Previous(e)
    OBVIOUS
  <2>1. d.last_block \in Int
    BY <1>1
  <2>2. d.last_block + 1 = e.first_block <=> d.last_block = Previous(e).last_block
    BY <1>2, <1>3, <2>1
  <2> QED
    BY <1>1, <2>2
<1>5. Previous(e) = CHOOSE d \in WeighedEpochs : d.last_block + 1 = e.first_block
  <2>1. Previous(e) \in WeighedEpochs /\ Previous(e).last_block + 1 = e.first_block
    BY <1>1, <1>4
  <2> QED
    BY <1>4, <2>1
<1>6. \A a, b \in Nat : ContainsBlock(Previous(e), a) /\ ContainsBlock(e, b) => a < b
  BY <1>2, <1>3 DEF ContainsBlock
<1> QED
  BY <1>5, <1>6

\* Two sorted sequences in one: the blocks of the first are before those of the second.
LEMMA ConcatSorted ==
  ASSUME NEW p \in Seq(Entries), NEW q \in Seq(Entries), Sorted(p), Sorted(q),
         \A r \in Range(p), s \in Range(q) : r.block < s.block
  PROVE  /\ p \o q \in Seq(Entries) /\ Sorted(p \o q) /\ Stamped(p \o q)
         /\ Range(p \o q) = Range(p) \cup Range(q)
<1> DEFINE m == Len(p)
           n == Len(q)
           c == p \o q
<1>1. /\ m \in Nat /\ n \in Nat /\ DOMAIN p = 1..m /\ DOMAIN q = 1..n
      /\ c \in Seq(Entries) /\ Len(c) = m + n /\ DOMAIN c = 1..(m + n)
      /\ \A i \in 1..m : c[i] = p[i]
      /\ \A i \in (m + 1)..(m + n) : c[i] = q[i - m]
  OBVIOUS
<1>0. /\ \A a, b \in 1..m : a < b => p[a].block < p[b].block \/ (p[a].block = p[b].block /\ p[a].id < p[b].id)
      /\ \A a, b \in 1..n : a < b => q[a].block < q[b].block \/ (q[a].block = q[b].block /\ q[a].id < q[b].id)
  BY <1>1 DEF Sorted
<1> HIDE DEF m, n, c
<1>2. /\ \A i \in 1..m : i \in 1..(m + n)
      /\ \A j \in 1..n : j + m \in (m + 1)..(m + n) /\ j + m \in 1..(m + n) /\ (j + m) - m = j
      /\ \A i \in 1..(m + n) : i \in 1..m \/ (i \in (m + 1)..(m + n) /\ i - m \in 1..n)
  BY <1>1
<1>3. \A j \in 1..n : c[j + m] = q[j]
  BY <1>1, <1>2
<1>10. /\ Range(p) = {p[i] : i \in 1..m} /\ Range(q) = {q[i] : i \in 1..n}
       /\ Range(c) = {c[i] : i \in 1..(m + n)}
  BY <1>1 DEF Range
<1>4. Range(c) = Range(p) \cup Range(q)
  <2>1. Range(c) \subseteq Range(p) \cup Range(q)
    BY <1>1, <1>2, <1>10
  <2>2. Range(p) \subseteq Range(c)
    BY <1>1, <1>2, <1>10
  <2>3. ASSUME NEW j \in 1..n PROVE q[j] \in Range(c)
    <3>1. c[j + m] = q[j] /\ j + m \in 1..(m + n)
      BY <1>2, <1>3
    <3> QED
      BY <1>10, <3>1
  <2> QED
    BY <1>10, <2>1, <2>2, <2>3
<1>5. Sorted(c)
  <2> SUFFICES ASSUME NEW a \in 1..(m + n), NEW b \in 1..(m + n), a < b
               PROVE  \/ c[a].block < c[b].block
                      \/ c[a].block = c[b].block /\ c[a].id < c[b].id
    BY <1>1 DEF Sorted
  <2>1. CASE b \in 1..m
    <3>1. a \in 1..m
      BY <1>1, <2>1
    <3>2. c[a] = p[a] /\ c[b] = p[b]
      BY <1>1, <2>1, <3>1
    <3> QED
      BY <1>0, <2>1, <3>1, <3>2
  <2>2. CASE a \in 1..m /\ b \in (m + 1)..(m + n)
    <3>1. c[a] = p[a] /\ c[b] = q[b - m] /\ b - m \in 1..n
      BY <1>1, <2>2
    <3>2. c[a] \in Range(p) /\ c[b] \in Range(q)
      BY <1>10, <2>2, <3>1
    <3> QED
      BY <3>2
  <2>3. CASE a \in (m + 1)..(m + n) /\ b \in (m + 1)..(m + n)
    <3>1. /\ a - m \in 1..n /\ b - m \in 1..n /\ a - m < b - m
          /\ c[a] = q[a - m] /\ c[b] = q[b - m]
      BY <1>1, <2>3
    <3> QED
      BY <1>0, <3>1
  <2> QED
    BY <1>1, <1>2, <2>1, <2>2, <2>3
<1>6. Stamped(c)
  <2>1. \A i \in 1..(m + n) : c[i] \in Entries
    BY <1>1
  <2>2. \A r \in Entries : r.block \in Nat /\ r.id \in Nat
    BY ResultsAssumption DEF Entries
  <2> QED
    BY <1>1, <2>1, <2>2 DEF Stamped, Range
<1> QED
  BY <1>1, <1>4, <1>5, <1>6 DEF c

\* The weights of a weighing are those of all that was stored when it began and of some of
\* what was stored since.
LEMMA EndWeighs ==
  ASSUME ListsInv, Reading, EndWeighing
  PROVE  Weighed'
<1> DEFINE e == reader.epoch
           d == Previous(e)
           began == reader.began
           ss == reader.successes
           fs == reader.failures
           ps == reader.validations
           cs == View("validation", "success", e)
           MS == Results("mining", "success")
           MF == Results("mining", "failure")
           VS == Results("validation", "success")
<1>1. /\ reader.pc = "current" /\ Weighing
      /\ e \in WeighedEpochs /\ HasPrevious(e) /\ began \subseteq Stored
  BY DEF EndWeighing, Reading, Weighing
<1>2. /\ Reads(ss, began, MS, d) /\ Reads(fs, began, MF, d) /\ Reads(ps, began, VS, d)
  BY <1>1 DEF Reading
<1>3. /\ "mining" \in Tasks /\ "validation" \in Tasks /\ "success" \in Kinds /\ "failure" \in Kinds
      /\ "mining" # "validation" /\ "success" # "failure"
  BY DEF Tasks, Kinds
<1>4. Reads(cs, began, VS, e)
  BY <1>3, ViewReads
<1>5. reader' = [pc |-> "done", epoch |-> e, began |-> began, ended |-> Stored,
                 weights |-> Accumulated(ss, fs, ScoresOf(ps \o cs))]
  BY DEF EndWeighing
<1>6. MS \cap MF = {} /\ MS \cap VS = {} /\ MF \cap VS = {}
  BY <1>3, ResultsApart
<1>7. MS \subseteq Stored /\ MF \subseteq Stored /\ VS \subseteq Stored
  BY <1>3, StoredIsListed
<1>8. StoredIn("mining") = MS \cup MF
  BY DEF StoredIn
<1>9. /\ d = CHOOSE c \in WeighedEpochs : c.last_block + 1 = e.first_block
      /\ \A a, b \in Nat : ContainsBlock(d, a) /\ ContainsBlock(e, b) => a < b
  BY <1>1, PreviousIsBefore
<1>10. UNCHANGED <<lists, byId>>
  BY DEF EndWeighing
<1> HIDE DEF e, d, began, ss, fs, ps, cs, MS, MF, VS
<1>11. /\ ss \in Seq(Entries) /\ fs \in Seq(Entries)
       /\ ps \in Seq(Entries) /\ cs \in Seq(Entries) /\ Sorted(ps) /\ Sorted(cs)
       /\ \A r \in Range(ss) : r \in MS /\ ContainsBlock(d, r.block)
       /\ \A r \in Range(fs) : r \in MF /\ ContainsBlock(d, r.block)
       /\ \A r \in Range(ps) : r \in VS /\ ContainsBlock(d, r.block)
       /\ \A r \in Range(cs) : r \in VS /\ ContainsBlock(e, r.block)
       /\ \A r \in began \cap MS : ContainsBlock(d, r.block) => r \in Range(ss)
       /\ \A r \in began \cap MF : ContainsBlock(d, r.block) => r \in Range(fs)
       /\ \A r \in began \cap VS : ContainsBlock(d, r.block) => r \in Range(ps)
       /\ \A r \in began \cap VS : ContainsBlock(e, r.block) => r \in Range(cs)
  BY <1>2, <1>4 DEF Reads
<1>12. \A q \in Seq(Entries) : \A r \in Range(q) : r.block \in Nat
  <2>1. \A q \in Seq(Entries) : \A r \in Range(q) : r \in Entries
    BY DEF Range
  <2> QED
    BY <2>1, ResultsAssumption DEF Entries
<1>13. \A r \in Range(ps), s \in Range(cs) : r.block < s.block
  BY <1>9, <1>11, <1>12
<1>14. /\ ps \o cs \in Seq(Entries) /\ Sorted(ps \o cs) /\ Stamped(ps \o cs)
       /\ Range(ps \o cs) = Range(ps) \cup Range(cs)
  BY <1>11, <1>13, ConcatSorted
<1> DEFINE R == Range(ss) \cup Range(fs) \cup Range(ps) \cup Range(cs)
           S == R \ began
           X == began \cup S
           mined == {r \in X \cap (MS \cup MF) : ContainsBlock(d, r.block)}
           validated == {r \in X \cap VS : ContainsBlock(d, r.block) \/ ContainsBlock(e, r.block)}
<1>15. mined = Range(ss) \cup Range(fs)
  BY <1>6, <1>11
<1>16. mined \cap MF = Range(fs)
  BY <1>6, <1>11, <1>15
<1>17. validated = Range(ps) \cup Range(cs)
  BY <1>6, <1>11
<1>18. ExpectedOf(X, e, MS \cup MF, MF, VS) = WeightsOf(mined, mined \cap MF, validated)
  BY <1>9 DEF ExpectedOf
<1>19. Accumulated(ss, fs, ScoresOf(ps \o cs))
         = WeightsOf(Range(ss) \cup Range(fs), Range(fs), Range(ps \o cs))
  <2>1. Range(ss) \cap Range(fs) = {}
    BY <1>6, <1>11
  <2>2. ss \in Seq(Entries) /\ fs \in Seq(Entries)
    BY <1>11
  <2> DEFINE vs == ps \o cs
  <2>3. vs \in Seq(Entries) /\ Sorted(vs) /\ Stamped(vs)
    BY <1>14
  <2> HIDE DEF vs
  <2>4. Accumulated(ss, fs, ScoresOf(vs)) = WeightsOf(Range(ss) \cup Range(fs), Range(fs), Range(vs))
    <3>1. \A s, f, v \in Seq(Entries) : Range(s) \cap Range(f) = {} /\ Sorted(v) /\ Stamped(v) =>
            Accumulated(s, f, ScoresOf(v)) = WeightsOf(Range(s) \cup Range(f), Range(f), Range(v))
      BY AccumulatedIsWeights
    <3> QED
      BY <2>1, <2>2, <2>3, <3>1
  <2> QED
    BY <2>4 DEF vs
<1>20. Accumulated(ss, fs, ScoresOf(ps \o cs)) = ExpectedOf(X, e, MS \cup MF, MF, VS)
  BY <1>14, <1>15, <1>16, <1>17, <1>18, <1>19
<1>21. S \in SUBSET (Stored \ began)
  BY <1>7, <1>11
<1> HIDE DEF S
<1>22. /\ Stored' = Stored /\ StoredIn("mining")' = MS \cup MF
       /\ Results("mining", "failure")' = MF /\ Results("validation", "success")' = VS
  BY <1>8, <1>10, StoreUnchanged DEF MF, VS
<1>23. /\ reader'.pc = "done" /\ reader'.epoch = e /\ reader'.began = began
       /\ reader'.ended = Stored
       /\ reader'.weights = ExpectedOf(began \cup S, e, MS \cup MF, MF, VS)
  BY <1>5, <1>20
<1>24. Weighing'
  BY <1>1, <1>22, <1>23 DEF Weighing, e, began
<1>25. \E T \in SUBSET (reader'.ended \ reader'.began) :
         reader'.weights = ExpectedOf(reader'.began \cup T, reader'.epoch, StoredIn("mining")',
                                      Results("mining", "failure")', Results("validation", "success")')
  BY <1>21, <1>22, <1>23
<1>26. reader'.began \subseteq reader'.ended /\ reader'.ended \subseteq Stored'
  BY <1>1, <1>22, <1>23 DEF began
<1> QED
  BY <1>23, <1>24, <1>25, <1>26 DEF Weighed

\* What weighings have read and weighed, at all times.
LEMMA ReaderInvariance == ResultsSpec => [](StoreInv /\ ReaderInv)
<1>1. ResultsInit => ReaderInv
  BY DEF ResultsInit, ReaderInv
<1>2. StoreInv /\ ReaderInv /\ [ResultsNext]_resultsVars => ReaderInv'
  <2> SUFFICES ASSUME StoreInv, ReaderInv, [ResultsNext]_resultsVars PROVE ReaderInv'
    OBVIOUS
  <2>1. ListsInv
    BY DEF StoreInv
  <2>2. "mining" \in Tasks /\ "validation" \in Tasks /\ "success" \in Kinds /\ "failure" \in Kinds
    BY DEF Tasks, Kinds
  <2>3. ASSUME NEW t \in Tasks, NEW k \in Kinds, Store(t, k) PROVE ReaderInv'
    <3>1. PICK r \in Entries : Add(t, k, r) /\ Added(t, k, r)
      BY <2>1, <2>3, StoreAdds
    <3> QED
      BY <3>1, AddKeepsReader DEF Add
  <2>4. ASSUME UNCHANGED <<lists, byId>>
        PROVE  Stored' = Stored /\ \A t, k : Results(t, k)' = Results(t, k)
    BY <2>4, StoreUnchanged
  <2>5. ASSUME NEW e \in WeighedEpochs, BeginWeighing(e) PROVE ReaderInv'
    <3>1. /\ reader' = [pc |-> "failures", epoch |-> e, began |-> Stored,
                        successes |-> View("mining", "success", Previous(e))]
          /\ HasPrevious(e) /\ UNCHANGED <<lists, byId>>
      BY <2>5 DEF BeginWeighing
    <3>2. Reads(View("mining", "success", Previous(e)), Stored, Results("mining", "success"), Previous(e))
      BY <2>1, <2>2, ViewReads
    <3>3. Reading'
      BY <2>4, <3>1, <3>2 DEF Reading, Weighing
    <3> QED
      BY <3>3 DEF ReaderInv
  <2>6. CASE ReadFailures
    <3>1. /\ reader.pc = "failures" /\ UNCHANGED <<lists, byId>>
          /\ reader' = [pc |-> "previous", epoch |-> reader.epoch, began |-> reader.began,
                        successes |-> reader.successes,
                        failures |-> View("mining", "failure", Previous(reader.epoch))]
      BY <2>6 DEF ReadFailures
    <3>2. Reading
      BY <3>1 DEF ReaderInv, Idle, Weighed
    <3>3. Reads(View("mining", "failure", Previous(reader.epoch)), reader.began,
                Results("mining", "failure"), Previous(reader.epoch))
      BY <2>1, <2>2, ViewReads
    <3>4. Reading'
      BY <2>4, <3>1, <3>2, <3>3 DEF Reading, Weighing
    <3> QED
      BY <3>4 DEF ReaderInv
  <2>7. CASE ReadPrevious
    <3>1. /\ reader.pc = "previous" /\ UNCHANGED <<lists, byId>>
          /\ reader' = [pc |-> "current", epoch |-> reader.epoch, began |-> reader.began,
                        successes |-> reader.successes, failures |-> reader.failures,
                        validations |-> View("validation", "success", Previous(reader.epoch))]
      BY <2>7 DEF ReadPrevious
    <3>2. Reading
      BY <3>1 DEF ReaderInv, Idle, Weighed
    <3>3. Reads(View("validation", "success", Previous(reader.epoch)), reader.began,
                Results("validation", "success"), Previous(reader.epoch))
      BY <2>1, <2>2, ViewReads
    <3>4. Reading'
      BY <2>4, <3>1, <3>2, <3>3 DEF Reading, Weighing
    <3> QED
      BY <3>4 DEF ReaderInv
  <2>8. CASE EndWeighing
    <3>1. reader.pc = "current"
      BY <2>8 DEF EndWeighing
    <3>2. Reading
      BY <3>1 DEF ReaderInv, Idle, Weighed
    <3> QED
      BY <2>1, <2>8, <3>2, EndWeighs DEF ReaderInv
  <2>9. CASE UNCHANGED resultsVars
    <3>1. reader' = reader /\ UNCHANGED <<lists, byId>>
      BY <2>9 DEF resultsVars
    <3>2. StoredIn("mining")' = StoredIn("mining")
      BY <3>1, StoreUnchanged
    <3> QED
      BY <2>4, <3>1, <3>2 DEF ReaderInv, Reading, Weighed, Weighing
  <2> QED
    BY <2>3, <2>5, <2>6, <2>7, <2>8, <2>9 DEF ResultsNext
<1> QED
  BY <1>1, <1>2, StoreInvariance, PTL DEF ResultsSpec

\* Weights are those of all that was stored when a weighing began and of some of what was
\* stored while it read, for any interleaving of the reads with storers.
THEOREM WeighingIsFaithful == ResultsSpec => []WeighsWhatWasStored
<1>1. ReaderInv => WeighsWhatWasStored
  <2> SUFFICES ASSUME ReaderInv, reader.pc = "done"
               PROVE  \E S \in SUBSET (reader.ended \ reader.began) :
                        reader.weights = Expected(reader.began \cup S, reader.epoch)
    BY DEF WeighsWhatWasStored
  <2>1. Weighed
    BY DEF ReaderInv, Idle, Reading
  <2>2. \A X, e : ExpectedOf(X, e, StoredIn("mining"), Results("mining", "failure"),
                             Results("validation", "success")) = Expected(X, e)
    BY DEF ExpectedOf, Expected, Mining, Validated
  <2> QED
    BY <2>1, <2>2 DEF Weighed
<1> QED
  BY <1>1, ReaderInvariance, PTL
=============================================================================
