-------------------------- MODULE ChainBeatsProofs --------------------------
(***************************************************************************)
(* Theorems about Epochs, for every block, netuid and tempo, and about     *)
(* ChainBeats, for every netuid, tempo, offset, cooldown and every bound   *)
(* of the model.  What holds of epochs follows from the phase of a block   *)
(* in its epoch.                                                           *)
(***************************************************************************)
EXTENDS ChainBeats, TLAPS

----------------------------------------------------------------------------
(* Epochs of a subnet *)

\* As many blocks have passed since the first block of the epoch.
Phase(b, netuid, tempo) == (b + netuid + 2) % Interval(tempo)

\* An argument of the modulus moves its value along while no multiple is crossed.
LEMMA ModShift ==
  ASSUME NEW x \in Int, NEW n \in Nat \ {0}, NEW k \in Int, (x % n) + k \in 0..(n - 1)
  PROVE  (x + k) % n = (x % n) + k
BY SMT

\* A quotient and a remainder determine the modulus.
LEMMA ModUnique ==
  ASSUME NEW n \in Nat \ {0}, NEW q \in Int, NEW r \in 0..(n - 1)
  PROVE  (n * q + r) % n = r
BY SMT

\* The value is in its range, and the next argument has the next value or 0.
LEMMA ModSucc ==
  ASSUME NEW x \in Int, NEW n \in Nat \ {0}
  PROVE  /\ x % n \in 0..(n - 1)
         /\ (x + 1) % n = IF x % n = n - 1 THEN 0 ELSE (x % n) + 1
<1>1. x % n \in 0..(n - 1)
  BY SMT
<1>2. CASE x % n = n - 1
  <2>1. PICK q \in Int : x = n * q + (x % n)
    <3>1. x \div n \in Int /\ x = n * (x \div n) + (x % n)
      BY SMT
    <3>2. QED
      BY <3>1
  <2>2. q + 1 \in Int /\ 0 \in 0..(n - 1) /\ x + 1 = n * (q + 1) + 0
    BY <1>2, <2>1, SMT
  <2>3. (n * (q + 1) + 0) % n = 0
    BY <2>2, ModUnique
  <2>4. QED
    BY <1>1, <1>2, <2>2, <2>3
<1>3. CASE x % n # n - 1
  <2>1. 1 \in Int /\ (x % n) + 1 \in 0..(n - 1)
    BY <1>1, <1>3, SMT
  <2>2. (x + 1) % n = (x % n) + 1
    BY <2>1, ModShift
  <2>3. QED
    BY <1>1, <1>3, <2>2
<1>4. QED
  BY <1>2, <1>3

\* The code's case distinction comes to: an epoch begins Phase blocks before.
LEMMA EpochFromPhase ==
  ASSUME NEW b \in Int, NEW netuid \in Nat, NEW tempo \in Nat \ {0}
  PROVE  /\ Phase(b, netuid, tempo) \in 0..tempo
         /\ EpochContaining(b, netuid, tempo)
              = [first_block |-> b - Phase(b, netuid, tempo),
                 last_block |-> (b - Phase(b, netuid, tempo)) + tempo]
<1> DEFINE k == (b + netuid + 1) % (tempo + 1)
           f == Phase(b, netuid, tempo)
<1>1. /\ k \in 0..tempo
      /\ f = IF k = tempo THEN 0 ELSE k + 1
  <2>1. b + netuid + 1 \in Int /\ tempo + 1 \in Nat \ {0} /\ (tempo + 1) - 1 = tempo
    BY SMT
  <2>2. (b + netuid + 1) + 1 = b + netuid + 2
    BY SMT
  <2>3. QED
    BY <2>1, <2>2, ModSucc DEF Phase, Interval
<1>2. f \in 0..tempo
  BY <1>1, SMT
<1> HIDE DEF k, f
<1> DEFINE n == (b + tempo) - k
<1>3. n = b <=> k = tempo
  BY <1>1, SMT
<1>4. EpochContaining(b, netuid, tempo)
        = [first_block |-> IF n = b THEN n ELSE n - (tempo + 1),
           last_block |-> (IF n = b THEN (IF n = b THEN n ELSE n - (tempo + 1)) + (tempo + 1)
                           ELSE n) - 1]
  BY DEF EpochContaining, Interval, k
<1>5. /\ (IF n = b THEN n ELSE n - (tempo + 1)) = b - f
      /\ (IF n = b THEN (IF n = b THEN n ELSE n - (tempo + 1)) + (tempo + 1) ELSE n) - 1
           = (b - f) + tempo
  BY <1>1, <1>2, <1>3, SMT
<1>6. QED
  BY <1>2, <1>4, <1>5 DEF f

\* The phase counts the blocks of an epoch.
LEMMA PhaseShift ==
  ASSUME NEW b \in Int, NEW netuid \in Nat, NEW tempo \in Nat \ {0}, NEW d \in Int,
         Phase(b, netuid, tempo) + d \in 0..tempo
  PROVE  Phase(b + d, netuid, tempo) = Phase(b, netuid, tempo) + d
<1> DEFINE x == b + netuid + 2
           n == tempo + 1
<1>1. x \in Int /\ n \in Nat \ {0} /\ n - 1 = tempo
  BY SMT
<1>2. (b + d) + netuid + 2 = x + d
  BY SMT
<1>3. Phase(b, netuid, tempo) = x % n
  BY DEF Phase, Interval
<1>4. Phase(b + d, netuid, tempo) = (x + d) % n
  BY <1>2 DEF Phase, Interval
<1> HIDE DEF x, n
<1>5. (x % n) + d \in 0..(n - 1)
  BY <1>1, <1>3
<1>6. (x + d) % n = (x % n) + d
  BY <1>1, <1>5, ModShift
<1>7. QED
  BY <1>3, <1>4, <1>6

\* Subtensor steps at the blocks of phase 0.
LEMMA StepIsPhaseZero ==
  ASSUME NEW b \in Int, NEW netuid \in Nat, NEW tempo \in Nat \ {0}
  PROVE  EpochStep(b, netuid, tempo) <=> Phase(b, netuid, tempo) = 0
<1> DEFINE k == (b + netuid + 1) % (tempo + 1)
<1>1. b + netuid + 1 \in Int /\ tempo + 1 \in Nat \ {0} /\ (tempo + 1) - 1 = tempo
  BY SMT
<1>2. (b + netuid + 1) + 1 = b + netuid + 2
  BY SMT
<1>3. k \in 0..tempo /\ Phase(b, netuid, tempo) = IF k = tempo THEN 0 ELSE k + 1
  BY <1>1, <1>2, ModSucc DEF Phase, Interval
<1>4. EpochStep(b, netuid, tempo) <=> tempo - k = 0
  BY DEF EpochStep, BlocksUntilNextEpoch, Interval
<1> HIDE DEF k
<1>5. QED
  BY <1>3, <1>4, SMT

\* The block after the last of an epoch has phase 0.
LEMMA PhaseWraps ==
  ASSUME NEW b \in Int, NEW netuid \in Nat, NEW tempo \in Nat \ {0},
         Phase(b, netuid, tempo) = tempo
  PROVE  Phase(b + 1, netuid, tempo) = 0
<1>1. b + netuid + 2 \in Int /\ tempo + 1 \in Nat \ {0} /\ (tempo + 1) - 1 = tempo
  BY SMT
<1>2. (b + 1) + netuid + 2 = (b + netuid + 2) + 1
  BY SMT
<1>3. QED
  BY <1>1, <1>2, ModSucc DEF Phase, Interval

----------------------------------------------------------------------------
\* What get_epoch_containing_block returns is the epoch of subtensor's
\* blocks_until_next_epoch that contains the block.
THEOREM EpochIsSubtensors ==
  ASSUME NEW b \in Int, NEW netuid \in Nat, NEW tempo \in Nat \ {0}
  PROVE  IsEpochOf(EpochContaining(b, netuid, tempo), b, netuid, tempo)
<1> DEFINE f == Phase(b, netuid, tempo)
           e == EpochContaining(b, netuid, tempo)
<1>1. f \in 0..tempo /\ e.first_block = b - f /\ e.last_block = (b - f) + tempo
  BY EpochFromPhase
<1>2. e.first_block <= b /\ b <= e.last_block
  BY <1>1, SMT
<1>3. ASSUME NEW d \in 0..tempo
      PROVE  (b - f) + d \in Int /\ Phase((b - f) + d, netuid, tempo) = d
  <2> DEFINE k == d - f
  <2>1. k \in Int /\ f + k = d /\ b + k = (b - f) + d /\ b + k \in Int
    BY <1>1, SMT
  <2> HIDE DEF k
  <2>2. Phase(b + k, netuid, tempo) = f + k
    BY <2>1, PhaseShift
  <2>3. QED
    BY <2>1, <2>2
<1>4. EpochStep(e.first_block, netuid, tempo)
  <2>1. 0 \in 0..tempo /\ (b - f) + 0 = b - f
    BY <1>1, SMT
  <2>2. QED
    BY <1>1, <1>3, <2>1, StepIsPhaseZero
<1>5. EpochStep(e.last_block + 1, netuid, tempo)
  <2>1. tempo \in 0..tempo /\ ((b - f) + tempo) + 1 \in Int
    BY <1>1, SMT
  <2>2. QED
    BY <1>1, <1>3, <2>1, PhaseWraps, StepIsPhaseZero
<1>6. ASSUME NEW c \in (e.first_block + 1)..e.last_block
      PROVE  ~EpochStep(c, netuid, tempo)
  <2> DEFINE d == c - (b - f)
  <2>1. d \in 1..tempo /\ d \in 0..tempo /\ (b - f) + d = c /\ c \in Int
    BY <1>1, SMT
  <2>2. Phase(c, netuid, tempo) # 0
    <3> HIDE DEF d
    <3>1. d # 0
      BY <2>1, SMT
    <3>2. QED
      BY <1>3, <2>1, <3>1
  <2>3. QED
    BY <2>1, <2>2, StepIsPhaseZero
<1>7. QED
  BY <1>2, <1>4, <1>5, <1>6 DEF IsEpochOf

\* Epochs tile the blocks: every block of an epoch has that epoch, the block after it
\* begins the next, and Epoch.previous is the epoch of the block before it.
THEOREM EpochsTile ==
  ASSUME NEW b \in Int, NEW netuid \in Nat, NEW tempo \in Nat \ {0}
  PROVE  LET e == EpochContaining(b, netuid, tempo)
         IN  /\ \A c \in Int : ContainsBlock(e, c) => EpochContaining(c, netuid, tempo) = e
             /\ EpochContaining(e.last_block + 1, netuid, tempo).first_block
                  = e.last_block + 1
             /\ EpochContaining(e.first_block - 1, netuid, tempo) = Previous(e)
<1> DEFINE f == Phase(b, netuid, tempo)
           e == EpochContaining(b, netuid, tempo)
<1>1. /\ f \in 0..tempo
      /\ e = [first_block |-> b - f, last_block |-> (b - f) + tempo]
  BY EpochFromPhase
<1>2. e.first_block = b - f /\ e.last_block = (b - f) + tempo
  BY <1>1
<1>3. ASSUME NEW c \in Int, ContainsBlock(e, c)
      PROVE  EpochContaining(c, netuid, tempo) = e
  <2> DEFINE d == c - b
  <2>1. d \in Int /\ f + d \in 0..tempo /\ b + d = c
    BY <1>1, <1>2, <1>3, SMT DEF ContainsBlock
  <2>2. Phase(c, netuid, tempo) = f + d
    BY <2>1, PhaseShift
  <2>3. EpochContaining(c, netuid, tempo)
          = [first_block |-> c - Phase(c, netuid, tempo),
             last_block |-> (c - Phase(c, netuid, tempo)) + tempo]
    BY EpochFromPhase
  <2>4. c - (f + d) = b - f
    BY <1>1, <2>1, SMT
  <2>5. QED
    BY <1>1, <2>2, <2>3, <2>4
<1>4. /\ e.last_block + 1 \in Int
      /\ Phase(e.last_block + 1, netuid, tempo) = 0
  <2>1. /\ tempo - f \in Int /\ f + (tempo - f) = tempo /\ tempo \in 0..tempo
        /\ b + (tempo - f) = e.last_block /\ e.last_block \in Int /\ e.last_block + 1 \in Int
    BY <1>1, <1>2, SMT
  <2>2. Phase(e.last_block, netuid, tempo) = tempo
    BY <2>1, PhaseShift
  <2>3. QED
    BY <2>1, <2>2, PhaseWraps
<1>5. EpochContaining(e.last_block + 1, netuid, tempo).first_block = e.last_block + 1
  <2> DEFINE m == e.last_block + 1
  <2>1. m \in Int /\ Phase(m, netuid, tempo) = 0
    BY <1>4
  <2> HIDE DEF m
  <2>2. EpochContaining(m, netuid, tempo)
          = [first_block |-> m - Phase(m, netuid, tempo),
             last_block |-> (m - Phase(m, netuid, tempo)) + tempo]
    BY <2>1, EpochFromPhase
  <2>3. m - 0 = m
    BY <2>1, SMT
  <2>4. EpochContaining(m, netuid, tempo).first_block = m
    BY <2>1, <2>2, <2>3
  <2>5. QED
    BY <2>4 DEF m
<1>6. EpochContaining(e.first_block - 1, netuid, tempo) = Previous(e)
  <2> DEFINE p == e.first_block - 1
             g == Phase(p, netuid, tempo)
             q == EpochContaining(p, netuid, tempo)
  <2>1. p \in Int
    BY <1>1, <1>2, SMT
  <2>2. g \in 0..tempo /\ q = [first_block |-> p - g, last_block |-> (p - g) + tempo]
    BY <2>1, EpochFromPhase
  <2>3. g = tempo
    <3>1. CASE g # tempo
      <4>1. g + 1 \in 0..tempo /\ p + 1 = e.first_block /\ g + 1 # 0
        BY <2>1, <2>2, <3>1, <1>1, <1>2, SMT
      <4>2. Phase(e.first_block, netuid, tempo) = g + 1
        BY <2>1, <4>1, PhaseShift
      <4>3. Phase(e.first_block, netuid, tempo) = 0
        <5>1. b + (0 - f) = e.first_block /\ f + (0 - f) = 0 /\ 0 - f \in Int /\ 0 \in 0..tempo
          BY <1>1, <1>2, SMT
        <5>2. QED
          BY <5>1, PhaseShift
      <4>4. QED
        BY <4>1, <4>2, <4>3
    <3>2. QED
      BY <3>1
  <2>4. /\ (e.last_block - e.first_block) + 1 = tempo + 1
        /\ e.first_block - (tempo + 1) = p - tempo
        /\ e.last_block - (tempo + 1) = (p - tempo) + tempo
    BY <1>1, <1>2, SMT
  <2>5. Previous(e) = [first_block |-> e.first_block - (tempo + 1),
                       last_block |-> e.last_block - (tempo + 1)]
    BY <2>4 DEF Previous
  <2>6. QED
    BY <2>2, <2>3, <2>4, <2>5
<1>7. QED
  BY <1>3, <1>5, <1>6

----------------------------------------------------------------------------
(* The gate of the weight setter *)

SomeEpochs == [first_block : Int, last_block : Int]

\* What the gate remembers of its attempts is the block of the last one.
GateInv ==
  /\ block \in Nat
  /\ beats \in Seq(Nat)
  /\ lastBeat \in Nat \cup {NoBlock}
  /\ attempts \in Seq([epoch : SomeEpochs, block_number : Nat])
  /\ attempts = <<>> => lastBeat = NoBlock
  /\ attempts # <<>> => lastBeat = attempts[Len(attempts)].block_number

IInv == GateInv /\ AttemptsSpaced

\* The gate's epoch of a block is an epoch, and that of subtensor.
LEMMA EpochOfIsEpoch ==
  ASSUME NEW b \in Nat
  PROVE  EpochOf(b) \in SomeEpochs /\ IsEpochOf(EpochOf(b), b, NetUid, Tempo)
<1>1. b \in Int /\ NetUid \in Nat /\ Tempo \in Nat \ {0}
  BY BeatsAssumption
<1>2. Phase(b, NetUid, Tempo) \in Int
      /\ b - Phase(b, NetUid, Tempo) \in Int /\ (b - Phase(b, NetUid, Tempo)) + Tempo \in Int
  BY <1>1, EpochFromPhase, SMT
<1>3. EpochOf(b) \in SomeEpochs
  BY <1>1, <1>2, EpochFromPhase DEF EpochOf, SomeEpochs
<1>4. QED
  BY <1>1, <1>3, EpochIsSubtensors DEF EpochOf

\* An element of a sequence is in its set.
LEMMA SeqElement ==
  ASSUME NEW S, NEW s \in Seq(S), NEW i \in DOMAIN s
  PROVE  s[i] \in S
OBVIOUS

\* Head and tail of a queue.
LEMMA SeqHeadTail ==
  ASSUME NEW S, NEW s \in Seq(S), s # <<>>
  PROVE  Head(s) \in S /\ Tail(s) \in Seq(S)
OBVIOUS

\* One cooldown more, a product Z3 needs to be shown.
LEMMA OneMore ==
  ASSUME NEW k \in Nat, NEW c \in Nat
  PROVE  (k + 1) * c = k * c + c /\ k * c \in Nat
BY SMT

\* The gate emits for the first beat in its queue or leaves its attempts alone.
LEMMA GateStep ==
  ASSUME OnBlockBeat
  PROVE  /\ beats # <<>> /\ beats' = Tail(beats) /\ UNCHANGED <<block, lastEpoch>>
         /\ \/ UNCHANGED <<lastBeat, attempts>>
            \/ /\ ~Silenced(Head(beats))
               /\ lastBeat' = Head(beats)
               /\ attempts' = Append(attempts, [epoch |-> EpochOf(Head(beats)),
                                                block_number |-> Head(beats)])
BY DEF OnBlockBeat, gateVars, pylonVars, producerVars

\* Every other action leaves the gate alone.
LEMMA OtherStep ==
  ASSUME GateInv, [Next]_vars, ~OnBlockBeat
  PROVE  /\ UNCHANGED <<lastBeat, attempts>>
         /\ block' \in Nat /\ beats' \in Seq(Nat)
<1> USE DEF pylonVars, producerVars, gateVars, GateInv
<1>1. CASE ChainMoves
  <2>1. block' \in Nat
    BY <1>1, SMT DEF ChainMoves
  <2>2. QED
    BY <1>1, <2>1 DEF ChainMoves
<1>2. CASE WeightsSubmitted
  BY <1>2 DEF WeightsSubmitted
<1>3. CASE PollBlock
  BY <1>3, SMT DEF PollBlock
<1>4. CASE PollEpoch
  BY <1>4 DEF PollEpoch
<1>5. CASE SetWeights
  BY <1>5 DEF SetWeights
<1>6. CASE UNCHANGED vars
  BY <1>6 DEF vars
<1>7. QED
  BY <1>1, <1>2, <1>3, <1>4, <1>5, <1>6 DEF Next

\* The gate starts without attempts.
LEMMA InitIInv == Init => IInv
<1> SUFFICES ASSUME Init PROVE IInv
  OBVIOUS
<1>1. block \in Nat
  BY BeatsAssumption, SMT DEF Init
<1>2. GateInv
  BY <1>1, SMT DEF Init, GateInv
<1>3. AttemptsSpaced
  BY SMT DEF Init, AttemptsSpaced
<1>4. QED
  BY <1>2, <1>3 DEF IInv

\* Every step keeps the invariant; only a new attempt needs an argument: it is a cooldown
\* after the last one, which is as many cooldowns after the i-th as attempts lie between.
LEMMA NextIInv == IInv /\ [Next]_vars => IInv'
<1> SUFFICES ASSUME IInv, [Next]_vars PROVE IInv'
  OBVIOUS
<1> USE DEF IInv
<1>1. CASE ~OnBlockBeat
  <2>1. /\ UNCHANGED <<lastBeat, attempts>>
        /\ block' \in Nat /\ beats' \in Seq(Nat)
    BY <1>1, OtherStep
  <2>2. QED
    BY <2>1 DEF GateInv, AttemptsSpaced
<1>2. CASE OnBlockBeat
  <2> DEFINE b == Head(beats)
             n == Len(attempts)
  <2>1. b \in Nat /\ beats' \in Seq(Nat) /\ block' \in Nat
    <3>1. beats \in Seq(Nat) /\ beats # <<>> /\ beats' = Tail(beats) /\ block' = block
      BY <1>2, GateStep DEF GateInv
    <3>2. QED
      BY <3>1, SeqHeadTail DEF GateInv
  <2>2. CASE UNCHANGED <<lastBeat, attempts>>
    BY <2>1, <2>2 DEF GateInv, AttemptsSpaced
  <2>3. CASE /\ ~Silenced(b)
             /\ lastBeat' = b
             /\ attempts' = Append(attempts, [epoch |-> EpochOf(b), block_number |-> b])
    <3> DEFINE new == [epoch |-> EpochOf(b), block_number |-> b]
    <3>1. new \in [epoch : SomeEpochs, block_number : Nat]
      BY <2>1, EpochOfIsEpoch
    <3>2. new.block_number = b
      OBVIOUS
    <3> HIDE DEF new
    <3>3. attempts' = Append(attempts, new)
      BY <2>3 DEF new
    <3>4. /\ n \in Nat /\ Len(attempts') = n + 1 /\ attempts'[n + 1] = new
          /\ \A i \in 1..n : attempts'[i] = attempts[i]
          /\ attempts' \in Seq([epoch : SomeEpochs, block_number : Nat])
          /\ attempts' # <<>>
          /\ DOMAIN attempts = 1..n /\ DOMAIN attempts' = 1..(n + 1)
      <4>1. attempts \in Seq([epoch : SomeEpochs, block_number : Nat])
        BY DEF GateInv
      <4>2. /\ n \in Nat /\ Len(attempts') = n + 1
            /\ DOMAIN attempts = 1..n /\ DOMAIN attempts' = 1..(n + 1)
        BY <3>3, <4>1, SMT
      <4>3. attempts' \in Seq([epoch : SomeEpochs, block_number : Nat])
        BY <3>1, <3>3, <4>1, SMT
      <4>4. attempts'[n + 1] = new /\ \A i \in 1..n : attempts'[i] = attempts[i]
        BY <3>3, <4>1, <4>2, SMT
      <4>5. attempts' # <<>>
        BY <4>2, SMT
      <4>6. QED
        BY <4>2, <4>3, <4>4, <4>5
    <3>5. GateInv'
      <4>1. lastBeat' \in Nat \cup {NoBlock} /\ lastBeat' = attempts'[n + 1].block_number
        BY <2>1, <2>3, <3>2, <3>4
      <4>2. attempts'[Len(attempts')].block_number = attempts'[n + 1].block_number
        BY <3>4
      <4>3. QED
        BY <2>1, <3>4, <4>1, <4>2 DEF GateInv
    <3>6. ASSUME NEW i \in 1..n
          PROVE  b - attempts[i].block_number >= ((n + 1) - i) * Cooldown
      <4> DEFINE x == attempts[i].block_number
                 l == attempts[n].block_number
      <4>1. i \in DOMAIN attempts /\ n \in DOMAIN attempts /\ i <= n
            /\ attempts # <<>> /\ n - i \in Nat
        BY <3>4, <3>6, SMT DEF GateInv
      <4>2. l - x >= (n - i) * Cooldown
        BY <4>1 DEF AttemptsSpaced
      <4>3. x \in Nat /\ l \in Nat
        <5>1. \A k \in DOMAIN attempts : attempts[k] \in [epoch : SomeEpochs, block_number : Nat]
          BY SeqElement DEF GateInv
        <5>2. QED
          BY <4>1, <5>1
      <4>4. lastBeat = l /\ lastBeat # NoBlock
        <5>1. lastBeat = l
          BY <4>1 DEF GateInv
        <5>2. QED
          BY <4>3, <5>1, SMT DEF NoBlock
      <4>5. b - l >= Cooldown
        <5>1. ~(b - l < Cooldown)
          BY <2>3, <4>4 DEF Silenced
        <5>2. QED
          BY <2>1, <4>3, <5>1, BeatsAssumption, SMT
      <4>6. ((n + 1) - i) * Cooldown = (n - i) * Cooldown + Cooldown
            /\ (n - i) * Cooldown \in Int
        <5>1. (n + 1) - i = (n - i) + 1
          BY <3>4, <4>1, SMT
        <5>2. ((n - i) + 1) * Cooldown = (n - i) * Cooldown + Cooldown
              /\ (n - i) * Cooldown \in Nat
          BY <4>1, OneMore, BeatsAssumption
        <5>3. QED
          BY <5>1, <5>2, SMT
      <4> HIDE DEF x, l
      <4>7. b - x >= (n - i) * Cooldown + Cooldown
        BY <2>1, <4>2, <4>3, <4>5, <4>6, BeatsAssumption, SMT
      <4>8. QED
        BY <4>6, <4>7 DEF x
    <3>7. ASSUME NEW i \in DOMAIN attempts', NEW j \in DOMAIN attempts', i <= j
          PROVE  attempts'[j].block_number - attempts'[i].block_number >= (j - i) * Cooldown
      <4>1. CASE j \in 1..n
        <5>1. i \in 1..n
          BY <3>4, <3>7, <4>1, SMT
        <5>2. QED
          BY <3>4, <3>7, <4>1, <5>1 DEF AttemptsSpaced
      <4>2. CASE j = n + 1 /\ i \in 1..n
        BY <3>2, <3>4, <3>6, <4>2
      <4>3. CASE j = n + 1 /\ i = n + 1
        <5>1. (j - i) * Cooldown = 0 /\ b - b = 0
          BY <2>1, <3>4, <4>3, BeatsAssumption, SMT
        <5>2. QED
          BY <3>2, <3>4, <4>3, <5>1, SMT
      <4>4. QED
        <5>1. j \in 1..n \/ (j = n + 1 /\ i \in 1..n) \/ (j = n + 1 /\ i = n + 1)
          BY <3>4, <3>7, SMT
        <5>2. QED
          BY <4>1, <4>2, <4>3, <5>1
    <3>8. AttemptsSpaced'
      BY <3>7 DEF AttemptsSpaced
    <3>9. QED
      BY <3>5, <3>8
  <2>4. QED
    BY <1>2, <2>2, <2>3, GateStep
<1>3. QED
  BY <1>1, <1>2

----------------------------------------------------------------------------
\* The gate's memory is that of its attempts, which are spaced, in every reachable state.
THEOREM GateInvariance == Spec => []IInv
<1>1. Init => IInv
  BY InitIInv
<1>2. IInv /\ [Next]_vars => IInv'
  BY NextIInv
<1>3. QED
  BY <1>1, <1>2, PTL DEF Spec

\* Any two attempts to set weights are as many cooldowns apart as attempts lie between
\* them, whatever blocks are skipped, repeated or taken back and across epochs.
THEOREM AttemptsKeepDistance == Spec => []AttemptsSpaced
<1>1. IInv => AttemptsSpaced
  BY DEF IInv
<1>2. QED
  BY <1>1, GateInvariance, PTL

\* What the producer and the gate announce are the epochs of subtensor.
LEMMA StepNamesEpochs ==
  ASSUME IInv, [Next]_vars
  PROVE  [/\ lastEpoch' # lastEpoch =>
               IsEpochOf(lastEpoch', block - Delay, NetUid, DefaultTempo)
          /\ attempts' # attempts =>
               IsEpochOf(attempts'[Len(attempts')].epoch, Head(beats), NetUid, Tempo)]_vars
<1> USE DEF IInv
<1>1. ASSUME lastEpoch' # lastEpoch
      PROVE  IsEpochOf(lastEpoch', block - Delay, NetUid, DefaultTempo)
  <2>1. PollEpoch
    BY <1>1 DEF Next, vars, producerVars, pylonVars, ChainMoves, WeightsSubmitted, PollBlock,
         OnBlockBeat, SetWeights
  <2>2. lastEpoch' = EpochContaining(block - Delay, NetUid, DefaultTempo)
    BY <2>1 DEF PollEpoch
  <2>3. block - Delay \in Int /\ NetUid \in Nat /\ DefaultTempo \in Nat \ {0}
    BY BeatsAssumption, SMT DEF GateInv
  <2>4. QED
    BY <2>2, <2>3, EpochIsSubtensors
<1>2. ASSUME attempts' # attempts
      PROVE  IsEpochOf(attempts'[Len(attempts')].epoch, Head(beats), NetUid, Tempo)
  <2> DEFINE new == [epoch |-> EpochOf(Head(beats)), block_number |-> Head(beats)]
  <2>1. OnBlockBeat
    BY <1>2, OtherStep
  <2>2. /\ attempts' = Append(attempts, new)
        /\ beats # <<>>
    BY <1>2, <2>1, GateStep
  <2>3. new.epoch = EpochOf(Head(beats))
    OBVIOUS
  <2>4. Head(beats) \in Nat
    BY <2>2, SMT DEF GateInv
  <2> HIDE DEF new
  <2>5. attempts'[Len(attempts')] = new
    BY <2>2, SMT DEF GateInv
  <2>6. QED
    BY <2>3, <2>4, <2>5, EpochOfIsEpoch
<1>3. QED
  BY <1>1, <1>2

\* Every epoch beat and every attempt names the epoch that subtensor's
\* blocks_until_next_epoch gives the block it was derived from.
THEOREM BeatsNameSubtensorEpochs == Spec => EpochsAreSubtensors
<1>1. IInv /\ [Next]_vars =>
        [/\ lastEpoch' # lastEpoch =>
              IsEpochOf(lastEpoch', block - Delay, NetUid, DefaultTempo)
         /\ attempts' # attempts =>
              IsEpochOf(attempts'[Len(attempts')].epoch, Head(beats), NetUid, Tempo)]_vars
  BY StepNamesEpochs
<1>2. QED
  BY <1>1, GateInvariance, PTL DEF Spec, EpochsAreSubtensors

----------------------------------------------------------------------------
(* Types *)

\* The epoch of a reported block is one of those the gate can meet.
LEMMA GateEpochOf ==
  ASSUME NEW b \in Blocks
  PROVE  EpochOf(b) \in GateEpochs
BY DEF GateEpochs

\* Appending and taking away keep a bounded queue one.
LEMMA QueueTypes ==
  ASSUME NEW S, NEW q \in Seq(S), NEW e \in S, NEW max \in Nat, Len(q) <= max
  PROVE  /\ Len(q) < max => Append(q, e) \in Seq(S) /\ Len(Append(q, e)) <= max
         /\ Append(q, e) \in Seq(S)
         /\ q # <<>> => Head(q) \in S /\ Tail(q) \in Seq(S) /\ Len(Tail(q)) <= max
<1>1. q # <<>> => Len(Tail(q)) = Len(q) - 1
  OBVIOUS
<1>2. Len(Append(q, e)) = Len(q) + 1 /\ Len(q) \in Nat
  OBVIOUS
<1>3. Append(q, e) \in Seq(S)
  OBVIOUS
<1> QED
  BY <1>1, <1>2, <1>3, SeqHeadTail

\* Every step keeps the types.
LEMMA TypeStep == TypeOK /\ [Next]_vars => TypeOK'
<1> SUFFICES ASSUME TypeOK, [Next]_vars PROVE TypeOK'
  OBVIOUS
<1>0. NoBlock \notin Nat /\ MaxQueue \in Nat /\ MaxBlock \in Nat /\ MaxBack \in Nat
  BY BeatsAssumption DEF NoBlock
<1>1. CASE ChainMoves
  <2>1. block' \in Blocks /\ back' \in 0..MaxBack
    BY <1>0, <1>1 DEF ChainMoves, TypeOK, Blocks
  <2> QED
    BY <1>1, <2>1 DEF ChainMoves, TypeOK, producerVars, gateVars
<1>2. CASE WeightsSubmitted
  BY <1>2 DEF WeightsSubmitted, TypeOK, producerVars, gateVars
<1>3. CASE PollBlock
  <2>1. beats' \in Seq(Blocks) /\ Len(beats') <= MaxQueue
    BY <1>0, <1>3, QueueTypes DEF PollBlock, TypeOK
  <2> QED
    BY <1>3, <2>1 DEF PollBlock, TypeOK, pylonVars, gateVars
<1>4. CASE PollEpoch
  <2>1. block - Delay \in (-Delay)..MaxBlock
    BY <1>0, BeatsAssumption DEF TypeOK, Blocks
  <2>2. lastEpoch' \in BeatEpochs /\ again' \in Nat
    BY <1>4, <2>1 DEF PollEpoch, BeatEpochs, TypeOK
  <2> QED
    BY <1>4, <2>2 DEF PollEpoch, TypeOK, pylonVars, gateVars
<1>5. CASE OnBlockBeat
  <2> DEFINE b == Head(beats)
  <2>1. b \in Blocks /\ beats' \in Seq(Blocks) /\ Len(beats') <= MaxQueue
    <3>1. beats \in Seq(Blocks) /\ Len(beats) <= MaxQueue /\ beats # <<>> /\ beats' = Tail(beats)
      BY <1>5 DEF OnBlockBeat, TypeOK
    <3>2. Head(beats) \in Blocks
      BY <3>1, SeqHeadTail
    <3> QED
      BY <1>0, <3>1, <3>2, QueueTypes
  <2>2. EpochOf(b) \in GateEpochs
    BY <2>1, GateEpochOf
  <2>3. lastBeat' \in Blocks \cup {NoBlock} /\ settled' \in Blocks \cup {NoBlock}
    BY <1>5, <2>1 DEF OnBlockBeat, TypeOK, gateVars
  <2>4. lastSuccess' \in confirmed' \cup {NoEpoch} /\ confirmed' \subseteq submitted
    BY <1>5 DEF OnBlockBeat, TypeOK, gateVars
  <2>5. /\ setting' \in Seq(GateEpochs) /\ Len(setting') <= MaxQueue
        /\ attempts' \in Seq(WeightBeats)
    <3>1. CASE UNCHANGED <<setting, attempts>>
      BY <3>1 DEF TypeOK
    <3>2. CASE /\ Len(setting) < MaxQueue
               /\ setting' = Append(setting, EpochOf(b))
               /\ attempts' = Append(attempts, [epoch |-> EpochOf(b), block_number |-> b])
      <4> DEFINE new == [epoch |-> EpochOf(b), block_number |-> b]
      <4>1. new \in WeightBeats
        BY <2>1, <2>2 DEF WeightBeats
      <4>2. attempts' = Append(attempts, new)
        BY <3>2
      <4> HIDE DEF new
      <4>3. attempts' \in Seq(WeightBeats)
        BY <4>1, <4>2 DEF TypeOK
      <4>4. setting' \in Seq(GateEpochs) /\ Len(setting') <= MaxQueue
        BY <1>0, <2>2, <3>2, QueueTypes DEF TypeOK
      <4> QED
        BY <4>3, <4>4
    <3> QED
      BY <1>5, <3>1, <3>2 DEF OnBlockBeat, gateVars
  <2> QED
    BY <1>5, <2>1, <2>3, <2>4, <2>5 DEF OnBlockBeat, TypeOK, pylonVars, producerVars
<1>6. CASE SetWeights
  <2>1. setting' \in Seq(GateEpochs) /\ Len(setting') <= MaxQueue
    <3>1. /\ setting \in Seq(GateEpochs) /\ Len(setting) <= MaxQueue
          /\ setting # <<>> /\ setting' = Tail(setting)
      BY <1>6 DEF SetWeights, TypeOK
    <3>2. Head(setting) \in GateEpochs
      BY <3>1, SeqHeadTail
    <3> QED
      BY <1>0, <3>1, <3>2, QueueTypes
  <2>2. accepted' \subseteq GateEpochs /\ submitted' \subseteq accepted'
    BY <1>6, GateEpochOf DEF SetWeights, TypeOK
  <2> QED
    BY <1>6, <2>1, <2>2 DEF SetWeights, TypeOK, producerVars, gateVars
<1>7. CASE UNCHANGED vars
  BY <1>7 DEF vars, pylonVars, producerVars, gateVars, TypeOK
<1> QED
  BY <1>1, <1>2, <1>3, <1>4, <1>5, <1>6, <1>7 DEF Next

\* Every variable of the beats keeps its type.
THEOREM TypeCorrectness == Spec => []TypeOK
<1>1. Init => TypeOK
  <2>1. 0..Tempo \subseteq Blocks
    BY BeatsAssumption DEF Blocks
  <2>2. 0 \in 0..MaxBack /\ Len(<<>>) <= MaxQueue
    BY BeatsAssumption
  <2> QED
    BY <2>1, <2>2 DEF Init, TypeOK
<1> QED
  BY <1>1, TypeStep, PTL DEF Spec

----------------------------------------------------------------------------
(* Epoch beats *)

\* What the epoch beat producer would emit.
Seen == EpochContaining(block - Delay, NetUid, DefaultTempo)

\* One beat too many needs a block that went back, and an epoch that is behind the last
\* one emitted has its block to come.
FollowInv ==
  /\ again <= back
  /\ lastEpoch # NoEpoch /\ Seen.first_block < lastEpoch.first_block => again < back

\* An epoch is given by its first block.
LEMMA EpochShape ==
  ASSUME NEW b \in Int
  PROVE  LET e == EpochContaining(b, NetUid, DefaultTempo)
         IN  e.first_block \in Int
             /\ e = [first_block |-> e.first_block, last_block |-> e.first_block + DefaultTempo]
<1>1. NetUid \in Nat /\ DefaultTempo \in Nat \ {0}
  BY BeatsAssumption
<1>2. Phase(b, NetUid, DefaultTempo) \in Int
  BY <1>1, EpochFromPhase, SMT
<1> QED
  BY <1>1, <1>2, EpochFromPhase

\* The next block is in the same epoch or in a later one.
LEMMA EpochsAdvance ==
  ASSUME NEW b \in Int
  PROVE  EpochContaining(b, NetUid, DefaultTempo).first_block
           <= EpochContaining(b + 1, NetUid, DefaultTempo).first_block
<1> DEFINE e == EpochContaining(b, NetUid, DefaultTempo)
<1>1. NetUid \in Nat /\ DefaultTempo \in Nat \ {0}
  BY BeatsAssumption
<1>2. e.first_block \in Int /\ e.last_block \in Int /\ e.first_block <= b /\ b <= e.last_block
  <2>1. e.first_block <= b /\ b <= e.last_block
    BY <1>1, EpochIsSubtensors DEF IsEpochOf
  <2>2. e.first_block \in Int /\ e.last_block = e.first_block + DefaultTempo
    BY EpochShape
  <2> HIDE DEF e
  <2> QED
    BY <1>1, <2>1, <2>2
<1>3. /\ \A c \in Int : ContainsBlock(e, c) => EpochContaining(c, NetUid, DefaultTempo) = e
      /\ EpochContaining(e.last_block + 1, NetUid, DefaultTempo).first_block = e.last_block + 1
  BY <1>1, EpochsTile
<1> HIDE DEF e
<1>4. CASE b = e.last_block
  BY <1>2, <1>3, <1>4 DEF e
<1>5. CASE b # e.last_block
  <2>1. b + 1 \in Int /\ ContainsBlock(e, b + 1)
    BY <1>2, <1>5 DEF ContainsBlock
  <2>2. EpochContaining(b + 1, NetUid, DefaultTempo) = e
    BY <1>3, <2>1
  <2> QED
    BY <1>2, <2>2 DEF e
<1> QED
  BY <1>4, <1>5

\* Every step keeps what is known of epoch beats.
LEMMA FollowStep == TypeOK /\ FollowInv /\ [Next]_vars => FollowInv'
<1> SUFFICES ASSUME TypeOK, FollowInv, [Next]_vars PROVE FollowInv'
  OBVIOUS
<1>0. block \in Int /\ Delay \in Nat /\ again \in Nat /\ back \in Nat /\ block - Delay \in Int
  BY BeatsAssumption DEF TypeOK, Blocks
<1>1. lastEpoch = NoEpoch \/
        /\ lastEpoch.first_block \in Int
        /\ lastEpoch = [first_block |-> lastEpoch.first_block,
                        last_block |-> lastEpoch.first_block + DefaultTempo]
  <2>1. lastEpoch = NoEpoch \/ \E b \in Int : lastEpoch = EpochContaining(b, NetUid, DefaultTempo)
    BY <1>0, BeatsAssumption DEF TypeOK, BeatEpochs
  <2> QED
    BY <2>1, EpochShape
<1>2. Seen.first_block \in Int
      /\ Seen = [first_block |-> Seen.first_block, last_block |-> Seen.first_block + DefaultTempo]
  BY <1>0, EpochShape DEF Seen
<1>3. CASE ChainMoves
  <2>1. UNCHANGED <<lastEpoch, again>>
    BY <1>3 DEF ChainMoves, producerVars
  <2>2. CASE block' = block + 1 /\ UNCHANGED back
    <3>1. block' - Delay = (block - Delay) + 1
      BY <1>0, <2>2
    <3>2. Seen.first_block <= Seen'.first_block /\ Seen'.first_block \in Int
      BY <1>0, <3>1, EpochsAdvance, EpochShape DEF Seen
    <3> QED
      BY <1>1, <1>2, <2>1, <2>2, <3>2 DEF FollowInv
  <2>3. CASE back' = back + 1
    BY <1>0, <2>1, <2>3 DEF FollowInv
  <2> QED
    BY <1>3, <2>2, <2>3 DEF ChainMoves
<1>4. CASE PollEpoch
  <2>1. /\ Seen # lastEpoch /\ lastEpoch' = Seen /\ UNCHANGED <<block, back>>
        /\ again' = IF Later(Seen) THEN again ELSE again + 1
    BY <1>4 DEF PollEpoch, Seen, pylonVars
  <2>2. Seen' = Seen
    BY <2>1 DEF Seen
  <2>3. ~Later(Seen) => again < back
    <3>1. SUFFICES ASSUME ~Later(Seen) PROVE again < back
      OBVIOUS
    <3>2. lastEpoch # NoEpoch /\ ~(Seen.first_block > lastEpoch.first_block)
      BY <3>1 DEF Later
    <3>3. Seen.first_block # lastEpoch.first_block
      BY <1>1, <1>2, <2>1, <3>2
    <3>4. Seen.first_block < lastEpoch.first_block
      BY <1>1, <1>2, <3>2, <3>3
    <3> QED
      BY <3>2, <3>4 DEF FollowInv
  <2>4. again' <= back'
    BY <1>0, <2>1, <2>3 DEF FollowInv
  <2>5. ~(Seen'.first_block < lastEpoch'.first_block)
    BY <1>2, <2>1, <2>2
  <2> QED
    BY <2>4, <2>5 DEF FollowInv
<1>5. CASE WeightsSubmitted \/ PollBlock \/ OnBlockBeat \/ SetWeights \/ UNCHANGED vars
  <2>1. UNCHANGED <<block, back, lastEpoch, again>>
    BY <1>5 DEF WeightsSubmitted, PollBlock, OnBlockBeat, SetWeights, vars, pylonVars, producerVars
  <2> QED
    BY <2>1 DEF FollowInv, Seen
<1> QED
  BY <1>3, <1>4, <1>5 DEF Next

\* An epoch is beaten again, or after a later one, at most as often as the block went back.
THEOREM EpochBeatsFollow == Spec => []EpochBeatsFollowChain
<1>1. Init => FollowInv
  BY DEF Init, FollowInv
<1>2. FollowInv => EpochBeatsFollowChain
  BY DEF FollowInv, EpochBeatsFollowChain
<1> QED
  BY <1>1, <1>2, TypeCorrectness, FollowStep, PTL DEF Spec

----------------------------------------------------------------------------
(* Reached epochs *)

\* The gate's last attempt names the epoch of the last block it attempted at; and as
\* long as the chain does not go back, blocks come in order, after that block.
OrderInv ==
  /\ attempts = <<>> => lastBeat = NoBlock
  /\ attempts # <<>> => attempts[Len(attempts)].epoch = EpochOf(lastBeat)
  /\ back = 0 =>
       /\ lastBeat <= lastBlock /\ lastBlock <= block
       /\ \A i \in DOMAIN beats : lastBeat <= beats[i] /\ beats[i] <= lastBlock
       /\ \A i, j \in DOMAIN beats : i <= j => beats[i] <= beats[j]

TriedInv == TypeOK /\ OrderInv /\ ReachedEpochsAreTried

Tried == confirmed \cup {attempts[i].epoch : i \in DOMAIN attempts}

\* An element is added at the end, or taken from the front.
LEMMA QueueElements ==
  ASSUME NEW S, NEW q \in Seq(S), NEW e \in S
  PROVE  /\ Len(q) \in Nat /\ DOMAIN q = 1..Len(q)
         /\ Append(q, e) # <<>> /\ Len(Append(q, e)) = Len(q) + 1
         /\ DOMAIN Append(q, e) = 1..(Len(q) + 1) /\ Append(q, e)[Len(q) + 1] = e
         /\ \A i \in 1..Len(q) : Append(q, e)[i] = q[i]
         /\ q # <<>> => /\ Len(q) > 0 /\ Head(q) = q[1] /\ DOMAIN Tail(q) = 1..(Len(q) - 1)
                        /\ \A i \in DOMAIN Tail(q) : Tail(q)[i] = q[i + 1]
<1>1. Len(q) \in Nat /\ DOMAIN q = 1..Len(q)
  OBVIOUS
<1>2. Len(Append(q, e)) = Len(q) + 1 /\ DOMAIN Append(q, e) = 1..(Len(q) + 1)
  OBVIOUS
<1>3. Append(q, e)[Len(q) + 1] = e /\ \A i \in 1..Len(q) : Append(q, e)[i] = q[i]
  OBVIOUS
<1>4. Append(q, e) # <<>>
  BY <1>1, <1>2
<1>5. ASSUME q # <<>>
      PROVE  Len(q) > 0 /\ Head(q) = q[1] /\ Tail(q) \in Seq(S) /\ Len(Tail(q)) = Len(q) - 1
  BY <1>5
<1>6. ASSUME q # <<>>
      PROVE  DOMAIN Tail(q) = 1..(Len(q) - 1) /\ \A i \in DOMAIN Tail(q) : Tail(q)[i] = q[i + 1]
  BY <1>6
<1> QED
  BY <1>1, <1>2, <1>3, <1>4, <1>5, <1>6

\* What the gate knows of epochs when it handles the block b of its queue: b is silent only
\* too early, or in an epoch that is known or tried.
LEMMA SilentIsTried ==
  ASSUME TypeOK, OrderInv, back = 0, beats # <<>>, Silenced(Head(beats)),
         Head(beats) - EpochOf(Head(beats)).first_block >= Offset,
         Head(beats) - EpochOf(Head(beats)).first_block >= Cooldown - 1
  PROVE  EpochOf(Head(beats)) \in Tried
<1> DEFINE b == Head(beats)
           e == EpochOf(b)
<1>1. b \in Nat /\ b = beats[1] /\ 1 \in DOMAIN beats
  <2>1. beats \in Seq(Blocks)
    BY DEF TypeOK
  <2>2. b \in Blocks
    BY <2>1, SeqHeadTail
  <2> QED
    BY <2>1, <2>2, QueueElements DEF Blocks
<1>2. NetUid \in Nat /\ Tempo \in Nat \ {0} /\ Offset \in Nat /\ Cooldown \in Nat
  BY BeatsAssumption
<1>3. /\ e.first_block \in Int /\ e.last_block \in Int /\ e.last_block >= e.first_block
      /\ e.first_block <= b /\ b <= e.last_block
  <2>1. e \in SomeEpochs /\ IsEpochOf(e, b, NetUid, Tempo)
    BY <1>1, EpochOfIsEpoch
  <2> HIDE DEF e, b
  <2> QED
    BY <1>1, <2>1 DEF SomeEpochs, IsEpochOf
<1>4. ~InOffset(b)
  BY <1>1, <1>2, <1>3 DEF InOffset
<1>5. CASE lastSuccess = e
  <2>1. e # NoEpoch
    BY <1>3 DEF NoEpoch
  <2> QED
    BY <1>5, <2>1 DEF TypeOK, Tried
<1>6. CASE lastBeat # NoBlock /\ b - lastBeat < Cooldown
  <2>1. lastBeat \in Nat /\ lastBeat <= b
    BY <1>1, <1>6 DEF OrderInv, TypeOK, Blocks
  <2>2. b - e.first_block >= Cooldown - 1
    OBVIOUS
  <2>3. ContainsBlock(e, lastBeat)
    <3> HIDE DEF e, b
    <3> QED
      BY <1>1, <1>2, <1>3, <1>6, <2>1, <2>2 DEF ContainsBlock
  <2>4. EpochOf(lastBeat) = e
    BY <1>1, <1>2, <2>1, <2>3, EpochsTile DEF EpochOf
  <2>5. attempts # <<>> /\ Len(attempts) \in DOMAIN attempts
    <3>1. attempts # <<>> /\ attempts \in Seq(WeightBeats)
      BY <1>6 DEF OrderInv, TypeOK
    <3> QED
      BY <3>1
  <2>6. attempts[Len(attempts)].epoch = e
    BY <2>4, <2>5 DEF OrderInv
  <2> QED
    BY <2>5, <2>6 DEF Tried
<1> QED
  BY <1>4, <1>5, <1>6 DEF Silenced

\* Nothing but the gate forgets or settles anything.
LEMMA OnlyTheGateTries ==
  ASSUME [Next]_vars, ~OnBlockBeat
  PROVE  UNCHANGED gateVars
<1> USE DEF gateVars
<1>1. CASE UNCHANGED vars
  BY <1>1 DEF vars
<1> QED
  BY <1>1 DEF Next, ChainMoves, WeightsSubmitted, PollBlock, PollEpoch, SetWeights

\* A chain that has not gone back before a step did not go back in it.
LEMMA BackGrows ==
  ASSUME TypeOK, [Next]_vars, back' = 0
  PROVE  back = 0 /\ block' >= block
<1>1. back \in Nat /\ block \in Nat
  BY DEF TypeOK, Blocks
<1>2. CASE ChainMoves
  BY <1>1, <1>2 DEF ChainMoves
<1>3. CASE ~ChainMoves
  BY <1>1, <1>3 DEF Next, WeightsSubmitted, PollBlock, PollEpoch, OnBlockBeat, SetWeights,
                    vars, pylonVars
<1> QED
  BY <1>2, <1>3

\* Every step keeps the order of blocks.
LEMMA OrderStep ==
  ASSUME TypeOK, OrderInv, [Next]_vars
  PROVE  OrderInv'
<1>0. /\ beats \in Seq(Blocks) /\ Blocks \subseteq Nat /\ NoBlock = -1 /\ NoBlock \notin Nat
      /\ lastBeat \in Int /\ lastBlock \in Int /\ block \in Nat /\ attempts \in Seq(WeightBeats)
  BY DEF TypeOK, Blocks, NoBlock
<1>1. CASE PollBlock
  <2>1. /\ UNCHANGED <<block, back, lastBeat, attempts>>
        /\ lastBlock' = block /\ beats' = Append(beats, block)
    BY <1>1 DEF PollBlock, pylonVars, gateVars
  <2>2. block \in Blocks
    BY DEF TypeOK
  <2>3. /\ Len(beats) \in Nat /\ DOMAIN beats = 1..Len(beats)
        /\ DOMAIN beats' = 1..(Len(beats) + 1) /\ beats'[Len(beats) + 1] = block
        /\ \A i \in 1..Len(beats) : beats'[i] = beats[i]
    BY <1>0, <2>1, <2>2, QueueElements
  <2>4. ASSUME back = 0
        PROVE  /\ lastBeat <= block
               /\ \A i \in DOMAIN beats' : lastBeat <= beats'[i] /\ beats'[i] <= block
               /\ \A i, j \in DOMAIN beats' : i <= j => beats'[i] <= beats'[j]
    <3>1. lastBeat <= block
      BY <1>0, <2>4 DEF OrderInv
    <3>2. \A i \in 1..Len(beats) : lastBeat <= beats[i] /\ beats[i] <= block /\ beats[i] \in Nat
      <4>1. \A i \in DOMAIN beats : lastBeat <= beats[i] /\ beats[i] <= lastBlock
            /\ lastBlock <= block
        BY <2>4 DEF OrderInv
      <4>2. \A i \in DOMAIN beats : beats[i] \in Nat
        BY <1>0, SeqElement
      <4> QED
        BY <1>0, <2>3, <4>1, <4>2
    <3>3. \A i \in DOMAIN beats' : i \in 1..Len(beats) \/ i = Len(beats) + 1
      BY <2>3
    <3>4. \A i \in DOMAIN beats' : lastBeat <= beats'[i] /\ beats'[i] <= block
      BY <1>0, <2>3, <3>1, <3>2, <3>3
    <3>5. ASSUME NEW i \in DOMAIN beats', NEW j \in DOMAIN beats', i <= j
          PROVE  beats'[i] <= beats'[j]
      <4>1. CASE j = Len(beats) + 1
        BY <2>3, <3>4, <4>1
      <4>2. CASE j \in 1..Len(beats)
        <5>1. i \in 1..Len(beats)
          BY <2>3, <3>5, <4>2
        <5> QED
          <6>1. beats[i] <= beats[j]
            BY <2>3, <2>4, <3>5, <4>2, <5>1 DEF OrderInv
          <6>2. beats'[i] = beats[i] /\ beats'[j] = beats[j]
            BY <2>3, <4>2, <5>1
          <6> QED
            BY <6>1, <6>2
      <4> QED
        BY <3>3, <4>1, <4>2
    <3> QED
      BY <3>1, <3>4, <3>5
  <2>5. attempts = <<>> => lastBeat = NoBlock
    BY DEF OrderInv
  <2>6. attempts # <<>> => attempts[Len(attempts)].epoch = EpochOf(lastBeat)
    BY DEF OrderInv
  <2> QED
    BY <1>0, <2>1, <2>4, <2>5, <2>6 DEF OrderInv
<1>2. CASE OnBlockBeat
  <2> DEFINE b == Head(beats)
  <2>1. beats # <<>> /\ beats' = Tail(beats) /\ UNCHANGED <<block, back, lastBlock>>
    BY <1>2 DEF OnBlockBeat, pylonVars, producerVars
  <2>2. /\ Len(beats) \in Nat /\ Len(beats) > 0 /\ DOMAIN beats = 1..Len(beats) /\ b = beats[1]
        /\ DOMAIN beats' = 1..(Len(beats) - 1)
        /\ \A i \in DOMAIN beats' : beats'[i] = beats[i + 1]
    <3>1. b \in Blocks
      BY <1>0, <2>1, SeqHeadTail
    <3> QED
      BY <1>0, <2>1, <3>1, QueueElements
  <2>3. b \in Blocks /\ b \in Nat
    BY <1>0, <2>1, SeqHeadTail
  <2>4. back = 0 =>
          /\ \A i \in DOMAIN beats' : /\ lastBeat <= beats'[i] /\ b <= beats'[i]
                                      /\ beats'[i] <= lastBlock
          /\ \A i, j \in DOMAIN beats' : i <= j => beats'[i] <= beats'[j]
          /\ b <= lastBlock
    <3>1. 1 \in DOMAIN beats /\ \A i \in DOMAIN beats' : i \in Int /\ i + 1 \in DOMAIN beats /\ 1 <= i + 1
      BY <2>2
    <3>2. \A i, j \in DOMAIN beats' : i <= j => i + 1 <= j + 1
      BY <3>1
    <3> QED
      BY <2>2, <3>1, <3>2 DEF OrderInv
  <2>5. CASE UNCHANGED <<lastBeat, attempts>>
    BY <2>1, <2>4, <2>5 DEF OrderInv
  <2>6. CASE /\ lastBeat' = b
             /\ attempts' = Append(attempts, [epoch |-> EpochOf(b), block_number |-> b])
    <3> DEFINE new == [epoch |-> EpochOf(b), block_number |-> b]
    <3>1. new \in WeightBeats /\ new.epoch = EpochOf(b)
      BY <2>3, GateEpochOf DEF WeightBeats
    <3>2. attempts' = Append(attempts, new)
      BY <2>6
    <3> HIDE DEF new
    <3>3. attempts' # <<>> /\ attempts'[Len(attempts')] = new
      BY <1>0, <3>1, <3>2, QueueElements
    <3>4. back' = 0 =>
            /\ b <= lastBlock' /\ lastBlock' <= block'
            /\ \A i \in DOMAIN beats' : b <= beats'[i] /\ beats'[i] <= lastBlock'
            /\ \A i, j \in DOMAIN beats' : i <= j => beats'[i] <= beats'[j]
      BY <2>1, <2>4 DEF OrderInv
    <3> QED
      BY <2>6, <3>1, <3>3, <3>4 DEF OrderInv
  <2> QED
    BY <1>2, <2>5, <2>6, GateStep
<1>3. CASE ~PollBlock /\ ~OnBlockBeat
  <2>1. UNCHANGED <<lastBeat, attempts>>
    BY <1>3, OnlyTheGateTries DEF gateVars
  <2>2. UNCHANGED <<beats, lastBlock>>
    BY <1>3 DEF Next, ChainMoves, WeightsSubmitted, PollEpoch, SetWeights, vars, producerVars
  <2>3. back' = 0 => back = 0 /\ block' >= block /\ block' \in Int
    <3>1. block' \in Int
      BY TypeStep DEF TypeOK, Blocks
    <3> QED
      BY <3>1, BackGrows
  <2>4. back' = 0 => lastBlock' <= block'
    BY <1>0, <2>2, <2>3 DEF OrderInv
  <2> QED
    BY <2>1, <2>2, <2>3, <2>4 DEF OrderInv
<1> QED
  BY <1>1, <1>2, <1>3

\* What was tried stays tried, and a block is settled silently only when its epoch is.
LEMMA TriedStep ==
  ASSUME TriedInv, [Next]_vars
  PROVE  ReachedEpochsAreTried'
<1> USE DEF TriedInv
<1> SUFFICES ASSUME back' = 0, settled' # NoBlock,
                    settled' - EpochOf(settled').first_block >= Offset,
                    settled' - EpochOf(settled').first_block >= Cooldown - 1
             PROVE  EpochOf(settled') \in Tried'
  BY DEF ReachedEpochsAreTried, Tried
<1>1. back = 0
  BY BackGrows
<1>2. CASE UNCHANGED <<settled, attempts, confirmed>>
  BY <1>1, <1>2 DEF ReachedEpochsAreTried, Tried
<1>3. CASE OnBlockBeat /\ ~UNCHANGED <<settled, attempts, confirmed>>
  <2> DEFINE b == Head(beats)
  <2>1. beats # <<>> /\ b \in Blocks /\ attempts \in Seq(WeightBeats)
    <3>1. beats \in Seq(Blocks) /\ beats # <<>> /\ attempts \in Seq(WeightBeats)
      BY <1>3 DEF OnBlockBeat, TypeOK
    <3> QED
      BY <3>1, SeqHeadTail
  <2>2. /\ settled' = b
        /\ \/ Silenced(b) /\ UNCHANGED <<attempts, confirmed>>
           \/ confirmed' = confirmed \cup {EpochOf(b)}
           \/ attempts' = Append(attempts, [epoch |-> EpochOf(b), block_number |-> b])
    BY <1>3 DEF OnBlockBeat, gateVars
  <2>3. CASE Silenced(b) /\ UNCHANGED <<attempts, confirmed>>
    <3>1. EpochOf(b) \in Tried
      BY <1>1, <2>1, <2>2, <2>3, SilentIsTried
    <3> QED
      BY <2>2, <2>3, <3>1 DEF Tried
  <2>4. CASE confirmed' = confirmed \cup {EpochOf(b)}
    BY <2>2, <2>4 DEF Tried
  <2>5. CASE attempts' = Append(attempts, [epoch |-> EpochOf(b), block_number |-> b])
    <3> DEFINE new == [epoch |-> EpochOf(b), block_number |-> b]
    <3>1. new \in WeightBeats /\ new.epoch = EpochOf(b)
      BY <2>1, GateEpochOf DEF WeightBeats
    <3>2. attempts' = Append(attempts, new)
      BY <2>5
    <3> HIDE DEF new
    <3>3. Len(attempts) + 1 \in DOMAIN attempts' /\ attempts'[Len(attempts) + 1] = new
      BY <2>1, <3>1, <3>2, QueueElements
    <3> QED
      BY <2>2, <3>1, <3>3 DEF Tried
  <2> QED
    BY <2>2, <2>3, <2>4, <2>5
<1> QED
  BY <1>2, <1>3, OnlyTheGateTries DEF gateVars

\* On a chain that does not go back, every epoch in which the gate settled a block past
\* offset and cooldown is tried, or known to have its weights.
THEOREM EpochsAreTried == Spec => []ReachedEpochsAreTried
<1>1. Init => TriedInv
  <2> SUFFICES ASSUME Init PROVE TriedInv
    OBVIOUS
  <2>1. TypeOK
    <3>1. 0..Tempo \subseteq Blocks /\ 0 \in 0..MaxBack /\ Len(<<>>) <= MaxQueue
      BY BeatsAssumption DEF Blocks
    <3> QED
      BY <3>1 DEF Init, TypeOK
  <2>2. OrderInv
    BY <2>1 DEF Init, OrderInv, TypeOK, Blocks, NoBlock
  <2>3. ReachedEpochsAreTried
    BY DEF Init, ReachedEpochsAreTried
  <2> QED
    BY <2>1, <2>2, <2>3 DEF TriedInv
<1>2. TriedInv /\ [Next]_vars => TriedInv'
  BY TypeStep, OrderStep, TriedStep DEF TriedInv
<1>3. TriedInv => ReachedEpochsAreTried
  BY DEF TriedInv
<1> QED
  BY <1>1, <1>2, <1>3, PTL DEF Spec
=============================================================================
