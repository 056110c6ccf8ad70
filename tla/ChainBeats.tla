----------------------------- MODULE ChainBeats -----------------------------
(***************************************************************************)
(* What the chain's clock drives: the block and epoch beat producers, the  *)
(* gate of weight setting, and the weight setter.  Pylon is external: it   *)
(* reports blocks (which may skip, repeat and go back), takes weights, and *)
(* tells whether they were submitted in the epoch of a block.              *)
(***************************************************************************)
EXTENDS Epochs, Sequences

CONSTANTS NetUid,
          Tempo,        \* SetWeightsBeatNode.tempo
          DefaultTempo, \* DEFAULT_TEMPO, the only one an EpochBeatNode knows
          EveryNth,     \* BlockBeatNode.every_nth
          Delay,        \* EpochBeatNode.delay_blocks
          Offset,       \* SetWeightsBeatNode.epoch_start_offset
          Cooldown,     \* SetWeightsBeatNode.attempts_cooldown
          MaxBlock,     \* bound: blocks of the chain
          MaxBack,      \* bound: times the reported block goes back
          MaxQueue      \* bound: beats between two actors

ASSUME BeatsAssumption ==
  /\ NetUid \in Nat /\ Tempo \in Nat \ {0} /\ DefaultTempo \in Nat \ {0}
  /\ EveryNth \in Nat \ {0} /\ Delay \in Nat /\ Offset \in Nat /\ Cooldown \in Nat
  /\ MaxBlock \in Nat /\ Tempo <= MaxBlock /\ MaxBack \in Nat /\ MaxQueue \in Nat

VARIABLES
  block,      \* the latest block Pylon reports
  accepted,   \* epochs for which Pylon has taken weights
  submitted,  \* epochs for which it has submitted them
  lastBlock,  \* last_emitted of the block beat producer
  lastEpoch,  \* last_emitted of the epoch beat producer
  beats,      \* blocks on their way to the gate
  lastSuccess, lastBeat,   \* _last_success_epoch and _last_beat_at_block of the gate
  setting,    \* SetWeightsBeats on their way to the weight setter
  back,       \* history: times the reported block went back
  again,      \* history: epoch beats that did not come later than the one before
  attempts,   \* history: SetWeightsBeats the gate emitted
  settled,    \* history: the last block whose beat the gate handled without a failure
  confirmed   \* history: epochs the gate has seen submitted

pylonVars == <<block, accepted, submitted, back>>
producerVars == <<lastBlock, lastEpoch, again>>
gateVars == <<lastSuccess, lastBeat, attempts, settled, confirmed>>
vars == <<pylonVars, producerVars, beats, gateVars, setting>>

Blocks == 0..MaxBlock
NoBlock == -1
NoEpoch == [first_block |-> 0, last_block |-> -1]

EpochOf(b) == EpochContaining(b, NetUid, Tempo)
BeatEpochs == {EpochContaining(b, NetUid, DefaultTempo) : b \in (-Delay)..MaxBlock}
GateEpochs == {EpochOf(b) : b \in Blocks}
WeightBeats == [epoch : GateEpochs, block_number : Blocks]

TypeOK ==
  /\ block \in Blocks /\ back \in 0..MaxBack
  /\ accepted \subseteq GateEpochs /\ submitted \subseteq accepted
  /\ lastBlock \in Blocks \cup {NoBlock}
  /\ lastEpoch \in BeatEpochs \cup {NoEpoch}
  /\ beats \in Seq(Blocks) /\ Len(beats) <= MaxQueue
  /\ lastSuccess \in confirmed \cup {NoEpoch}
  /\ lastBeat \in Blocks \cup {NoBlock}
  /\ setting \in Seq(GateEpochs) /\ Len(setting) <= MaxQueue
  /\ again \in Nat
  /\ attempts \in Seq(WeightBeats)
  /\ settled \in Blocks \cup {NoBlock}
  /\ confirmed \subseteq submitted

Init ==
  /\ block \in 0..Tempo
  /\ accepted = {} /\ submitted = {} /\ back = 0
  /\ lastBlock = NoBlock /\ lastEpoch = NoEpoch
  /\ beats = <<>> /\ setting = <<>>
  /\ lastSuccess = NoEpoch /\ lastBeat = NoBlock
  /\ again = 0 /\ attempts = <<>>
  /\ settled = NoBlock /\ confirmed = {}

----------------------------------------------------------------------------
(* Pylon *)

\* The next block, or another node's view that is behind.
ChainMoves ==
  /\ \/ block' = block + 1 /\ block < MaxBlock /\ UNCHANGED back
     \/ block' = block - 1 /\ block > 0 /\ back < MaxBack /\ back' = back + 1
  /\ UNCHANGED <<accepted, submitted, producerVars, beats, gateVars, setting>>

\* Weights that were taken are submitted within the epoch they were taken in.
WeightsSubmitted ==
  /\ EpochOf(block) \in accepted \ submitted
  /\ submitted' = submitted \cup {EpochOf(block)}
  /\ UNCHANGED <<block, accepted, back, producerVars, beats, gateVars, setting>>

----------------------------------------------------------------------------
(* Producers *)

\* A poll that fails is repeated.
PollBlock ==
  /\ block # lastBlock /\ block % EveryNth = 0
  /\ Len(beats) < MaxQueue
  /\ lastBlock' = block
  /\ beats' = Append(beats, block)
  /\ UNCHANGED <<pylonVars, lastEpoch, again, gateVars, setting>>

Later(epoch) == lastEpoch = NoEpoch \/ epoch.first_block > lastEpoch.first_block

\* Mutant: what was emitted is compared by its first block with the polled one.
PollEpochAgain ==
  LET epoch == EpochContaining(block - Delay, NetUid, DefaultTempo) IN
  /\ block # lastEpoch.first_block
  /\ again < MaxBlock
  /\ lastEpoch' = epoch
  /\ again' = IF Later(epoch) THEN again ELSE again + 1
  /\ UNCHANGED <<pylonVars, lastBlock, beats, gateVars, setting>>

\* The epoch of the block Delay blocks ago; below block 0 epochs go on.
PollEpoch ==
  LET epoch == EpochContaining(block - Delay, NetUid, DefaultTempo) IN
  /\ epoch # lastEpoch
  /\ lastEpoch' = epoch
  /\ again' = IF Later(epoch) THEN again ELSE again + 1
  /\ UNCHANGED <<pylonVars, lastBlock, beats, gateVars, setting>>

----------------------------------------------------------------------------
(* The gate: SetWeightsBeatActor *)

InOffset(b) == b - EpochOf(b).first_block < Offset

\* Mutant: a success silences every later epoch.
SilencedForGood(b) ==
  InOffset(b) \/ lastSuccess # NoEpoch \/ (lastBeat # NoBlock /\ b - lastBeat < Cooldown)

\* Mutant: the cooldown is one block too short.
SilencedTooShort(b) ==
  InOffset(b) \/ lastSuccess = EpochOf(b) \/ (lastBeat # NoBlock /\ b - lastBeat + 1 < Cooldown)

\* Too early, already successful, or too soon after the last attempt.
Silenced(b) ==
  \/ InOffset(b)
  \/ lastSuccess = EpochOf(b)
  \/ lastBeat # NoBlock /\ b - lastBeat < Cooldown

OnBlockBeat ==
  /\ beats # <<>>
  /\ beats' = Tail(beats)
  /\ LET b == Head(beats) IN
     \/ /\ Silenced(b)
        /\ settled' = b
        /\ UNCHANGED <<lastSuccess, lastBeat, attempts, confirmed, setting>>
     \/ /\ ~Silenced(b)    \* the status request fails
        /\ UNCHANGED <<gateVars, setting>>
     \/ /\ ~Silenced(b) /\ EpochOf(b) \in submitted
        /\ lastSuccess' = EpochOf(b)
        /\ confirmed' = confirmed \cup {EpochOf(b)}
        /\ settled' = b
        /\ UNCHANGED <<lastBeat, attempts, setting>>
     \/ /\ ~Silenced(b) /\ EpochOf(b) \notin submitted
        /\ Len(setting) < MaxQueue
        /\ lastBeat' = b
        /\ LET beat == [epoch |-> EpochOf(b), block_number |-> b] IN
           setting' = Append(setting, EpochOf(b)) /\ attempts' = Append(attempts, beat)
        /\ settled' = b
        /\ UNCHANGED <<lastSuccess, confirmed>>
  /\ UNCHANGED <<pylonVars, producerVars>>

----------------------------------------------------------------------------
(* The weight setter *)

\* The weighing or the put may fail; a put that fails may have been taken all the same.
\* Pylon is given the weights, not the epoch they were computed for.
SetWeights ==
  /\ setting # <<>>
  /\ setting' = Tail(setting)
  /\ \/ UNCHANGED accepted
     \/ accepted' = accepted \cup {EpochOf(block)}
  /\ UNCHANGED <<block, submitted, back, producerVars, beats, gateVars>>

----------------------------------------------------------------------------
Next == ChainMoves \/ WeightsSubmitted \/ PollBlock \/ PollEpoch \/ OnBlockBeat
        \/ SetWeights

Spec == Init /\ [][Next]_vars

----------------------------------------------------------------------------
(* Properties *)

\* Every epoch that a beat or an attempt names is the epoch in which subtensor's
\* blocks_until_next_epoch puts the block it was derived from, also below block 0.
EpochsAreSubtensors ==
  [][/\ lastEpoch' # lastEpoch => IsEpochOf(lastEpoch', block - Delay, NetUid, DefaultTempo)
     /\ attempts' # attempts =>
          IsEpochOf(attempts'[Len(attempts')].epoch, Head(beats), NetUid, Tempo)]_vars

\* An epoch is beaten again, or after a later one, only when the reported block went
\* back, at most once for each time it did.
EpochBeatsFollowChain == again <= back

\* Attempts are at least the cooldown apart, across epochs and whatever blocks are
\* skipped, repeated or taken back: the n-th attempt is n cooldowns after the first.
AttemptsSpaced ==
  \A i, j \in DOMAIN attempts :
    i <= j => attempts[j].block_number - attempts[i].block_number >= (j - i) * Cooldown

\* The cooldown carried over from the last epoch, its success and failed polls never
\* cost a later epoch its chance: once a beat past offset and cooldown was settled,
\* the epoch was tried or is known to have its weights (for a chain that does not go
\* back: an attempt at a later block silences blocks before it).
ReachedEpochsAreTried ==
  LET e == EpochOf(settled) IN
  /\ settled # NoBlock /\ back = 0
  /\ settled - e.first_block >= Offset /\ settled - e.first_block >= Cooldown - 1
  => e \in confirmed \cup {attempts[i].epoch : i \in DOMAIN attempts}
============================================================================
