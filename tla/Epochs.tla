------------------------------- MODULE Epochs -------------------------------
(***************************************************************************)
(* Epochs of a subnet: utils/chain.py and Epoch of utils/types.py.  Python's *)
(* % is the floored modulus of TLA+, also below block 0.                   *)
(***************************************************************************)
EXTENDS Integers

Interval(tempo) == tempo + 1

\* Mutant: the phase of the epoch is off by one.
EpochEndsEarly(block, netuid, tempo) ==
  LET next == (block + tempo) - ((block + netuid) % Interval(tempo))
      first == IF next = block THEN next ELSE next - Interval(tempo)
  IN  [first_block |-> first, last_block |-> first + tempo]

\* get_epoch_containing_block: a block at which a step of the epoch is due is the
\* first of its epoch.
EpochContaining(block, netuid, tempo) ==
  LET next == (block + tempo) - ((block + netuid + 1) % Interval(tempo))
      prev == IF next = block THEN next ELSE next - Interval(tempo)
  IN  [first_block |-> prev,
       last_block |-> (IF next = block THEN prev + Interval(tempo) ELSE next) - 1]

ContainsBlock(e, block) == e.first_block <= block /\ block <= e.last_block

\* Epoch.previous, defined when neither bound falls below block 0.
Previous(e) ==
  LET span == e.last_block - e.first_block + 1
  IN  [first_block |-> e.first_block - span, last_block |-> e.last_block - span]

HasPrevious(e) ==
  /\ e.last_block - e.first_block + 1 > 0
  /\ Previous(e).first_block >= 0 /\ Previous(e).last_block >= 0

----------------------------------------------------------------------------
(* The reference: subtensor's blocks_until_next_epoch, which the docstring of *)
(* get_epoch_containing_block names.                                       *)

BlocksUntilNextEpoch(block, netuid, tempo) ==
  tempo - ((block + netuid + 1) % Interval(tempo))

EpochStep(block, netuid, tempo) == BlocksUntilNextEpoch(block, netuid, tempo) = 0

\* e is the epoch of subtensor that contains block: it runs from one step to the
\* block before the next.
IsEpochOf(e, block, netuid, tempo) ==
  /\ e.first_block <= block /\ block <= e.last_block
  /\ EpochStep(e.first_block, netuid, tempo)
  /\ EpochStep(e.last_block + 1, netuid, tempo)
  /\ \A b \in (e.first_block + 1)..e.last_block : ~EpochStep(b, netuid, tempo)
============================================================================
