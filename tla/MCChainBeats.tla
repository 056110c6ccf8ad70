---------------------------- MODULE MCChainBeats ----------------------------
(* The chain's clock, and the task results that are weighed by its epochs.  A   *)
(* behaviour is of one of the two: they share the epochs only.                  *)
EXTENDS ChainBeats, TaskResults

VARIABLE part

MCEpochs == {EpochOf(b) : b \in 0..MaxBlock}

MCInit ==
  /\ part \in {"beats", "results"}
  /\ Init /\ (part = "results" => block = 0)
  /\ ResultsInit

MCNext ==
  \/ part = "beats" /\ Next /\ UNCHANGED <<resultsVars, part>>
  \/ part = "results" /\ ResultsNext /\ UNCHANGED <<vars, part>>

MCSpec == MCInit /\ [][MCNext]_<<vars, resultsVars, part>>
============================================================================
