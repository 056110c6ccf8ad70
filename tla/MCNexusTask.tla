---------------------------- MODULE MCNexusTask ----------------------------
(* Instances of NexusTask for TLC. *)
EXTENDS NexusTask, TLC

Symmetry == Permutations(Works)
============================================================================
