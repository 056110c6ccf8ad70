----------------------- MODULE MCAsyncHttpCommunicator -----------------------
(* Instances of AsyncHttpCommunicator for TLC.  Requests, contexts and workers *)
(* are interchangeable, which the safety run uses; the liveness run does not.  *)
EXTENDS AsyncHttpCommunicator, TLC

Symmetry == Permutations(Requests) \cup Permutations(Contexts) \cup Permutations(Workers)
=============================================================================
