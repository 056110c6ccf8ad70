--------------------------- MODULE MCHttpServices ---------------------------
(* Three programs behind HTTP servers.  They share nothing: the initial state *)
(* picks the one that runs, and the other two stay down.                      *)
EXTENDS RestEntryPoint, Miner, Facilitator

EntryPointDown == NoRequests /\ actor = Ended /\ server = "ended"
MinerDown == NothingDone /\ main = "returned"
FacilitatorDown == NoJobs /\ facilitator = "down"

ServicesInit ==
  \/ Init /\ MinerDown /\ FacilitatorDown
  \/ EntryPointDown /\ MinerInit /\ FacilitatorDown
  \/ EntryPointDown /\ MinerDown /\ FacilitatorInit

ServicesNext ==
  \/ Next /\ UNCHANGED <<minerVars, facilitatorVars>>
  \/ MinerNext /\ UNCHANGED <<vars, facilitatorVars>>
  \/ FacilitatorNext /\ UNCHANGED <<vars, minerVars>>

ServicesSpec ==
  /\ ServicesInit /\ [][ServicesNext]_<<vars, minerVars, facilitatorVars>>
  /\ Fairness /\ MinerFairness /\ FacilitatorFairness
============================================================================
