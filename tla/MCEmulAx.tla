------------------------------ MODULE MCEmulAx ------------------------------
(* EmulAx on a small instance. *)
EXTENDS EmulAx

CONSTANT MaxOffloads  \* bound: no submission once total_offloads reached it

ASSUME MaxOffloads \in Nat

MCHostNext ==
  /\ HostNext
  /\ hpc' = "comp" => total_offloads < MaxOffloads

MCNext == AxNext \/ MCHostNext \/ Tick \/ Exited

MCSpec == Init /\ [][MCNext]_vars
MCFairSpec == MCSpec /\ Fairness
=============================================================================
