---------------------------- MODULE MCInspection ----------------------------
(* Values of the constants of Inspection for TLC: sets of faults and of     *)
(* operator endpoints that the configurations choose from.                  *)
EXTENDS InspectionRefinement, TLC

NoOps    == {}
NoJobs   == {}
NoFaults == {}

(* Everything the broker, the worker hosts and the models do to a task      *)
(* without outliving its lease or losing the final event.                   *)
DeliveryFaults == FaultKinds \ {"overrun", "event"}
AllFaults == FaultKinds
AllOps    == OpKinds

WorkerSymmetry == Permutations(Workers)
=============================================================================
