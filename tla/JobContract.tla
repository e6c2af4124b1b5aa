---------------------------- MODULE JobContract ----------------------------
(***************************************************************************)
(* What the inspection pipeline promises about one job while no operator   *)
(* touches it: an accepted job is settled; an escalated or failed one may  *)
(* be taken up again by a late delivery; a decided one is left alone.      *)
(***************************************************************************)
CONSTANT Jobs
VARIABLE phase

Outcomes == {"APPROVED", "REJECTED", "HITL_REQUIRED", "FAILED"}

Init == phase = [j \in Jobs |-> "ABSENT"]

Move(j, from, to) == phase[j] \in from /\ phase' = [phase EXCEPT ![j] = to]

Accept(j) == Move(j, {"ABSENT"}, "OPEN")
Settle(j) == \E o \in Outcomes : Move(j, {"OPEN"}, o)
Reopen(j) == Move(j, {"HITL_REQUIRED", "FAILED"}, "OPEN")

Next == \E j \in Jobs : Accept(j) \/ Settle(j) \/ Reopen(j)

Safety == Init /\ [][Next]_phase

Spec == Safety /\ \A j \in Jobs : WF_phase(Settle(j))
=============================================================================
