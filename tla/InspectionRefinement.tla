------------------------ MODULE InspectionRefinement ------------------------
(* The pipeline implements the contract of its jobs.                        *)
EXTENDS Inspection

(* The contract sees neither the transport nor an uncommitted row.          *)
PhaseOf(s) == CASE s \in Invisible -> "ABSENT"
                [] s \in {"PENDING", "PROCESSING"} -> "OPEN"
                [] OTHER -> s

Contract == INSTANCE JobContract WITH phase <- [j \in Jobs |-> PhaseOf(status[j])]

(* "The sweeper is idempotent (terminal check and Redlock)": with any       *)
(* delivery fault, whatever is swept, redelivered, lost or retried, every   *)
(* job follows the contract, safety and liveness.                           *)
ImplementsContract == Contract!Spec
=============================================================================
