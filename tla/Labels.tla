------------------------------- MODULE Labels -------------------------------
(***************************************************************************)
(* Label printing: the queue label_print_jobs in the cloud, and the bridge *)
(* agents in the warehouse that poll it, send each label to the printer    *)
(* and report the result.                                                  *)
(*                                                                         *)
(* Printing and reporting are two steps, and nothing is claimed in the     *)
(* queue while a bridge works on it: a label whose report does not arrive  *)
(* stays PENDING and is printed again.  The server looks whether a job was *)
(* reported, answers, and stores the report after its answer; meanwhile    *)
(* the bridge polls again, or gives up waiting and reports something else. *)
(***************************************************************************)
EXTENDS Integers, FiniteSets

CONSTANTS
  Bridges,   \* print_bridge_agent processes
  MaxJobs,   \* bound: rows of label_print_jobs, in the order of created_at
  Limit,     \* jobs of one poll (20)
  MaxFaults  \* bound: faults of network, printer, session and process, and
             \* polls that overtake the commit of a report

ASSUME LabelsAssumption ==
  /\ MaxJobs \in Nat \ {0} /\ Limit \in Nat \ {0} /\ MaxFaults \in Nat

Jobs      == 1..MaxJobs
JobStatus == { "ABSENT", "PENDING", "PRINTED", "FAILED" }
Busy      == { "send", "ack", "acking", "nack", "nacking" }
Places    == { "down", "poll", "relogin" } \cup Busy
Calls     == [by : Bridges, job : Jobs, success : BOOLEAN]
Fates     == { "unreported", "unstored", "printer", "shared", "overlap" }

VARIABLES
  status,   \* label_print_jobs.status
  calls,    \* reports the server has taken for the first and not yet stored
  at,       \* where each bridge is in its loop
  batch,    \* the jobs of its poll it has not finished
  expired,  \* its session has expired
  faults,   \* faults so far
  \* history
  papers,   \* labels that came out of a printer, by job
  fate      \* what went wrong with a job

bridge    == << at, batch, expired >>
labelVars == << status, calls, at, batch, expired, faults, papers, fate >>

LabelsTypeOK ==
  /\ status \in [Jobs -> JobStatus]
  /\ calls \subseteq Calls
  /\ at \in [Bridges -> Places]
  /\ batch \in [Bridges -> SUBSET Jobs]
  /\ \A b \in Bridges : at[b] \in Busy <=> batch[b] # {}
  /\ expired \in [Bridges -> BOOLEAN]
  /\ faults \in 0..MaxFaults
  /\ papers \in [Jobs -> Nat]
  /\ fate \in [Jobs -> SUBSET Fates]

LabelsInit ==
  /\ status = [j \in Jobs |-> "ABSENT"] /\ calls = {}
  /\ at = [b \in Bridges |-> "down"] /\ batch = [b \in Bridges |-> {}]
  /\ expired = [b \in Bridges |-> FALSE]
  /\ faults = 0
  /\ papers = [j \in Jobs |-> 0] /\ fate = [j \in Jobs |-> {}]

Fault == faults < MaxFaults /\ faults' = faults + 1

Goto(b, place) == at' = [at EXCEPT ![b] = place]
Note(j, what)  == fate' = [fate EXCEPT ![j] = @ \cup {what}]

-----------------------------------------------------------------------------
(* The queue *)

(* print_label in QUEUE mode; created_at is older than the commit, so jobs  *)
(* become visible in any order.                                             *)
Enqueue(j) ==
  /\ status[j] = "ABSENT"
  /\ status' = [status EXCEPT ![j] = "PENDING"]
  /\ UNCHANGED << calls, bridge, faults, papers, fate >>

(* Mutant of Waiting: a job is listed until it is seen to fail.             *)
NotFailed == { j \in Jobs : status[j] \in {"PENDING", "PRINTED"} }

Waiting == { j \in Jobs : status[j] = "PENDING" }

(* list_pending_jobs.                                                       *)
Oldest == { j \in Waiting : Cardinality({ i \in Waiting : i < j }) < Limit }

(* Mutant of Unreported: every report is stored.                            *)
AnyJob(j) == TRUE

(* ack_job: a job that was reported before is left alone.                   *)
Unreported(j) == status[j] = "PENDING"

(* The session of a request commits after its answer has gone out; two      *)
(* equal reports of one bridge count as one.                                *)
Store(call) ==
  /\ call \in calls
  /\ calls' = calls \ {call}
  /\ status' = [status EXCEPT ![call.job] = IF call.success THEN "PRINTED" ELSE "FAILED"]
  /\ UNCHANGED << bridge, faults, papers, fate >>

-----------------------------------------------------------------------------
(* The bridge: login, and the loop of main *)

(* A poll is worked through in its order, the oldest job first.             *)
Job(b) == CHOOSE j \in batch[b] : \A i \in batch[b] : j <= i

(* Started, it logs in.                                                     *)
Login(b) ==
  /\ at[b] = "down"
  /\ Goto(b, "poll") /\ expired' = [expired EXCEPT ![b] = FALSE]
  /\ UNCHANGED << status, calls, batch, faults, papers, fate >>

(* GET /labels/jobs/pending; other bridges may hold some of the jobs, and   *)
(* the report of some may be answered and not yet stored: a poll so early   *)
(* counts as a fault.                                                       *)
Poll(b) ==
  LET others   == UNION { batch[d] : d \in Bridges \ {b} }
      unstored == { call.job : call \in calls }
  IN
  /\ at[b] = "poll" /\ ~expired[b] /\ Oldest # {}
  /\ batch' = [batch EXCEPT ![b] = Oldest]
  /\ Goto(b, "send")
  /\ fate' = [j \in Jobs |->
                 fate[j] \cup (IF j \in Oldest \cap others   THEN {"shared"}   ELSE {})
                         \cup (IF j \in Oldest \cap unstored THEN {"unstored"} ELSE {})]
  /\ IF Oldest \cap unstored = {} THEN UNCHANGED faults ELSE Fault
  /\ UNCHANGED << status, calls, expired, papers >>

(* 401: the loop logs in again ...                                          *)
PollRefused(b) ==
  /\ at[b] = "poll" /\ expired[b]
  /\ Goto(b, "relogin")
  /\ UNCHANGED << status, calls, batch, expired, faults, papers, fate >>

(* Mutant of Relogin: the new cookie is not kept.                           *)
KeepsOldCookie(b) ==
  /\ at[b] = "relogin" /\ Goto(b, "poll")
  /\ UNCHANGED << status, calls, batch, expired, faults, papers, fate >>

Relogin(b) ==
  /\ at[b] = "relogin"
  /\ Goto(b, "poll") /\ expired' = [expired EXCEPT ![b] = FALSE]
  /\ UNCHANGED << status, calls, batch, faults, papers, fate >>

(* ... outside any handler: a login that fails ends the process.            *)
ReloginFails(b) ==
  /\ Fault
  /\ at[b] = "relogin"
  /\ Goto(b, "down")
  /\ UNCHANGED << status, calls, batch, expired, papers, fate >>

-----------------------------------------------------------------------------
(* The bridge: one job of run_once *)

(* Mutant of Printed: the label goes out with the report.                   *)
NotYetPrinted(j) == papers

Printed(j) == [papers EXCEPT ![j] = @ + 1]

Send(b) ==
  /\ at[b] = "send"
  /\ papers' = Printed(Job(b))
  /\ Goto(b, "ack")
  /\ UNCHANGED << status, calls, batch, expired, faults, fate >>

(* The printer refuses the connection, or breaks it after the label.        *)
SendFails(b) ==
  /\ Fault
  /\ at[b] = "send"
  /\ papers' \in {papers, Printed(Job(b))}
  /\ Note(Job(b), "printer")
  /\ Goto(b, "nack")
  /\ UNCHANGED << status, calls, batch, expired >>

(* POST /labels/jobs/{id}/ack reaches the server.                           *)
Report(b) ==
  LET call == [by |-> b, job |-> Job(b), success |-> at[b] = "ack"] IN
  /\ at[b] \in {"ack", "nack"} /\ ~expired[b]
  /\ Goto(b, IF at[b] = "ack" THEN "acking" ELSE "nacking")
  /\ calls' = calls \cup IF Unreported(Job(b)) THEN {call} ELSE {}
  /\ IF \E other \in calls : other.job = Job(b) THEN Note(Job(b), "overlap") ELSE UNCHANGED fate
  /\ UNCHANGED << status, batch, expired, faults, papers >>

(* Mutant of Continue: the batch is not given up.                           *)
KeepsBatch(b) == Goto(b, "poll") /\ UNCHANGED batch

(* The next job of the batch, or the next poll.                             *)
Continue(b) ==
  /\ batch' = [batch EXCEPT ![b] = @ \ {Job(b)}]
  /\ Goto(b, IF batch[b] = {Job(b)} THEN "poll" ELSE "send")

(* The answer has come: the report may still be on its way into the table.  *)
Answered(b) ==
  /\ at[b] \in {"acking", "nacking"}
  /\ Continue(b)
  /\ UNCHANGED << status, calls, expired, faults, papers, fate >>

(* A report is refused, does not arrive, or its answer does not come in     *)
(* time: a success is then reported as a failure of the printer, and after  *)
(* a failure the rest of the batch is given up.                             *)
NoAnswer(b) ==
  /\ at[b] \in {"ack", "acking", "nack", "nacking"}
  /\ IF expired[b] /\ at[b] \in {"ack", "nack"} THEN UNCHANGED faults ELSE Fault
  /\ Note(Job(b), "unreported")
  /\ IF at[b] \in {"ack", "acking"}
     THEN Goto(b, "nack") /\ UNCHANGED batch
     ELSE /\ Goto(b, IF expired[b] /\ at[b] = "nack" THEN "relogin" ELSE "poll")
          /\ batch' = [batch EXCEPT ![b] = {}]
  /\ UNCHANGED << status, calls, expired, papers >>

Expire(b) ==
  /\ Fault
  /\ at[b] # "down" /\ ~expired[b]
  /\ expired' = [expired EXCEPT ![b] = TRUE]
  /\ UNCHANGED << status, calls, at, batch, papers, fate >>

Crash(b) ==
  /\ Fault
  /\ at[b] # "down"
  /\ Goto(b, "down") /\ batch' = [batch EXCEPT ![b] = {}]
  /\ IF at[b] \in Busy \ {"send"} THEN Note(Job(b), "unreported") ELSE UNCHANGED fate
  /\ UNCHANGED << status, calls, expired, papers >>

-----------------------------------------------------------------------------
Work(b) ==
  \/ Login(b) \/ Poll(b) \/ PollRefused(b) \/ Relogin(b)
  \/ Send(b) \/ Report(b) \/ Answered(b) \/ NoAnswer(b)

LabelsNext ==
  \/ \E j \in Jobs : Enqueue(j)
  \/ \E call \in Calls : Store(call)
  \/ \E b \in Bridges : Work(b) \/ ReloginFails(b) \/ SendFails(b) \/ Expire(b) \/ Crash(b)

(* The server stores what it has read, and a bridge works on and is started *)
(* again when it went down.                                                 *)
Fairness ==
  /\ \A call \in Calls : WF_labelVars(Store(call))
  /\ \A b \in Bridges : WF_labelVars(Work(b))

LabelsSpec == LabelsInit /\ [][LabelsNext]_labelVars
FairSpec   == LabelsSpec /\ Fairness

-----------------------------------------------------------------------------
(* Properties *)

(* A label reported as printed came out of a printer; a label that did is   *)
(* reported as failed only if a report was lost or the printer broke off.   *)
StatusTellsPaper ==
  \A j \in Jobs :
    /\ status[j] = "PRINTED" => papers[j] > 0
    /\ status[j] = "FAILED" /\ papers[j] > 0 => fate[j] \cap {"unreported", "printer"} # {}

(* A book gets one label: a second comes out only after a report was lost,  *)
(* while two bridges hold the job, or when the job was polled between the   *)
(* answer to its report and the commit of it.                               *)
OneLabel ==
  \A j \in Jobs : papers[j] > 1 => fate[j] \cap {"unreported", "unstored", "shared"} # {}

(* The first report of a job stands, whichever bridge reports what later,   *)
(* unless the second arrives before the first is stored.                    *)
FirstReportStands ==
  [][\A j \in Jobs : status[j] \in {"PRINTED", "FAILED"} /\ status'[j] # status[j]
                     => "overlap" \in fate[j]]_labelVars

(* Every label asked for is printed or reported as failed in the end,       *)
(* through lost reports, expired sessions and crashes of the bridge.        *)
EveryLabelSettles ==
  \A j \in Jobs : status[j] = "PENDING" ~> status[j] \in {"PRINTED", "FAILED"}

(* The queue and the paper agree, up to the reports that were lost or late. *)
QueueTellsPaper == LabelsTypeOK /\ StatusTellsPaper /\ OneLabel
=============================================================================
