----------------------------- MODULE Inspection -----------------------------
(***************************************************************************)
(* The AI inspection pipeline: return jobs in PostgreSQL, the Celery       *)
(* broker, the workers running process_inspection under a Redlock, the     *)
(* ledger sweeper, the DLQ and the operators' endpoints.                   *)
(*                                                                         *)
(* Every database transaction of the code is one action; what a worker     *)
(* learned before its current transaction lives in pc, held and verdict.   *)
(* The AI graph is a choice of verdict.  Time is left out: a lease, a time *)
(* limit or a visibility timeout is an action enabled when the code's      *)
(* durations allow it.                                                     *)
(***************************************************************************)
EXTENDS Naturals, FiniteSets

CONSTANTS
  Jobs,        \* return jobs (return_jobs rows)
  ReturnJobs,  \* those opened through /returns, which carry no LPN
  Workers,     \* greenlets or processes able to run process_inspection
  NoWorker,    \* the value of a free lock
  NoMessage,   \* what an idle worker holds
  MaxRetries,  \* max_retries of the task
  QueueCap,    \* bound: copies of one message the sweeper may pile up
  Faults,      \* the kinds of fault the environment may inject
  MaxFaults,   \* bound: number of faults injected
  Ops,         \* the operator endpoints in use
  MaxOps       \* bound: number of operator calls

FaultKinds == { "crash", "timeout", "overrun", "loss", "redelivery", "publish",
                "api", "error", "event", "rack", "dlq" }
OpKinds == { "override", "reinspect", "retry", "recall", "delete" }

ASSUME InspectionAssumption ==
  /\ ReturnJobs \subseteq Jobs
  /\ NoWorker \notin Workers
  /\ MaxRetries \in Nat /\ QueueCap \in Nat
  /\ MaxFaults \in Nat /\ MaxOps \in Nat
  /\ Faults \subseteq FaultKinds /\ Ops \subseteq OpKinds

(* A message of the broker: the task's arguments and its retry count. *)
Messages == [job : Jobs, wasHitl : BOOLEAN, retries : 0..MaxRetries]

ASSUME NoMessageAssumption == NoMessage \notin Messages

Status == { "ABSENT", "FLUSHED", "PENDING", "PROCESSING", "APPROVED",
            "REJECTED", "HITL_REQUIRED", "FAILED", "DELETED" }
Invisible == { "ABSENT", "FLUSHED", "DELETED" }  \* no committed row
Decided   == { "APPROVED", "REJECTED" }
Settled   == Decided \cup { "HITL_REQUIRED", "FAILED" }

(* InventoryUsedItem.item_status of the job's LPN; NO_LPN while the job has *)
(* no barcode, NONE while no row carries it.                                *)
ItemStatus == { "NO_LPN", "NONE", "PENDING_INSPECTION", "IN_STOCK", "REJECTED",
                "HITL_PENDING", "HITL_REQUIRED" }
Verdicts == { "APPROVE", "REJECT", "HITL" }

(* Where process_inspection is: it has the lock, has passed the terminal    *)
(* guard, is running the graph, has a verdict, has executed it on the       *)
(* stock, has saved it, or has sent its failure to the DLQ.                 *)
Stages == { "idle", "locked", "checked", "running", "judged", "executed",
            "saved", "failing" }
Unprepared == { "idle", "locked", "checked" }

Incidents == { "OPERATOR", "OVERRUN", "EVENT", "RACK", "DLQ" }

VARIABLES
  status,    \* return_jobs.status
  item,      \* inventory_used_items.item_status
  queue,     \* copies of each message waiting in the broker
  lock,      \* the worker whose token is in lock:inspection:<job>
  pc,        \* stage of each worker
  held,      \* the unacknowledged message each worker runs
  verdict,   \* the decision a worker carries to its writes
  dlq,       \* jobs with an entry in wms:dlq:inspection_tasks
  restock,   \* jobs for which a restock proposal was requested
  \* history
  decidedBy, \* who last made the job APPROVED or REJECTED
  escalated, \* jobs handed to a human and not decided by one since
  incidents, \* what happened to a job besides its ordinary processing
  faults, ops

db      == << status, item, decidedBy, escalated >>
worker  == << pc, held, verdict >>
history == << incidents, faults, ops >>
vars == << status, item, queue, lock, pc, held, verdict, dlq, restock,
           decidedBy, escalated, incidents, faults, ops >>

TypeOK ==
  /\ status \in [Jobs -> Status]
  /\ item \in [Jobs -> ItemStatus]
  /\ queue \in [Messages -> Nat]
  /\ lock \in [Jobs -> Workers \cup {NoWorker}]
  /\ pc \in [Workers -> Stages]
  /\ held \in [Workers -> Messages \cup {NoMessage}]
  /\ \A w \in Workers : pc[w] # "idle" => held[w] \in Messages
  /\ verdict \in [Workers -> Verdicts \cup {"NONE"}]
  /\ \A w \in Workers : pc[w] \in {"judged", "executed"} => verdict[w] \in Verdicts
  /\ dlq \subseteq Jobs /\ restock \subseteq Jobs /\ escalated \subseteq Jobs
  /\ decidedBy \in [Jobs -> {"NOBODY", "AI", "HUMAN"}]
  /\ incidents \in [Jobs -> SUBSET Incidents]
  /\ faults \in Nat /\ ops \in Nat

Init ==
  /\ status = [j \in Jobs |-> "ABSENT"]
  /\ item \in [Jobs -> {"NO_LPN", "NONE", "PENDING_INSPECTION"}]
  /\ \A j \in Jobs : item[j] = "NO_LPN" <=> j \in ReturnJobs
  /\ queue = [m \in Messages |-> 0]
  /\ lock = [j \in Jobs |-> NoWorker]
  /\ pc = [w \in Workers |-> "idle"]
  /\ held = [w \in Workers |-> NoMessage]
  /\ verdict = [w \in Workers |-> "NONE"]
  /\ dlq = {} /\ restock = {} /\ escalated = {}
  /\ decidedBy = [j \in Jobs |-> "NOBODY"]
  /\ incidents = [j \in Jobs |-> {}]
  /\ faults = 0 /\ ops = 0

-----------------------------------------------------------------------------
(* Helpers *)

Visible(j) == status[j] \notin Invisible

(* w runs the task of job j, or has gone past prepare_processing_job on it. *)
Working(w, j)  == pc[w] # "idle" /\ held[w].job = j
Prepared(w, j) == pc[w] \notin Unprepared /\ held[w].job = j

Fresh(j, h) == [job |-> j, wasHitl |-> h, retries |-> 0]
Publish(m)  == queue' = [queue EXCEPT ![m] = @ + 1]

Fault(kind) == /\ kind \in Faults /\ faults < MaxFaults
               /\ faults' = faults + 1
Note(j, kind) == incidents' = [incidents EXCEPT ![j] = @ \cup {kind}]

Goto(w, stage) == pc' = [pc EXCEPT ![w] = stage]

(* The task returns: its message is acknowledged. *)
Done(w) == /\ pc' = [pc EXCEPT ![w] = "idle"]
           /\ held' = [held EXCEPT ![w] = NoMessage]
           /\ verdict' = [verdict EXCEPT ![w] = "NONE"]

(* Redlock.release compares the token: only the owner frees the key.        *)
Release(w) == lock' = [lock EXCEPT ![held[w].job] = IF @ = w THEN NoWorker ELSE @]

(* Mutant of Fail: the failure is recorded in the ledger only.              *)
FailSilently(w, cause) ==
  /\ Goto(w, "failing")
  /\ incidents' = [incidents EXCEPT ![held[w].job] = @ \cup cause]
  /\ UNCHANGED << dlq, held, verdict, lock >>

(* push_to_dlq, whose own failure is only logged; save_inspection_failed    *)
(* follows in a transaction of its own.                                     *)
Fail(w, cause) ==
  LET j == held[w].job IN
  \E lost \in IF "dlq" \in Faults THEN BOOLEAN ELSE {FALSE} :
    /\ Goto(w, "failing")
    /\ dlq' = IF lost THEN dlq ELSE dlq \cup {j}
    /\ incidents' = [incidents EXCEPT
                       ![j] = @ \cup cause \cup IF lost THEN {"DLQ"} ELSE {}]
    /\ UNCHANGED << held, verdict, lock >>

(* Mutants of StockAfter: no foreign key; an escalation leaves the row be.  *)
StockWithoutKey(j, v) ==
  CASE v = "APPROVE" -> "IN_STOCK"
    [] v = "REJECT"  -> "REJECTED"
    [] v = "HITL"    -> "HITL_REQUIRED"
StockKeptOnHitl(j, v) ==
  CASE v = "APPROVE" -> "IN_STOCK"
    [] v = "REJECT"  -> "REJECTED"
    [] v = "HITL"    -> item[j]

(* assign_rack_location_after_inspection, seen from item_status: a row that *)
(* does not exist yet takes the worker's raw status.  The insert of a row   *)
(* whose source job was deleted is refused by the foreign key.              *)
StockAfter(j, v) ==
  IF item[j] = "NO_LPN" \/ (item[j] = "NONE" /\ status[j] = "DELETED")
  THEN item[j]
  ELSE CASE v = "APPROVE" -> "IN_STOCK"
         [] v = "REJECT"  -> "REJECTED"
         [] v = "HITL"    -> IF item[j] = "NONE" THEN "HITL_REQUIRED" ELSE "HITL_PENDING"

LegacyStatusOf(v) == IF v = "APPROVE" THEN "COMPLETED" ELSE "HITL_REQUIRED"

StatusOf(v) == CASE v = "APPROVE" -> "APPROVED"
                 [] v = "REJECT"  -> "REJECTED"
                 [] v = "HITL"    -> "HITL_REQUIRED"

-----------------------------------------------------------------------------
(* Opening a job *)

(* POST /inbound/evaluate: the row is committed, then the task published;   *)
(* when the broker stays unreachable the row is left to the sweeper.        *)
StartEvaluation(j) ==
  /\ j \notin ReturnJobs /\ status[j] = "ABSENT"
  /\ status' = [status EXCEPT ![j] = "PENDING"]
  /\ \/ Publish(Fresh(j, FALSE)) /\ UNCHANGED faults
     \/ Fault("publish") /\ UNCHANGED queue
  /\ UNCHANGED << item, lock, worker, dlq, restock, decidedBy, escalated,
                  incidents, ops >>

(* ReturnService.trigger_inspection: the row is flushed and the task        *)
(* published; get_db commits when the request ends.                         *)
TriggerInspection(j) ==
  /\ j \in ReturnJobs /\ status[j] = "ABSENT"
  /\ status' = [status EXCEPT ![j] = "FLUSHED"]
  /\ Publish(Fresh(j, FALSE))
  /\ UNCHANGED << item, lock, worker, dlq, restock, decidedBy, escalated, history >>

CommitRequest(j) ==
  /\ status[j] = "FLUSHED"
  /\ status' = [status EXCEPT ![j] = "PENDING"]
  /\ UNCHANGED << item, queue, lock, worker, dlq, restock, decidedBy, escalated,
                  history >>

(* The request dies first: the row never appears, its task is published.    *)
RollbackRequest(j) ==
  /\ status[j] = "FLUSHED"
  /\ Fault("publish")
  /\ status' = [status EXCEPT ![j] = "DELETED"]
  /\ UNCHANGED << item, queue, lock, worker, dlq, restock, decidedBy, escalated,
                  incidents, ops >>

-----------------------------------------------------------------------------
(* process_inspection *)

LockIgnored(j) == TRUE

LockFree(j) == lock[j] = NoWorker

(* A delivery: the lock is taken without blocking, or the task returns      *)
(* SKIPPED and its message is gone.                                         *)
Start(w, m) ==
  /\ pc[w] = "idle" /\ queue[m] > 0
  /\ queue' = [queue EXCEPT ![m] = @ - 1]
  /\ \/ /\ LockFree(m.job)
        /\ lock' = [lock EXCEPT ![m.job] = w]
        /\ Goto(w, "locked")
        /\ held' = [held EXCEPT ![w] = m]
        /\ UNCHANGED verdict
     \/ /\ ~LockFree(m.job)
        /\ UNCHANGED << lock, worker >>
  /\ UNCHANGED << db, dlq, restock, history >>

NeverTerminal(w) == FALSE

(* The terminal guard: a decided job is not inspected again by a delivery   *)
(* that does not come from a re-inspection.                                 *)
AlreadyTerminal(w) == status[held[w].job] \in Decided /\ ~held[w].wasHitl

CheckTerminal(w) ==
  /\ pc[w] = "locked"
  /\ \/ AlreadyTerminal(w) /\ Done(w) /\ Release(w)
     \/ ~AlreadyTerminal(w) /\ Goto(w, "checked") /\ UNCHANGED << held, verdict, lock >>
  /\ UNCHANGED << db, queue, dlq, restock, history >>

(* prepare_processing_job; a row the worker cannot see is an error.         *)
Prepare(w) ==
  LET j == held[w].job IN
  /\ pc[w] = "checked"
  /\ \/ /\ Visible(j)
        /\ status' = [status EXCEPT ![j] = "PROCESSING"]
        /\ Goto(w, "running")
        /\ UNCHANGED << held, verdict, lock, dlq, incidents >>
     \/ /\ ~Visible(j)
        /\ Fail(w, {})
        /\ UNCHANGED status
  /\ UNCHANGED << item, queue, restock, decidedBy, escalated, faults, ops >>

(* HITL lock: a re-inspection of a job a human owns is never approved.      *)
Locked(m, v) == IF m.wasHitl /\ v = "APPROVE" THEN "HITL" ELSE v

Judge(w) ==
  /\ pc[w] = "running"
  /\ \E v \in Verdicts : verdict' = [verdict EXCEPT ![w] = Locked(held[w], v)]
  /\ Goto(w, "judged")
  /\ UNCHANGED << db, queue, lock, held, dlq, restock, history >>

RetryOf(m) == [m EXCEPT !.retries = @ + 1]

(* An httpx or OpenAI error: self.retry with back-off, else the DLQ.        *)
ApiError(w) ==
  /\ pc[w] = "running"
  /\ Fault("api")
  /\ \/ /\ held[w].retries < MaxRetries
        /\ Publish(RetryOf(held[w]))
        /\ Done(w) /\ Release(w)
        /\ UNCHANGED << dlq, incidents >>
     \/ /\ held[w].retries = MaxRetries
        /\ Fail(w, {})
        /\ UNCHANGED queue
  /\ UNCHANGED << db, restock, ops >>

(* Any other exception while the graph runs.                                *)
UnexpectedError(w) ==
  /\ pc[w] = "running"
  /\ Fault("error")
  /\ Fail(w, {})
  /\ UNCHANGED << db, queue, restock, ops >>

AsksOnApproval(v) == v = "APPROVE"

AsksRestock(v) == v = "REJECT"

(* execute_wms_action: the restock request, then the rack assignment in its *)
(* own session, whose failure is swallowed.                                 *)
Execute(w) ==
  LET j == held[w].job
      v == verdict[w]
  IN
  /\ pc[w] = "judged"
  /\ restock' = IF AsksRestock(v) THEN restock \cup {j} ELSE restock
  /\ \/ /\ item' = [item EXCEPT ![j] = StockAfter(j, v)]
        /\ UNCHANGED << incidents, faults >>
     \/ /\ Fault("rack") /\ Note(j, "RACK") /\ UNCHANGED item
  /\ Goto(w, "executed")
  /\ UNCHANGED << status, decidedBy, escalated, queue, lock, held, verdict, dlq, ops >>

(* save_inspection_result keeps a job that became HITL_REQUIRED meanwhile.  *)
Saved(j, v) == IF status[j] = "HITL_REQUIRED" THEN "HITL_REQUIRED" ELSE StatusOf(v)

Save(w) ==
  LET j == held[w].job
      s == Saved(j, verdict[w])
  IN
  /\ pc[w] = "executed"
  /\ \/ /\ Visible(j)
        /\ status' = [status EXCEPT ![j] = s]
        /\ decidedBy' = [decidedBy EXCEPT ![j] = IF s \in Decided THEN "AI" ELSE @]
        /\ escalated' = IF s = "HITL_REQUIRED" THEN escalated \cup {j} ELSE escalated
        /\ Goto(w, "saved")
        /\ UNCHANGED << held, verdict, lock, dlq, incidents >>
     \/ /\ ~Visible(j)
        /\ Fail(w, {})
        /\ UNCHANGED << status, decidedBy, escalated >>
  /\ UNCHANGED << item, queue, restock, faults, ops >>

(* publish_final_event, the notification, and the return of the task.       *)
Announce(w) ==
  /\ pc[w] = "saved"
  /\ Done(w) /\ Release(w)
  /\ UNCHANGED << db, queue, dlq, restock, history >>

(* Redis refuses the final event: the exception reaches the last handler.   *)
AnnounceFails(w) ==
  /\ pc[w] = "saved"
  /\ Fault("event")
  /\ Fail(w, {"EVENT"})
  /\ UNCHANGED << db, queue, restock, ops >>

SaveFailed(w) ==
  LET j == held[w].job IN
  /\ pc[w] = "failing"
  /\ status' = IF Visible(j) THEN [status EXCEPT ![j] = "FAILED"] ELSE status
  /\ Done(w) /\ Release(w)
  /\ UNCHANGED << item, decidedBy, escalated, queue, dlq, restock, history >>

-----------------------------------------------------------------------------
(* Leases, crashes and the broker *)

(* The 300 s lease of a dead owner runs out.                                *)
OrphanExpires(j) ==
  /\ lock[j] # NoWorker /\ ~Working(lock[j], j)
  /\ lock' = [lock EXCEPT ![j] = NoWorker]
  /\ UNCHANGED << db, queue, worker, dlq, restock, history >>

(* The lease of a live task runs out: the task may last 360 s, and the soft *)
(* limit of 300 s does not reach the gevent workers that are deployed.      *)
LeaseOverrun(j) ==
  /\ lock[j] # NoWorker /\ Prepared(lock[j], j)
  /\ Fault("overrun") /\ Note(j, "OVERRUN")
  /\ lock' = [lock EXCEPT ![j] = NoWorker]
  /\ UNCHANGED << db, queue, worker, dlq, restock, ops >>

(* The worker dies.  Its lease stays; its message is redelivered, or lost   *)
(* when the broker had not registered it yet.                               *)
Crash(w) ==
  /\ pc[w] # "idle"
  /\ Fault("crash")
  /\ Publish(held[w]) \/ UNCHANGED queue
  /\ Done(w)
  /\ UNCHANGED << db, lock, dlq, restock, incidents, ops >>

(* The hard time limit: the task unwinds, releases its lock and is acked.   *)
TimeLimit(w) ==
  /\ pc[w] # "idle"
  /\ Fault("timeout")
  /\ Done(w) /\ Release(w)
  /\ UNCHANGED << db, queue, dlq, restock, incidents, ops >>

(* The visibility timeout redelivers a message still being processed.       *)
Redeliver(w) ==
  /\ pc[w] # "idle"
  /\ Fault("redelivery")
  /\ Publish(held[w])
  /\ UNCHANGED << db, lock, worker, dlq, restock, incidents, ops >>

LoseMessage(m) ==
  /\ queue[m] > 0
  /\ Fault("loss")
  /\ queue' = [queue EXCEPT ![m] = @ - 1]
  /\ UNCHANGED << db, lock, worker, dlq, restock, incidents, ops >>

StalePending(j) == status[j] = "PENDING"

(* A PENDING job older than two minutes, or a PROCESSING one untouched for  *)
(* eight: longer than any task that set it can still be running.            *)
Stale(j) == \/ status[j] = "PENDING"
            \/ /\ status[j] = "PROCESSING"
               /\ \A w \in Workers : ~Prepared(w, j)

Sweep(j) ==
  /\ Stale(j)
  /\ queue[Fresh(j, FALSE)] < QueueCap
  /\ Publish(Fresh(j, FALSE))
  /\ UNCHANGED << db, lock, worker, dlq, restock, history >>

-----------------------------------------------------------------------------
(* Operators *)

Operate(j, op) == /\ op \in Ops /\ ops < MaxOps
                  /\ ops' = ops + 1
                  /\ Note(j, "OPERATOR")

HumanOwned(j) == status[j] \in {"HITL_REQUIRED", "APPROVED", "REJECTED"}

(* What an override may leave in item_status: the assignment may fail, and  *)
(* an approval that keeps a REJECT grade stores an existing row as REJECTED.*)
OverrideStock(j, s) ==
  LET row == item[j] \notin {"NO_LPN", "NONE"} IN
     {IF row THEN item[j] ELSE "NONE"}
     \cup IF s = "REJECTED" THEN {"REJECTED"}
          ELSE {"IN_STOCK"} \cup IF row THEN {"REJECTED"} ELSE {}

(* submit_hitl_override, APPROVE or REJECT, whatever the job's status.  A   *)
(* request that dies after the commit inside the rack assignment never asks *)
(* for the restock.                                                         *)
Override(j, s) ==
  /\ Operate(j, "override")
  /\ Visible(j)
  /\ status' = [status EXCEPT ![j] = s]
  /\ \E i \in OverrideStock(j, s) : item' = [item EXCEPT ![j] = i]
  /\ decidedBy' = [decidedBy EXCEPT ![j] = "HUMAN"]
  /\ escalated' = escalated \ {j}
  /\ \/ s = "REJECTED" /\ restock' = restock \cup {j}
     \/ UNCHANGED restock
  /\ UNCHANGED << queue, lock, worker, dlq, faults >>

(* trigger_ai_reinspection and the RE_CHECK branch of the override.         *)
Reinspect(j) ==
  /\ Operate(j, "reinspect")
  /\ Visible(j)
  /\ status' = [status EXCEPT ![j] = "PENDING"]
  /\ \/ Publish(Fresh(j, HumanOwned(j))) /\ UNCHANGED faults
     \/ Fault("publish") /\ UNCHANGED queue
  /\ UNCHANGED << item, decidedBy, escalated, lock, worker, dlq, restock >>

(* POST /inbound/retry: the task is published without was_hitl.             *)
RetryEvaluation(j) ==
  /\ Operate(j, "retry")
  /\ Visible(j)
  /\ status' = [status EXCEPT ![j] = "PENDING"]
  /\ \/ Publish(Fresh(j, FALSE)) /\ UNCHANGED faults
     \/ Fault("publish") /\ UNCHANGED queue
  /\ UNCHANGED << item, decidedBy, escalated, lock, worker, dlq, restock >>

(* recall_inventory_to_hitl.                                                *)
Recall(j) ==
  /\ Operate(j, "recall")
  /\ Visible(j)
  /\ status' = [status EXCEPT ![j] = "HITL_REQUIRED"]
  /\ item' = [item EXCEPT ![j] = IF @ \in {"NO_LPN", "NONE"} THEN @ ELSE "HITL_PENDING"]
  /\ escalated' = escalated \cup {j}
  /\ UNCHANGED << decidedBy, queue, lock, worker, dlq, restock, faults >>

(* hard_delete_inventory_row on the job's item: the job goes with it.       *)
HardDelete(j) ==
  /\ Operate(j, "delete")
  /\ Visible(j) /\ item[j] \notin {"NO_LPN", "NONE"}
  /\ status' = [status EXCEPT ![j] = "DELETED"]
  /\ item' = [item EXCEPT ![j] = "NONE"]
  /\ escalated' = escalated \ {j}
  /\ UNCHANGED << decidedBy, queue, lock, worker, dlq, restock, faults >>

-----------------------------------------------------------------------------
Intake(j) == \/ StartEvaluation(j) \/ TriggerInspection(j)
             \/ CommitRequest(j) \/ RollbackRequest(j)

WorkerStep(w) ==
  \/ CheckTerminal(w) \/ Prepare(w) \/ Judge(w) \/ Execute(w)
  \/ Save(w) \/ Announce(w) \/ SaveFailed(w)

FaultStep(w) ==
  \/ ApiError(w) \/ UnexpectedError(w) \/ AnnounceFails(w)
  \/ Crash(w) \/ TimeLimit(w) \/ Redeliver(w)

OperatorStep(j) ==
  \/ \E s \in Decided : Override(j, s)
  \/ Reinspect(j) \/ RetryEvaluation(j) \/ Recall(j) \/ HardDelete(j)

Next ==
  \/ \E j \in Jobs : Intake(j) \/ OrphanExpires(j) \/ LeaseOverrun(j) \/ Sweep(j) \/ OperatorStep(j)
  \/ \E w \in Workers : WorkerStep(w) \/ FaultStep(w)
  \/ \E w \in Workers, m \in Messages : Start(w, m)
  \/ \E m \in Messages : LoseMessage(m)

Spec == Init /\ [][Next]_vars

(* Tasks run on, the broker does not starve a job whose messages keep       *)
(* arriving, an orphaned lease runs out, beat calls the sweeper, and a      *)
(* request that published its task ends.  Nothing makes an operator act.    *)
Fairness ==
  /\ \A w \in Workers : WF_vars(WorkerStep(w))
  /\ \A j \in Jobs : /\ SF_vars(\E w \in Workers, m \in Messages :
                                  m.job = j /\ Start(w, m))
                     /\ WF_vars(OrphanExpires(j))
                     /\ WF_vars(Sweep(j))
                     /\ WF_vars(CommitRequest(j))

FairSpec == Spec /\ Fairness

-----------------------------------------------------------------------------
(* Properties *)

(* The distributed lock of process_inspection: two tasks work on one job    *)
(* only if a lease on that job ran out under a live task.                   *)
LeaseExclusive ==
  \A j \in Jobs : \A v, w \in Workers :
    Working(v, j) /\ Working(w, j) /\ v # w => "OVERRUN" \in incidents[j]

(* Terminal guard and lock together: whatever is delivered, redelivered,    *)
(* swept or crashes, an APPROVED or REJECTED job changes only after an      *)
(* operator call, an overrun lease or a final event Redis refused.          *)
DecisionIsFinal ==
  [][\A j \in Jobs :
       status[j] \in Decided /\ status'[j] # status[j] =>
         incidents'[j] \cap {"OPERATOR", "OVERRUN", "EVENT"} # {}]_vars

(* execute_wms_action and save_inspection_result commit apart; still, after *)
(* any crash or redelivery, the stock agrees with what the job says.        *)
StockFollowsDecision ==
  \A j \in Jobs : incidents[j] \subseteq {"DLQ"} /\ item[j] # "NO_LPN" =>
    /\ status[j] = "APPROVED" => item[j] = "IN_STOCK"
    /\ status[j] = "REJECTED" => item[j] = "REJECTED"
    /\ status[j] = "HITL_REQUIRED" => item[j] \in {"HITL_PENDING", "HITL_REQUIRED"}

(* push_to_dlq precedes save_inspection_failed: no FAILED job is without    *)
(* its DLQ entry unless Redis itself refused the push.                      *)
FailedIsQuarantined ==
  \A j \in Jobs : status[j] = "FAILED" => j \in dlq \/ "DLQ" \in incidents[j]

(* A rejection by the pipeline always reaches the restock agent, whatever   *)
(* dies between the request and the save.                                   *)
RejectionAsksRestock ==
  \A j \in Jobs : status[j] = "REJECTED" /\ decidedBy[j] = "AI" => j \in restock

(* A task still running when its job is hard-deleted does not bring the     *)
(* job or its stock row back.                                               *)
DeletionIsFinal ==
  \A j \in Jobs : status[j] = "DELETED" => item[j] \in {"NO_LPN", "NONE"}

(* The ledger is never lost: with finitely many faults and operator calls   *)
(* every open job is decided, escalated or failed, or was deleted.          *)
EveryJobSettles ==
  \A j \in Jobs : status[j] \in {"FLUSHED", "PENDING", "PROCESSING"}
                    ~> status[j] \in Settled \cup {"DELETED"}

(* "A case that was already handed over to a human is not confirmed         *)
(* automatically, whatever the re-inspection finds" (the comment on the     *)
(* HITL lock): only a person makes an escalated job APPROVED. The code does *)
(* not keep it: the message that the sweeper adds to a waiting one does not *)
(* say that a human owns the job.                                           *)
EscalatedNeverConfirmed ==
  [][\A j \in escalated :
       status[j] # "APPROVED" /\ status'[j] = "APPROVED" => decidedBy'[j] = "HUMAN"]_vars
=============================================================================
