-------------------------- MODULE InspectionProofs --------------------------
(***************************************************************************)
(* Proofs about an inspection and what its viewers are shown: the pipeline,*)
(* for every set of jobs and workers, every bound, and every choice of     *)
(* faults and operator endpoints; then the event streams, for every set of *)
(* viewers and any number of rounds, failures and alarms.                  *)
(***************************************************************************)
EXTENDS InspectionRefinement, Streams, FiniteSetTheorems, TLAPS

(* What changes a job besides a lone worker with a live lease.              *)
Disturbances == { "OPERATOR", "OVERRUN", "EVENT" }
Undisturbed(j) == incidents[j] \cap Disturbances = {}

(* Without an overrun the worker of a job owns its lock.                    *)
LeaseHeld ==
  \A w \in Workers : pc[w] # "idle" /\ "OVERRUN" \notin incidents[held[w].job]
                       => lock[held[w].job] = w

(* Only operators publish re-inspections, the way past the terminal guard.  *)
HitlFromOperator ==
  /\ \A m \in Messages : queue[m] > 0 /\ m.wasHitl => "OPERATOR" \in incidents[m.job]
  /\ \A w \in Workers : pc[w] # "idle" /\ held[w].wasHitl
                          => "OPERATOR" \in incidents[held[w].job]

(* What the status of an undisturbed job is while its task runs.            *)
StageOf(w, s) ==
  /\ pc[w] = "checked" => s \notin Decided
  /\ pc[w] = "failing" => s \notin Settled
  /\ pc[w] \in {"running", "judged", "executed"} => s = "PROCESSING"

StageInv ==
  \A w \in Workers : pc[w] # "idle" /\ Undisturbed(held[w].job)
                       => StageOf(w, status[held[w].job])

(* The stock row that goes with an outcome. *)
Agrees(s, i) ==
  \/ i = "NO_LPN"
  \/ /\ s = "APPROVED" => i = "IN_STOCK"
     /\ s = "REJECTED" => i = "REJECTED"
     /\ s = "HITL_REQUIRED" => i \in {"HITL_PENDING", "HITL_REQUIRED"}

Quiet(j) == incidents[j] \subseteq {"DLQ"}

StockInv ==
  /\ \A j \in Jobs : Quiet(j) => Agrees(status[j], item[j])
  /\ \A w \in Workers : pc[w] = "executed" /\ Quiet(held[w].job)
                          => Agrees(StatusOf(verdict[w]), item[held[w].job])

(* A failure reaches the DLQ, a rejection the restock agent, before the job.*)
QuarantineInv ==
  /\ FailedIsQuarantined
  /\ \A w \in Workers : pc[w] = "failing"
       => held[w].job \in dlq \/ "DLQ" \in incidents[held[w].job]

RestockInv ==
  /\ RejectionAsksRestock
  /\ \A w \in Workers : pc[w] = "executed" /\ verdict[w] = "REJECT"
       => held[w].job \in restock

(* A job of /returns has no LPN before its row is committed.                *)
DeletionInv ==
  /\ DeletionIsFinal
  /\ \A j \in Jobs : status[j] = "FLUSHED" => item[j] = "NO_LPN"
  /\ \A j \in ReturnJobs : status[j] = "ABSENT" => item[j] = "NO_LPN"

Invariants == /\ LeaseHeld /\ HitlFromOperator /\ StageInv /\ StockInv
              /\ QuarantineInv /\ RestockInv /\ DeletionInv

-----------------------------------------------------------------------------
(* Types *)

(* The cause of a failure is a set of incidents. *)
LEMMA FailFacts ==
  ASSUME TypeOK, NEW w \in Workers, pc[w] # "idle",
         NEW cause \in SUBSET Incidents, Fail(w, cause)
  PROVE  /\ held[w] \in Messages /\ held[w].job \in Jobs
         /\ pc' = [pc EXCEPT ![w] = "failing"]
         /\ dlq' \in SUBSET Jobs /\ dlq \subseteq dlq'
         /\ incidents' \in [Jobs -> SUBSET Incidents]
         /\ \A j \in Jobs : incidents[j] \subseteq incidents'[j]
         /\ \A j \in Jobs \ {held[w].job} : incidents'[j] = incidents[j]
         /\ incidents'[held[w].job] \subseteq incidents[held[w].job] \cup cause \cup {"DLQ"}
         /\ cause \subseteq incidents'[held[w].job]
         /\ held[w].job \in dlq' \/ "DLQ" \in incidents'[held[w].job]
         /\ UNCHANGED << held, verdict, lock >>
<1>1. held[w] \in Messages /\ held[w].job \in Jobs
  BY DEF TypeOK, Messages
<1> DEFINE j == held[w].job
<1>2. PICK lost \in BOOLEAN :
        /\ dlq' = IF lost THEN dlq ELSE dlq \cup {j}
        /\ incidents' = [incidents EXCEPT
                          ![j] = @ \cup cause \cup IF lost THEN {"DLQ"} ELSE {}]
  BY DEF Fail
<1>3. pc' = [pc EXCEPT ![w] = "failing"] /\ UNCHANGED << held, verdict, lock >>
  BY DEF Fail, Goto
<1>4. /\ dlq \in SUBSET Jobs /\ incidents \in [Jobs -> SUBSET Incidents]
      /\ "DLQ" \in Incidents
  BY DEF TypeOK, Incidents
<1>5. dlq' \in SUBSET Jobs /\ dlq \subseteq dlq'
  BY <1>1, <1>2, <1>4
<1>6. /\ incidents' \in [Jobs -> SUBSET Incidents]
      /\ incidents'[j] = incidents[j] \cup cause \cup IF lost THEN {"DLQ"} ELSE {}
      /\ \A k \in Jobs \ {j} : incidents'[k] = incidents[k]
  BY <1>1, <1>2, <1>4
<1> HIDE DEF j
<1>7. /\ \A k \in Jobs : incidents[k] \subseteq incidents'[k]
      /\ incidents'[j] \subseteq incidents[j] \cup cause \cup {"DLQ"}
      /\ cause \subseteq incidents'[j]
      /\ j \in dlq' \/ "DLQ" \in incidents'[j]
  BY <1>1, <1>2, <1>6
<1>8. QED
  BY <1>1, <1>3, <1>5, <1>6, <1>7 DEF j

(* The empty ledger and the idle workers have their types.                  *)
LEMMA TypeInit == Init => TypeOK
  BY InspectionAssumption DEF Init, TypeOK, Status, ItemStatus, Stages, Verdicts, Messages

(* Queue counters, and the message of a task about to be retried.           *)
LEMMA PublishType ==
  ASSUME queue \in [Messages -> Nat], NEW m \in Messages, Publish(m)
  PROVE  queue' \in [Messages -> Nat]
  BY DEF Publish

(* A fresh message is a message of its job.                                 *)
LEMMA FreshType ==
  ASSUME NEW j \in Jobs, NEW h \in BOOLEAN
  PROVE  Fresh(j, h) \in Messages /\ Fresh(j, h).job = j /\ Fresh(j, h).wasHitl = h
  BY InspectionAssumption DEF Fresh, Messages

(* A task that may be retried gives a message within the retry bound.       *)
LEMMA RetryType ==
  ASSUME NEW m \in Messages, m.retries < MaxRetries
  PROVE  RetryOf(m) \in Messages /\ RetryOf(m).job = m.job /\ RetryOf(m).wasHitl = m.wasHitl
  BY InspectionAssumption DEF RetryOf, Messages

(* The part of TypeOK about the workers. *)
WorkersOK ==
  /\ pc \in [Workers -> Stages]
  /\ held \in [Workers -> Messages \cup {NoMessage}]
  /\ \A w \in Workers : pc[w] # "idle" => held[w] \in Messages
  /\ verdict \in [Workers -> Verdicts \cup {"NONE"}]
  /\ \A w \in Workers : pc[w] \in {"judged", "executed"} => verdict[w] \in Verdicts

(* A worker whose task returned is idle and well typed.                     *)
LEMMA DoneType ==
  ASSUME WorkersOK, NEW w \in Workers, Done(w)
  PROVE  WorkersOK'
  BY DEF WorkersOK, Done, Stages, Verdicts

(* A step to a stage that needs no verdict, or from one that has it.        *)
LEMMA GotoType ==
  ASSUME WorkersOK, NEW w \in Workers, pc[w] # "idle", NEW s \in Stages,
         s \in {"judged", "executed"} => verdict[w] \in Verdicts,
         Goto(w, s), UNCHANGED << held, verdict >>
  PROVE  WorkersOK'
  BY DEF WorkersOK, Goto

(* Releasing a lease leaves a lock that is free or some worker's.           *)
LEMMA ReleaseType ==
  ASSUME lock \in [Jobs -> Workers \cup {NoWorker}], NEW w \in Workers, Release(w)
  PROVE  lock' \in [Jobs -> Workers \cup {NoWorker}]
  BY DEF Release

(* A task that fails keeps its message and records its incidents.           *)
LEMMA FailType ==
  ASSUME TypeOK, NEW w \in Workers, pc[w] # "idle",
         NEW cause \in SUBSET Incidents, Fail(w, cause)
  PROVE  /\ WorkersOK' /\ dlq' \in SUBSET Jobs
         /\ incidents' \in [Jobs -> SUBSET Incidents]
         /\ UNCHANGED lock
<1>1. WorkersOK
  BY DEF TypeOK, WorkersOK
<1>2. Goto(w, "failing") /\ "failing" \in Stages
  BY DEF Fail, Stages
<1>3. QED
  BY <1>1, <1>2, FailFacts, GotoType

(* Opening a job keeps the types.                                           *)
LEMMA IntakeType ==
  ASSUME TypeOK, NEW j \in Jobs, Intake(j)
  PROVE  TypeOK'
<1>1. /\ status' \in [Jobs -> Status]
      /\ UNCHANGED << item, lock, worker, dlq, restock, decidedBy, escalated, incidents, ops >>
  <2>1. CASE StartEvaluation(j)
    BY <2>1 DEF TypeOK, StartEvaluation, Status
  <2>2. CASE TriggerInspection(j)
    BY <2>2 DEF TypeOK, TriggerInspection, Status, history
  <2>3. CASE CommitRequest(j) \/ RollbackRequest(j)
    BY <2>3 DEF TypeOK, CommitRequest, RollbackRequest, Status, history
  <2>4. QED
    BY <2>1, <2>2, <2>3 DEF Intake
<1>2. faults' \in Nat
  <2>1. faults \in Nat /\ (UNCHANGED faults \/ Fault("publish"))
    BY DEF TypeOK, Intake, StartEvaluation, TriggerInspection, CommitRequest,
           RollbackRequest, history
  <2>2. QED
    BY <2>1 DEF Fault
<1>3. queue' \in [Messages -> Nat]
  <2>1. queue \in [Messages -> Nat] /\ Fresh(j, FALSE) \in Messages
    BY FreshType DEF TypeOK
  <2>2. Publish(Fresh(j, FALSE)) \/ UNCHANGED queue
    BY DEF Intake, StartEvaluation, TriggerInspection, CommitRequest, RollbackRequest
  <2>3. QED
    BY <2>1, <2>2, PublishType
<1>4. QED
  BY <1>1, <1>2, <1>3 DEF TypeOK, worker

(* A lease that runs out keeps the types.                                   *)
LEMMA LeaseType ==
  ASSUME TypeOK, NEW j \in Jobs, OrphanExpires(j) \/ LeaseOverrun(j)
  PROVE  TypeOK'
<1>1. CASE OrphanExpires(j)
  BY <1>1 DEF OrphanExpires, TypeOK, db, worker, history
<1>2. CASE LeaseOverrun(j)
  BY <1>2 DEF LeaseOverrun, Fault, Note, TypeOK, db, worker, Incidents
<1>3. QED
  BY <1>1, <1>2

(* The sweeper keeps the types.                                             *)
LEMMA SweepType ==
  ASSUME TypeOK, NEW j \in Jobs, Sweep(j)
  PROVE  TypeOK'
  BY FreshType, PublishType DEF Sweep, TypeOK, db, worker, history

(* The bookkeeping of an operator call keeps the types.                     *)
LEMMA OperateType ==
  ASSUME TypeOK, NEW j \in Jobs, NEW op, Operate(j, op)
  PROVE  /\ ops' \in Nat /\ incidents' \in [Jobs -> SUBSET Incidents]
         /\ incidents'[j] = incidents[j] \cup {"OPERATOR"}
         /\ \A k \in Jobs \ {j} : incidents'[k] = incidents[k]
  BY DEF Operate, Note, TypeOK, Incidents

(* The two ways to put a job back into the queue. *)
LEMMA RequeueType ==
  ASSUME TypeOK, NEW j \in Jobs, NEW h \in BOOLEAN,
         status' = [status EXCEPT ![j] = "PENDING"],
         \/ Publish(Fresh(j, h)) /\ UNCHANGED faults
         \/ Fault("publish") /\ UNCHANGED queue
  PROVE  /\ status' \in [Jobs -> Status] /\ faults' \in Nat
         /\ queue' \in [Messages -> Nat]
<1>1. status' \in [Jobs -> Status] /\ faults' \in Nat
  BY DEF TypeOK, Status, Fault
<1>2. queue' \in [Messages -> Nat]
  BY FreshType, PublishType DEF TypeOK
<1>3. QED
  BY <1>1, <1>2

(* An override keeps the types.                                             *)
LEMMA OverrideType ==
  ASSUME TypeOK, NEW j \in Jobs, NEW s \in Decided, Override(j, s)
  PROVE  TypeOK'
<1>1. ops' \in Nat /\ incidents' \in [Jobs -> SUBSET Incidents]
  BY OperateType DEF Override
<1>2. /\ status' \in [Jobs -> Status] /\ escalated' \subseteq Jobs
      /\ restock' \subseteq Jobs /\ UNCHANGED << queue, lock, worker, dlq, faults >>
  BY DEF Override, TypeOK, Status, Decided
<1>3. decidedBy' \in [Jobs -> {"NOBODY", "AI", "HUMAN"}]
  BY DEF Override, TypeOK
<1>4. item' \in [Jobs -> ItemStatus]
  <2>1. item \in [Jobs -> ItemStatus] /\ OverrideStock(j, s) \subseteq ItemStatus
    BY DEF OverrideStock, TypeOK, ItemStatus
  <2>2. PICK i \in OverrideStock(j, s) : item' = [item EXCEPT ![j] = i]
    BY DEF Override
  <2>3. QED
    BY <2>1, <2>2
<1>5. QED
  BY <1>1, <1>2, <1>3, <1>4 DEF TypeOK, worker

(* Every operator call keeps the types.                                     *)
LEMMA OperatorType ==
  ASSUME TypeOK, NEW j \in Jobs, OperatorStep(j)
  PROVE  TypeOK'
<1>1. CASE \E s \in Decided : Override(j, s)
  BY <1>1, OverrideType
<1>2. CASE Reinspect(j)
  <2>1. HumanOwned(j) \in BOOLEAN
    BY DEF HumanOwned
  <2>2. ops' \in Nat /\ incidents' \in [Jobs -> SUBSET Incidents]
    BY <1>2, OperateType DEF Reinspect
  <2>3. /\ status' \in [Jobs -> Status] /\ faults' \in Nat
        /\ queue' \in [Messages -> Nat]
    BY <1>2, <2>1, RequeueType DEF Reinspect
  <2>4. QED
    BY <1>2, <2>2, <2>3 DEF Reinspect, TypeOK, worker
<1>3. CASE RetryEvaluation(j)
  <2>1. ops' \in Nat /\ incidents' \in [Jobs -> SUBSET Incidents]
    BY <1>3, OperateType DEF RetryEvaluation
  <2>2. /\ status' \in [Jobs -> Status] /\ faults' \in Nat
        /\ queue' \in [Messages -> Nat]
    BY <1>3, RequeueType DEF RetryEvaluation
  <2>3. QED
    BY <1>3, <2>1, <2>2 DEF RetryEvaluation, TypeOK, worker
<1>4. CASE Recall(j) \/ HardDelete(j)
  <2>1. ops' \in Nat /\ incidents' \in [Jobs -> SUBSET Incidents]
    BY <1>4, OperateType DEF Recall, HardDelete
  <2>2. CASE Recall(j)
    BY <2>1, <2>2 DEF Recall, TypeOK, worker, Status, ItemStatus
  <2>3. CASE HardDelete(j)
    BY <2>1, <2>3 DEF HardDelete, TypeOK, worker, Status, ItemStatus
  <2>4. QED
    BY <1>4, <2>2, <2>3
<1>5. QED
  BY <1>1, <1>2, <1>3, <1>4 DEF OperatorStep

(* A delivery or a loss keeps the types.                                    *)
LEMMA BrokerType ==
  ASSUME TypeOK, NEW m \in Messages, LoseMessage(m) \/ \E w \in Workers : Start(w, m)
  PROVE  TypeOK'
<1>1. queue' \in [Messages -> Nat]
  BY DEF TypeOK, LoseMessage, Start
<1>2. CASE LoseMessage(m)
  BY <1>1, <1>2 DEF TypeOK, LoseMessage, Fault, db, worker
<1>3. CASE \E w \in Workers : Start(w, m)
  <2>1. PICK w \in Workers : Start(w, m)
    BY <1>3
  <2>2. m.job \in Jobs
    BY DEF Messages
  <2>3. lock' \in [Jobs -> Workers \cup {NoWorker}] /\ WorkersOK'
    BY <2>1, <2>2 DEF Start, Goto, TypeOK, WorkersOK, Stages, worker
  <2>4. UNCHANGED << db, dlq, restock, history >>
    BY <2>1 DEF Start
  <2>5. QED
    BY <1>1, <2>3, <2>4 DEF TypeOK, WorkersOK, db, history
<1>4. QED
  BY <1>2, <1>3

(* Every step of process_inspection keeps the types.                        *)
LEMMA WorkerType ==
  ASSUME TypeOK, NEW w \in Workers, WorkerStep(w)
  PROVE  TypeOK'
<1> DEFINE j == held[w].job
<1>1. pc[w] # "idle"
  BY DEF WorkerStep, CheckTerminal, Prepare, Judge, Execute, Save, Announce, SaveFailed
<1>2. WorkersOK /\ held[w] \in Messages /\ j \in Jobs
  BY <1>1 DEF TypeOK, WorkersOK, Messages
<1>3. lock \in [Jobs -> Workers \cup {NoWorker}]
  BY DEF TypeOK
<1> HIDE DEF j
<1>4. CASE CheckTerminal(w)
  <2>1. WorkersOK' /\ lock' \in [Jobs -> Workers \cup {NoWorker}]
    BY <1>1, <1>2, <1>3, <1>4, DoneType, ReleaseType, GotoType DEF CheckTerminal, Stages
  <2>2. QED
    BY <1>4, <2>1 DEF CheckTerminal, TypeOK, WorkersOK, db, history
<1>5. CASE Prepare(w)
  <2>1. CASE ~Visible(j)
    <3>1. Fail(w, {}) /\ UNCHANGED << status, item, queue, restock, decidedBy,
                                      escalated, faults, ops >>
      BY <1>5, <2>1 DEF Prepare, j
    <3>2. QED
      BY <1>1, <3>1, FailType DEF TypeOK, WorkersOK
  <2>2. CASE Visible(j)
    <3>1. /\ status' = [status EXCEPT ![j] = "PROCESSING"]
          /\ Goto(w, "running")
          /\ UNCHANGED << held, verdict, lock, dlq, incidents, item, queue, restock,
                          decidedBy, escalated, faults, ops >>
      BY <1>5, <2>2 DEF Prepare, j
    <3>2. WorkersOK'
      BY <1>1, <1>2, <3>1, GotoType DEF Stages
    <3>3. status' \in [Jobs -> Status]
      BY <3>1 DEF TypeOK, Status
    <3>4. QED
      BY <3>1, <3>2, <3>3 DEF TypeOK, WorkersOK
  <2>3. QED
    BY <2>1, <2>2
<1>6. CASE Judge(w)
  <2>1. PICK v \in Verdicts : verdict' = [verdict EXCEPT ![w] = Locked(held[w], v)]
    BY <1>6 DEF Judge
  <2>2. Locked(held[w], v) \in Verdicts
    BY DEF Locked, Verdicts
  <2>3. pc' = [pc EXCEPT ![w] = "judged"] /\ UNCHANGED held
    BY <1>6 DEF Judge, Goto
  <2>4. WorkersOK'
    BY <1>1, <1>2, <2>1, <2>2, <2>3 DEF WorkersOK, Stages
  <2>5. QED
    BY <1>6, <2>4 DEF Judge, TypeOK, WorkersOK, db, history
<1>7. CASE Execute(w)
  <2>1. WorkersOK'
    BY <1>1, <1>2, <1>7, GotoType DEF Execute, Stages, WorkersOK
  <2>2. verdict[w] \in Verdicts
    BY <1>7 DEF Execute, TypeOK
  <2>3. item' \in [Jobs -> ItemStatus]
    <3>1. StockAfter(j, verdict[w]) \in ItemStatus /\ item \in [Jobs -> ItemStatus]
      BY <1>2, <2>2 DEF StockAfter, TypeOK, Verdicts, ItemStatus
    <3>2. item' = [item EXCEPT ![j] = StockAfter(j, verdict[w])] \/ UNCHANGED item
      BY <1>7 DEF Execute, j
    <3>3. QED
      BY <3>1, <3>2
  <2>4. /\ restock' \subseteq Jobs /\ faults' \in Nat
        /\ incidents' \in [Jobs -> SUBSET Incidents]
    BY <1>2, <1>7 DEF Execute, Fault, Note, TypeOK, Incidents, j
  <2>5. QED
    BY <1>7, <2>1, <2>3, <2>4 DEF Execute, TypeOK, WorkersOK
<1>8. CASE Save(w)
  <2>1. CASE ~Visible(j)
    <3>1. Fail(w, {}) /\ UNCHANGED << status, item, queue, restock, decidedBy,
                                      escalated, faults, ops >>
      BY <1>8, <2>1 DEF Save, j
    <3>2. QED
      BY <1>1, <3>1, FailType DEF TypeOK, WorkersOK
  <2>2. CASE Visible(j)
    <3> DEFINE s == Saved(j, verdict[w])
    <3>1. s \in Status
      BY <1>8 DEF Save, Saved, StatusOf, TypeOK, Verdicts, Status
    <3>2. /\ status' = [status EXCEPT ![j] = s]
          /\ decidedBy' = [decidedBy EXCEPT ![j] = IF s \in Decided THEN "AI" ELSE @]
          /\ escalated' = IF s = "HITL_REQUIRED" THEN escalated \cup {j} ELSE escalated
          /\ Goto(w, "saved")
          /\ UNCHANGED << held, verdict, lock, dlq, incidents, item, queue, restock,
                          faults, ops >>
      BY <1>8, <2>2 DEF Save, j
    <3> HIDE DEF s
    <3>3. WorkersOK'
      BY <1>1, <1>2, <3>2, GotoType DEF Stages
    <3>4. /\ status' \in [Jobs -> Status] /\ escalated' \subseteq Jobs
          /\ decidedBy' \in [Jobs -> {"NOBODY", "AI", "HUMAN"}]
      BY <1>2, <3>1, <3>2 DEF TypeOK
    <3>5. QED
      BY <3>2, <3>3, <3>4 DEF TypeOK, WorkersOK
  <2>3. QED
    BY <2>1, <2>2
<1>9. CASE Announce(w) \/ SaveFailed(w)
  <2>1. WorkersOK' /\ lock' \in [Jobs -> Workers \cup {NoWorker}]
    BY <1>2, <1>3, <1>9, DoneType, ReleaseType DEF Announce, SaveFailed
  <2>2. status' \in [Jobs -> Status]
    BY <1>9 DEF Announce, SaveFailed, TypeOK, Status, db
  <2>3. QED
    BY <1>9, <2>1, <2>2 DEF Announce, SaveFailed, TypeOK, WorkersOK, db, history
<1>10. QED
  BY <1>4, <1>5, <1>6, <1>7, <1>8, <1>9 DEF WorkerStep

(* Every fault of a running task keeps the types.                           *)
LEMMA FaultType ==
  ASSUME TypeOK, NEW w \in Workers, FaultStep(w)
  PROVE  TypeOK'
<1>1. pc[w] # "idle"
  BY DEF FaultStep, ApiError, UnexpectedError, AnnounceFails, Crash, TimeLimit, Redeliver
<1>2. WorkersOK /\ held[w] \in Messages
  BY <1>1 DEF TypeOK, WorkersOK
<1>3. faults' \in Nat
  <2>1. \E kind \in FaultKinds : Fault(kind)
    BY DEF FaultStep, ApiError, UnexpectedError, AnnounceFails, Crash, TimeLimit,
           Redeliver, FaultKinds
  <2>2. QED
    BY <2>1 DEF Fault, TypeOK
<1>4. CASE ApiError(w)
  <2>1. CASE held[w].retries < MaxRetries
    <3>1. /\ Publish(RetryOf(held[w])) /\ Done(w) /\ Release(w)
          /\ UNCHANGED << dlq, incidents, db, restock, ops >>
      BY <1>2, <1>4, <2>1, InspectionAssumption DEF ApiError, Messages
    <3>2. queue' \in [Messages -> Nat]
      BY <1>2, <2>1, <3>1, RetryType, PublishType DEF TypeOK
    <3>3. WorkersOK' /\ lock' \in [Jobs -> Workers \cup {NoWorker}]
      BY <1>2, <3>1, DoneType, ReleaseType DEF TypeOK
    <3>4. QED
      BY <1>3, <3>1, <3>2, <3>3 DEF TypeOK, WorkersOK, db
  <2>2. CASE ~(held[w].retries < MaxRetries)
    <3>1. Fail(w, {}) /\ UNCHANGED << queue, db, restock, ops >>
      BY <1>4, <2>2 DEF ApiError
    <3>2. QED
      BY <1>1, <1>3, <3>1, FailType DEF TypeOK, WorkersOK, db
  <2>3. QED
    BY <2>1, <2>2
<1>5. CASE UnexpectedError(w) \/ AnnounceFails(w)
  <2>1. \E cause \in SUBSET Incidents : Fail(w, cause)
    <3>1. {} \in SUBSET Incidents /\ {"EVENT"} \in SUBSET Incidents
      BY DEF Incidents
    <3>2. QED
      BY <1>5, <3>1 DEF UnexpectedError, AnnounceFails
  <2>2. UNCHANGED << db, queue, restock, ops >>
    BY <1>5 DEF UnexpectedError, AnnounceFails
  <2>3. QED
    BY <1>1, <1>3, <2>1, <2>2, FailType DEF TypeOK, WorkersOK, db
<1>6. CASE Crash(w) \/ TimeLimit(w)
  <2>1. queue' \in [Messages -> Nat]
    BY <1>2, <1>6, PublishType DEF Crash, TimeLimit, TypeOK
  <2>2. WorkersOK' /\ lock' \in [Jobs -> Workers \cup {NoWorker}]
    BY <1>2, <1>6, DoneType, ReleaseType DEF Crash, TimeLimit, TypeOK
  <2>3. UNCHANGED << db, dlq, restock, incidents, ops >>
    BY <1>6 DEF Crash, TimeLimit
  <2>4. QED
    BY <1>3, <2>1, <2>2, <2>3 DEF TypeOK, WorkersOK, db
<1>7. CASE Redeliver(w)
  <2>1. queue' \in [Messages -> Nat]
    BY <1>2, <1>7, PublishType DEF Redeliver, TypeOK
  <2>2. QED
    BY <1>3, <1>7, <2>1 DEF Redeliver, TypeOK, db, worker
<1>8. QED
  BY <1>4, <1>5, <1>6, <1>7 DEF FaultStep

(* TypeOK is inductive.                                                     *)
LEMMA TypeStep == TypeOK /\ [Next]_vars => TypeOK'
<1> SUFFICES ASSUME TypeOK, [Next]_vars PROVE TypeOK'
  OBVIOUS
<1>1. CASE \E j \in Jobs : Intake(j) \/ OrphanExpires(j) \/ LeaseOverrun(j)
                             \/ Sweep(j) \/ OperatorStep(j)
  BY <1>1, IntakeType, LeaseType, SweepType, OperatorType
<1>2. CASE \E w \in Workers : WorkerStep(w) \/ FaultStep(w)
  BY <1>2, WorkerType, FaultType
<1>3. CASE \E m \in Messages : LoseMessage(m) \/ \E w \in Workers : Start(w, m)
  BY <1>3, BrokerType
<1>4. CASE UNCHANGED vars
  BY <1>4 DEF vars, TypeOK
<1>5. QED
  BY <1>1, <1>2, <1>3, <1>4 DEF Next

(* Every variable keeps its type. *)
THEOREM TypeCorrect == Spec => []TypeOK
  BY TypeInit, TypeStep, PTL DEF Spec

-----------------------------------------------------------------------------
(* Frames: what each kind of step can and cannot touch *)

(* A step of a worker leaves the other workers and the other jobs alone.    *)
LEMMA WorkerFrame ==
  ASSUME TypeOK, NEW w \in Workers, WorkerStep(w) \/ FaultStep(w)
  PROVE  /\ pc[w] # "idle" /\ held[w] \in Messages /\ held[w].job \in Jobs
         /\ \A v \in Workers \ {w} : /\ pc'[v] = pc[v] /\ held'[v] = held[v]
                                     /\ verdict'[v] = verdict[v]
         /\ pc'[w] # "idle" => held'[w] = held[w]
<1>1. pc[w] # "idle"
  BY DEF WorkerStep, CheckTerminal, Prepare, Judge, Execute, Save, Announce,
         SaveFailed, FaultStep, ApiError, UnexpectedError, AnnounceFails, Crash,
         TimeLimit, Redeliver
<1>2. held[w] \in Messages /\ held[w].job \in Jobs
  BY <1>1 DEF TypeOK, Messages
<1>3. \/ Done(w)
      \/ Goto(w, "checked") /\ UNCHANGED << held, verdict >>
      \/ Goto(w, "running") /\ UNCHANGED << held, verdict >>
      \/ Goto(w, "executed") /\ UNCHANGED << held, verdict >>
      \/ Goto(w, "saved") /\ UNCHANGED << held, verdict >>
      \/ Goto(w, "failing") /\ UNCHANGED << held, verdict >>
      \/ /\ Goto(w, "judged") /\ UNCHANGED held
         /\ \E v \in Verdicts : verdict' = [verdict EXCEPT ![w] = Locked(held[w], v)]
      \/ UNCHANGED worker
  BY DEF WorkerStep, CheckTerminal, Prepare, Judge, Execute, Save, Announce,
         SaveFailed, FaultStep, ApiError, UnexpectedError, AnnounceFails, Crash,
         TimeLimit, Redeliver, Fail
<1>4. QED
  BY <1>1, <1>2, <1>3 DEF TypeOK, Done, Goto, worker

(* Incidents, DLQ entries and restock requests are never taken back.        *)
Grows == /\ \A j \in Jobs : incidents[j] \subseteq incidents'[j]
         /\ dlq \subseteq dlq' /\ restock \subseteq restock'

(* Noting an incident adds it to the history of its job.                    *)
LEMMA NoteGrows ==
  ASSUME TypeOK, NEW j \in Jobs, NEW kind, Note(j, kind)
  PROVE  /\ \A k \in Jobs : incidents[k] \subseteq incidents'[k]
         /\ \A k \in Jobs \ {j} : incidents'[k] = incidents[k]
         /\ incidents'[j] = incidents[j] \cup {kind}
  BY DEF Note, TypeOK

(* An operator call is on the record of the job it changes.                 *)
LEMMA OperatorGrows ==
  ASSUME TypeOK, NEW j \in Jobs, OperatorStep(j)
  PROVE  Grows /\ "OPERATOR" \in incidents'[j]
<1>1. \E op \in OpKinds : Operate(j, op)
  BY DEF OperatorStep, Override, Reinspect, RetryEvaluation, Recall, HardDelete, OpKinds
<1>2. dlq \subseteq dlq' /\ restock \subseteq restock'
  BY DEF OperatorStep, Override, Reinspect, RetryEvaluation, Recall, HardDelete
<1>3. QED
  BY <1>1, <1>2, NoteGrows DEF Operate, Grows

(* The failures of a step: all of them say what they did before failing.    *)
LEMMA WorkerGrows ==
  ASSUME TypeOK, NEW w \in Workers, WorkerStep(w) \/ FaultStep(w)
  PROVE  /\ Grows
         /\ \A j \in Jobs \ {held[w].job} : incidents'[j] = incidents[j]
<1> DEFINE j == held[w].job
<1>1. pc[w] # "idle" /\ j \in Jobs
  BY WorkerFrame
<1>2. \/ UNCHANGED << incidents, dlq, restock >>
      \/ UNCHANGED restock /\ \E cause \in SUBSET Incidents : Fail(w, cause)
      \/ UNCHANGED dlq /\ restock \subseteq restock' /\ (UNCHANGED incidents \/ Note(j, "RACK"))
  <2>1. {} \in SUBSET Incidents /\ {"EVENT"} \in SUBSET Incidents
    BY DEF Incidents
  <2>2. QED
    BY <2>1 DEF WorkerStep, CheckTerminal, Prepare, Judge, Execute, Save, Announce,
         SaveFailed, FaultStep, ApiError, UnexpectedError, AnnounceFails, Crash,
         TimeLimit, Redeliver, history
<1>3. QED
  BY <1>1, <1>2, FailFacts, NoteGrows DEF Grows

(* The histories only grow: incidents, DLQ entries, restock requests.       *)
LEMMA StepGrows ==
  ASSUME TypeOK, [Next]_vars
  PROVE  Grows
<1>1. CASE \E j \in Jobs : Intake(j) \/ OrphanExpires(j) \/ Sweep(j)
  BY <1>1 DEF Grows, Intake, StartEvaluation, TriggerInspection, CommitRequest,
              RollbackRequest, OrphanExpires, Sweep, history
<1>2. CASE \E j \in Jobs : LeaseOverrun(j) \/ OperatorStep(j)
  BY <1>2, OperatorGrows, NoteGrows DEF LeaseOverrun, Grows
<1>3. CASE \E w \in Workers : WorkerStep(w) \/ FaultStep(w)
  BY <1>3, WorkerGrows
<1>4. CASE \E m \in Messages : LoseMessage(m) \/ \E w \in Workers : Start(w, m)
  BY <1>4 DEF Grows, LoseMessage, Start, history
<1>5. CASE UNCHANGED vars
  BY <1>5 DEF Grows, vars
<1>6. QED
  BY <1>1, <1>2, <1>3, <1>4, <1>5 DEF Next

-----------------------------------------------------------------------------
(* The lease *)

(* Two tasks on one job both owning its lock are one task.                  *)
LEMMA Exclusive ==
  ASSUME TypeOK, LeaseHeld, NEW v \in Workers, NEW w \in Workers,
         pc[v] # "idle", pc[w] # "idle", held[v].job = held[w].job,
         "OVERRUN" \notin incidents[held[w].job]
  PROVE  v = w
  BY DEF LeaseHeld

(* A task owns the lock of its job until a lease overruns.                  *)
LEMMA LeaseStep == TypeOK /\ LeaseHeld /\ [Next]_vars => LeaseHeld'
<1> SUFFICES ASSUME TypeOK, LeaseHeld, [Next]_vars,
                    NEW v \in Workers, pc'[v] # "idle",
                    "OVERRUN" \notin incidents'[held'[v].job]
             PROVE  lock'[held'[v].job] = v
  BY DEF LeaseHeld
<1>1. \A j \in Jobs : incidents[j] \subseteq incidents'[j]
  BY StepGrows DEF Grows
<1>2. ASSUME UNCHANGED worker
      PROVE  /\ held'[v].job = held[v].job /\ held[v].job \in Jobs
             /\ pc[v] # "idle" /\ lock[held[v].job] = v
  BY <1>1, <1>2 DEF worker, LeaseHeld, TypeOK, Messages
<1>3. CASE \E j \in Jobs : Intake(j) \/ Sweep(j) \/ OperatorStep(j)
  <2>1. UNCHANGED << lock, worker >>
    BY <1>3 DEF Intake, StartEvaluation, TriggerInspection, CommitRequest,
                RollbackRequest, Sweep, OperatorStep, Override, Reinspect,
                RetryEvaluation, Recall, HardDelete
  <2>2. QED
    BY <1>2, <2>1
<1>4. CASE \E m \in Messages : LoseMessage(m)
  BY <1>2, <1>4 DEF LoseMessage
<1>5. CASE UNCHANGED vars
  BY <1>2, <1>5 DEF vars, worker
<1>6. CASE \E j \in Jobs : OrphanExpires(j)
  BY <1>2, <1>6 DEF OrphanExpires, Working, TypeOK
<1>7. CASE \E j \in Jobs : LeaseOverrun(j)
  BY <1>2, <1>7, NoteGrows DEF LeaseOverrun, TypeOK
<1>8. ASSUME NEW w \in Workers, NEW m \in Messages, Start(w, m)
      PROVE  lock'[held'[v].job] = v
  <2>1. CASE ~LockFree(m.job)
    BY <1>2, <1>8, <2>1 DEF Start
  <2>2. CASE LockFree(m.job)
    <3>1. /\ lock[m.job] = NoWorker /\ lock' = [lock EXCEPT ![m.job] = w]
          /\ held' = [held EXCEPT ![w] = m] /\ pc' = [pc EXCEPT ![w] = "locked"]
          /\ m.job \in Jobs
      BY <1>8, <2>2 DEF Start, LockFree, Goto, Messages
    <3>2. CASE v = w
      BY <3>1, <3>2 DEF TypeOK
    <3>3. CASE v # w
      <4>1. pc[v] # "idle" /\ held'[v] = held[v] /\ held[v].job \in Jobs
        BY <3>1, <3>3 DEF TypeOK, Messages
      <4>2. lock[held[v].job] = v
        BY <1>1, <4>1 DEF LeaseHeld
      <4>3. QED
        BY <3>1, <4>1, <4>2, InspectionAssumption DEF TypeOK
    <3>4. QED
      BY <3>2, <3>3
  <2>3. QED
    BY <2>1, <2>2
<1>9. ASSUME NEW w \in Workers, WorkerStep(w) \/ FaultStep(w)
      PROVE  lock'[held'[v].job] = v
  <2>1. pc[v] # "idle" /\ held'[v] = held[v] /\ held[v].job \in Jobs
    BY <1>9, WorkerFrame DEF TypeOK, Messages
  <2>2. lock[held[v].job] = v
    BY <1>1, <2>1 DEF LeaseHeld
  <2>3. UNCHANGED lock \/ (Done(w) /\ Release(w))
    BY <1>9 DEF WorkerStep, CheckTerminal, Prepare, Judge, Execute, Save, Announce,
         SaveFailed, FaultStep, ApiError, UnexpectedError, AnnounceFails, Crash,
         TimeLimit, Redeliver, Fail
  <2>4. CASE Done(w) /\ Release(w)
    <3>1. v # w
      BY <2>4 DEF Done, TypeOK
    <3>2. held[w].job \in Jobs
      BY <1>9, WorkerFrame
    <3>3. QED
      BY <2>1, <2>2, <2>4, <3>1, <3>2 DEF Release, TypeOK
  <2>5. QED
    BY <2>1, <2>2, <2>3, <2>4
<1>10. QED
  BY <1>3, <1>4, <1>5, <1>6, <1>7, <1>8, <1>9 DEF Next

-----------------------------------------------------------------------------
(* Re-inspections come from operators *)

(* A message published on behalf of job j: a fresh one, or a copy of one    *)
(* that was already held.                                                   *)
LEMMA HitlStep == TypeOK /\ HitlFromOperator /\ [Next]_vars => HitlFromOperator'
<1> SUFFICES ASSUME TypeOK, HitlFromOperator, [Next]_vars PROVE HitlFromOperator'
  OBVIOUS
<1>1. \A j \in Jobs : incidents[j] \subseteq incidents'[j]
  BY StepGrows DEF Grows
<1>2. ASSUME NEW m \in Messages, queue'[m] > 0, m.wasHitl
      PROVE  "OPERATOR" \in incidents'[m.job]
  <2>1. m.job \in Jobs /\ queue \in [Messages -> Nat]
    BY DEF Messages, TypeOK
  <2>2. CASE queue[m] > 0
    BY <1>1, <1>2, <2>1, <2>2 DEF HitlFromOperator
  <2>3. ASSUME ~(queue[m] > 0), NEW n \in Messages, Publish(n)
        PROVE  m = n
    BY <1>2, <2>1, <2>3 DEF Publish
  <2>4. ASSUME ~(queue[m] > 0), NEW j \in Jobs, Publish(Fresh(j, FALSE))
        PROVE  FALSE
    BY <1>2, <2>3, <2>4, FreshType
  <2>5. ASSUME ~(queue[m] > 0), NEW w \in Workers, pc[w] # "idle",
               Publish(held[w]) \/ (held[w].retries < MaxRetries /\ Publish(RetryOf(held[w])))
        PROVE  "OPERATOR" \in incidents'[m.job]
    <3>1. held[w] \in Messages /\ held[w].job \in Jobs
      BY <2>5 DEF TypeOK, Messages
    <3>2. m.job = held[w].job /\ m.wasHitl = held[w].wasHitl
      BY <2>3, <2>5, <3>1, RetryType
    <3>3. QED
      BY <1>1, <1>2, <2>5, <3>1, <3>2 DEF HitlFromOperator
  <2>6. ASSUME ~(queue[m] > 0) PROVE "OPERATOR" \in incidents'[m.job]
    <3>1. ~UNCHANGED queue
      BY <1>2, <2>6
    <3>2. ASSUME NEW j \in Jobs, Intake(j) \/ Sweep(j) \/ OrphanExpires(j) \/ LeaseOverrun(j)
          PROVE  FALSE
      BY <2>4, <2>6, <3>1, <3>2 DEF Intake, StartEvaluation, TriggerInspection,
         CommitRequest, RollbackRequest, Sweep, OrphanExpires, LeaseOverrun
    <3>3. ASSUME NEW j \in Jobs, OperatorStep(j)
          PROVE  "OPERATOR" \in incidents'[m.job]
      <4>1. Publish(Fresh(j, FALSE)) \/ Publish(Fresh(j, HumanOwned(j)))
        BY <3>1, <3>3 DEF OperatorStep, Override, Reinspect, RetryEvaluation,
                          Recall, HardDelete
      <4>2. HumanOwned(j) \in BOOLEAN
        BY DEF HumanOwned
      <4>3. m.job = j
        BY <2>3, <2>6, <4>1, <4>2, FreshType
      <4>4. QED
        BY <3>3, <4>3, OperatorGrows
    <3>4. ASSUME NEW w \in Workers, WorkerStep(w) \/ FaultStep(w)
          PROVE  "OPERATOR" \in incidents'[m.job]
      <4>1. pc[w] # "idle" /\ held[w] \in Messages
        BY <3>4, WorkerFrame
      <4>2. Publish(held[w]) \/ (held[w].retries < MaxRetries /\ Publish(RetryOf(held[w])))
        BY <3>1, <3>4 DEF WorkerStep, CheckTerminal, Prepare, Judge, Execute, Save,
           Announce, SaveFailed, FaultStep, ApiError, UnexpectedError, AnnounceFails,
           Crash, TimeLimit, Redeliver
      <4>3. QED
        BY <2>5, <2>6, <4>1, <4>2
    <3>5. ASSUME NEW n \in Messages, LoseMessage(n) \/ \E w \in Workers : Start(w, n)
          PROVE  FALSE
      BY <1>2, <2>1, <2>6, <3>5 DEF LoseMessage, Start
    <3>6. QED
      BY <3>1, <3>2, <3>3, <3>4, <3>5 DEF Next, vars
  <2>7. QED
    BY <2>2, <2>6
<1>3. ASSUME NEW v \in Workers, pc'[v] # "idle", held'[v].wasHitl
      PROVE  "OPERATOR" \in incidents'[held'[v].job]
  <2>1. CASE pc[v] # "idle" /\ held'[v] = held[v]
    BY <1>1, <1>3, <2>1 DEF HitlFromOperator, TypeOK, Messages
  <2>2. CASE \E m \in Messages : queue[m] > 0 /\ held'[v] = m
    BY <1>1, <1>3, <2>2 DEF HitlFromOperator, Messages
  <2>3. \/ UNCHANGED worker
        \/ \E w \in Workers : WorkerStep(w) \/ FaultStep(w)
        \/ \E w \in Workers, m \in Messages : Start(w, m)
    BY DEF Next, vars, worker, Intake, StartEvaluation, TriggerInspection,
           CommitRequest, RollbackRequest, OrphanExpires, LeaseOverrun, Sweep,
           OperatorStep, Override, Reinspect, RetryEvaluation, Recall, HardDelete,
           LoseMessage
  <2>4. CASE UNCHANGED worker
    BY <1>3, <2>1, <2>4 DEF worker
  <2>5. CASE \E w \in Workers : WorkerStep(w) \/ FaultStep(w)
    BY <1>3, <2>1, <2>5, WorkerFrame
  <2>6. CASE \E w \in Workers, m \in Messages : Start(w, m)
    BY <1>3, <2>1, <2>2, <2>6 DEF Start, Goto, worker, TypeOK
  <2>7. QED
    BY <2>3, <2>4, <2>5, <2>6
<1>4. QED
  BY <1>2, <1>3 DEF HitlFromOperator

-----------------------------------------------------------------------------
(* The stages of an undisturbed job *)

(* A job undisturbed after a step was undisturbed before it.                *)
LEMMA UndisturbedBefore ==
  ASSUME TypeOK, [Next]_vars, NEW j \in Jobs, incidents'[j] \cap Disturbances = {}
  PROVE  Undisturbed(j)
  BY StepGrows DEF Undisturbed, Grows

(* Who may rewrite the status of an undisturbed job: the request that opens *)
(* it and the tasks that run it.                                            *)
LEMMA StatusFrame ==
  ASSUME TypeOK, [Next]_vars, NEW j \in Jobs, incidents'[j] \cap Disturbances = {}
  PROVE  \/ status'[j] = status[j]
         \/ status[j] = "ABSENT" /\ status'[j] \in {"PENDING", "FLUSHED"}
         \/ status[j] = "FLUSHED" /\ status'[j] \in {"PENDING", "DELETED"}
         \/ \E w \in Workers :
              /\ held[w].job = j
              /\ \/ Prepare(w) /\ status'[j] = "PROCESSING"
                 \/ Save(w)
                 \/ SaveFailed(w) /\ status'[j] = "FAILED"
<1>1. "OPERATOR" \notin incidents'[j]
  BY DEF Undisturbed, Disturbances
<1>2. CASE \E k \in Jobs : OperatorStep(k)
  <2>1. PICK k \in Jobs : OperatorStep(k)
    BY <1>2
  <2>2. j # k
    BY <1>1, <2>1, OperatorGrows
  <2>3. QED
    BY <2>1, <2>2 DEF OperatorStep, Override, Reinspect, RetryEvaluation, Recall,
                      HardDelete, TypeOK
<1>3. CASE \E k \in Jobs : Intake(k)
  BY <1>3 DEF Intake, StartEvaluation, TriggerInspection, CommitRequest,
              RollbackRequest, TypeOK
<1>4. ASSUME NEW w \in Workers, WorkerStep(w) \/ FaultStep(w), status'[j] # status[j]
      PROVE  /\ held[w].job = j
             /\ \/ Prepare(w) /\ status'[j] = "PROCESSING"
                \/ Save(w)
                \/ SaveFailed(w) /\ status'[j] = "FAILED"
  BY <1>4 DEF WorkerStep, CheckTerminal, Prepare, Judge, Execute, Save, Announce,
         SaveFailed, FaultStep, ApiError, UnexpectedError, AnnounceFails, Crash,
         TimeLimit, Redeliver, db, TypeOK
<1>5. ASSUME \/ UNCHANGED vars
             \/ \E k \in Jobs : OrphanExpires(k) \/ LeaseOverrun(k) \/ Sweep(k)
             \/ \E m \in Messages : LoseMessage(m) \/ \E w \in Workers : Start(w, m)
      PROVE  status'[j] = status[j]
  BY <1>5 DEF vars, OrphanExpires, LeaseOverrun, Sweep, LoseMessage, Start, db
<1>6. QED
  BY <1>2, <1>3, <1>4, <1>5 DEF Next

(* While a task runs an undisturbed job no other task runs it.              *)
LEMMA SoleWorker ==
  ASSUME TypeOK, LeaseHeld, NEW v \in Workers, NEW w \in Workers,
         pc[v] # "idle", pc[w] # "idle", held[v].job = held[w].job,
         Undisturbed(held[v].job)
  PROVE  v = w
  BY Exclusive DEF Undisturbed, Disturbances

(* The step of the task itself. *)
LEMMA StageOwnStep ==
  ASSUME TypeOK, HitlFromOperator, StageInv, [Next]_vars,
         NEW v \in Workers, WorkerStep(v) \/ FaultStep(v), pc'[v] # "idle",
         Undisturbed(held[v].job)'
  PROVE  StageOf(v, status[held[v].job])'
<1> DEFINE j == held[v].job
<1>1. pc[v] # "idle" /\ held[v] \in Messages /\ j \in Jobs /\ held'[v] = held[v]
  BY WorkerFrame
<1>2. /\ Undisturbed(j)
      /\ StageOf(v, status[j])
      /\ "OPERATOR" \notin incidents[j] /\ "EVENT" \notin incidents'[j]
  BY <1>1, UndisturbedBefore DEF StageInv, Undisturbed, Disturbances
<1>3. ~held[v].wasHitl
  BY <1>1, <1>2 DEF HitlFromOperator
<1>4. SUFFICES /\ pc'[v] = "checked" => status'[j] \notin Decided
               /\ pc'[v] = "failing" => status'[j] \notin Settled
               /\ pc'[v] \in {"running", "judged", "executed"} => status'[j] = "PROCESSING"
  BY <1>1 DEF StageOf
<1>5. CASE CheckTerminal(v)
  BY <1>1, <1>3, <1>5 DEF CheckTerminal, AlreadyTerminal, Done, Goto, TypeOK, db
<1>6. CASE Prepare(v)
  <2>1. CASE Visible(j)
    BY <1>1, <1>6, <2>1 DEF Prepare, Goto, TypeOK
  <2>2. CASE ~Visible(j)
    <3>1. pc' = [pc EXCEPT ![v] = "failing"] /\ UNCHANGED status
      BY <1>6, <2>2 DEF Prepare, Fail, Goto
    <3>2. QED
      BY <1>1, <2>2, <3>1 DEF Visible, Invisible, Settled, Decided, TypeOK
  <2>3. QED
    BY <2>1, <2>2
<1>7. CASE Judge(v) \/ Execute(v)
  BY <1>1, <1>2, <1>7 DEF Judge, Execute, Goto, StageOf, TypeOK, db
<1>8. CASE Save(v)
  <2>1. CASE Visible(j)
    BY <1>1, <1>8, <2>1 DEF Save, Goto, TypeOK
  <2>2. CASE ~Visible(j)
    BY <1>2, <1>8, <2>2 DEF Save, StageOf, Visible, Invisible
  <2>3. QED
    BY <2>1, <2>2
<1>9. CASE ApiError(v) \/ UnexpectedError(v)
  <2>1. UNCHANGED status /\ status[j] = "PROCESSING" /\ pc'[v] = "failing"
    BY <1>1, <1>2, <1>9 DEF ApiError, UnexpectedError, Fail, Goto, Done, db, StageOf,
                            TypeOK
  <2>2. QED
    BY <2>1 DEF Settled, Decided
<1>10. CASE AnnounceFails(v)
  <2>1. "EVENT" \in incidents'[j]
    <3>1. Fail(v, {"EVENT"}) /\ {"EVENT"} \in SUBSET Incidents
      BY <1>10 DEF AnnounceFails, Incidents
    <3>2. QED
      BY <1>1, <3>1, FailFacts
  <2>2. QED
    BY <1>2, <2>1
<1>11. CASE Announce(v) \/ SaveFailed(v) \/ Crash(v) \/ TimeLimit(v)
  BY <1>1, <1>11 DEF Announce, SaveFailed, Crash, TimeLimit, Done, TypeOK
<1>12. CASE Redeliver(v)
  BY <1>1, <1>2, <1>12 DEF Redeliver, StageOf, db, worker
<1>13. QED
  BY <1>5, <1>6, <1>7, <1>8, <1>9, <1>10, <1>11, <1>12 DEF WorkerStep, FaultStep

(* Where a worker stands after a step that is not its own. *)
LEMMA OthersStand ==
  ASSUME TypeOK, [Next]_vars, NEW v \in Workers, ~WorkerStep(v), ~FaultStep(v)
  PROVE  \/ pc'[v] = "locked"
         \/ pc'[v] = pc[v] /\ held'[v] = held[v] /\ verdict'[v] = verdict[v]
<1>1. CASE \E w \in Workers : WorkerStep(w) \/ FaultStep(w)
  BY <1>1, WorkerFrame
<1>2. CASE \E w \in Workers, m \in Messages : Start(w, m)
  BY <1>2 DEF Start, Goto, worker, TypeOK
<1>3. ASSUME ~ \E w \in Workers : WorkerStep(w) \/ FaultStep(w),
             ~ \E w \in Workers, m \in Messages : Start(w, m)
      PROVE  UNCHANGED worker
  BY <1>3 DEF Next, vars, worker, Intake, StartEvaluation, TriggerInspection,
         CommitRequest, RollbackRequest, OrphanExpires, LeaseOverrun, Sweep,
         OperatorStep, Override, Reinspect, RetryEvaluation, Recall, HardDelete,
         LoseMessage
<1>4. QED
  BY <1>1, <1>2, <1>3 DEF worker

(* The status of an undisturbed job follows the stage of its only task.     *)
LEMMA StageStep ==
  TypeOK /\ LeaseHeld /\ HitlFromOperator /\ StageInv /\ [Next]_vars => StageInv'
<1> SUFFICES ASSUME TypeOK, LeaseHeld, HitlFromOperator, StageInv, [Next]_vars,
                    NEW v \in Workers, pc'[v] # "idle", Undisturbed(held[v].job)'
             PROVE  StageOf(v, status[held[v].job])'
  BY DEF StageInv
<1>1. CASE WorkerStep(v) \/ FaultStep(v)
  <2>1. held'[v] = held[v]
    BY <1>1, WorkerFrame
  <2>2. QED
    BY <1>1, <2>1, StageOwnStep DEF Undisturbed, StageOf
<1>2. CASE pc'[v] = "locked"
  BY <1>2 DEF StageOf
<1>3. CASE /\ ~WorkerStep(v) /\ ~FaultStep(v)
           /\ pc'[v] = pc[v] /\ held'[v] = held[v]
  <2> DEFINE j == held[v].job
  <2>1. j \in Jobs /\ incidents'[j] \cap Disturbances = {} /\ Undisturbed(j) /\ pc[v] # "idle"
    <3>1. j \in Jobs /\ incidents'[j] \cap Disturbances = {} /\ pc[v] # "idle"
      BY <1>3 DEF TypeOK, Messages, Undisturbed
    <3>2. QED
      BY <3>1, UndisturbedBefore
  <2>2. StageOf(v, status[j])
    BY <2>1 DEF StageInv
  <2>3. ASSUME NEW w \in Workers, held[w].job = j,
               Prepare(w) \/ Save(w) \/ SaveFailed(w)
        PROVE  FALSE
    <3>1. pc[w] # "idle" /\ WorkerStep(w)
      BY <2>3 DEF Prepare, Save, SaveFailed, WorkerStep
    <3>2. v = w
      BY <2>1, <2>3, <3>1, SoleWorker
    <3>3. QED
      BY <1>3, <3>1, <3>2
  <2>4. \/ status'[j] = status[j]
        \/ status[j] = "ABSENT" /\ status'[j] \in {"PENDING", "FLUSHED"}
        \/ status[j] = "FLUSHED" /\ status'[j] \in {"PENDING", "DELETED"}
    BY <2>1, <2>3, StatusFrame
  <2>5. QED
    BY <1>3, <2>2, <2>4 DEF StageOf, Settled, Decided
<1>4. QED
  BY <1>1, <1>2, <1>3, OthersStand

-----------------------------------------------------------------------------
(* Stock and ledger *)

(* Only Execute and the operators change a stock row.                       *)
LEMMA ItemFrame ==
  ASSUME TypeOK, [Next]_vars, NEW j \in Jobs, incidents'[j] \subseteq {"DLQ"}
  PROVE  \/ item'[j] = item[j]
         \/ \E w \in Workers : /\ Execute(w) /\ held[w].job = j
                               /\ item'[j] = StockAfter(j, verdict[w])
<1>1. CASE \E k \in Jobs : OperatorStep(k)
  <2>1. PICK k \in Jobs : OperatorStep(k)
    BY <1>1
  <2>2. j # k
    BY <2>1, OperatorGrows
  <2>3. QED
    BY <2>1, <2>2 DEF OperatorStep, Override, Reinspect, RetryEvaluation, Recall,
                      HardDelete, TypeOK
<1>2. ASSUME NEW w \in Workers, WorkerStep(w) \/ FaultStep(w), item'[j] # item[j]
      PROVE  Execute(w) /\ held[w].job = j /\ item'[j] = StockAfter(j, verdict[w])
  <2>1. Execute(w)
    BY <1>2 DEF WorkerStep, CheckTerminal, Prepare, Judge, Save, Announce,
         SaveFailed, FaultStep, ApiError, UnexpectedError, AnnounceFails, Crash,
         TimeLimit, Redeliver, db
  <2>2. item' = [item EXCEPT ![held[w].job] = StockAfter(held[w].job, verdict[w])]
    BY <1>2, <2>1 DEF Execute
  <2>3. QED
    BY <1>2, <2>1, <2>2 DEF TypeOK
<1>3. ASSUME \/ UNCHANGED vars
             \/ \E k \in Jobs : Intake(k) \/ OrphanExpires(k) \/ LeaseOverrun(k) \/ Sweep(k)
             \/ \E m \in Messages : LoseMessage(m) \/ \E w \in Workers : Start(w, m)
      PROVE  item'[j] = item[j]
  BY <1>3 DEF vars, Intake, StartEvaluation, TriggerInspection, CommitRequest,
     RollbackRequest, OrphanExpires, LeaseOverrun, Sweep, LoseMessage, Start, db
<1>4. QED
  BY <1>1, <1>2, <1>3 DEF Next

(* A job with no incident but a refused DLQ push is undisturbed.            *)
LEMMA QuietIsUndisturbed ==
  ASSUME TypeOK, [Next]_vars, NEW j \in Jobs, incidents'[j] \subseteq {"DLQ"}
  PROVE  /\ Quiet(j) /\ Undisturbed(j)
         /\ incidents'[j] \cap Disturbances = {}
  BY StepGrows DEF Grows, Quiet, Undisturbed, Disturbances

(* The stock of a quiet job agrees with its status after every step.        *)
LEMMA StockStep ==
  TypeOK /\ LeaseHeld /\ StageInv /\ StockInv /\ [Next]_vars => StockInv'
<1> SUFFICES ASSUME TypeOK, LeaseHeld, StageInv, StockInv, [Next]_vars
             PROVE  StockInv'
  OBVIOUS
<1>1. ASSUME NEW j \in Jobs, incidents'[j] \subseteq {"DLQ"}
      PROVE  Agrees(status'[j], item'[j])
  <2>1. Quiet(j) /\ Undisturbed(j) /\ incidents'[j] \cap Disturbances = {}
    BY <1>1, QuietIsUndisturbed
  <2>2. Agrees(status[j], item[j])
    BY <2>1 DEF StockInv
  <2>3. ASSUME NEW w \in Workers, held[w].job = j, pc[w] = "executed" \/ pc[w] = "judged"
        PROVE  status[j] = "PROCESSING"
    BY <2>1, <2>3 DEF StageInv, StageOf
  <2>4. ASSUME NEW w \in Workers, held[w].job = j, Save(w)
        PROVE  Agrees(status'[j], item'[j])
    <3>1. pc[w] = "executed" /\ status[j] = "PROCESSING" /\ item' = item
      BY <2>3, <2>4 DEF Save
    <3>2. status'[j] = StatusOf(verdict[w])
      BY <2>4, <3>1 DEF Save, Saved, Visible, Invisible, TypeOK
    <3>3. QED
      BY <2>1, <2>4, <3>1, <3>2 DEF StockInv
  <2>5. ASSUME NEW w \in Workers, Execute(w), held[w].job = j
        PROVE  Agrees(status'[j], item'[j])
    <3>1. status'[j] = "PROCESSING"
      BY <2>3, <2>5 DEF Execute
    <3>2. QED
      BY <3>1 DEF Agrees
  <2>6. ASSUME status'[j] \in {"PENDING", "FLUSHED", "DELETED", "PROCESSING", "FAILED"}
        PROVE  Agrees(status'[j], item'[j])
    BY <2>6 DEF Agrees
  <2>7. \/ status'[j] = status[j]
        \/ status'[j] \in {"PENDING", "FLUSHED", "DELETED", "PROCESSING", "FAILED"}
        \/ \E w \in Workers : held[w].job = j /\ Save(w)
    BY <2>1, StatusFrame
  <2>8. \/ item'[j] = item[j] \/ \E w \in Workers : Execute(w) /\ held[w].job = j
    BY <1>1, ItemFrame
  <2>9. QED
    BY <2>2, <2>4, <2>5, <2>6, <2>7, <2>8
<1>2. ASSUME NEW v \in Workers, pc'[v] = "executed", incidents'[held'[v].job] \subseteq {"DLQ"}
      PROVE  Agrees(StatusOf(verdict'[v]), item'[held'[v].job])
  <2>1. CASE Execute(v)
    <3> DEFINE j == held[v].job
    <3>1. j \in Jobs /\ held' = held /\ verdict' = verdict /\ pc[v] = "judged"
      BY <2>1 DEF Execute, TypeOK, Messages
    <3>2. Quiet(j) /\ Undisturbed(j) /\ "RACK" \notin incidents'[j]
      BY <1>2, <3>1, QuietIsUndisturbed
    <3>3. status[j] = "PROCESSING"
      BY <3>1, <3>2 DEF StageInv, StageOf
    <3>4. ~Note(j, "RACK")
      BY <3>1, <3>2, NoteGrows
    <3>5. item'[j] = StockAfter(j, verdict[v])
      BY <2>1, <3>1, <3>4 DEF Execute, TypeOK
    <3>6. verdict[v] \in Verdicts
      BY <3>1 DEF TypeOK
    <3> HIDE DEF j
    <3>7. Agrees(StatusOf(verdict[v]), StockAfter(j, verdict[v]))
      BY <3>3, <3>6 DEF Agrees, StatusOf, StockAfter, Verdicts
    <3>8. QED
      BY <3>1, <3>5, <3>7 DEF j
  <2>2. CASE ~Execute(v)
    <3>1. pc[v] = "executed" /\ held'[v] = held[v] /\ verdict'[v] = verdict[v]
      <4>1. CASE WorkerStep(v) \/ FaultStep(v)
        BY <1>2, <2>2, <4>1 DEF WorkerStep, CheckTerminal, Prepare, Judge, Save,
           Announce, SaveFailed, FaultStep, ApiError, UnexpectedError, AnnounceFails,
           Crash, TimeLimit, Redeliver, Goto, Done, Fail, TypeOK, worker
      <4>2. QED
        BY <1>2, <4>1, OthersStand
    <3> DEFINE j == held[v].job
    <3>2. j \in Jobs /\ incidents'[j] \subseteq {"DLQ"}
      BY <1>2, <3>1 DEF TypeOK, Messages
    <3>3. Quiet(j) /\ Undisturbed(j)
      BY <3>2, QuietIsUndisturbed
    <3>4. Agrees(StatusOf(verdict[v]), item[j])
      BY <3>1, <3>3 DEF StockInv
    <3>5. ASSUME NEW w \in Workers, Execute(w), held[w].job = j
          PROVE  FALSE
      <4>1. v = w
        BY <3>1, <3>3, <3>5, SoleWorker DEF Execute
      <4>2. QED
        BY <2>2, <3>5, <4>1
    <3>6. item'[j] = item[j]
      BY <3>2, <3>5, ItemFrame
    <3>7. QED
      BY <3>1, <3>4, <3>6
  <2>3. QED
    BY <2>1, <2>2
<1>3. QED
  BY <1>1, <1>2 DEF StockInv, Quiet, Agrees, StatusOf

-----------------------------------------------------------------------------
(* Failures and rejections leave a trace first *)

(* No step makes a job FAILED, or keeps it so, without its DLQ entry.       *)
LEMMA QuarantineStep == TypeOK /\ QuarantineInv /\ [Next]_vars => QuarantineInv'
<1> SUFFICES ASSUME TypeOK, QuarantineInv, [Next]_vars PROVE QuarantineInv'
  OBVIOUS
<1>1. Grows
  BY StepGrows
<1>2. ASSUME NEW j \in Jobs, status'[j] = "FAILED"
      PROVE  j \in dlq' \/ "DLQ" \in incidents'[j]
  <2>1. CASE status[j] = "FAILED"
    BY <1>1, <2>1 DEF Grows, QuarantineInv, FailedIsQuarantined
  <2>2. CASE \E w \in Workers : SaveFailed(w) /\ held[w].job = j
    BY <1>1, <2>2 DEF Grows, QuarantineInv, SaveFailed
  <2>3. ASSUME NEW k \in Jobs, Intake(k) \/ OperatorStep(k) \/ OrphanExpires(k)
                                 \/ LeaseOverrun(k) \/ Sweep(k)
        PROVE  status[j] = "FAILED"
    BY <1>2, <2>3 DEF Intake, StartEvaluation, TriggerInspection, CommitRequest,
       RollbackRequest, OperatorStep, Override, Reinspect, RetryEvaluation, Recall,
       HardDelete, OrphanExpires, LeaseOverrun, Sweep, db, Decided, TypeOK
  <2>4. ASSUME NEW w \in Workers, WorkerStep(w) \/ FaultStep(w), status[j] # "FAILED"
        PROVE  SaveFailed(w) /\ held[w].job = j
    <3>1. ~Save(w)
      BY <1>2, <2>4 DEF Save, Saved, StatusOf, TypeOK, Verdicts
    <3>2. ~Prepare(w)
      BY <1>2, <2>4 DEF Prepare, TypeOK
    <3>3. SaveFailed(w)
      BY <1>2, <2>4, <3>1, <3>2 DEF WorkerStep, CheckTerminal, Judge, Execute,
         Announce, FaultStep, ApiError, UnexpectedError, AnnounceFails, Crash,
         TimeLimit, Redeliver, db
    <3>4. QED
      BY <1>2, <2>4, <3>3 DEF SaveFailed, TypeOK
  <2>5. ASSUME \/ UNCHANGED vars
               \/ \E m \in Messages : LoseMessage(m) \/ \E w \in Workers : Start(w, m)
        PROVE  status[j] = "FAILED"
    BY <1>2, <2>5 DEF vars, LoseMessage, Start, db
  <2>6. QED
    BY <2>1, <2>2, <2>3, <2>4, <2>5 DEF Next
<1>3. ASSUME NEW v \in Workers, pc'[v] = "failing"
      PROVE  held'[v].job \in dlq' \/ "DLQ" \in incidents'[held'[v].job]
  <2>1. CASE pc[v] = "failing" /\ held'[v] = held[v]
    BY <1>1, <1>3, <2>1 DEF Grows, QuarantineInv, TypeOK, Messages
  <2>2. CASE pc[v] # "idle" /\ held' = held /\ \E cause \in SUBSET Incidents : Fail(v, cause)
    BY <2>2, FailFacts
  <2>3. CASE WorkerStep(v) \/ FaultStep(v)
    <3>1. {} \in SUBSET Incidents /\ {"EVENT"} \in SUBSET Incidents
      BY DEF Incidents
    <3>2. \/ pc[v] = "failing" /\ held'[v] = held[v]
          \/ \E cause \in SUBSET Incidents : Fail(v, cause)
      BY <1>3, <2>3, <3>1 DEF WorkerStep, CheckTerminal, Prepare, Judge, Execute,
         Save, Announce, SaveFailed, FaultStep, ApiError, UnexpectedError,
         AnnounceFails, Crash, TimeLimit, Redeliver, Goto, Done, TypeOK, worker
    <3>3. pc[v] # "idle"
      BY <2>3, WorkerFrame
    <3>4. QED
      BY <2>1, <2>2, <3>2, <3>3 DEF Fail
  <2>4. QED
    BY <1>3, <2>1, <2>3, OthersStand
<1>4. QED
  BY <1>2, <1>3 DEF QuarantineInv, FailedIsQuarantined

(* No step leaves an AI rejection without its restock request.              *)
LEMMA RestockStep == TypeOK /\ RestockInv /\ [Next]_vars => RestockInv'
<1> SUFFICES ASSUME TypeOK, RestockInv, [Next]_vars PROVE RestockInv'
  OBVIOUS
<1>1. restock \subseteq restock'
  BY StepGrows DEF Grows
<1>2. ASSUME NEW j \in Jobs, status'[j] = "REJECTED", decidedBy'[j] = "AI"
      PROVE  j \in restock'
  <2>1. CASE status[j] = "REJECTED" /\ decidedBy[j] = "AI"
    BY <1>1, <2>1 DEF RestockInv, RejectionAsksRestock
  <2>2. ASSUME NEW k \in Jobs, Intake(k) \/ OperatorStep(k) \/ OrphanExpires(k)
                                 \/ LeaseOverrun(k) \/ Sweep(k)
        PROVE  status[j] = "REJECTED" /\ decidedBy[j] = "AI"
    BY <1>2, <2>2 DEF Intake, StartEvaluation, TriggerInspection, CommitRequest,
       RollbackRequest, OperatorStep, Override, Reinspect, RetryEvaluation, Recall,
       HardDelete, OrphanExpires, LeaseOverrun, Sweep, db, TypeOK
  <2>3. ASSUME NEW w \in Workers, WorkerStep(w) \/ FaultStep(w)
        PROVE  j \in restock'
    <3>1. CASE Save(w)
      <4>1. CASE held[w].job = j /\ Visible(j)
        <5>1. pc[w] = "executed" /\ verdict[w] \in Verdicts
          BY <3>1 DEF Save, TypeOK
        <5>2. Saved(j, verdict[w]) = "REJECTED"
          BY <1>2, <3>1, <4>1 DEF Save, TypeOK
        <5>3. verdict[w] = "REJECT"
          BY <5>1, <5>2 DEF Saved, StatusOf, Verdicts
        <5>4. QED
          BY <1>1, <4>1, <5>1, <5>3 DEF RestockInv
      <4>2. CASE ~(held[w].job = j /\ Visible(j))
        BY <1>2, <2>1, <3>1, <4>2 DEF Save, TypeOK
      <4>3. QED
        BY <4>1, <4>2
    <3>2. CASE Prepare(w) \/ SaveFailed(w)
      BY <1>2, <2>1, <3>2 DEF Prepare, SaveFailed, TypeOK
    <3>3. CASE UNCHANGED << status, decidedBy >>
      BY <1>2, <2>1, <3>3
    <3>4. QED
      BY <2>3, <3>1, <3>2, <3>3 DEF WorkerStep, CheckTerminal, Judge, Execute,
         Announce, FaultStep, ApiError, UnexpectedError, AnnounceFails, Crash,
         TimeLimit, Redeliver, db
  <2>4. ASSUME \/ UNCHANGED vars
               \/ \E m \in Messages : LoseMessage(m) \/ \E w \in Workers : Start(w, m)
        PROVE  status[j] = "REJECTED" /\ decidedBy[j] = "AI"
    BY <1>2, <2>4 DEF vars, LoseMessage, Start, db
  <2>5. QED
    BY <2>1, <2>2, <2>3, <2>4 DEF Next
<1>3. ASSUME NEW v \in Workers, pc'[v] = "executed", verdict'[v] = "REJECT"
      PROVE  held'[v].job \in restock'
  <2>1. CASE pc[v] = "executed" /\ held'[v] = held[v] /\ verdict'[v] = verdict[v]
    BY <1>1, <1>3, <2>1 DEF RestockInv
  <2>2. CASE Execute(v)
    BY <1>3, <2>2 DEF Execute, AsksRestock
  <2>3. CASE ~Execute(v) /\ (WorkerStep(v) \/ FaultStep(v))
    BY <1>3, <2>1, <2>3 DEF WorkerStep, CheckTerminal, Prepare, Judge, Save,
       Announce, SaveFailed, FaultStep, ApiError, UnexpectedError, AnnounceFails,
       Crash, TimeLimit, Redeliver, Goto, Done, Fail, TypeOK, worker
  <2>4. QED
    BY <1>3, <2>1, <2>2, <2>3, OthersStand
<1>4. QED
  BY <1>2, <1>3 DEF RestockInv, RejectionAsksRestock

-----------------------------------------------------------------------------
(* Deleted jobs *)

(* No step gives a deleted job its stock row back.                          *)
LEMMA DeletionStep == TypeOK /\ DeletionInv /\ [Next]_vars => DeletionInv'
<1> SUFFICES ASSUME TypeOK, DeletionInv, [Next]_vars PROVE DeletionInv'
  OBVIOUS
<1> DEFINE NoRow(j) == item[j] \in {"NO_LPN", "NONE"}
<1>1. CASE \E k \in Jobs : Intake(k)
  <2>1. UNCHANGED item
    BY <1>1 DEF Intake, StartEvaluation, TriggerInspection, CommitRequest, RollbackRequest
  <2>2. PICK k \in Jobs : Intake(k)
    BY <1>1
  <2>3. \A j \in Jobs \ {k} : status'[j] = status[j]
    BY <2>2 DEF Intake, StartEvaluation, TriggerInspection, CommitRequest, RollbackRequest, TypeOK
  <2>4. CASE k \notin ReturnJobs
    <3>1. status'[k] \in {"PENDING"} \/ status[k] = "FLUSHED"
      BY <2>2, <2>4 DEF Intake, StartEvaluation, TriggerInspection, CommitRequest,
         RollbackRequest, TypeOK
    <3>2. status'[k] # "DELETED" \/ status[k] = "FLUSHED"
      BY <3>1
    <3>3. status'[k] # "FLUSHED"
      BY <2>2, <2>4 DEF Intake, StartEvaluation, TriggerInspection, CommitRequest,
         RollbackRequest, TypeOK
    <3>4. QED
      BY <2>1, <2>3, <2>4, <3>2, <3>3, InspectionAssumption DEF DeletionInv, DeletionIsFinal
  <2>5. CASE k \in ReturnJobs
    <3>1. status[k] \in {"ABSENT", "FLUSHED"} /\ status'[k] # "ABSENT"
      BY <2>2, <2>5 DEF Intake, StartEvaluation, TriggerInspection, CommitRequest,
         RollbackRequest, TypeOK
    <3>2. item[k] = "NO_LPN"
      BY <3>1, <2>5 DEF DeletionInv
    <3>3. QED
      BY <2>1, <2>3, <3>1, <3>2, InspectionAssumption DEF DeletionInv, DeletionIsFinal
  <2>6. QED
    BY <2>4, <2>5
<1>2. CASE \E k \in Jobs : OperatorStep(k)
  <2>1. PICK k \in Jobs : OperatorStep(k)
    BY <1>2
  <2>2. Visible(k) /\ \A j \in Jobs \ {k} : status'[j] = status[j] /\ item'[j] = item[j]
    BY <2>1 DEF OperatorStep, Override, Reinspect, RetryEvaluation, Recall,
                HardDelete, TypeOK
  <2>3. status'[k] \notin {"FLUSHED", "ABSENT"}
    BY <2>1 DEF OperatorStep, Override, Reinspect, RetryEvaluation, Recall,
                HardDelete, TypeOK, Decided
  <2>4. status'[k] = "DELETED" => item'[k] = "NONE"
    BY <2>1 DEF OperatorStep, Override, Reinspect, RetryEvaluation, Recall,
                HardDelete, TypeOK, Decided
  <2>5. QED
    BY <2>2, <2>3, <2>4, InspectionAssumption DEF DeletionInv, DeletionIsFinal
<1>3. ASSUME NEW w \in Workers, WorkerStep(w) \/ FaultStep(w)
      PROVE  DeletionInv'
  <2> DEFINE k == held[w].job
  <2>1. k \in Jobs
    BY <1>3, WorkerFrame
  <2>2. CASE Execute(w)
    <3>1. UNCHANGED status
      BY <2>2 DEF Execute
    <3>2. \/ UNCHANGED item
          \/ item' = [item EXCEPT ![k] = StockAfter(k, verdict[w])]
      BY <2>2 DEF Execute
    <3>3. /\ item[k] = "NO_LPN" => StockAfter(k, verdict[w]) = "NO_LPN"
          /\ item[k] = "NONE" /\ status[k] = "DELETED" => StockAfter(k, verdict[w]) = "NONE"
      BY DEF StockAfter
    <3> HIDE DEF k
    <3>4. QED
      BY <2>1, <3>1, <3>2, <3>3, InspectionAssumption DEF DeletionInv, DeletionIsFinal, TypeOK
  <2>3. CASE ~Execute(w)
    <3>1. UNCHANGED item
      BY <1>3, <2>3 DEF WorkerStep, CheckTerminal, Prepare, Judge, Save, Announce,
         SaveFailed, FaultStep, ApiError, UnexpectedError, AnnounceFails, Crash,
         TimeLimit, Redeliver, db
    <3>2. ASSUME NEW j \in Jobs, status'[j] # status[j]
          PROVE  status'[j] \notin {"FLUSHED", "ABSENT", "DELETED"}
      <4>1. CASE Save(w)
        <5>1. verdict[w] \in Verdicts
          BY <4>1 DEF Save, TypeOK
        <5>2. Saved(k, verdict[w]) \notin {"FLUSHED", "ABSENT", "DELETED"}
          BY <5>1 DEF Saved, StatusOf, Verdicts
        <5>3. QED
          BY <3>2, <4>1, <5>2 DEF Save, TypeOK
      <4>2. CASE Prepare(w) \/ SaveFailed(w)
        BY <3>2, <4>2 DEF Prepare, SaveFailed, TypeOK
      <4>3. QED
        BY <1>3, <3>2, <4>1, <4>2 DEF WorkerStep, CheckTerminal, Judge, Execute,
           Announce, FaultStep, ApiError, UnexpectedError, AnnounceFails, Crash,
           TimeLimit, Redeliver, db
    <3>3. QED
      BY <3>1, <3>2, InspectionAssumption DEF DeletionInv, DeletionIsFinal
  <2>4. QED
    BY <2>2, <2>3
<1>4. CASE \/ UNCHANGED vars
           \/ \E k \in Jobs : OrphanExpires(k) \/ LeaseOverrun(k) \/ Sweep(k)
           \/ \E m \in Messages : LoseMessage(m) \/ \E w \in Workers : Start(w, m)
  BY <1>4 DEF DeletionInv, DeletionIsFinal, vars, OrphanExpires, LeaseOverrun, Sweep,
              LoseMessage, Start, db
<1>5. QED
  BY <1>1, <1>2, <1>3, <1>4 DEF Next

-----------------------------------------------------------------------------
(* The theorems *)

(* An empty ledger satisfies every part of the invariant.                   *)
LEMMA InvariantsInit == Init => Invariants
  BY InspectionAssumption
     DEF Init, Invariants, LeaseHeld, HitlFromOperator, StageInv, StockInv, Agrees,
         QuarantineInv, FailedIsQuarantined, RestockInv, RejectionAsksRestock,
         DeletionInv, DeletionIsFinal

(* The conjunction of the parts is inductive.                               *)
LEMMA InvariantsStep == TypeOK /\ Invariants /\ [Next]_vars => Invariants'
  BY LeaseStep, HitlStep, StageStep, StockStep, QuarantineStep, RestockStep,
     DeletionStep DEF Invariants

(* The conjunction of the named invariants is inductive relative to TypeOK. *)
THEOREM InvariantsHold == Spec => [](TypeOK /\ Invariants)
<1>1. Init => TypeOK /\ Invariants
  BY TypeInit, InvariantsInit
<1>2. TypeOK /\ Invariants /\ [Next]_vars => (TypeOK /\ Invariants)'
  BY TypeStep, InvariantsStep
<1>3. QED
  BY <1>1, <1>2, PTL DEF Spec

(* The Redlock of process_inspection excludes two live tasks on one job, as *)
(* long as no lease on that job runs out under its owner.                   *)
THEOREM LeaseExcludes == Spec => []LeaseExclusive
<1>1. TypeOK /\ Invariants => LeaseExclusive
  BY Exclusive DEF Invariants, LeaseExclusive, Working
<1>2. QED
  BY <1>1, InvariantsHold, PTL

(* execute_wms_action and save_inspection_result agree on every job that no *)
(* operator and no fault but a refused DLQ push has touched.                *)
THEOREM StockIsConsistent == Spec => []StockFollowsDecision
<1>1. TypeOK /\ Invariants => StockFollowsDecision
  BY DEF Invariants, StockInv, StockFollowsDecision, Quiet, Agrees
<1>2. QED
  BY <1>1, InvariantsHold, PTL

(* Every FAILED job has an entry in the DLQ, unless Redis refused the push. *)
THEOREM FailuresAreQuarantined == Spec => []FailedIsQuarantined
<1>1. Invariants => FailedIsQuarantined
  BY DEF Invariants, QuarantineInv
<1>2. QED
  BY <1>1, InvariantsHold, PTL

(* Every job the AI rejected has had its restock request published.         *)
THEOREM RejectionsAskRestock == Spec => []RejectionAsksRestock
<1>1. Invariants => RejectionAsksRestock
  BY DEF Invariants, RestockInv
<1>2. QED
  BY <1>1, InvariantsHold, PTL

(* A hard-deleted job never has a stock row again.                          *)
THEOREM DeletionsAreFinal == Spec => []DeletionIsFinal
<1>1. Invariants => DeletionIsFinal
  BY DEF Invariants, DeletionInv
<1>2. QED
  BY <1>1, InvariantsHold, PTL

(* A step changes a decided status only with a disturbance on its record.   *)
LEMMA DecisionStep ==
  ASSUME TypeOK, Invariants, [Next]_vars, NEW j \in Jobs,
         status[j] \in Decided, status'[j] # status[j]
  PROVE  incidents'[j] \cap {"OPERATOR", "OVERRUN", "EVENT"} # {}
<1> SUFFICES ASSUME incidents'[j] \cap Disturbances = {} PROVE FALSE
  BY DEF Disturbances
<1>1. Undisturbed(j)
  BY UndisturbedBefore
<1>2. PICK w \in Workers : held[w].job = j /\ (Prepare(w) \/ Save(w) \/ SaveFailed(w))
  BY StatusFrame DEF Decided
<1>3. pc[w] \in {"checked", "executed", "failing"}
  BY <1>2 DEF Prepare, Save, SaveFailed
<1>4. StageOf(w, status[j])
  BY <1>1, <1>2, <1>3 DEF Invariants, StageInv
<1>5. QED
  BY <1>3, <1>4 DEF StageOf, Settled, Decided

(* No delivery, redelivery, sweep, retry or crash changes a decided job.    *)
THEOREM DecisionsAreFinal == Spec => DecisionIsFinal
<1> DEFINE Kept == \A j \in Jobs :
      status[j] \in Decided /\ status'[j] # status[j] =>
        incidents'[j] \cap {"OPERATOR", "OVERRUN", "EVENT"} # {}
<1>1. TypeOK /\ Invariants /\ [Next]_vars => [Kept]_vars
  BY DecisionStep
<1>2. Spec => [][Kept]_vars
  <2> HIDE DEF Kept
  <2>1. QED
    BY <1>1, InvariantsHold, PTL DEF Spec
<1>3. QED
  BY <1>2 DEF DecisionIsFinal

-----------------------------------------------------------------------------
(* The contract of a job, while no operator touches it *)

(* Neither operators nor the faults that outlive a lease or lose a final    *)
(* event.                                                                   *)
LeftAlone == Ops = {} /\ Faults \cap {"overrun", "event"} = {}

(* Without operators, overruns and lost events every job is undisturbed.    *)
LEMMA UndisturbedForever ==
  ASSUME LeftAlone
  PROVE  Spec => [](\A j \in Jobs : Undisturbed(j))
<1> DEFINE Calm == \A j \in Jobs : Undisturbed(j)
<1>1. Init => Calm
  BY DEF Init, Undisturbed
<1>2. TypeOK /\ Calm /\ [Next]_vars => Calm'
  <2> SUFFICES ASSUME TypeOK, Calm, [Next]_vars, NEW j \in Jobs
               PROVE  incidents'[j] \cap Disturbances = {}
    BY DEF Undisturbed
  <2>1. incidents[j] \cap Disturbances = {}
    BY DEF Undisturbed
  <2>2. CASE incidents'[j] \subseteq incidents[j] \cup {"DLQ", "RACK"}
    BY <2>1, <2>2 DEF Disturbances
  <2>3. ASSUME NEW k \in Jobs PROVE ~OperatorStep(k) /\ ~LeaseOverrun(k)
    BY DEF LeftAlone, OperatorStep, Override, Reinspect, RetryEvaluation, Recall,
           HardDelete, Operate, LeaseOverrun, Fault
  <2>4. ASSUME NEW w \in Workers, WorkerStep(w) \/ FaultStep(w)
        PROVE  incidents'[j] \subseteq incidents[j] \cup {"DLQ", "RACK"}
    <3>1. pc[w] # "idle" /\ held[w].job \in Jobs
      BY <2>4, WorkerFrame
    <3>2. ~AnnounceFails(w)
      BY DEF LeftAlone, AnnounceFails, Fault
    <3>3. UNCHANGED incidents \/ Fail(w, {}) \/ Note(held[w].job, "RACK")
      BY <2>4, <3>2 DEF WorkerStep, CheckTerminal, Prepare, Judge, Execute, Save,
         Announce, SaveFailed, FaultStep, ApiError, UnexpectedError, Crash,
         TimeLimit, Redeliver, history
    <3>4. {} \in SUBSET Incidents
      OBVIOUS
    <3>5. QED
      BY <3>1, <3>3, <3>4, FailFacts, NoteGrows
  <2>5. CASE \/ UNCHANGED vars
             \/ \E k \in Jobs : Intake(k) \/ OrphanExpires(k) \/ Sweep(k)
             \/ \E m \in Messages : LoseMessage(m) \/ \E w \in Workers : Start(w, m)
    BY <2>1, <2>5 DEF vars, Intake, StartEvaluation, TriggerInspection, CommitRequest,
       RollbackRequest, OrphanExpires, Sweep, LoseMessage, Start, history
  <2>6. QED
    BY <2>2, <2>3, <2>4, <2>5 DEF Next
<1>3. QED
  <2> HIDE DEF Calm
  <2>1. Spec => []Calm
    BY <1>1, <1>2, TypeCorrect, PTL DEF Spec
  <2>2. QED
    BY <2>1 DEF Calm

(* A transaction writes the row of one job. *)
LEMMA OneJob ==
  ASSUME TypeOK, [Next]_vars
  PROVE  UNCHANGED status \/ \E k \in Jobs : \E s : status' = [status EXCEPT ![k] = s]
<1>1. CASE \E j \in Jobs : Intake(j) \/ OrphanExpires(j) \/ LeaseOverrun(j)
                             \/ Sweep(j) \/ OperatorStep(j)
  BY <1>1 DEF Intake, StartEvaluation, TriggerInspection, CommitRequest, RollbackRequest,
     OrphanExpires, LeaseOverrun, Sweep, OperatorStep, Override, Reinspect,
     RetryEvaluation, Recall, HardDelete, db
<1>2. ASSUME NEW w \in Workers, WorkerStep(w) \/ FaultStep(w)
      PROVE  UNCHANGED status \/ \E s : status' = [status EXCEPT ![held[w].job] = s]
  BY <1>2 DEF WorkerStep, CheckTerminal, Prepare, Judge, Execute, Save, Announce,
     SaveFailed, FaultStep, ApiError, UnexpectedError, AnnounceFails, Crash,
     TimeLimit, Redeliver, db
<1>3. CASE \/ UNCHANGED vars
           \/ \E m \in Messages : LoseMessage(m) \/ \E w \in Workers : Start(w, m)
  BY <1>3 DEF vars, LoseMessage, Start, db
<1>4. QED
  BY <1>1, <1>2, <1>3, WorkerFrame DEF Next

(* What a step does to the status of one undisturbed job, in the contract's *)
(* terms.                                                                   *)
LEMMA StatusMoves ==
  ASSUME TypeOK, Invariants, [Next]_vars, NEW j \in Jobs,
         incidents'[j] \cap Disturbances = {}, status'[j] # status[j]
  PROVE  \/ status[j] \in Invisible /\ status'[j] \in Invisible \cup {"PENDING"}
         \/ /\ status[j] \in {"PENDING", "PROCESSING"}
            /\ status'[j] \in Settled \cup {"PROCESSING"}
         \/ status[j] \in {"HITL_REQUIRED", "FAILED"} /\ status'[j] = "PROCESSING"
<1>1. Undisturbed(j)
  BY UndisturbedBefore
<1>2. ASSUME NEW w \in Workers, held[w].job = j, pc[w] # "idle"
      PROVE  StageOf(w, status[j])
  BY <1>1, <1>2 DEF Invariants, StageInv
<1>3. ASSUME NEW w \in Workers, held[w].job = j, Prepare(w)
      PROVE  status[j] \notin Decided /\ status[j] \notin Invisible
  <2>1. status[j] \notin Decided
    BY <1>2, <1>3 DEF Prepare, StageOf
  <2>2. Visible(j)
    BY <1>3 DEF Prepare
  <2>3. QED
    BY <2>1, <2>2 DEF Visible
<1>4. ASSUME NEW w \in Workers, held[w].job = j, Save(w)
      PROVE  status[j] = "PROCESSING" /\ status'[j] \in Settled
  <2>1. pc[w] = "executed" /\ verdict[w] \in Verdicts
    BY <1>4 DEF Save, TypeOK
  <2>2. status[j] = "PROCESSING"
    BY <1>2, <1>4, <2>1 DEF StageOf
  <2>3. status'[j] = StatusOf(verdict[w])
    BY <1>4, <2>2 DEF Save, Saved, Visible, Invisible, TypeOK
  <2>4. QED
    BY <2>1, <2>2, <2>3 DEF StatusOf, Verdicts, Settled, Decided
<1>5. ASSUME NEW w \in Workers, held[w].job = j, SaveFailed(w)
      PROVE  status[j] \in {"PENDING", "PROCESSING"}
  <2>1. status[j] \notin Settled
    BY <1>2, <1>5 DEF SaveFailed, StageOf
  <2>2. status[j] \notin Invisible
    BY <1>5 DEF SaveFailed, Visible
  <2>3. QED
    BY <2>1, <2>2 DEF TypeOK, Status, Settled, Decided, Invisible
<1>6. status[j] \in Status
  BY DEF TypeOK
<1>7. CASE \E w \in Workers : held[w].job = j /\ Prepare(w) /\ status'[j] = "PROCESSING"
  BY <1>3, <1>6, <1>7 DEF Status, Settled, Decided, Invisible
<1>8. CASE \E w \in Workers : held[w].job = j /\ SaveFailed(w) /\ status'[j] = "FAILED"
  BY <1>5, <1>8 DEF Settled
<1>9. CASE \/ status[j] = "ABSENT" /\ status'[j] \in {"PENDING", "FLUSHED"}
           \/ status[j] = "FLUSHED" /\ status'[j] \in {"PENDING", "DELETED"}
  BY <1>9 DEF Invisible
<1>10. QED
  BY <1>4, <1>7, <1>8, <1>9, StatusFrame

(* Every step of the pipeline is a step of the contract or a stutter.       *)
LEMMA ContractStep ==
  ASSUME TypeOK, Invariants, [Next]_vars,
         \A j \in Jobs : incidents'[j] \cap Disturbances = {}
  PROVE  [Contract!Next]_[j \in Jobs |-> PhaseOf(status[j])]
<1> DEFINE phase == [j \in Jobs |-> PhaseOf(status[j])]
<1>1. CASE UNCHANGED status
  BY <1>1
<1>2. CASE ~UNCHANGED status
  <2>0. PICK k \in Jobs : \E t : status' = [status EXCEPT ![k] = t]
    BY <1>2, OneJob
  <2>1. PICK s : status' = [status EXCEPT ![k] = s]
    BY <2>0
  <2>2. status'[k] = s /\ status'[k] # status[k] /\ status[k] \in Status
    BY <1>2, <2>1 DEF TypeOK
  <2>3. \A j \in Jobs \ {k} : status'[j] = status[j]
    BY <2>1 DEF TypeOK
  <2> DEFINE before == PhaseOf(status[k])
             after  == PhaseOf(status'[k])
  <2>4. phase' = [phase EXCEPT ![k] = after] /\ phase[k] = before
    BY <2>3
  <2>5. \/ after = before
        \/ before = "ABSENT" /\ after = "OPEN"
        \/ before = "OPEN" /\ after \in Contract!Outcomes
        \/ before \in {"HITL_REQUIRED", "FAILED"} /\ after = "OPEN"
    BY <2>2, StatusMoves DEF PhaseOf, Invisible, Settled, Decided, Contract!Outcomes
  <2> HIDE DEF after, before
  <2>6. CASE after = before
    BY <2>4, <2>6
  <2>7. CASE \/ before = "ABSENT" /\ after = "OPEN"
             \/ before = "OPEN" /\ after \in Contract!Outcomes
             \/ before \in {"HITL_REQUIRED", "FAILED"} /\ after = "OPEN"
    BY <2>4, <2>7 DEF Contract!Next, Contract!Accept, Contract!Settle,
                      Contract!Reopen, Contract!Move
  <2>8. QED
    BY <2>5, <2>6, <2>7
<1>3. QED
  BY <1>1, <1>2

(* Whatever the broker, the hosts and the models do to a task, the pipeline *)
(* moves every job the way the contract allows: opened once, settled from   *)
(* open, never decided twice.                                               *)
THEOREM PipelineImplementsContract ==
  ASSUME LeftAlone
  PROVE  Spec => Contract!Safety
<1>1. Init => Contract!Init
  BY DEF Init, Contract!Init, PhaseOf, Invisible
<1> DEFINE Calm == \A j \in Jobs : Undisturbed(j)
<1>2. TypeOK /\ Invariants /\ Calm' /\ [Next]_vars
        => [Contract!Next]_[j \in Jobs |-> PhaseOf(status[j])]
  BY ContractStep DEF Undisturbed
<1>3. Spec => []Calm
  BY UndisturbedForever
<1> HIDE DEF Calm
<1>4. QED
  BY <1>1, <1>2, <1>3, InvariantsHold, PTL DEF Spec, Contract!Safety

-----------------------------------------------------------------------------
(* The screens *)

TaskType == [pc : {"idle", "dead", "work", "tell", "store", "push", "fail", "tellFailed"},
             outcome : Outcomes \cup {"NONE"}, round : 0..rounds]

(* What a task knows of the inspection: the round it read is one that was   *)
(* asked for, and the row stands as the task is about to tell, unless the   *)
(* inspection was asked for again under its hands.                          *)
TaskKnows ==
  /\ AtWork => task.round > 0 /\ (task.round = rounds \/ task.round \in overrun)
  /\ task.pc = "tell" => row = task.outcome \/ task.round \in overrun
  /\ task.pc = "tellFailed" => row = "FAILED" \/ task.round \in overrun

WorkerInv ==
  /\ row \in Outcomes \cup {"PENDING", "PROCESSING"} /\ rounds \in 1..MaxRounds /\ messages \in Nat
  /\ task \in TaskType /\ TaskKnows
  /\ overrun \subseteq 1..rounds /\ unheard \in BOOLEAN /\ failures \in 0..MaxFailures

StreamType ==
  [pc : {"closed", "open", "ended"}, path : Paths \cup {"none"}, by : {"none", "cookie", "ticket"},
   since : 0..rounds, of : 0..rounds, shown : BOOLEAN]

StreamsShape ==
  /\ stream \in [Viewers -> StreamType]
  /\ \A v \in Viewers : stream[v].of > 0 <=> stream[v].pc = "ended"

(* Nobody has come in by the ticket while it is to be had, and one at most. *)
TicketIsSpent ==
  /\ ticket \in Paths \cup {"spent"}
  /\ \A v \in Viewers : stream[v].by = "ticket" =>
       ticket = "spent" /\ \A u \in Viewers : stream[u].by = "ticket" => u = v

ScreensInv == StreamsShape /\ EndShowsResult /\ EndIsOfTheRound /\ TicketIsSpent

AlarmType(r) == [id : Nat, about : Outcomes \cup {"NONE"}, round : 1..r,
                 stored : {"yes", "failed", "cleared"}, pushed : BOOLEAN]

AlarmsInv ==
  /\ alarms \subseteq AlarmType(rounds) /\ IsFiniteSet(alarms)
  /\ clear \subseteq {a.id : a \in alarms}

StreamsInv == WorkerInv /\ ScreensInv /\ AlarmsInv

-----------------------------------------------------------------------------
(* Steps by what they touch                                                 *)

(* Whatever the worker does, streams that it does not touch stay right.     *)
LEMMA ScreensStay ==
  ASSUME ScreensInv, WorkerInv, UNCHANGED << stream, ticket >>, rounds' \in Nat, rounds <= rounds',
         overrun \subseteq overrun'
  PROVE  ScreensInv'
<1>1. rounds \in Nat
  BY DEF WorkerInv
<1>2. StreamType \subseteq StreamType'
  BY <1>1 DEF StreamType, Paths
<1>3. StreamsShape'
  BY <1>2 DEF ScreensInv, StreamsShape
<1>4. (EndShowsResult /\ EndIsOfTheRound /\ TicketIsSpent)'
  BY DEF ScreensInv, EndShowsResult, EndIsOfTheRound, TicketIsSpent
<1>5. QED
  BY <1>3, <1>4 DEF ScreensInv

LEMMA AlarmsStay ==
  ASSUME AlarmsInv, WorkerInv, UNCHANGED << alarms, clear >>, rounds' \in Nat, rounds <= rounds'
  PROVE  AlarmsInv'
<1>1. rounds \in Nat
  BY DEF WorkerInv
<1>2. AlarmType(rounds) \subseteq AlarmType(rounds')
  BY <1>1 DEF AlarmType
<1>3. QED
  BY <1>2 DEF AlarmsInv

(* The end of a round is heard by streams that wait for it or a later one;  *)
(* in the second case the round was overrun.                                *)
LEMMA EndIsTrue ==
  ASSUME ScreensInv, WorkerInv, AtWork, NEW told, PublishEnd(told),
         row = told \/ task.round \in overrun,
         UNCHANGED << rounds, overrun, ticket >>
  PROVE  ScreensInv'
<1>1. /\ rounds \in Nat \ {0} /\ task.round \in 1..rounds
      /\ task.round = rounds \/ task.round \in overrun
  BY DEF WorkerInv, TaskKnows, TaskType
<1>2. StreamType' = StreamType
  BY DEF StreamType
<1>3. ASSUME NEW v \in Viewers
      PROVE  /\ stream[v] \in StreamType /\ stream'[v] \in StreamType
             /\ stream[v].by = stream'[v].by
             /\ stream'[v].of > 0 <=> stream'[v].pc = "ended"
             /\ stream'[v].pc = "ended" =>
                  /\ stream'[v].shown \/ stream'[v].of \in overrun
                  /\ stream'[v].of >= stream'[v].since \/ stream'[v].of \in overrun
  <2>1. stream[v] \in StreamType /\ (stream[v].of > 0 <=> stream[v].pc = "ended")
    BY DEF ScreensInv, StreamsShape
  <2>2. CASE Hears(v)
    <3>1. stream'[v] = [stream[v] EXCEPT !.pc = "ended", !.of = task.round, !.shown = (row = told)]
      BY <2>2 DEF PublishEnd, Ended
    <3>2. PICK agrees \in BOOLEAN : agrees = (row = told)
      OBVIOUS
    <3>3. stream'[v] = [pc |-> "ended", path |-> stream[v].path, by |-> stream[v].by,
                        since |-> stream[v].since, of |-> task.round, shown |-> agrees]
      BY <2>1, <3>1, <3>2 DEF StreamType
    <3>4. /\ stream'[v].pc = "ended" /\ stream'[v].of = task.round
          /\ stream'[v].by = stream[v].by /\ stream'[v].since = stream[v].since
          /\ stream'[v].shown = agrees
      BY <3>3
    <3>5. stream[v].since \in 0..rounds /\ stream'[v] \in StreamType
      BY <1>1, <2>1, <3>2, <3>3 DEF StreamType
    <3>6. /\ stream'[v].of > 0
          /\ stream'[v].of >= stream'[v].since \/ stream'[v].of \in overrun
      BY <1>1, <3>4, <3>5
    <3>7. stream'[v].shown \/ stream'[v].of \in overrun
      <4>1. CASE row = told
        BY <3>2, <3>4, <4>1
      <4>2. CASE task.round \in overrun
        BY <3>4, <4>2
      <4>3. QED
        BY <4>1, <4>2
    <3>8. QED
      BY <2>1, <3>4, <3>5, <3>6, <3>7
  <2>3. CASE ~Hears(v)
    <3>1. stream'[v] = stream[v]
      BY <2>3 DEF PublishEnd
    <3>2. QED
      BY <2>1, <3>1 DEF ScreensInv, EndShowsResult, EndIsOfTheRound
  <2>4. QED
    BY <2>2, <2>3
<1>4. stream' \in [Viewers -> StreamType]
  BY <1>3 DEF PublishEnd
<1>5. (StreamsShape /\ EndShowsResult /\ EndIsOfTheRound /\ TicketIsSpent)'
  BY <1>2, <1>3, <1>4 DEF ScreensInv, StreamsShape, EndShowsResult, EndIsOfTheRound, TicketIsSpent
<1>6. QED
  BY <1>5 DEF ScreensInv

(* Steps of the worker that neither ask again nor touch streams and alarms. *)
LEMMA WorkerAlone ==
  ASSUME StreamsInv, WorkerInv', UNCHANGED << rounds, overrun, screens, alarms >>
  PROVE  StreamsInv'
<1>1. rounds \in Nat
  BY DEF StreamsInv, WorkerInv
<1>2. ScreensInv'
  BY <1>1, ScreensStay DEF StreamsInv, screens
<1>3. AlarmsInv'
  BY <1>1, AlarmsStay DEF StreamsInv, screens
<1>4. QED
  BY <1>2, <1>3 DEF StreamsInv

-----------------------------------------------------------------------------
(* The worker                                                               *)

LEMMA SilencedType ==
  ASSUME NEW left, Silenced(left)
  PROVE  unheard' \in BOOLEAN
BY Zenon DEF Silenced

LEMMA TakeKeeps ==
  ASSUME StreamsInv, Take
  PROVE  StreamsInv'
<1>1. WorkerInv'
  <2>1. unheard' \in BOOLEAN
    BY SilencedType DEF StreamsInv, WorkerInv, Take
  <2>2. CASE row \in {"APPROVED", "REJECTED"}
    BY <2>1, <2>2 DEF StreamsInv, WorkerInv, TaskType, TaskKnows, Take, AtWork
  <2>3. CASE row \notin {"APPROVED", "REJECTED"}
    BY <2>1, <2>3 DEF StreamsInv, WorkerInv, TaskType, TaskKnows, Take, AtWork, Outcomes
  <2>4. QED
    BY <2>2, <2>3
<1>2. QED
  BY <1>1, WorkerAlone DEF Take

LEMMA SkipKeeps ==
  ASSUME StreamsInv, Skip
  PROVE  StreamsInv'
<1>1. WorkerInv'
  <2>1. unheard' \in BOOLEAN
    BY SilencedType DEF StreamsInv, WorkerInv, Skip
  <2>2. QED
    BY <2>1 DEF StreamsInv, WorkerInv, TaskType, TaskKnows, Skip, AtWork
<1>2. QED
  BY <1>1, WorkerAlone DEF Skip

LEMMA ConcludeKeeps ==
  ASSUME StreamsInv, Conclude
  PROVE  StreamsInv'
<1>1. WorkerInv'
  BY StreamsAssumption DEF StreamsInv, WorkerInv, TaskType, TaskKnows, AtWork, Conclude, Outcomes
<1>2. QED
  BY <1>1, WorkerAlone DEF Conclude

LEMMA ConcludeFailedKeeps ==
  ASSUME StreamsInv, ConcludeFailed
  PROVE  StreamsInv'
<1>1. WorkerInv'
  BY StreamsAssumption DEF StreamsInv, WorkerInv, TaskType, TaskKnows, AtWork, ConcludeFailed, Step, Outcomes
<1>2. QED
  BY <1>1, WorkerAlone DEF ConcludeFailed

LEMMA AgainKeeps ==
  ASSUME StreamsInv, Again
  PROVE  StreamsInv'
<1>1. WorkerInv'
  BY StreamsAssumption DEF StreamsInv, WorkerInv, TaskType, TaskKnows, AtWork, Again, Step, Failing
<1>2. QED
  BY <1>1, WorkerAlone DEF Again

LEMMA GiveUpKeeps ==
  ASSUME StreamsInv, GiveUp
  PROVE  StreamsInv'
<1>1. WorkerInv'
  <2>1. task' = [pc |-> "store", outcome |-> "FAILED", round |-> task.round]
    BY DEF StreamsInv, WorkerInv, TaskType, GiveUp
  <2>2. AtWork /\ failures' \in 0..MaxFailures
    BY StreamsAssumption DEF StreamsInv, WorkerInv, GiveUp, Failing, AtWork
  <2>3. task' \in TaskType' /\ TaskKnows'
    BY <2>1, <2>2 DEF StreamsInv, WorkerInv, TaskType, TaskKnows, GiveUp, AtWork, Outcomes
  <2>4. QED
    BY <2>2, <2>3 DEF StreamsInv, WorkerInv, GiveUp
<1>2. QED
  BY <1>1, WorkerAlone DEF GiveUp

LEMMA RequeueKeeps ==
  ASSUME StreamsInv, Requeue
  PROVE  StreamsInv'
<1>1. WorkerInv'
  BY StreamsAssumption DEF StreamsInv, WorkerInv, TaskType, TaskKnows, AtWork, Requeue
<1>2. QED
  BY <1>1, WorkerAlone DEF Requeue

LEMMA TellKeeps ==
  ASSUME StreamsInv, Tell
  PROVE  StreamsInv'
<1>1. WorkerInv'
  BY DEF StreamsInv, WorkerInv, TaskType, TaskKnows, AtWork, Tell, Step
<1>2. ScreensInv'
  BY EndIsTrue DEF StreamsInv, WorkerInv, TaskKnows, AtWork, Tell
<1>3. AlarmsInv'
  BY AlarmsStay DEF StreamsInv, WorkerInv, Tell
<1>4. QED
  BY <1>1, <1>2, <1>3 DEF StreamsInv

LEMMA TellFailedKeeps ==
  ASSUME StreamsInv, TellFailed
  PROVE  StreamsInv'
<1>1. WorkerInv'
  <2>1. unheard' \in BOOLEAN
    BY SilencedType DEF StreamsInv, WorkerInv, TellFailed
  <2>2. failures' \in 0..MaxFailures
    BY StreamsAssumption DEF StreamsInv, WorkerInv, TellFailed, Failing
  <2>3. QED
    BY <2>1, <2>2 DEF StreamsInv, WorkerInv, TaskType, TaskKnows, AtWork, TellFailed, Step
<1>2. ScreensInv'
  <2>1. CASE PublishEnd("FAILED")
    BY <2>1, EndIsTrue DEF StreamsInv, WorkerInv, TaskKnows, AtWork, TellFailed
  <2>2. CASE UNCHANGED stream
    BY <2>2, ScreensStay DEF StreamsInv, WorkerInv, TellFailed
  <2>3. QED
    BY <2>1, <2>2 DEF TellFailed
<1>3. AlarmsInv'
  BY AlarmsStay DEF StreamsInv, WorkerInv, TellFailed
<1>4. QED
  BY <1>1, <1>2, <1>3 DEF StreamsInv

LEMMA WorkerDiesKeeps ==
  ASSUME StreamsInv, WorkerDies
  PROVE  StreamsInv'
<1>1. WorkerInv'
  BY StreamsAssumption DEF StreamsInv, WorkerInv, TaskType, TaskKnows, AtWork, WorkerDies, Step, Failing
<1>2. QED
  BY <1>1, WorkerAlone DEF WorkerDies

LEMMA LeaseExpiresKeeps ==
  ASSUME StreamsInv, LeaseExpires
  PROVE  StreamsInv'
<1>1. WorkerInv'
  BY DEF StreamsInv, WorkerInv, TaskType, TaskKnows, AtWork, LeaseExpires, Step
<1>2. QED
  BY <1>1, WorkerAlone DEF LeaseExpires

LEMMA HitsTimeLimitKeeps ==
  ASSUME StreamsInv, HitsTimeLimit
  PROVE  StreamsInv'
<1>1. WorkerInv'
  <2>1. unheard' \in BOOLEAN
    BY SilencedType DEF HitsTimeLimit
  <2>2. QED
    BY <2>1, StreamsAssumption
    DEF StreamsInv, WorkerInv, TaskType, TaskKnows, AtWork, HitsTimeLimit, Step, Failing
<1>2. QED
  BY <1>1, WorkerAlone DEF HitsTimeLimit

(* Asking again overruns the round under way.                               *)
LEMMA AskAgainKeeps ==
  ASSUME StreamsInv, AskAgain
  PROVE  StreamsInv'
<1>1. rounds \in Nat /\ rounds' = rounds + 1
  BY DEF StreamsInv, WorkerInv, AskAgain
<1>2. overrun \subseteq overrun' /\ overrun' \subseteq 1..rounds'
  <2>1. overrun \subseteq 1..rounds
    BY DEF StreamsInv, WorkerInv
  <2>2. CASE ~AtWork
    BY <1>1, <2>1, <2>2 DEF AskAgain
  <2>3. CASE AtWork
    <3>1. task.round \in 1..rounds /\ overrun' = overrun \cup {task.round}
      BY <2>3 DEF StreamsInv, WorkerInv, TaskType, TaskKnows, AtWork, AskAgain
    <3>2. 1..rounds \subseteq 1..rounds'
      BY <1>1
    <3>3. QED
      BY <2>1, <3>1, <3>2
  <2>4. QED
    BY <2>2, <2>3
<1>3. TaskType \subseteq TaskType'
  BY <1>1 DEF TaskType
<1>4. WorkerInv'
  <2>1. task' = task /\ task \in TaskType' /\ unheard' \in BOOLEAN
    BY <1>3 DEF StreamsInv, WorkerInv, AskAgain
  <2>2. TaskKnows'
    BY <1>1, <1>2, <2>1 DEF StreamsInv, WorkerInv, TaskKnows, AtWork, AskAgain
  <2>3. QED
    BY <1>1, <1>2, <2>1, <2>2, StreamsAssumption DEF StreamsInv, WorkerInv, AskAgain
<1>5. ScreensInv'
  BY <1>1, <1>2, ScreensStay DEF StreamsInv, AskAgain, screens
<1>6. AlarmsInv'
  BY <1>1, AlarmsStay DEF StreamsInv, AskAgain, screens
<1>7. QED
  BY <1>4, <1>5, <1>6 DEF StreamsInv

-----------------------------------------------------------------------------
(* The alarms                                                               *)

LEMMA StoreAlarmKeeps ==
  ASSUME StreamsInv, StoreAlarm
  PROVE  StreamsInv'
<1>1. WorkerInv'
  <2>1. failures' \in 0..MaxFailures
    <3>1. failures' = failures \/ Failing
      BY DEF StoreAlarm
    <3>2. QED
      BY <3>1, StreamsAssumption DEF StreamsInv, WorkerInv, Failing
  <2>2. task' \in TaskType' /\ TaskKnows'
    BY DEF StreamsInv, WorkerInv, TaskType, TaskKnows, AtWork, StoreAlarm, Step
  <2>3. QED
    BY <2>1, <2>2 DEF StreamsInv, WorkerInv, StoreAlarm
<1>2. ScreensInv'
  BY ScreensStay DEF StreamsInv, WorkerInv, StoreAlarm, screens
<1>3. PICK stored \in {"yes", "failed"} : alarms' = alarms \cup {Alarm(stored, FALSE)}
  BY DEF StoreAlarm
<1>4. Alarm(stored, FALSE) \in AlarmType(rounds)
  <2>1. Cardinality(alarms) \in Nat
    BY FS_CardinalityType DEF StreamsInv, AlarmsInv
  <2>2. task.round \in 1..rounds /\ task.outcome \in Outcomes \cup {"NONE"}
    BY DEF StreamsInv, WorkerInv, TaskType, TaskKnows, AtWork, StoreAlarm
  <2>3. QED
    BY <2>1, <2>2 DEF Alarm, AlarmType
<1>5. IsFiniteSet(alarms')
  BY <1>3, FS_AddElement DEF StreamsInv, AlarmsInv
<1>6. rounds' = rounds /\ clear' = clear
  BY DEF StoreAlarm, screens
<1>7. AlarmsInv'
  BY <1>3, <1>4, <1>5, <1>6 DEF StreamsInv, AlarmsInv
<1>8. QED
  BY <1>1, <1>2, <1>7 DEF StreamsInv

(* Rewriting alarms under their ids keeps what is being cleared.            *)
LEMMA AlarmsRewritten ==
  ASSUME AlarmsInv, NEW f \in [alarms -> AlarmType(rounds)], alarms' = { f[a] : a \in alarms }, rounds' = rounds,
         \A a \in alarms : f[a].id = a.id,
         clear' \subseteq clear
  PROVE  AlarmsInv'
<1>1. alarms' \subseteq AlarmType(rounds')
  OBVIOUS
<1>2. IsFiniteSet(alarms')
  <2>1. f \in Surjection(alarms, alarms')
    BY DEF Surjection
  <2>2. QED
    BY <2>1, FS_Surjection DEF AlarmsInv
<1>3. clear' \subseteq {a.id : a \in alarms'}
  <2> SUFFICES ASSUME NEW i \in clear' PROVE i \in {a.id : a \in alarms'}
    OBVIOUS
  <2>1. PICK a \in alarms : i = a.id
    BY DEF AlarmsInv
  <2>2. f[a] \in alarms' /\ f[a].id = i
    BY <2>1
  <2>3. QED
    BY <2>2
<1>4. QED
  BY <1>1, <1>2, <1>3 DEF AlarmsInv

LEMMA PushAlarmKeeps ==
  ASSUME StreamsInv, PushAlarm
  PROVE  StreamsInv'
<1>1. WorkerInv'
  BY StreamsAssumption DEF StreamsInv, WorkerInv, TaskType, TaskKnows, AtWork, PushAlarm, Step, AfterAlarm, Failing
<1>2. ScreensInv'
  BY ScreensStay DEF StreamsInv, WorkerInv, PushAlarm, screens
<1>3. AlarmsInv'
  <2> DEFINE f == [a \in alarms |-> IF a.id = Cardinality(alarms) THEN [a EXCEPT !.pushed = TRUE] ELSE a]
  <2>1. CASE alarms' = { f[a] : a \in alarms }
    <3>1. ASSUME NEW a \in alarms PROVE f[a] \in AlarmType(rounds) /\ f[a].id = a.id
      <4>1. a \in AlarmType(rounds)
        BY DEF StreamsInv, AlarmsInv
      <4>2. CASE a.id = Cardinality(alarms)
        BY <4>1, <4>2 DEF AlarmType
      <4>3. CASE a.id # Cardinality(alarms)
        BY <4>1, <4>3
      <4>4. QED
        BY <4>2, <4>3
    <3>2. rounds' = rounds /\ clear' = clear
      BY DEF PushAlarm, screens
    <3>3. f \in [alarms -> AlarmType(rounds)]
      BY <3>1
    <3> HIDE DEF f
    <3>4. QED
      BY <2>1, <3>1, <3>2, <3>3, AlarmsRewritten DEF StreamsInv
  <2>2. CASE UNCHANGED alarms
    BY <2>2, AlarmsStay DEF StreamsInv, WorkerInv, PushAlarm, screens
  <2>3. QED
    BY <2>1, <2>2 DEF PushAlarm
<1>4. QED
  BY <1>1, <1>2, <1>3 DEF StreamsInv

LEMMA ReadAllKeeps ==
  ASSUME StreamsInv, ReadAll
  PROVE  StreamsInv'
<1>1. WorkerInv'
  BY DEF StreamsInv, WorkerInv, TaskType, TaskKnows, AtWork, ReadAll
<1>2. ScreensInv'
  BY ScreensStay DEF StreamsInv, WorkerInv, ReadAll
<1>3. AlarmsInv'
  BY DEF StreamsInv, AlarmsInv, ReadAll
<1>4. QED
  BY <1>1, <1>2, <1>3 DEF StreamsInv

LEMMA DeleteAllKeeps ==
  ASSUME StreamsInv, DeleteAll
  PROVE  StreamsInv'
<1>1. WorkerInv'
  BY DEF StreamsInv, WorkerInv, TaskType, TaskKnows, AtWork, DeleteAll
<1>2. ScreensInv'
  BY ScreensStay DEF StreamsInv, WorkerInv, DeleteAll
<1>3. AlarmsInv'
  <2> DEFINE f == [a \in alarms |-> IF a.id \in clear THEN [a EXCEPT !.stored = "cleared"] ELSE a]
  <2>1. \A a \in alarms : f[a] \in AlarmType(rounds) /\ f[a].id = a.id
    BY DEF StreamsInv, AlarmsInv, AlarmType
  <2>2. alarms' = { f[a] : a \in alarms } /\ rounds' = rounds /\ clear' = {}
    BY DEF DeleteAll
  <2> f \in [alarms -> AlarmType(rounds)]
    BY <2>1
  <2> HIDE DEF f
  <2>3. QED
    BY <2>1, <2>2, AlarmsRewritten DEF StreamsInv
<1>4. QED
  BY <1>1, <1>2, <1>3 DEF StreamsInv

-----------------------------------------------------------------------------
(* The screens                                                              *)

(* A stream that was closed is opened in the round of the day; only one     *)
(* opens for the ticket, which is spent by then.                            *)
LEMMA OpenedIsTrue ==
  ASSUME StreamsInv, NEW v \in Viewers, NEW path \in Paths, NEW by \in {"cookie", "ticket"},
         stream' = [stream EXCEPT ![v] = Opened(path, by)],
         \/ by = "cookie" /\ ticket' = ticket
         \/ by = "ticket" /\ ticket \in Paths /\ ticket' = "spent",
         UNCHANGED << rounds, overrun >>
  PROVE  ScreensInv'
<1>1. rounds \in Nat \ {0}
  BY DEF StreamsInv, WorkerInv
<1>2. StreamType' = StreamType
  BY DEF StreamType
<1>3. /\ Opened(path, by).pc = "open" /\ Opened(path, by).by = by
      /\ Opened(path, by).since = rounds /\ Opened(path, by).of = 0
  BY DEF Opened, NoStream
<1>4. Opened(path, by) \in StreamType
  <2>1. NoStream \in StreamType
    BY <1>1 DEF NoStream, StreamType
  <2>2. rounds \in 0..rounds /\ by \in {"none", "cookie", "ticket"}
    BY <1>1
  <2>3. QED
    BY <2>1, <2>2 DEF Opened, StreamType
<1>5. stream \in [Viewers -> StreamType]
  BY DEF StreamsInv, ScreensInv, StreamsShape
<1>6. stream' \in [Viewers -> StreamType]
  BY <1>4, <1>5
<1>7. stream'[v] = Opened(path, by) /\ \A u \in Viewers \ {v} : stream'[u] = stream[u]
  BY <1>5
<1>8. (StreamsShape /\ EndShowsResult /\ EndIsOfTheRound)'
  BY <1>2, <1>3, <1>6, <1>7 DEF StreamsInv, ScreensInv, StreamsShape, EndShowsResult, EndIsOfTheRound
<1>9. TicketIsSpent'
  <2>1. "spent" \notin Paths /\ stream'[v].by = by
    BY <1>3, <1>7 DEF Paths
  <2>2. CASE by = "cookie" /\ ticket' = ticket
    BY <1>7, <2>1, <2>2 DEF StreamsInv, ScreensInv, TicketIsSpent
  <2>3. CASE by = "ticket" /\ ticket \in Paths /\ ticket' = "spent"
    <3>1. \A u \in Viewers : stream[u].by # "ticket"
      BY <2>1, <2>3 DEF StreamsInv, ScreensInv, TicketIsSpent
    <3>2. QED
      BY <1>7, <2>1, <2>3, <3>1 DEF TicketIsSpent
  <2>4. QED
    BY <2>2, <2>3
<1>10. QED
  BY <1>8, <1>9 DEF ScreensInv

LEMMA OpenKeeps ==
  ASSUME StreamsInv, NEW v \in Viewers, NEW path \in Paths, Open(v, path)
  PROVE  StreamsInv'
<1>1. WorkerInv'
  BY DEF StreamsInv, WorkerInv, TaskType, TaskKnows, AtWork, Open
<1>2. ScreensInv'
  BY OpenedIsTrue DEF Open
<1>3. AlarmsInv'
  BY AlarmsStay DEF StreamsInv, WorkerInv, Open
<1>4. QED
  BY <1>1, <1>2, <1>3 DEF StreamsInv

LEMMA PresentKeeps ==
  ASSUME StreamsInv, NEW v \in Viewers, NEW path \in Paths, Present(v, path)
  PROVE  StreamsInv'
<1>1. WorkerInv'
  BY DEF StreamsInv, WorkerInv, TaskType, TaskKnows, AtWork, Present
<1>2. ScreensInv'
  <2>1. CASE ticket = path
    BY <2>1, OpenedIsTrue DEF Present
  <2>2. CASE ticket # path
    <3>1. stream' = stream /\ ticket' = "spent" /\ rounds' = rounds /\ overrun' = overrun
      BY <2>2 DEF Present, StreamsInv, ScreensInv, StreamsShape
    <3>2. StreamType' = StreamType
      BY <3>1 DEF StreamType
    <3>3. QED
      BY <3>1, <3>2 DEF StreamsInv, ScreensInv, StreamsShape, EndShowsResult, EndIsOfTheRound, TicketIsSpent
  <2>3. QED
    BY <2>1, <2>2
<1>3. AlarmsInv'
  BY AlarmsStay DEF StreamsInv, WorkerInv, Present
<1>4. QED
  BY <1>1, <1>2, <1>3 DEF StreamsInv

-----------------------------------------------------------------------------
(* All steps                                                                *)

LEMMA StreamsStart == StreamsInit => StreamsInv
<1> SUFFICES ASSUME StreamsInit PROVE StreamsInv
  OBVIOUS
<1>1. WorkerInv
  <2>1. unheard \in BOOLEAN
    BY DEF StreamsInit
  <2>2. task \in TaskType /\ TaskKnows
    BY DEF StreamsInit, TaskType, TaskKnows, AtWork, NoTask, Outcomes
  <2>3. QED
    BY <2>1, <2>2, StreamsAssumption DEF StreamsInit, WorkerInv, Outcomes
<1>2. rounds = 1 /\ NoStream \in StreamType
  BY DEF StreamsInit, StreamType, NoStream
<1>3. StreamsShape /\ EndShowsResult /\ EndIsOfTheRound /\ TicketIsSpent
  BY <1>2 DEF StreamsInit, NoStream, StreamsShape, EndShowsResult, EndIsOfTheRound, TicketIsSpent
<1>4. AlarmsInv
  BY FS_EmptySet DEF StreamsInit, AlarmsInv
<1>5. QED
  BY <1>1, <1>3, <1>4 DEF StreamsInv, ScreensInv

LEMMA StreamsStep == StreamsInv /\ [StreamsNext]_streamVars => StreamsInv'
<1> SUFFICES ASSUME StreamsInv, [StreamsNext]_streamVars PROVE StreamsInv'
  OBVIOUS
<1>1. ASSUME Receive \/ Work PROVE StreamsInv'
  BY <1>1, TakeKeeps, SkipKeeps, ConcludeKeeps, TellKeeps, ConcludeFailedKeeps, TellFailedKeeps,
     StoreAlarmKeeps, PushAlarmKeeps DEF Receive, Work
<1>2. ASSUME \/ Again \/ GiveUp \/ WorkerDies \/ LeaseExpires \/ HitsTimeLimit
             \/ Requeue \/ AskAgain
      PROVE  StreamsInv'
  BY <1>2, AgainKeeps, GiveUpKeeps, WorkerDiesKeeps, LeaseExpiresKeeps, HitsTimeLimitKeeps, RequeueKeeps,
     AskAgainKeeps
<1>3. ASSUME ReadAll \/ DeleteAll PROVE StreamsInv'
  BY <1>3, ReadAllKeeps, DeleteAllKeeps
<1>4. ASSUME NEW v \in Viewers, NEW path \in Paths, Open(v, path) \/ Present(v, path)
      PROVE  StreamsInv'
  BY <1>4, OpenKeeps, PresentKeeps
<1>5. CASE UNCHANGED streamVars
  <2>1. WorkerInv'
    BY <1>5 DEF streamVars, StreamsInv, WorkerInv, TaskType, TaskKnows, AtWork
  <2>2. QED
    BY <1>5, <2>1, WorkerAlone DEF streamVars, screens
<1>6. QED
  BY <1>1, <1>2, <1>3, <1>4, <1>5 DEF StreamsNext

(* What the worker, the streams and the alarms keep at every step, for any  *)
(* viewers, rounds and failures.                                            *)
THEOREM StreamsInvariant == StreamsSpec => []StreamsInv
BY StreamsStart, StreamsStep, PTL DEF StreamsSpec

(* What a screen was told is so: the end of the round it waits for, with    *)
(* the result it will fetch, unless the round was overrun; one stream by    *)
(* the ticket; and every alarm that popped up is stored, was cleared, or    *)
(* could not be stored.                                                     *)
THEOREM ScreensAreTrue == StreamsSpec => []ScreensTellTruth
<1>1. StreamsInv => ScreensTellTruth
  <2> SUFFICES ASSUME StreamsInv PROVE ScreensTellTruth
    OBVIOUS
  <2>1. StreamsTypeOK
    <3>1. \A v \in Viewers : stream[v] \in StreamType /\ (stream[v].of > 0 <=> stream[v].pc = "ended")
      BY DEF StreamsInv, ScreensInv, StreamsShape
    <3>2. \A a \in alarms : a.stored \in {"yes", "failed", "cleared"} /\ a.round \in 1..rounds
      BY DEF StreamsInv, AlarmsInv, AlarmType
    <3>3. QED
      BY <3>1, <3>2 DEF StreamsInv, WorkerInv, TaskType, ScreensInv, TicketIsSpent, AlarmsInv, StreamType,
                        StreamsTypeOK
  <2>2. TicketOpensOne
    <3> DEFINE S == {v \in Viewers : stream[v].by = "ticket"}
    <3>1. Cardinality(S) <= 1
      <4>1. CASE S = {}
        BY <4>1, FS_EmptySet
      <4>2. CASE S # {}
        <5>1. PICK v \in S : TRUE
          BY <4>2
        <5>2. S = {v}
          BY <5>1 DEF StreamsInv, ScreensInv, TicketIsSpent
        <5>3. QED
          <6> HIDE DEF S
          <6>1. Cardinality(S) = 1
            BY <5>2, FS_Singleton
          <6>2. QED
            BY <6>1
      <4>3. QED
        BY <4>1, <4>2
    <3>2. (\E v \in Viewers : stream[v].by = "ticket") => ticket = "spent"
      BY DEF StreamsInv, ScreensInv, TicketIsSpent
    <3>3. QED
      BY <3>1, <3>2 DEF TicketOpensOne
  <2>3. PushedIsKept
    BY DEF StreamsInv, AlarmsInv, AlarmType, PushedIsKept
  <2>4. QED
    BY <2>1, <2>2, <2>3 DEF StreamsInv, ScreensInv, ScreensTellTruth
<1>2. QED
  BY <1>1, StreamsInvariant, PTL
=============================================================================
