------------------------------ MODULE Pipeline ------------------------------
(***************************************************************************)
(* The inspection pipeline: the job and its tasks (Inspection, where the   *)
(* verdict is a choice), and the graph that a task runs for it             *)
(* (Judgement, where a run is all there is). The two share no data, so     *)
(* that no order of their steps can matter: each is explored while nothing *)
(* has happened in the other.                                              *)
(***************************************************************************)
EXTENDS Inspection, Judgement

PipelineInit == Init /\ GraphInit
pipelineVars == << vars, graphVars >>

NothingJudged   == node = "idle" /\ run = 0 /\ up
NothingReceived == \A j \in Jobs : status[j] = "ABSENT"

PipelineNext ==
  \/ NothingJudged /\ Next /\ UNCHANGED graphVars
  \/ NothingReceived /\ GraphNext /\ UNCHANGED vars

OfTheJob(step)   == NothingJudged /\ step /\ UNCHANGED graphVars
OfTheGraph(step) == NothingReceived /\ step /\ UNCHANGED vars

(* The fairness of FairSpec and of FairGraph.                               *)
PipelineSpec ==
  /\ PipelineInit /\ [][PipelineNext]_pipelineVars
  /\ \A w \in Workers : WF_pipelineVars(OfTheJob(WorkerStep(w)))
  /\ \A j \in Jobs : /\ SF_pipelineVars(OfTheJob(\E w \in Workers, m \in Messages :
                                                   m.job = j /\ Start(w, m)))
                     /\ WF_pipelineVars(OfTheJob(OrphanExpires(j)))
                     /\ WF_pipelineVars(OfTheJob(Sweep(j)))
                     /\ WF_pipelineVars(OfTheJob(CommitRequest(j)))
  /\ WF_node(OfTheGraph(Advance))
=============================================================================
