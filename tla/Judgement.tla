----------------------------- MODULE Judgement ------------------------------
(***************************************************************************)
(* The AI graph that judges one return job:                                *)
(*                                                                         *)
(*   detector -> vision -> policy -> critic -> supervisor                  *)
(*                  ^                              | | |                   *)
(*                  +------- RETRY_VISION ---------+ | +-> report -> end   *)
(*                                                   +---> human  -> end   *)
(*                                                                         *)
(* Every node returns the keys it sets, and the graph merges them into one *)
(* state. The state is checkpointed in the memory of the worker process    *)
(* under the id of the job, so a re-inspection by the same process starts  *)
(* from what the last run left, except for the keys of its initial state.  *)
(***************************************************************************)
EXTENDS Grading, Sequences

CONSTANTS
  Images,      \* number of pictures of the job
  Defects,     \* what the reader may report
  MaxDefects,  \* bound: reports of one reading
  Hits,        \* what the handwriting detector may add
  Candidates,  \* what the detector may propose
  Unreadable,  \* the sets of pictures the reader may take for no picture of the book
  Rulings,     \* answers of the LLM that reads the return policy
  Workbook,    \* the title counts as a workbook
  MaxRuns      \* bound: inspections of the job

(* An answer of that LLM, and what the code makes of it.                    *)
RulingType ==
  [ status : STRING, accepted : { "NULL", "YES", "NO" },
    bearer : { "NULL", "CUSTOMER", "SELLER", "CARRIER" },
    liability : { "CUSTOMER", "CARRIER", "WAREHOUSE", "UNDETERMINED" },
    human : BOOLEAN, cited : BOOLEAN ]

ASSUME JudgementAssumption ==
  /\ Images \in Nat /\ MaxDefects \in Nat /\ MaxRuns \in Nat
  /\ Workbook \in BOOLEAN
  /\ Unreadable \subseteq SUBSET (0..(Images - 1))
  /\ Defects \subseteq FlawType
  /\ \A hits \in Hits : IsFiniteSet(hits) /\ hits \subseteq FlawType
  /\ Rulings \subseteq RulingType

Nodes   == { "idle", "detector", "vision", "policy", "critic", "supervisor", "human", "report", "end" }
Mints   == { "NONE", "YES", "NO" }
Reasons == { "NONE", "OK", "REJECT", "MAX_RETRIES", "BOUNDARY", "HUMAN_REQUIRED",
             "NO_VALID_IMAGE", "AWAITING_HUMAN" }
Decisions == { "NONE", "RETRY_VISION", "ESCALATE_HUMAN", "ISSUE_REPORT" }

NoRuling == [status |-> "NONE", accepted |-> "NULL", bearer |-> "NULL",
             liability |-> "UNDETERMINED", human |-> TRUE, cited |-> FALSE]
BlankCertificate == [notice |-> FALSE, run |-> 0]

VARIABLES
  node,   \* the node about to run
  st,     \* WMSInspectionState, as checkpointed
  run,    \* number of the current inspection
  up,     \* this worker process could construct its LLM clients
  looked, \* history: in this run the reader answered
  scored  \* history: in this run, the defects the score was computed from

graphVars == << node, st, run, up, looked, scored >>

Blank ==
  [ mint |-> "NONE", defects |-> {}, invalid |-> {}, failed |-> FALSE, candidates |-> {},
    score |-> NoScore, ruling |-> NoRuling, reason |-> "NONE",
    revision |-> 0, decision |-> "NONE", refund |-> FALSE, certificate |-> BlankCertificate ]

GraphInit == node = "idle" /\ st = Blank /\ run = 0 /\ up \in BOOLEAN /\ looked = FALSE /\ scored = {}

-----------------------------------------------------------------------------
(* run_inspection: the initial state overwrites the keys it names.          *)
Resumed(old) ==
  [old EXCEPT !.mint = "NONE", !.defects = {}, !.score = NoScore, !.reason = "NONE", !.revision = 0]

Invoke ==
  /\ node \in {"idle", "end"} /\ run < MaxRuns
  /\ node' = "detector" /\ run' = run + 1
  /\ st' = Resumed(st)
  /\ looked' = FALSE /\ scored' = {} /\ UNCHANGED up

Restart ==
  /\ st # Blank
  /\ node' = "idle" /\ st' = Blank /\ up' \in BOOLEAN
  /\ looked' = FALSE /\ scored' = {} /\ UNCHANGED run

Detector ==
  /\ node = "detector" /\ node' = "vision"
  /\ \E found \in Candidates : st' = [st EXCEPT !.candidates = found]
  /\ UNCHANGED << run, up, looked, scored >>
-----------------------------------------------------------------------------
(* Reading the pictures.                                                    *)
CanRead == up /\ st.defects = {} /\ Images > 0

InnerPage(d) == d.image >= 3

(* Wear seen on an inner page was seen on a cover already.                  *)
Kept(reports) == { d \in reports : ~(InnerPage(d) /\ d.type = "WEAR") }

Flagged(ds) ==
  { [d EXCEPT !.copied = Copied(d, ds, st.candidates) \/ @,
              !.ungrounded = Ungrounded(d, ds, st.candidates) \/ @] : d \in ds }

(* Crops can be cut only around a box that was not made up.                 *)
Judgeable(ds) == { d \in ds : up /\ HasBox(d) /\ d.image < Images /\ ~d.ungrounded }

Dismissed(ds, no) == { [d EXCEPT !.suspect = @ \/ d \in no] : d \in ds }

(* vision_agent returned a reading.                                         *)
Read(mint, reports, invalid) ==
  LET flagged == Flagged(Kept(reports)) IN
  \E no \in SUBSET Judgeable(flagged) :
    st' = [st EXCEPT !.mint = mint, !.defects = Dismissed(flagged, no), !.invalid = invalid]

Reported(found) == { [d EXCEPT !.box = IF HasBox(d) THEN Upright(@) ELSE @] : d \in found }

(* The handwriting detector looks at the inner pages the reader took for    *)
(* pages of the book; what it finds is reported too.                        *)
WithHits(found, hits) == Reported(found) \cup hits
HitsOutside(invalid)  == { hits \in Hits : \A h \in hits : h.image \notin invalid }

VisionReads ==
  /\ node = "vision" /\ CanRead
  /\ \E mint \in {"YES", "NO"}, found \in SUBSET Defects, invalid \in Unreadable :
       /\ IsFiniteSet(found) /\ Cardinality(found) <= MaxDefects
       /\ \E hits \in HitsOutside(invalid) :
            Read(IF hits = {} THEN mint ELSE "NO", WithHits(found, hits), invalid)
  /\ node' = "policy" /\ looked' = TRUE
  /\ UNCHANGED << run, up, scored >>

(* Mutant of VisionFails: no reading is taken for no flaw.                  *)
FailureIsMint ==
  /\ node = "vision" /\ CanRead
  /\ st' = [st EXCEPT !.mint = "YES", !.defects = {}]
  /\ node' = "policy" /\ UNCHANGED << run, up, looked, scored >>

VisionFails ==
  /\ node = "vision" /\ CanRead
  /\ st' = [st EXCEPT !.mint = "NONE", !.defects = {}, !.failed = TRUE]
  /\ node' = "policy" /\ UNCHANGED << run, up, looked, scored >>

(* No client, no picture, or defects left over: nothing is read.            *)
VisionSkips ==
  /\ node = "vision" /\ ~CanRead
  /\ Read(IF st.defects = {} THEN "YES" ELSE "NO", st.defects, {})
  /\ node' = "policy" /\ UNCHANGED << run, up, looked, scored >>
-----------------------------------------------------------------------------
(* Policy: the score, and the disposal of the return.                       *)

Unruled(status) == [NoRuling EXCEPT !.status = status]

(* Mutant of Ruling: the answer is not corrected.                           *)
AnswerAsGiven(answer) == IF answer.status = "OK" THEN answer ELSE Unruled(answer.status)

(* What the code makes of the answer: a disposal needs a citation, and a    *)
(* customer pays only when somebody is found liable.                        *)
Ruling(answer) ==
  LET open    == answer.liability = "UNDETERMINED"
      settled == [answer EXCEPT !.bearer = IF open /\ @ = "CUSTOMER" THEN "NULL" ELSE @,
                                !.human = @ \/ open]
  IN  IF answer.status # "OK" THEN Unruled(answer.status)
      ELSE IF answer.cited THEN settled
      ELSE [settled EXCEPT !.accepted = "NULL", !.bearer = "NULL", !.human = TRUE, !.status = "UNCITED"]

PolicySkips ==
  /\ node = "policy" /\ st.failed
  /\ st' = [st EXCEPT !.score = NoScore]
  /\ node' = "critic" /\ UNCHANGED << run, up, looked, scored >>

PolicyScores ==
  /\ node = "policy" /\ ~st.failed
  /\ \E ruling \in IF st.defects = {} THEN {NoRuling} ELSE { Ruling(a) : a \in Rulings } :
       st' = [st EXCEPT !.score = Score(st.defects, Workbook), !.ruling = ruling, !.reason = "NONE"]
  /\ scored' = st.defects
  /\ node' = "critic" /\ UNCHANGED << run, up, looked >>
-----------------------------------------------------------------------------
(* Critic: may this be settled without a human?                             *)
Exhausted  == st.revision >= 2
Borderline == st.score # NoScore /\ st.score \in 58..66
Consistent == Sound(st.defects, Images, st.score)

Finding ==
  IF Exhausted THEN "MAX_RETRIES"
  ELSE IF Borderline THEN "BOUNDARY"
  ELSE IF Consistent THEN "OK" ELSE "HUMAN_REQUIRED"

CriticSays ==
  /\ node = "critic" /\ (st.score # NoScore \/ Exhausted)
  /\ st' = [st EXCEPT !.reason = Finding]
  /\ node' = "supervisor" /\ UNCHANGED << run, up, looked, scored >>

(* Nothing was read: read again.                                            *)
CriticRetries ==
  /\ node = "critic" /\ st.score = NoScore /\ ~Exhausted
  /\ st' = [st EXCEPT !.reason = "REJECT", !.revision = @ + 1, !.failed = FALSE]
  /\ node' = "supervisor" /\ UNCHANGED << run, up, looked, scored >>

(* Mutant of CriticRejects: a rejected reading is not counted.              *)
RejectsForEver ==
  /\ node = "critic" /\ st.score # NoScore /\ Finding = "OK" /\ up /\ st.defects # {}
  /\ st' = [st EXCEPT !.reason = "REJECT", !.defects = {}]
  /\ node' = "supervisor" /\ UNCHANGED << run, up, looked, scored >>

(* The LLM finds the reading implausible: read again, from nothing.         *)
CriticRejects ==
  /\ node = "critic" /\ st.score # NoScore /\ Finding = "OK" /\ up /\ st.defects # {}
  /\ st' = [st EXCEPT !.reason = "REJECT", !.revision = @ + 1, !.defects = {}]
  /\ node' = "supervisor" /\ UNCHANGED << run, up, looked, scored >>
-----------------------------------------------------------------------------
(* Supervisor: where the job goes.                                          *)
NoPictureRead == Images > 0 /\ Cardinality(st.invalid) >= Images

(* Mutant of Ruled: only a missing score is worth a second reading.         *)
RetriesWithoutScore ==
  IF NoPictureRead \/ st.reason \in {"MAX_RETRIES", "BOUNDARY", "HUMAN_REQUIRED"} \/ st.revision >= 2
  THEN "ESCALATE_HUMAN"
  ELSE IF st.reason = "REJECT" /\ st.score = NoScore THEN "RETRY_VISION" ELSE "ISSUE_REPORT"

Ruled ==
  IF NoPictureRead \/ st.reason \in {"MAX_RETRIES", "BOUNDARY", "HUMAN_REQUIRED"} \/ st.revision >= 2
  THEN "ESCALATE_HUMAN"
  ELSE IF st.reason = "REJECT" THEN "RETRY_VISION" ELSE "ISSUE_REPORT"

Route(decision) ==
  CASE decision = "RETRY_VISION"   -> "vision"
    [] decision = "ESCALATE_HUMAN" -> "human"
    [] OTHER                       -> "report"

Supervisor ==
  /\ node = "supervisor"
  /\ st' =
       IF NoPictureRead
       THEN [st EXCEPT !.decision = Ruled, !.score = NoScore, !.mint = "NO", !.refund = FALSE,
                       !.reason = "NO_VALID_IMAGE"]
       ELSE [st EXCEPT !.decision = Ruled]
  /\ node' = Route(Ruled)
  /\ UNCHANGED << run, up, looked, scored >>

Human ==
  /\ node = "human" /\ node' = "end"
  /\ st' = [st EXCEPT !.reason = "AWAITING_HUMAN"]
  /\ UNCHANGED << run, up, looked, scored >>

(* The certificate announces the disposal only when it was found in a       *)
(* binding clause: the code strikes what the LLM that writes it adds.       *)
NewCertificate == [notice |-> st.ruling.status = "OK" /\ st.ruling.accepted # "NULL", run |-> run]

(* Mutant of Report: the reader's word is enough for a refund.              *)
RefundsOnMint ==
  /\ node = "report" /\ node' = "end"
  /\ st' = [st EXCEPT !.score = IF @ = NoScore THEN 100 ELSE @, !.certificate = NewCertificate,
                      !.refund = st.mint = "YES"]
  /\ UNCHANGED << run, up, looked, scored >>

Report ==
  /\ node = "report" /\ node' = "end"
  /\ LET score == IF st.score = NoScore THEN 100 ELSE st.score IN
     st' = [st EXCEPT !.score = score, !.certificate = NewCertificate,
                      !.refund = st.mint = "YES" /\ score >= 95]
  /\ UNCHANGED << run, up, looked, scored >>
-----------------------------------------------------------------------------
(* Mutant of Verdict: what the critic passed is approved.                   *)
ApprovesWhatPassed ==
  IF st.decision = "ESCALATE_HUMAN" \/ st.reason = "AWAITING_HUMAN" THEN "HITL"
  ELSE IF st.mint = "YES" \/ st.reason = "OK" THEN "APPROVE" ELSE "REJECT"

(* What the worker is told.                                                 *)
Verdict ==
  IF st.decision = "ESCALATE_HUMAN" \/ st.reason = "AWAITING_HUMAN" THEN "HITL"
  ELSE IF st.mint = "YES" \/ (st.reason = "OK" /\ st.score # NoScore /\ st.score >= 70)
       THEN "APPROVE" ELSE "REJECT"

FinalGrade == IF st.mint = "YES" THEN "MINT" ELSE GradeOf(st.score)

Step == Detector \/ VisionReads \/ VisionFails \/ VisionSkips \/ PolicySkips \/ PolicyScores
          \/ CriticSays \/ CriticRetries \/ CriticRejects \/ Supervisor \/ Human \/ Report

GraphNext == Invoke \/ Restart \/ Step

(* The graph runs to its end unless its process is restarted: a step of it  *)
(* leads from one node to another.                                          *)
Advance   == node \notin {"idle", "end"} /\ node' \in Nodes \ {node, "idle"}
GraphSpec == GraphInit /\ [][GraphNext]_graphVars
FairGraph == GraphSpec /\ WF_node(Advance)

-----------------------------------------------------------------------------
(* Properties *)

Ended    == node = "end"
Approved == Ended /\ Verdict = "APPROVE"
MachineSaid == Ended /\ Verdict # "HITL"

GraphTypeOK ==
  /\ node \in Nodes /\ run \in 0..MaxRuns /\ up \in BOOLEAN /\ looked \in BOOLEAN
  /\ st.mint \in Mints /\ st.reason \in Reasons /\ st.decision \in Decisions
  /\ st.score \in {NoScore} \cup 0..100 /\ st.revision \in 0..2
  /\ st.invalid \subseteq 0..(Images - 1)
  /\ {st.failed, st.refund} \subseteq BOOLEAN
  /\ DOMAIN st = DOMAIN Blank /\ DOMAIN st.certificate = DOMAIN BlankCertificate

(* In a process that has its LLM clients, a book with pictures is bought    *)
(* without a human only when, in this very inspection, the reader answered  *)
(* and took at least one picture for a picture of the book: "could not be   *)
(* inspected" is not "was inspected and has no flaw".  A reading that       *)
(* failed, a rejected one, and what an earlier inspection of the job left   *)
(* in the checkpoint must not stand in for one.  (A job without pictures is *)
(* read by nobody and approved as mint: only the callers of the graph can   *)
(* refuse it.)                                                              *)
ApprovalIsRead == up /\ Images > 0 /\ Approved => looked /\ ~NoPictureRead

(* Nothing is settled by a machine on a reading whose boxes cannot have     *)
(* been seen: outside the pictures, or the same box in two of them.         *)
InventedNeverSettled ==
  MachineSaid => \A d \in scored :
    /\ HasBox(d) /\ d.image \in 0..(Images - 1)
    /\ \A e \in scored :
         e.box = d.box /\ e.image # d.image =>
           FromDetector(d, st.candidates) \/ FromDetector(e, st.candidates)

(* When the evidence check dismissed every reported flaw, the 100 points    *)
(* that are left are no verdict: some flaw that was charged stands behind   *)
(* every machine verdict on a reading that reported flaws.                  *)
DismissalIsNoVerdict ==
  MachineSaid /\ scored # {} => \E d \in scored : ~d.suspect

(* A machine verdict rests on the last reading: after a rejected reading    *)
(* neither its flaws nor its score live on.                                 *)
VerdictOfLastReading ==
  MachineSaid => st.defects = scored /\ st.score = Score(scored, Workbook)

(* What is approved is worth its grade. The one exception is a reader that  *)
(* calls the book mint and lists flaws: the graph believes the first.       *)
GradeFollowsScore ==
  Approved => \/ FinalGrade = GradeOf(st.score) /\ FinalGrade # "REJECT"
              \/ st.mint = "YES" /\ scored # {}

(* A customer reads of the disposal of the return only when it was found in *)
(* a binding clause for the flaws of this inspection, and is never told to  *)
(* pay the freight while nobody was found liable.                           *)
NoticeIsBinding ==
  Ended /\ st.certificate.run = run /\ st.certificate.notice =>
    /\ scored # {} /\ st.ruling.cited
    /\ ~(st.ruling.bearer = "CUSTOMER" /\ st.ruling.liability = "UNDETERMINED")

(* An automatic refund belongs to a certificate of this inspection, for a   *)
(* score that is mint, whatever an earlier inspection had found.            *)
RefundIsOfThisRun ==
  Approved /\ st.refund => st.certificate.run = run /\ st.mint = "YES" /\ st.score >= 95

(* An inspection ends, however often its readings fail or are rejected.     *)
RunEnds == node = "detector" ~> node \in {"end", "idle"}

(* A verdict of the graph rests on a reading that was made, of what can be  *)
(* seen, and on nothing an earlier reading or inspection has left.          *)
VerdictIsFounded ==
  /\ GraphTypeOK /\ ApprovalIsRead /\ InventedNeverSettled
  /\ DismissalIsNoVerdict /\ VerdictOfLastReading

(* What the customer is promised follows from the verdict: the grade, the   *)
(* terms of a return, the refund.                                           *)
PromisesAreFounded == GradeFollowsScore /\ NoticeIsBinding /\ RefundIsOfThisRun
=============================================================================
