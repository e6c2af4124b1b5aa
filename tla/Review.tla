------------------------------- MODULE Review -------------------------------
(***************************************************************************)
(* What reviewers make of one return job that the AI has handed over: they *)
(* open it, mark reports as false, adopt candidates of the detector, draw  *)
(* boxes, preview the score, and decide.                                   *)
(*                                                                         *)
(* A decision names reports by their index in the list the reviewer saw.   *)
(* The request reads the job, asks the policy agent for the score (and     *)
(* that agent the LLM, so this takes seconds), commits the job with its    *)
(* stock row, and then, in a second commit, the audit log the training     *)
(* data are exported from.  An approval then asks the worker for the       *)
(* customer's certificate, which takes the LLM once more.  agent_logs is   *)
(* one column, written whole each time.                                    *)
(***************************************************************************)
EXTENDS Grading, Sequences, SequencesExt

CONSTANTS
  Reviewers,
  Readings,      \* what the AI may make of the pictures: its reports, or a failure
  Proposals,     \* the detector's candidates, in the order of the job's log
  Edits,         \* what reviewers may do to a list of reports
  Grades,        \* the grades they may name: any text
  Upper,         \* what a grade is in capitals
  IsWorkbook,    \* by its title or category
  MaxReadings, MaxDecisions  \* bounds

Verdicts == { "APPROVE", "REJECT", "RE_CHECK" }

(* A report in the job's log.                                               *)
ReportType ==
  [ type : Kinds, ratio : Int, box : {NoBox} \cup BoxType, image : Int, level : Int, pages : Int,
    overlap : BOOLEAN, conf : Int, suspect : BOOLEAN, excluded : BOOLEAN ]

ASSUME ReviewAssumption ==
  /\ "NONE" \notin Grades
  /\ DOMAIN Upper = Grades \cup DOMAIN Bands /\ \A g \in DOMAIN Bands : Upper[g] = g
  /\ IsWorkbook \in BOOLEAN
  /\ MaxReadings \in Nat \ {0} /\ MaxDecisions \in Nat
  /\ Readings \subseteq [failed : BOOLEAN, reports : Seq(ReportType)]
  /\ Proposals \in Seq([type : Kinds, box : BoxType, image : Int, conf : Int])
  /\ \A e \in Edits :
       /\ e.out \subseteq Nat /\ e.adopt \in Seq(DOMAIN Proposals)
       /\ \A i \in DOMAIN e.move : e.move[i] \in BoxType
       /\ e.draw \in Seq([type : Kinds, box : BoxType, image : Int])

VARIABLES
  task,    \* return_jobs: status, score; reports, suggested grade, the grade a reviewer
           \* named and his certificate of its agent_logs (history: of, the reading)
  row,     \* its row in inventory_used_items
  audit,   \* the newest of the job's admin_audit_logs that have boxes
  sheet,   \* what each reviewer has on screen, in the request, and then in the worker
  ai,      \* the re-inspection under way
  readings, decisions,
  \* history
  untouched, \* no decision was saved since the AI last read the book
  raced,     \* requests on the job overlapped
  lost       \* what went missing: of a decision that died half way, or, under a
             \* certificate that was written late, of the log

reviewVars == << task, row, audit, sheet, ai, readings, decisions, untouched, raced, lost >>

-----------------------------------------------------------------------------
(* Reports, and what a reviewer does to them *)

(* What the matrix reads of a report; equal reports are told apart.         *)
Numbered(i, d) ==
  [ at |-> i, type |-> d.type, ratio |-> d.ratio, box |-> d.box, image |-> d.image,
    level |-> d.level, pages |-> d.pages, overlap |-> d.overlap, suspect |-> d.suspect ]

AsRead(reports) == { Numbered(i, reports[i]) : i \in DOMAIN reports }

(* What a score is computed from once a reviewer has looked at the reports. *)
Charged(reports) ==
  { Numbered(i, reports[i]) : i \in { k \in DOMAIN reports : ~reports[k].excluded } }

(* Mutant of Rescored: the reviewer's list has lost what the AI dismissed.  *)
RescoredAnew(reports) ==
  Score({ [d EXCEPT !.suspect = FALSE] : d \in Charged(reports) }, FALSE)

(* policy_agent once more, but without the title and the category that tell *)
(* a workbook: agent_logs.book_title is read and nobody ever writes it.     *)
Rescored(reports) == Score(Charged(reports), FALSE)

(* Neither an adopted candidate nor a drawn box says how large the flaw is. *)
Reviewed(type, box, image, conf) ==
  [ type |-> type, ratio |-> 0, box |-> box, image |-> image, level |-> 1, pages |-> 1,
    overlap |-> FALSE, conf |-> conf, suspect |-> FALSE, excluded |-> FALSE ]

Adopted(e) ==
  [k \in DOMAIN e.adopt |->
     LET c == Proposals[e.adopt[k]] IN Reviewed(c.type, c.box, c.image, c.conf)]

Drawn(e) == [k \in DOMAIN e.draw |-> Reviewed(e.draw[k].type, e.draw[k].box, e.draw[k].image, 0)]

(* Mutant of ApplyEdits: what is excluded is removed from the list.         *)
RemoveExcluded(reports, e) ==
  LET kept == SetToSortSeq(DOMAIN reports \ e.out, <)
  IN [k \in DOMAIN kept |-> reports[kept[k]]] \o Adopted(e) \o Drawn(e)

(* apply_bbox_edits: exclusion is a mark, and new reports go to the end.    *)
ApplyEdits(reports, e) ==
  LET marked == [i \in DOMAIN reports |->
                   [reports[i] EXCEPT !.excluded = @ \/ i \in e.out]]
      all    == marked \o Adopted(e)
  IN [i \in DOMAIN all |-> IF i \in DOMAIN e.move THEN [all[i] EXCEPT !.box = e.move[i]]
                           ELSE all[i]] \o Drawn(e)

NoEdit == [out |-> {}, adopt |-> << >>, move |-> << >>, draw |-> << >>]

(* build_defect_coordinates: a report without a box is not drawn.           *)
Boxes(reports) ==
  { [at |-> i, image |-> reports[i].image, box |-> reports[i].box, excluded |-> reports[i].excluded]
      : i \in { k \in DOMAIN reports : HasBox(reports[k]) } }

(* export_mlops_dataset: every box of every audit log, but the excluded.    *)
Exported(entry) == { b \in entry.boxes : ~b.excluded }

-----------------------------------------------------------------------------
(* The AI's part *)

ScoreOf(r) ==
  IF r.failed THEN NoScore
  ELSE Score(AsRead(r.reports), IsWorkbook)

NoCertificate == [score |-> NoScore, grade |-> "NONE", listed |-> {}]

Log(r, n) == [reports |-> r.reports, suggested |-> GradeOf(ScoreOf(r)), of |-> n,
              target |-> "NONE", certificate |-> NoCertificate]

(* Mutant of RowScore: a missing score is stored as it is.                  *)
RowScoreAsGiven(score) == score

RowScore(score) == IF score = NoScore THEN 85 ELSE score

StockRow(status, grade, score, source) ==
  [status |-> status, grade |-> grade, score |-> score, source |-> source]
Waiting(score) == StockRow("HITL_PENDING", "PENDING", RowScore(score), "PENDING_HITL")

Closed  == [pc |-> "closed"]
NoAudit == [status |-> "NONE"]

ReviewInit ==
  /\ \E r \in Readings :
       /\ task = [status |-> "HITL_REQUIRED", score |-> ScoreOf(r), log |-> Log(r, 1)]
       /\ row = Waiting(ScoreOf(r))
  /\ audit = NoAudit /\ sheet = [r \in Reviewers |-> Closed] /\ ai = [pc |-> "idle"]
  /\ readings = 1 /\ decisions = 0
  /\ untouched = TRUE /\ raced = FALSE /\ lost = {}

Deciding == \E r \in Reviewers : sheet[r].pc \in {"scoring", "settled"}

(* trigger_ai_reinspection *)
Reinspect ==
  /\ ai.pc = "idle" /\ readings < MaxReadings
  /\ task' = [task EXCEPT !.status = "PENDING"]
  /\ ai' = [pc |-> "reading"]
  /\ UNCHANGED << row, audit, sheet, readings, decisions, untouched, raced, lost >>

(* execute_wms_action puts the book where the verdict sends it, before the  *)
(* job says so.  What a human has had before is never approved.             *)
AiActs ==
  /\ ai.pc = "reading"
  /\ \E r \in Readings, verdict \in {"HITL_REQUIRED", "REJECTED"} :
       /\ r.failed => verdict = "HITL_REQUIRED"
       /\ ai' = [pc |-> "acted", reading |-> r, verdict |-> verdict, over |-> task.status]
       /\ row' = IF verdict = "HITL_REQUIRED" THEN Waiting(ScoreOf(r))
                 ELSE StockRow("REJECTED", GradeOf(ScoreOf(r)), RowScore(ScoreOf(r)), "AI_AUTO")
  /\ UNCHANGED << task, audit, sheet, readings, decisions, untouched, raced, lost >>

(* save_inspection_result keeps a status of HITL_REQUIRED only, and of the  *)
(* old log what it has nothing to say about.  (The AI's own certificate is  *)
(* left out.)                                                               *)
AiSaves ==
  /\ ai.pc = "acted"
  /\ task' = [status |-> IF task.status = "HITL_REQUIRED" THEN "HITL_REQUIRED" ELSE ai.verdict,
              score |-> ScoreOf(ai.reading), log |-> [Log(ai.reading, readings + 1) EXCEPT !.target = task.log.target]]
  /\ ai' = [pc |-> "idle"]
  /\ readings' = readings + 1 /\ untouched' = TRUE
  /\ raced' = (raced \/ ai.over # task.status \/ Deciding)
  /\ UNCHANGED << row, audit, sheet, decisions, lost >>

-----------------------------------------------------------------------------
(* The reviewers *)

(* recall_inventory_to_hitl *)
Recall ==
  /\ task.status \in {"APPROVED", "REJECTED"}
  /\ task' = [task EXCEPT !.status = "HITL_REQUIRED"]
  /\ row' = [row EXCEPT !.status = "HITL_PENDING", !.source = "PENDING_HITL"]
  /\ raced' = (raced \/ Deciding)
  /\ UNCHANGED << audit, sheet, ai, readings, decisions, untouched, lost >>

(* get_pending_hitl_tasks lists what is waiting, and what is being read.    *)
Open(r) ==
  /\ sheet[r] = Closed /\ decisions < MaxDecisions
  /\ task.status \in {"HITL_REQUIRED", "PENDING"}
  /\ sheet' = [sheet EXCEPT ![r] = [pc |-> "open", seen |-> task.log.reports, of |-> task.log.of]]
  /\ UNCHANGED << task, row, audit, ai, readings, decisions, untouched, raced, lost >>

Offered(r) == { e \in Edits : e.out \cup DOMAIN e.move \subseteq DOMAIN sheet[r].seen }

(* preview_score_with_edits: nothing is stored. (Here the reviewer closes   *)
(* the job after a preview; deciding takes no preview.)                     *)
Preview(r, e) ==
  /\ sheet[r].pc = "open" /\ e \in Offered(r)
  /\ sheet' = [sheet EXCEPT ![r] = [pc |-> "shown", only |-> e = [NoEdit EXCEPT !.out = e.out],
                                    score |-> Rescored(ApplyEdits(task.log.reports, e))]]
  /\ UNCHANGED << task, row, audit, ai, readings, decisions, untouched, raced, lost >>

(* submit_hitl_override reads the job.                                      *)
Submit(r, e, verdict, grade) ==
  /\ sheet[r].pc = "open" /\ e \in Offered(r) /\ decisions < MaxDecisions
  /\ verdict # "APPROVE" => grade = "NONE"
  /\ sheet' = [sheet EXCEPT ![r] =
                 [pc |-> "scoring", seen |-> sheet[r].seen, edit |-> e, verdict |-> verdict,
                  grade |-> grade, read |-> task, same |-> sheet[r].of = task.log.of]]
  /\ decisions' = decisions + 1
  /\ UNCHANGED << task, row, audit, ai, readings, untouched, raced, lost >>

(* What the request knows: the reports after its edits, its grade and score.*)
Reports(q) == IF q.edit = NoEdit THEN q.read.log.reports ELSE ApplyEdits(q.read.log.reports, q.edit)
Grade(q) ==
  IF q.verdict = "REJECT" THEN "REJECT"
  ELSE IF q.grade = "NONE" THEN q.read.log.suggested ELSE q.grade
Base(q) == IF q.edit = NoEdit THEN q.read.score ELSE Rescored(Reports(q))

(* Mutant of Final: the score that was computed is kept.                    *)
FinalAsComputed(q) == Base(q)

(* clamp_ubci_score_to_grade, in whatever case the grade is written; a grade*)
(* it does not know leaves the score as it is, or missing.                  *)
Known(grade) == Upper[grade] \in DOMAIN Bands
Clamped(score, grade) == IF Known(grade) THEN ClampToGrade(score, Upper[grade]) ELSE score

Final(q) == IF q.verdict = "RE_CHECK" THEN Base(q) ELSE Clamped(Base(q), Grade(q))

Status(q) ==
  CASE q.verdict = "APPROVE" -> "APPROVED" [] q.verdict = "REJECT" -> "REJECTED"
    [] OTHER -> "PENDING"

(* A column is written only if its value differs from what was read.        *)
Saved(read, new, current) == IF new = read THEN current ELSE new

(* The stock row of a decision: zone E, or on sale under the grade it names. *)
Discarded == {"REJECT", "POOR", "DISCARD"}
DecidedRow(grade, score) ==
  IF grade \in Discarded THEN StockRow("REJECTED", "REJECT", score, "HITL")
  ELSE StockRow("IN_STOCK", grade, score, "HITL")

(* The first commit, inside assign_rack_location_after_inspection.          *)
Settle(r) ==
  LET q == sheet[r] IN
  /\ q.pc = "scoring"
  /\ task' = [status |-> Saved(q.read.status, Status(q), task.status),
              score |-> Saved(q.read.score, Final(q), task.score),
              log |-> Saved(q.read.log, [q.read.log EXCEPT !.reports = Reports(q)], task.log)]
  /\ row' = IF q.verdict = "RE_CHECK" THEN row
            ELSE DecidedRow(Grade(q), Final(q))
  /\ ai' = IF q.verdict = "RE_CHECK" /\ ai.pc = "idle" /\ readings < MaxReadings
           THEN [pc |-> "reading"] ELSE ai
  /\ sheet' = [sheet EXCEPT ![r] = [pc |-> "settled", seen |-> q.seen, reports |-> Reports(q),
                                    verdict |-> q.verdict, grade |-> q.grade]]
  /\ untouched' = FALSE /\ raced' = (raced \/ task # q.read \/ ai.pc # "idle")
  /\ UNCHANGED << audit, readings, decisions, lost >>

(* Mutant of Evidence: the boxes as the reviewer's screen showed them.      *)
EvidenceAsSeen(r) == Boxes(sheet[r].seen)

Evidence(r) == Boxes(sheet[r].reports)

Entry(status, boxes) == [status |-> status, boxes |-> boxes]

NotesGrade(r) == task' = [task EXCEPT !.log.target = sheet[r].grade]
Leaves(r) == sheet' = [sheet EXCEPT ![r] = IF sheet[r].verdict = "APPROVE" THEN [pc |-> "queued"]
                                           ELSE Closed]

Overtaken(r) == \/ task.log.reports # sheet[r].reports
                \/ \E t \in Reviewers \ {r} : sheet[t].pc = "settled"

(* Mutant of Finish: only what was put into stock is logged.                *)
LogsApprovals(r) ==
  /\ sheet[r].pc = "settled"
  /\ audit' = IF task.status = "APPROVED"
              THEN Entry(task.status, Evidence(r)) ELSE audit
  /\ NotesGrade(r) /\ Leaves(r)
  /\ raced' = (raced \/ Overtaken(r))
  /\ UNCHANGED << row, ai, readings, decisions, untouched, lost >>

(* The second commit: the named grade and the audit log.                    *)
Finish(r) ==
  /\ sheet[r].pc = "settled"
  /\ audit' = Entry(task.status, Evidence(r))
  /\ NotesGrade(r) /\ Leaves(r)
  /\ raced' = (raced \/ Overtaken(r))
  /\ UNCHANGED << row, ai, readings, decisions, untouched, lost >>

(* The process dies, or another item of the same request is refused, or the *)
(* certificate fails: what was committed stays.                             *)
Abandon(r) ==
  /\ sheet[r].pc # "closed"
  /\ sheet' = [sheet EXCEPT ![r] = Closed]
  /\ lost' = lost \cup CASE sheet[r].pc = "settled" -> {"audit", "certificate"}
                       [] sheet[r].pc \in {"queued", "drawing"} -> {"certificate"}
                       [] OTHER -> {}
  /\ UNCHANGED << task, row, audit, ai, readings, decisions, untouched, raced >>

(* generate_hitl_certificate reads the job, ...                             *)
DrawUp(r) ==
  /\ sheet[r].pc = "queued"
  /\ sheet' = [sheet EXCEPT ![r] = [pc |-> "drawing", read |-> task]]
  /\ UNCHANGED << task, row, audit, ai, readings, decisions, untouched, raced, lost >>

(* Mutant of Certificate: the grade that the AI suggested.                  *)
CertificateAsSuggested(t) ==
  [score |-> t.score, grade |-> t.log.suggested,
   listed |-> { i \in DOMAIN t.log.reports : ~t.log.reports[i].suspect }]

(* A book without a score has 100 points, a reviewer who named no grade has *)
(* NORMAL noted, and what he excluded is listed with the rest.              *)
Certificate(t) ==
  [score |-> IF t.score = NoScore THEN 100 ELSE t.score,
   grade |-> IF t.log.target = "NONE" THEN "NORMAL" ELSE t.log.target,
   listed |-> { i \in DOMAIN t.log.reports : ~t.log.reports[i].suspect }]

(* ... and writes its log as it was, with the certificate.                  *)
Certify(r) ==
  LET read == sheet[r].read IN
  /\ sheet[r].pc = "drawing"
  /\ task' = [task EXCEPT !.log = [read.log EXCEPT !.certificate = Certificate(read)]]
  /\ sheet' = [sheet EXCEPT ![r] = Closed]
  /\ raced' = (raced \/ task.log # read.log \/ task.score # read.score)
  /\ lost' = lost \cup IF task.log.reports # read.log.reports THEN {"reports"} ELSE {}
  /\ UNCHANGED << row, audit, ai, readings, decisions, untouched >>

(* A preview stores nothing: what others do while one is shown can as well  *)
(* be done after it.                                                        *)
ReviewNext ==
  \/ \E r \in Reviewers : sheet[r].pc = "shown" /\ Abandon(r)
  \/ /\ \A r \in Reviewers : sheet[r].pc # "shown"
     /\ \/ Reinspect \/ AiActs \/ AiSaves \/ Recall
        \/ \E r \in Reviewers :
             \/ Open(r) \/ Settle(r) \/ Finish(r) \/ DrawUp(r) \/ Certify(r) \/ Abandon(r)
             \/ sheet[r].pc = "open" /\ \E e \in Edits :
                  \/ Preview(r, e)
                  \/ \E verdict \in Verdicts, grade \in Grades \cup {"NONE"} : Submit(r, e, verdict, grade)

-----------------------------------------------------------------------------
(* Properties *)

Scores == {NoScore} \cup 0..100

ReviewTypeOK ==
  /\ task.status \in {"HITL_REQUIRED", "PENDING", "APPROVED", "REJECTED"}
  /\ task.score \in Scores /\ task.log.suggested \in DOMAIN Bands
  /\ row.status \in {"HITL_PENDING", "IN_STOCK", "REJECTED"}
  /\ row.score \in Scores /\ row.grade \in Grades \cup DOMAIN Bands \cup {"PENDING"}
  /\ readings \in 1..MaxReadings + 1 /\ decisions \in 0..MaxDecisions
  /\ task.log.target \in Grades \cup {"NONE"} /\ task.log.certificate.score \in Scores
  /\ {untouched, raced} \subseteq BOOLEAN /\ lost \subseteq {"audit", "certificate", "reports"}
  /\ \A r \in Reviewers :
       sheet[r].pc \in {"closed", "open", "shown", "scoring", "settled", "queued", "drawing"}

(* What a human decided is told alike by the job and by the stock: the same *)
(* score, within the band of its grade if that is one of the four (in       *)
(* whatever case), and a rejected book not on sale, after recalls and       *)
(* earlier decisions, unless requests overlapped.  (A grade may also put an *)
(* approved book aside; its score is then not bound.)                       *)
StockTellsDecision ==
  ~raced /\ row.source = "HITL" /\ task.status \in {"APPROVED", "REJECTED"} =>
    /\ row.score = task.score
    /\ Known(row.grade) /\ (row.status = "IN_STOCK" \/ task.status = "REJECTED")
       => /\ Bands[Upper[row.grade]][1] <= row.score
          /\ row.score <= Bands[Upper[row.grade]][2]
    /\ row.status = "IN_STOCK" => task.status = "APPROVED"

(* A book that nobody has decided on since the AI read it has a score in    *)
(* stock, though the AI may have failed, unless requests overlapped.        *)
UndecidedIsScored == untouched /\ ~raced => row.score # NoScore

(* The newest audit log tells the decision that stands, unless the request  *)
(* was lost between its commits, or is still there, or requests overlapped.  *)
DecisionIsAudited ==
  "audit" \notin lost /\ ~raced /\ ~Deciding /\ row.source = "HITL" /\ task.status \in {"APPROVED", "REJECTED"} =>
    audit # NoAudit /\ audit.status = task.status

(* The certificate a customer gets with the book tells the score it is sold *)
(* with if it has one, the grade the reviewer named if the book is on sale, *)
(* and every flaw that was not ruled out, after earlier decisions and their *)
(* late certificates.                                                       *)
CertificateTellsDecision ==
  LET c == task.log.certificate  reports == task.log.reports IN
  /\ "certificate" \notin lost /\ ~raced /\ ~Deciding
  /\ \A r \in Reviewers : sheet[r].pc \notin {"queued", "drawing"}
  /\ row.source = "HITL" /\ task.status = "APPROVED"
  => /\ row.score # NoScore => c.score = row.score
     /\ task.log.target # "NONE" /\ row.status = "IN_STOCK" => c.grade = row.grade
     /\ { i \in DOMAIN reports : ~reports[i].suspect /\ ~reports[i].excluded } \subseteq c.listed

(* A reviewer excludes the report he saw, whatever other reviewers did to   *)
(* the list in the meantime, unless the AI has read the book again or       *)
(* earlier requests on the job overlapped: the later of two writes its list *)
(* over what the other has added.                                           *)
ExcludesWhatWasSeen ==
  [][\A r \in Reviewers :
       sheet[r].pc = "scoring" /\ sheet'[r].pc = "settled" /\ sheet[r].same /\ ~raced =>
         \A i \in sheet[r].edit.out :
           /\ sheet'[r].reports[i].excluded
           /\ sheet'[r].reports[i].type = sheet[r].seen[i].type
           /\ sheet'[r].reports[i].image = sheet[r].seen[i].image]_reviewVars

(* What was found to be no flaw is not taught as one: no later decision on  *)
(* the same reading hands an excluded report to the training data, unless   *)
(* requests overlapped.                                                     *)
ExcludedIsNotTaught ==
  [][~raced' /\ audit' # audit =>
       \A b \in Exported(audit') : ~task.log.reports[b.at].excluded]_reviewVars

(* A reviewer who only rules reports out is not shown a lower score than    *)
(* the AI gave (for a workbook whose writing would cost more than the cap,  *)
(* which is lost: than it would have given without the cap), except for     *)
(* reports that a late certificate brought back.                            *)
RulingOutNeverCosts ==
  [][\A r \in Reviewers :
       sheet[r].pc = "open" /\ sheet'[r].pc = "shown" /\ sheet'[r].only /\ untouched /\ "reports" \notin lost =>
         LET all == AsRead(task.log.reports) IN
         sheet'[r].score >= IF IsWorkbook /\ DoodleDeduction(all, FALSE) > WorkbookCap
                            THEN Score(all, FALSE) ELSE task.score]_reviewVars

(* Job, stock row, audit log and certificate tell one decision, though they *)
(* are committed apart.                                                     *)
DecisionIsTold ==
  /\ ReviewTypeOK /\ UndecidedIsScored
  /\ StockTellsDecision /\ DecisionIsAudited /\ CertificateTellsDecision

(* What a reviewer does to the list of reports has the effect he saw: on    *)
(* the reports, on the score, and on what is taught.                        *)
EditsMeanWhatTheyShow == ExcludesWhatWasSeen /\ ExcludedIsNotTaught /\ RulingOutNeverCosts
=============================================================================
