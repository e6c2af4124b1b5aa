---------------------------- MODULE VerdictProofs ---------------------------
(***************************************************************************)
(* Proofs about a verdict on a book and the evidence for it: the judgement *)
(* graph, for any number of pictures, defects and runs and whatever the LLM*)
(* answers; the attachments, which are neither served unscanned nor lost   *)
(* (Uploads); and the places a decision of a reviewer is written to, which *)
(* tell the same, by edits that mean what they showed (Review).            *)
(***************************************************************************)
EXTENDS Judgement, Evidence, GradingProofs, SequenceTheorems

-----------------------------------------------------------------------------
(* The verdict: the inductive invariant *)

Flaws(ds) == IsFiniteSet(ds) /\ ds \subseteq FlawType

LEMMA FlawsAreChargeable ==
  ASSUME NEW ds, Flaws(ds)
  PROVE  ChargeableSet(ds)
BY DEF Flaws, FlawType, ChargeableSet, Chargeable

FlawsAreTyped == Flaws(st.defects) /\ Flaws(scored)

(* Without a reading in this run there are no reports, and no way to pass.  *)
NothingRead == up /\ Images > 0 /\ ~looked

UnreadNeverPasses ==
  /\ ~looked => st.defects = {}
  /\ looked => Images > 0
  /\ NothingRead /\ node = "policy" => st.failed
  /\ NothingRead /\ node = "critic" => st.score = NoScore
  /\ NothingRead /\ node \in {"supervisor", "report"} => st.reason # "OK"
  /\ NothingRead /\ node = "end" => st.reason = "AWAITING_HUMAN"

(* Two equal boxes in two pictures are marked, or the detector's.           *)
Grounded(ds, candidates) ==
  \A d, e \in ds :
    HasBox(d) /\ ~d.ungrounded /\ e.box = d.box /\ e.image # d.image =>
      FromDetector(d, candidates) \/ FromDetector(e, candidates)

TwinsAreMarked ==
  /\ Grounded(st.defects, st.candidates)
  /\ node = "detector" => st.defects = {}

(* A ruling that stands was corrected.                                      *)
RulingIsCorrected ==
  st.ruling.status = "OK" =>
    st.ruling.cited /\ ~(st.ruling.bearer = "CUSTOMER" /\ st.ruling.liability = "UNDETERMINED")

(* A certificate of this run exists only at the end of a run that passed.   *)
CertificateIsDated ==
  /\ st.certificate.run \in Nat /\ st.certificate.run <= run
  /\ node \notin {"idle", "end"} => st.certificate.run < run
  /\ node = "end" /\ st.reason = "AWAITING_HUMAN" => st.certificate.run < run

(* The score is of the reports that are there, the ruling of this score.    *)
ScoreCharged ==
  /\ st.defects = scored /\ st.score = Score(scored, Workbook)
  /\ st.ruling.status = "OK" => scored # {}

Passed == ScoreCharged /\ Sound(st.defects, Images, st.score) /\ st.reason = "OK"

Issued ==
  /\ Passed /\ st.decision = "ISSUE_REPORT" /\ ~NoPictureRead
  /\ st.certificate = NewCertificate
  /\ st.refund <=> st.mint = "YES" /\ st.score >= 95

PassedIsCharged ==
  /\ node = "critic" /\ st.score # NoScore => ScoreCharged
  /\ node = "supervisor" =>
       /\ st.reason \in { "OK", "REJECT", "MAX_RETRIES", "BOUNDARY", "HUMAN_REQUIRED" }
       /\ st.reason = "OK" => Passed
  /\ node = "report" => Passed /\ st.decision = "ISSUE_REPORT" /\ ~NoPictureRead
  /\ node = "end" => st.reason = "AWAITING_HUMAN" \/ Issued

JudgementInv ==
  /\ GraphTypeOK /\ FlawsAreTyped /\ UnreadNeverPasses /\ TwinsAreMarked
  /\ RulingIsCorrected /\ CertificateIsDated /\ PassedIsCharged

-----------------------------------------------------------------------------
(* A reading *)

LEMMA UprightType ==
  ASSUME NEW b \in BoxType
  PROVE  Upright(b) \in BoxType
BY DEF BoxType, Upright, Least, Most

LEMMA ReportedType ==
  ASSUME NEW found, Flaws(found)
  PROVE  Flaws(Reported(found))
<1> DEFINE f == [d \in found |-> [d EXCEPT !.box = IF HasBox(d) THEN Upright(@) ELSE @]]
<1>1. Reported(found) = { f[d] : d \in found }
  BY DEF Reported
<1>2. IsFiniteSet(Reported(found))
  <2> HIDE DEF f
  <2> QED
    BY <1>1, ImageIsFinite DEF Flaws
<1>3. ASSUME NEW d \in found PROVE f[d] \in FlawType
  <2>1. d \in FlawType
    BY DEF Flaws
  <2>2. PICK b \in {NoBox} \cup BoxType : b = IF HasBox(d) THEN Upright(d.box) ELSE d.box
    <3>1. d.box \in {NoBox} \cup BoxType
      BY <2>1 DEF FlawType
    <3>2. QED
      BY <3>1, UprightType DEF HasBox
  <2>3. f[d] = [d EXCEPT !.box = b]
    BY <2>2
  <2>4. QED
    BY <2>1, <2>3 DEF FlawType
<1>4. QED
  BY <1>1, <1>2, <1>3 DEF Flaws

(* What is flagged and dismissed differs from the report in its marks only. *)
Marked(d, m) ==
  /\ m.box = d.box /\ m.image = d.image /\ m \in FlawType

LEMMA FlaggedFacts ==
  ASSUME NEW reports, Flaws(reports)
  PROVE  /\ Flaws(Flagged(reports))
         /\ \A m \in Flagged(reports) : \E d \in reports :
              Marked(d, m) /\ (Ungrounded(d, reports, st.candidates) => m.ungrounded)
<1> DEFINE copied(d) == Copied(d, reports, st.candidates) \/ d.copied
           invented(d) == Ungrounded(d, reports, st.candidates) \/ d.ungrounded
           f == [d \in reports |-> [d EXCEPT !.copied = copied(d), !.ungrounded = invented(d)]]
<1>1. Flagged(reports) = { f[d] : d \in reports }
  BY DEF Flagged
<1>2. IsFiniteSet(Flagged(reports))
  <2> HIDE DEF f
  <2> QED
    BY <1>1, ImageIsFinite DEF Flaws
<1>3. ASSUME NEW d \in reports
      PROVE  Marked(d, f[d]) /\ (Ungrounded(d, reports, st.candidates) => f[d].ungrounded)
  <2>1. d \in FlawType
    BY DEF Flaws
  <2>2. PICK a \in BOOLEAN : a = copied(d)
    <3>1. d.copied \in BOOLEAN
      BY <2>1 DEF FlawType
    <3>2. Copied(d, reports, st.candidates) \in BOOLEAN
      BY DEF Copied
    <3>3. QED
      BY <3>1, <3>2
  <2>3. PICK b \in BOOLEAN : b = invented(d)
    <3>1. d.ungrounded \in BOOLEAN
      BY <2>1 DEF FlawType
    <3>2. Ungrounded(d, reports, st.candidates) \in BOOLEAN
      BY DEF Ungrounded
    <3>3. QED
      BY <3>1, <3>2
  <2>4. Ungrounded(d, reports, st.candidates) => b
    BY <2>3
  <2> HIDE DEF copied, invented
  <2>5. f[d] = [d EXCEPT !.copied = a, !.ungrounded = b]
    BY <2>2, <2>3
  <2> HIDE DEF f
  <2>6. QED
    BY <2>1, <2>4, <2>5 DEF FlawType, Marked
<1>4. QED
  <2> HIDE DEF f
  <2>1. \A m \in Flagged(reports) : \E d \in reports : m = f[d]
    BY <1>1
  <2>2. Flagged(reports) \subseteq FlawType
    BY <1>3, <2>1 DEF Marked
  <2>3. QED
    BY <1>2, <1>3, <2>1, <2>2 DEF Flaws

LEMMA DismissedFacts ==
  ASSUME NEW ds, Flaws(ds), NEW no
  PROVE  /\ Flaws(Dismissed(ds, no))
         /\ \A m \in Dismissed(ds, no) : \E d \in ds : Marked(d, m) /\ m.ungrounded = d.ungrounded
<1> DEFINE f == [d \in ds |-> [d EXCEPT !.suspect = @ \/ d \in no]]
<1>1. Dismissed(ds, no) = { f[d] : d \in ds }
  BY DEF Dismissed
<1>2. IsFiniteSet(Dismissed(ds, no))
  <2> HIDE DEF f
  <2> QED
    BY <1>1, ImageIsFinite DEF Flaws
<1>3. ASSUME NEW d \in ds
      PROVE  Marked(d, f[d]) /\ f[d].ungrounded = d.ungrounded
  <2>1. d \in FlawType
    BY DEF Flaws
  <2>2. PICK a \in BOOLEAN : a = (d.suspect \/ d \in no)
    BY <2>1 DEF FlawType
  <2>3. f[d] = [d EXCEPT !.suspect = a]
    BY <2>2
  <2> HIDE DEF f
  <2>4. QED
    BY <2>1, <2>3 DEF FlawType, Marked
<1>4. QED
  <2> HIDE DEF f
  <2>1. \A m \in Dismissed(ds, no) : \E d \in ds : m = f[d]
    BY <1>1
  <2>2. Dismissed(ds, no) \subseteq FlawType
    BY <1>3, <2>1 DEF Marked
  <2>3. QED
    BY <1>2, <1>3, <2>1, <2>2 DEF Flaws

(* After a reading, a box in two pictures is marked or the detector's.      *)
LEMMA PictureReadingFacts ==
  ASSUME NEW reports, Flaws(reports), NEW no
  PROVE  LET read == Dismissed(Flagged(Kept(reports)), no)
         IN  Flaws(read) /\ Grounded(read, st.candidates) /\ (reports = {} => read = {})
<1> DEFINE kept == Kept(reports)
           flagged == Flagged(kept)
           read == Dismissed(flagged, no)
<1>1. Flaws(kept) /\ (reports = {} => kept = {})
  BY FS_Subset DEF Flaws, Kept
<1> HIDE DEF kept
<1>2. /\ Flaws(flagged)
      /\ \A m \in flagged : \E d \in kept :
           Marked(d, m) /\ (Ungrounded(d, kept, st.candidates) => m.ungrounded)
  BY <1>1, FlaggedFacts
<1>3. kept = {} => flagged = {}
  BY DEF Flagged
<1> HIDE DEF flagged
<1>4. /\ Flaws(read)
      /\ \A m \in read : \E d \in flagged : Marked(d, m) /\ m.ungrounded = d.ungrounded
  BY <1>2, DismissedFacts
<1>5. flagged = {} => read = {}
  BY DEF Dismissed
<1> HIDE DEF read
<1>6. ASSUME NEW m \in read, NEW n \in read,
             HasBox(m), ~m.ungrounded, n.box = m.box, n.image # m.image,
             ~FromDetector(m, st.candidates), ~FromDetector(n, st.candidates)
      PROVE  FALSE
  <2>1. PICK d \in kept : /\ d.box = m.box /\ d.image = m.image
                          /\ Ungrounded(d, kept, st.candidates) => m.ungrounded
    BY <1>2, <1>4 DEF Marked
  <2>2. PICK e \in kept : e.box = n.box /\ e.image = n.image
    BY <1>2, <1>4 DEF Marked
  <2>3. HasBox(d) /\ HasBox(e)
    BY <1>6, <2>1, <2>2 DEF HasBox
  <2>4. ~FromDetector(d, st.candidates) /\ ~FromDetector(e, st.candidates)
    BY <1>6, <2>1, <2>2 DEF FromDetector
  <2>5. e.box = d.box /\ e.image # d.image
    BY <1>6, <2>1, <2>2
  <2>6. Ungrounded(d, kept, st.candidates)
    BY <2>3, <2>4, <2>5 DEF Ungrounded
  <2>7. QED
    BY <1>6, <2>1, <2>6
<1>7. Grounded(read, st.candidates)
  BY <1>6 DEF Grounded
<1>8. QED
  BY <1>1, <1>3, <1>4, <1>5, <1>7 DEF kept, flagged, read

-----------------------------------------------------------------------------
(* What each step does to the state of the graph *)

Same(fields) == \A k \in fields : st'[k] = st[k]

LEMMA Shape ==
  ASSUME GraphTypeOK
  PROVE  DOMAIN st = { "mint", "defects", "invalid", "failed", "candidates", "score", "ruling",
                       "reason", "revision", "decision", "refund", "certificate" }
BY DEF GraphTypeOK, Blank

LEMMA InvokeFacts ==
  ASSUME GraphTypeOK, Invoke
  PROVE  /\ node \in {"idle", "end"} /\ node' = "detector" /\ run < MaxRuns /\ run' = run + 1
         /\ up' = up /\ looked' = FALSE /\ scored' = {} /\ DOMAIN st' = DOMAIN st
         /\ st'.mint = "NONE" /\ st'.defects = {} /\ st'.score = NoScore
         /\ st'.reason = "NONE" /\ st'.revision = 0
         /\ Same({"invalid", "failed", "candidates", "ruling", "decision", "refund", "certificate"})
BY Shape DEF Invoke, Resumed, Same

LEMMA DetectorFacts ==
  ASSUME GraphTypeOK, Detector
  PROVE  /\ node = "detector" /\ node' = "vision" /\ DOMAIN st' = DOMAIN st
         /\ UNCHANGED << run, up, looked, scored >>
         /\ Same({"mint", "defects", "invalid", "failed", "score", "ruling", "reason", "revision",
                  "decision", "refund", "certificate"})
BY Shape DEF Detector, Same

(* A reading of some reports: by the reader, or of those that are there.    *)
ReadsSome(reports) ==
  /\ Flaws(reports)
  /\ st'.mint \in {"YES", "NO"} /\ st'.invalid \subseteq 0..(Images - 1)
  /\ \E no : st'.defects = Dismissed(Flagged(Kept(reports)), no)
  /\ DOMAIN st' = DOMAIN st
  /\ Same({"failed", "candidates", "score", "ruling", "reason", "revision", "decision", "refund",
           "certificate"})

LEMMA ReadFacts ==
  ASSUME GraphTypeOK, NEW mint \in {"YES", "NO"}, NEW reports, Flaws(reports),
         NEW invalid \in SUBSET (0..(Images - 1)), Read(mint, reports, invalid)
  PROVE  ReadsSome(reports)
<1>1. PICK no : st' = [st EXCEPT !.mint = mint, !.invalid = invalid,
                                 !.defects = Dismissed(Flagged(Kept(reports)), no)]
  BY DEF Read
<1>2. PICK read : read = Dismissed(Flagged(Kept(reports)), no)
  OBVIOUS
<1>3. st' = [st EXCEPT !.mint = mint, !.invalid = invalid, !.defects = read]
  BY <1>1, <1>2
<1>4. st'.defects = read
  BY <1>3, Shape
<1>5. \E n : st'.defects = Dismissed(Flagged(Kept(reports)), n)
  BY <1>2, <1>4
<1>6. QED
  BY <1>3, <1>5, Shape DEF ReadsSome, Same

LEMMA VisionReadsFacts ==
  ASSUME GraphTypeOK, VisionReads
  PROVE  /\ node = "vision" /\ node' = "policy" /\ looked' = TRUE
         /\ UNCHANGED << run, up, scored >>
         /\ \E reports : ReadsSome(reports)
<1>1. PICK mint \in {"YES", "NO"}, found \in SUBSET Defects, invalid \in Unreadable :
        /\ IsFiniteSet(found)
        /\ \E hits \in HitsOutside(invalid) :
             Read(IF hits = {} THEN mint ELSE "NO", WithHits(found, hits), invalid)
  BY DEF VisionReads
<1>2. PICK hits \in Hits : Read(IF hits = {} THEN mint ELSE "NO", WithHits(found, hits), invalid)
  BY <1>1 DEF HitsOutside
<1>3. Flaws(WithHits(found, hits))
  <2>1. Flaws(found) /\ Flaws(hits)
    BY <1>1, JudgementAssumption DEF Flaws
  <2>2. Flaws(Reported(found))
    BY <2>1, ReportedType
  <2>3. QED
    BY <2>1, <2>2, FS_Union DEF WithHits, Flaws
<1>4. invalid \in SUBSET (0..(Images - 1)) /\ (IF hits = {} THEN mint ELSE "NO") \in {"YES", "NO"}
  BY JudgementAssumption
<1>5. ReadsSome(WithHits(found, hits))
  BY <1>2, <1>3, <1>4, ReadFacts
<1>6. QED
  BY <1>5 DEF VisionReads

LEMMA VisionFailsFacts ==
  ASSUME GraphTypeOK, VisionFails
  PROVE  /\ node = "vision" /\ node' = "policy" /\ DOMAIN st' = DOMAIN st
         /\ UNCHANGED << run, up, looked, scored >>
         /\ st'.mint = "NONE" /\ st'.defects = {} /\ st'.failed = TRUE
         /\ Same({"invalid", "candidates", "score", "ruling", "reason", "revision", "decision",
                  "refund", "certificate"})
BY Shape DEF VisionFails, Same

LEMMA VisionSkipsFacts ==
  ASSUME GraphTypeOK, FlawsAreTyped, VisionSkips
  PROVE  /\ node = "vision" /\ node' = "policy" /\ ~CanRead
         /\ UNCHANGED << run, up, looked, scored >>
         /\ ReadsSome(st.defects)
<1>1. (IF st.defects = {} THEN "YES" ELSE "NO") \in {"YES", "NO"}
        /\ {} \in SUBSET (0..(Images - 1)) /\ Flaws(st.defects)
  BY DEF FlawsAreTyped
<1>2. Read(IF st.defects = {} THEN "YES" ELSE "NO", st.defects, {})
  BY DEF VisionSkips
<1>3. ReadsSome(st.defects)
  BY <1>1, <1>2, ReadFacts
<1>4. QED
  BY <1>3 DEF VisionSkips

LEMMA PolicySkipsFacts ==
  ASSUME GraphTypeOK, PolicySkips
  PROVE  /\ node = "policy" /\ st.failed /\ node' = "critic" /\ DOMAIN st' = DOMAIN st
         /\ UNCHANGED << run, up, looked, scored >>
         /\ st'.score = NoScore
         /\ Same({"mint", "defects", "invalid", "failed", "candidates", "ruling", "reason",
                  "revision", "decision", "refund", "certificate"})
BY Shape DEF PolicySkips, Same

(* A ruling that stands is cited, and lets nobody pay who is not liable.    *)
Corrected(r) ==
  r.status = "OK" => r.cited /\ ~(r.bearer = "CUSTOMER" /\ r.liability = "UNDETERMINED")

LEMMA RulingFacts ==
  ASSUME NEW answer \in RulingType
  PROVE  Corrected(Ruling(answer))
<1> DEFINE open == answer.liability = "UNDETERMINED"
<1>1. PICK human \in BOOLEAN : human = (answer.human \/ open)
  BY DEF RulingType
<1>2. PICK bearer : bearer = IF open /\ answer.bearer = "CUSTOMER" THEN "NULL" ELSE answer.bearer
  OBVIOUS
<1> DEFINE settled == [answer EXCEPT !.bearer = bearer, !.human = human]
<1>3. Ruling(answer) =
        IF answer.status # "OK" THEN Unruled(answer.status)
        ELSE IF answer.cited THEN settled
        ELSE [settled EXCEPT !.accepted = "NULL", !.bearer = "NULL", !.human = TRUE, !.status = "UNCITED"]
  BY <1>1, <1>2 DEF Ruling
<1>4. CASE answer.status # "OK"
  BY <1>3, <1>4 DEF Unruled, NoRuling, Corrected
<1>5. CASE answer.status = "OK" /\ answer.cited
  <2>1. /\ settled.cited = answer.cited /\ settled.liability = answer.liability
        /\ settled.bearer = bearer
    BY DEF RulingType
  <2>2. ~(bearer = "CUSTOMER" /\ open)
    BY <1>2
  <2>3. QED
    BY <1>3, <1>5, <2>1, <2>2 DEF Corrected
<1>6. CASE answer.status = "OK" /\ ~answer.cited
  <2>1. Ruling(answer).status = "UNCITED"
    BY <1>3, <1>6 DEF RulingType
  <2>2. QED
    BY <2>1 DEF Corrected
<1>7. QED
  BY <1>4, <1>5, <1>6

LEMMA PolicyScoresFacts ==
  ASSUME GraphTypeOK, PolicyScores
  PROVE  /\ node = "policy" /\ ~st.failed /\ node' = "critic" /\ DOMAIN st' = DOMAIN st
         /\ UNCHANGED << run, up, looked >>
         /\ scored' = st.defects /\ st'.score = Score(st.defects, Workbook)
         /\ st'.reason = "NONE" /\ Corrected(st'.ruling)
         /\ st'.ruling.status = "OK" => st.defects # {}
         /\ Same({"mint", "defects", "invalid", "failed", "candidates", "revision", "decision",
                  "refund", "certificate"})
<1>1. PICK ruling \in IF st.defects = {} THEN {NoRuling} ELSE { Ruling(a) : a \in Rulings } :
        st' = [st EXCEPT !.score = Score(st.defects, Workbook), !.ruling = ruling, !.reason = "NONE"]
  BY DEF PolicyScores
<1>2. Corrected(ruling) /\ (ruling.status = "OK" => st.defects # {})
  <2>1. CASE st.defects = {}
    BY <1>1, <2>1 DEF NoRuling, Corrected
  <2>2. CASE st.defects # {}
    BY <1>1, <2>2, RulingFacts, JudgementAssumption
  <2>3. QED
    BY <2>1, <2>2
<1>3. st'.ruling = ruling
  BY <1>1, Shape
<1>4. QED
  BY <1>1, <1>2, <1>3, Shape DEF PolicyScores, Same

LEMMA CriticSaysFacts ==
  ASSUME GraphTypeOK, CriticSays
  PROVE  /\ node = "critic" /\ node' = "supervisor" /\ DOMAIN st' = DOMAIN st
         /\ UNCHANGED << run, up, looked, scored >>
         /\ st'.reason \in {"OK", "MAX_RETRIES", "BOUNDARY", "HUMAN_REQUIRED"}
         /\ st'.reason = "OK" => Consistent /\ st.score # NoScore
         /\ Same({"mint", "defects", "invalid", "failed", "candidates", "score", "ruling",
                  "revision", "decision", "refund", "certificate"})
<1>1. PICK reason : st' = [st EXCEPT !.reason = reason] /\ reason = Finding
  BY DEF CriticSays
<1>2. reason = "OK" => Consistent /\ ~Exhausted
  BY <1>1 DEF Finding
<1>3. reason \in {"OK", "MAX_RETRIES", "BOUNDARY", "HUMAN_REQUIRED"}
  BY <1>1 DEF Finding
<1>4. QED
  BY <1>1, <1>2, <1>3, Shape DEF CriticSays, Same

LEMMA CriticRetriesFacts ==
  ASSUME GraphTypeOK, CriticRetries
  PROVE  /\ node = "critic" /\ node' = "supervisor" /\ DOMAIN st' = DOMAIN st
         /\ UNCHANGED << run, up, looked, scored >>
         /\ st'.reason = "REJECT" /\ st.revision < 2 /\ st'.revision = st.revision + 1
         /\ st'.failed = FALSE
         /\ Same({"mint", "defects", "invalid", "candidates", "score", "ruling", "decision",
                  "refund", "certificate"})
<1>1. st.revision \in 0..2
  BY DEF GraphTypeOK
<1>2. QED
  BY <1>1, Shape DEF CriticRetries, Exhausted, Same

LEMMA CriticRejectsFacts ==
  ASSUME GraphTypeOK, CriticRejects
  PROVE  /\ node = "critic" /\ node' = "supervisor" /\ DOMAIN st' = DOMAIN st
         /\ UNCHANGED << run, up, looked, scored >>
         /\ st'.reason = "REJECT" /\ st.revision < 2 /\ st'.revision = st.revision + 1
         /\ st'.defects = {}
         /\ Same({"mint", "invalid", "failed", "candidates", "score", "ruling", "decision",
                  "refund", "certificate"})
<1>1. st.revision \in 0..2
  BY DEF GraphTypeOK
<1>2. ~Exhausted
  BY DEF CriticRejects, Finding
<1>3. QED
  BY <1>1, <1>2, Shape DEF CriticRejects, Exhausted, Same

LEMMA SupervisorFacts ==
  ASSUME GraphTypeOK, Supervisor
  PROVE  /\ node = "supervisor" /\ node' = Route(Ruled) /\ DOMAIN st' = DOMAIN st
         /\ UNCHANGED << run, up, looked, scored >>
         /\ st'.decision = Ruled
         /\ Same({"defects", "invalid", "failed", "candidates", "ruling", "revision", "certificate"})
         /\ NoPictureRead => /\ st'.score = NoScore /\ st'.mint = "NO" /\ st'.refund = FALSE
                             /\ st'.reason = "NO_VALID_IMAGE"
         /\ ~NoPictureRead => Same({"mint", "score", "refund", "reason"})
<1>1. PICK decision : decision = Ruled
  OBVIOUS
<1>2. st' = IF NoPictureRead
            THEN [st EXCEPT !.decision = decision, !.score = NoScore, !.mint = "NO",
                            !.refund = FALSE, !.reason = "NO_VALID_IMAGE"]
            ELSE [st EXCEPT !.decision = decision]
  BY <1>1 DEF Supervisor
<1>3. node = "supervisor" /\ node' = Route(Ruled) /\ UNCHANGED << run, up, looked, scored >>
  BY DEF Supervisor
<1>4. CASE NoPictureRead
  BY <1>1, <1>2, <1>3, <1>4, Shape DEF Same
<1>5. CASE ~NoPictureRead
  BY <1>1, <1>2, <1>3, <1>5, Shape DEF Same
<1>6. QED
  BY <1>4, <1>5

LEMMA HumanFacts ==
  ASSUME GraphTypeOK, Human
  PROVE  /\ node = "human" /\ node' = "end" /\ DOMAIN st' = DOMAIN st
         /\ UNCHANGED << run, up, looked, scored >>
         /\ st'.reason = "AWAITING_HUMAN"
         /\ Same({"mint", "defects", "invalid", "failed", "candidates", "score", "ruling",
                  "revision", "decision", "refund", "certificate"})
BY Shape DEF Human, Same

LEMMA ReportFacts ==
  ASSUME GraphTypeOK, Report
  PROVE  /\ node = "report" /\ node' = "end" /\ DOMAIN st' = DOMAIN st
         /\ UNCHANGED << run, up, looked, scored >>
         /\ st'.score = IF st.score = NoScore THEN 100 ELSE st.score
         /\ st'.certificate = NewCertificate
         /\ st'.refund = (st.mint = "YES" /\ st'.score >= 95)
         /\ Same({"mint", "defects", "invalid", "failed", "candidates", "ruling", "reason",
                  "revision", "decision"})
<1>1. PICK score : score = IF st.score = NoScore THEN 100 ELSE st.score
  OBVIOUS
<1>2. PICK refund \in BOOLEAN : refund = (st.mint = "YES" /\ score >= 95)
  OBVIOUS
<1>3. PICK certificate : certificate = NewCertificate
  OBVIOUS
<1>4. st' = [st EXCEPT !.score = score, !.certificate = certificate, !.refund = refund]
  BY <1>1, <1>2, <1>3 DEF Report
<1>5. QED
  BY <1>1, <1>2, <1>3, <1>4, Shape DEF Report, Same

-----------------------------------------------------------------------------
(* Every step keeps the invariant *)

(* Types. *)
LEMMA TypeStep ==
  ASSUME JudgementInv, [GraphNext]_graphVars
  PROVE  GraphTypeOK'
<1> USE DEF Same
<1>1. GraphTypeOK /\ FlawsAreTyped
  BY DEF JudgementInv
<1>2. CASE Invoke
  <2>1. run \in 0..MaxRuns /\ run < MaxRuns /\ run' = run + 1 /\ MaxRuns \in Nat
    BY <1>1, <1>2, InvokeFacts, JudgementAssumption DEF GraphTypeOK
  <2>2. run' \in 0..MaxRuns
    BY <2>1
  <2>3. /\ st'.invalid = st.invalid /\ st'.failed = st.failed /\ st'.refund = st.refund
        /\ st'.decision = st.decision /\ st'.certificate = st.certificate
        /\ DOMAIN st' = DOMAIN st
    BY <1>1, <1>2, InvokeFacts
  <2>4. /\ st'.mint = "NONE" /\ st'.score = NoScore /\ st'.reason = "NONE" /\ st'.revision = 0
        /\ node' = "detector" /\ up' = up /\ looked' = FALSE
    BY <1>1, <1>2, InvokeFacts
  <2>5. node' \in Nodes /\ looked' \in BOOLEAN /\ up' \in BOOLEAN
    BY <1>1, <2>4 DEF GraphTypeOK, Nodes
  <2>6. st'.mint \in Mints /\ st'.reason \in Reasons /\ st'.decision \in Decisions
    BY <1>1, <2>3, <2>4 DEF GraphTypeOK, Mints, Reasons
  <2>7. st'.score \in {NoScore} \cup 0..100 /\ st'.revision \in 0..2
    BY <2>4
  <2>8. st'.invalid \subseteq 0..(Images - 1) /\ {st'.failed, st'.refund} \subseteq BOOLEAN
    BY <1>1, <2>3 DEF GraphTypeOK
  <2>9. DOMAIN st' = DOMAIN Blank /\ DOMAIN st'.certificate = DOMAIN BlankCertificate
    BY <1>1, <2>3 DEF GraphTypeOK
  <2>10. QED
    BY <2>2, <2>5, <2>6, <2>7, <2>8, <2>9 DEF GraphTypeOK
<1>3. CASE Restart
  <2>1. st' = Blank /\ run' = run /\ node' = "idle" /\ up' \in BOOLEAN /\ looked' = FALSE
    BY <1>3 DEF Restart
  <2>2. /\ st'.mint = "NONE" /\ st'.reason = "NONE" /\ st'.decision = "NONE" /\ st'.invalid = {}
        /\ st'.score = NoScore /\ st'.revision = 0 /\ st'.failed = FALSE /\ st'.refund = FALSE
        /\ st'.certificate = BlankCertificate /\ DOMAIN st' = DOMAIN Blank
    BY <2>1 DEF Blank
  <2>3. node' \in Nodes /\ run' \in 0..MaxRuns /\ looked' \in BOOLEAN
    BY <1>1, <2>1 DEF GraphTypeOK, Nodes
  <2>4. st'.mint \in Mints /\ st'.reason \in Reasons /\ st'.decision \in Decisions
    BY <2>2 DEF Mints, Reasons, Decisions
  <2>5. st'.score \in {NoScore} \cup 0..100 /\ st'.revision \in 0..2
    BY <2>2
  <2>6. st'.invalid \subseteq 0..(Images - 1) /\ {st'.failed, st'.refund} \subseteq BOOLEAN
    BY <2>2
  <2>7. QED
    BY <2>1, <2>2, <2>3, <2>4, <2>5, <2>6 DEF GraphTypeOK
<1>4. CASE Detector
  BY <1>1, <1>4, DetectorFacts
  DEF GraphTypeOK, Nodes, Mints, Reasons, Decisions, NoScore, BlankCertificate
<1>5. CASE VisionReads
  <2>1. PICK reports : ReadsSome(reports)
    BY <1>1, <1>5, VisionReadsFacts
  <2>2. QED
    BY <1>1, <1>5, <2>1, VisionReadsFacts
    DEF ReadsSome, GraphTypeOK, Nodes, Mints, Reasons, Decisions, NoScore, BlankCertificate
<1>6. CASE VisionFails
  BY <1>1, <1>6, VisionFailsFacts
  DEF GraphTypeOK, Nodes, Mints, Reasons, Decisions, NoScore, BlankCertificate
<1>7. CASE VisionSkips
  <2>1. ReadsSome(st.defects)
    BY <1>1, <1>7, VisionSkipsFacts
  <2>2. QED
    BY <1>1, <1>7, <2>1, VisionSkipsFacts
    DEF ReadsSome, GraphTypeOK, Nodes, Mints, Reasons, Decisions, NoScore, BlankCertificate
<1>8. CASE PolicySkips
  BY <1>1, <1>8, PolicySkipsFacts
  DEF GraphTypeOK, Nodes, Mints, Reasons, Decisions, NoScore, BlankCertificate
<1>9. CASE PolicyScores
  <2>1. Score(st.defects, Workbook) \in 0..100
    BY <1>1, FlawsAreChargeable, ScoreIsBounded, JudgementAssumption DEF FlawsAreTyped
  <2>2. QED
    BY <1>1, <1>9, <2>1, PolicyScoresFacts
    DEF GraphTypeOK, Nodes, Mints, Reasons, Decisions, NoScore, BlankCertificate
<1>10. CASE CriticSays
  BY <1>1, <1>10, CriticSaysFacts
  DEF GraphTypeOK, Nodes, Mints, Reasons, Decisions, NoScore, BlankCertificate
<1>11. CASE CriticRetries
  <2>1. st.revision \in 0..2 /\ st.revision < 2 /\ st'.revision = st.revision + 1
    BY <1>1, <1>11, CriticRetriesFacts DEF GraphTypeOK
  <2>2. st'.revision \in 0..2
    BY <2>1
  <2>3. QED
    BY <1>1, <1>11, <2>2, CriticRetriesFacts
    DEF GraphTypeOK, Nodes, Mints, Reasons, Decisions, NoScore, BlankCertificate
<1>12. CASE CriticRejects
  BY <1>1, <1>12, CriticRejectsFacts
  DEF GraphTypeOK, Nodes, Mints, Reasons, Decisions, NoScore, BlankCertificate
<1>13. CASE Supervisor
  BY <1>1, <1>13, SupervisorFacts
  DEF GraphTypeOK, Nodes, Mints, Reasons, Decisions, NoScore, BlankCertificate, Ruled, Route
<1>14. CASE Human
  BY <1>1, <1>14, HumanFacts DEF GraphTypeOK, Nodes, Mints, Reasons, Decisions, NoScore, BlankCertificate
<1>15. CASE Report
  <2>1. st'.score \in {NoScore} \cup 0..100 /\ st'.refund \in BOOLEAN
    <3>1. st'.score = IF st.score = NoScore THEN 100 ELSE st.score
      BY <1>1, <1>15, ReportFacts
    <3>2. st.score \in {NoScore} \cup 0..100
      BY <1>1 DEF GraphTypeOK
    <3>3. st'.refund = (st.mint = "YES" /\ st'.score >= 95)
      BY <1>1, <1>15, ReportFacts
    <3>4. QED
      BY <3>1, <3>2, <3>3
  <2>2. DOMAIN st'.certificate = DOMAIN BlankCertificate
    BY <1>1, <1>15, ReportFacts DEF NewCertificate, BlankCertificate
  <2>3. QED
    BY <1>1, <1>15, <2>1, <2>2, ReportFacts
    DEF GraphTypeOK, Nodes, Mints, Reasons, Decisions, NoScore, BlankCertificate
<1>16. CASE UNCHANGED graphVars
  BY <1>1, <1>16 DEF graphVars, GraphTypeOK, Nodes, Mints, Reasons, Decisions, NoScore, BlankCertificate
<1>17. QED
  BY <1>2, <1>3, <1>4, <1>5, <1>6, <1>7, <1>8, <1>9, <1>10, <1>11, <1>12, <1>13, <1>14, <1>15,
      <1>16 DEF GraphNext, Step


LEMMA FlawsStep ==
  ASSUME JudgementInv, [GraphNext]_graphVars
  PROVE  FlawsAreTyped'
<1> USE DEF Same
<1>1. GraphTypeOK /\ FlawsAreTyped
  BY DEF JudgementInv
<1>2. CASE Invoke
  BY <1>1, <1>2, InvokeFacts, FS_EmptySet DEF FlawsAreTyped, Flaws
<1>3. CASE Restart
  BY <1>1, <1>3, FS_EmptySet DEF FlawsAreTyped, Restart, Blank, NoRuling, BlankCertificate, Flaws
<1>4. CASE Detector
  BY <1>1, <1>4, DetectorFacts DEF FlawsAreTyped
<1>5. CASE VisionReads
  <2>1. PICK reports : ReadsSome(reports)
    BY <1>1, <1>5, VisionReadsFacts
  <2>2. PICK no : st'.defects = Dismissed(Flagged(Kept(reports)), no)
    BY <2>1 DEF ReadsSome
  <2>3. /\ Flaws(st'.defects) /\ Grounded(st'.defects, st.candidates)
        /\ reports = {} => st'.defects = {}
    BY <2>1, <2>2, PictureReadingFacts DEF ReadsSome
  <2>4. QED
    BY <1>1, <1>5, <2>1, <2>3, VisionReadsFacts DEF ReadsSome, FlawsAreTyped
<1>6. CASE VisionFails
  BY <1>1, <1>6, VisionFailsFacts, FS_EmptySet DEF FlawsAreTyped, Flaws
<1>7. CASE VisionSkips
  <2>1. ReadsSome(st.defects)
    BY <1>1, <1>7, VisionSkipsFacts
  <2>2. PICK no : st'.defects = Dismissed(Flagged(Kept(st.defects)), no)
    BY <2>1 DEF ReadsSome
  <2>3. /\ Flaws(st'.defects) /\ Grounded(st'.defects, st.candidates)
        /\ st.defects = {} => st'.defects = {}
    BY <2>1, <2>2, PictureReadingFacts DEF ReadsSome
  <2>4. QED
    BY <1>1, <1>7, <2>1, <2>3, VisionSkipsFacts DEF ReadsSome, FlawsAreTyped
<1>8. CASE PolicySkips
  BY <1>1, <1>8, PolicySkipsFacts DEF FlawsAreTyped
<1>9. CASE PolicyScores
  BY <1>1, <1>9, PolicyScoresFacts DEF FlawsAreTyped
<1>10. CASE CriticSays
  BY <1>1, <1>10, CriticSaysFacts DEF FlawsAreTyped
<1>11. CASE CriticRetries
  BY <1>1, <1>11, CriticRetriesFacts DEF FlawsAreTyped
<1>12. CASE CriticRejects
  BY <1>1, <1>12, CriticRejectsFacts, FS_EmptySet DEF FlawsAreTyped, Flaws
<1>13. CASE Supervisor
  BY <1>1, <1>13, SupervisorFacts DEF FlawsAreTyped
<1>14. CASE Human
  BY <1>1, <1>14, HumanFacts DEF FlawsAreTyped
<1>15. CASE Report
  BY <1>1, <1>15, ReportFacts DEF FlawsAreTyped
<1>16. CASE UNCHANGED graphVars
  BY <1>1, <1>16 DEF graphVars, FlawsAreTyped
<1>17. QED
  BY <1>2, <1>3, <1>4, <1>5, <1>6, <1>7, <1>8, <1>9, <1>10, <1>11, <1>12, <1>13, <1>14, <1>15,
      <1>16 DEF GraphNext, Step


LEMMA UnreadStep ==
  ASSUME JudgementInv, [GraphNext]_graphVars
  PROVE  UnreadNeverPasses'
<1> USE DEF Same
<1>1. GraphTypeOK /\ FlawsAreTyped /\ UnreadNeverPasses /\ PassedIsCharged
  BY DEF JudgementInv
<1>2. CASE Invoke
  BY <1>1, <1>2, InvokeFacts DEF UnreadNeverPasses, NothingRead
<1>3. CASE Restart
  BY <1>1, <1>3 DEF UnreadNeverPasses, NothingRead, Restart, Blank, NoRuling, BlankCertificate
<1>4. CASE Detector
  BY <1>1, <1>4, DetectorFacts DEF UnreadNeverPasses, NothingRead
<1>5. CASE VisionReads
  BY <1>1, <1>5, VisionReadsFacts DEF VisionReads, CanRead, UnreadNeverPasses, NothingRead
<1>6. CASE VisionFails
  <2>1. node' = "policy" /\ st'.failed /\ st'.defects = {} /\ looked' = looked
    BY <1>1, <1>6, VisionFailsFacts
  <2>2. QED
    BY <1>1, <2>1 DEF UnreadNeverPasses
<1>7. CASE VisionSkips
  <2>1. ReadsSome(st.defects)
    BY <1>1, <1>7, VisionSkipsFacts
  <2>2. PICK no : st'.defects = Dismissed(Flagged(Kept(st.defects)), no)
    BY <2>1 DEF ReadsSome
  <2>3. /\ Flaws(st'.defects) /\ Grounded(st'.defects, st.candidates)
        /\ st.defects = {} => st'.defects = {}
    BY <2>1, <2>2, PictureReadingFacts DEF ReadsSome
  <2>4. QED
    BY <1>1, <1>7, <2>1, <2>3, VisionSkipsFacts DEF ReadsSome, UnreadNeverPasses, NothingRead, CanRead
<1>8. CASE PolicySkips
  BY <1>1, <1>8, PolicySkipsFacts DEF UnreadNeverPasses, NothingRead
<1>9. CASE PolicyScores
  BY <1>1, <1>9, PolicyScoresFacts DEF UnreadNeverPasses, NothingRead
<1>10. CASE CriticSays
  BY <1>1, <1>10, CriticSaysFacts DEF UnreadNeverPasses, NothingRead
<1>11. CASE CriticRetries
  BY <1>1, <1>11, CriticRetriesFacts DEF UnreadNeverPasses, NothingRead
<1>12. CASE CriticRejects
  BY <1>1, <1>12, CriticRejectsFacts DEF UnreadNeverPasses, NothingRead
<1>13. CASE Supervisor
  BY <1>1, <1>13, SupervisorFacts DEF UnreadNeverPasses, NothingRead, Ruled, Route
<1>14. CASE Human
  BY <1>1, <1>14, HumanFacts DEF UnreadNeverPasses, NothingRead
<1>15. CASE Report
  BY <1>1, <1>15, ReportFacts DEF UnreadNeverPasses, NothingRead, PassedIsCharged, Passed
<1>16. CASE UNCHANGED graphVars
  BY <1>1, <1>16 DEF graphVars, UnreadNeverPasses, NothingRead
<1>17. QED
  BY <1>2, <1>3, <1>4, <1>5, <1>6, <1>7, <1>8, <1>9, <1>10, <1>11, <1>12, <1>13, <1>14, <1>15,
      <1>16 DEF GraphNext, Step


LEMMA TwinsStep ==
  ASSUME JudgementInv, [GraphNext]_graphVars
  PROVE  TwinsAreMarked'
<1> USE DEF Same
<1>1. GraphTypeOK /\ FlawsAreTyped /\ TwinsAreMarked
  BY DEF JudgementInv
<1>2. CASE Invoke
  BY <1>1, <1>2, InvokeFacts DEF TwinsAreMarked, Grounded
<1>3. CASE Restart
  BY <1>1, <1>3 DEF TwinsAreMarked, Grounded, Restart, Blank, NoRuling, BlankCertificate
<1>4. CASE Detector
  BY <1>1, <1>4, DetectorFacts DEF TwinsAreMarked, Grounded
<1>5. CASE VisionReads
  <2>1. PICK reports : ReadsSome(reports)
    BY <1>1, <1>5, VisionReadsFacts
  <2>2. PICK no : st'.defects = Dismissed(Flagged(Kept(reports)), no)
    BY <2>1 DEF ReadsSome
  <2>3. /\ Flaws(st'.defects) /\ Grounded(st'.defects, st.candidates)
        /\ reports = {} => st'.defects = {}
    BY <2>1, <2>2, PictureReadingFacts DEF ReadsSome
  <2>4. QED
    BY <1>1, <1>5, <2>1, <2>3, VisionReadsFacts DEF ReadsSome, TwinsAreMarked
<1>6. CASE VisionFails
  BY <1>1, <1>6, VisionFailsFacts DEF TwinsAreMarked, Grounded
<1>7. CASE VisionSkips
  <2>1. ReadsSome(st.defects)
    BY <1>1, <1>7, VisionSkipsFacts
  <2>2. PICK no : st'.defects = Dismissed(Flagged(Kept(st.defects)), no)
    BY <2>1 DEF ReadsSome
  <2>3. /\ Flaws(st'.defects) /\ Grounded(st'.defects, st.candidates)
        /\ st.defects = {} => st'.defects = {}
    BY <2>1, <2>2, PictureReadingFacts DEF ReadsSome
  <2>4. QED
    BY <1>1, <1>7, <2>1, <2>3, VisionSkipsFacts DEF ReadsSome, TwinsAreMarked
<1>8. CASE PolicySkips
  BY <1>1, <1>8, PolicySkipsFacts DEF TwinsAreMarked, Grounded
<1>9. CASE PolicyScores
  BY <1>1, <1>9, PolicyScoresFacts DEF TwinsAreMarked, Grounded
<1>10. CASE CriticSays
  BY <1>1, <1>10, CriticSaysFacts DEF TwinsAreMarked, Grounded
<1>11. CASE CriticRetries
  BY <1>1, <1>11, CriticRetriesFacts DEF TwinsAreMarked, Grounded
<1>12. CASE CriticRejects
  BY <1>1, <1>12, CriticRejectsFacts DEF TwinsAreMarked, Grounded
<1>13. CASE Supervisor
  BY <1>1, <1>13, SupervisorFacts DEF TwinsAreMarked, Grounded, Route
<1>14. CASE Human
  BY <1>1, <1>14, HumanFacts DEF TwinsAreMarked, Grounded
<1>15. CASE Report
  BY <1>1, <1>15, ReportFacts DEF TwinsAreMarked, Grounded
<1>16. CASE UNCHANGED graphVars
  BY <1>1, <1>16 DEF graphVars, TwinsAreMarked, Grounded
<1>17. QED
  BY <1>2, <1>3, <1>4, <1>5, <1>6, <1>7, <1>8, <1>9, <1>10, <1>11, <1>12, <1>13, <1>14, <1>15,
      <1>16 DEF GraphNext, Step


LEMMA RulingStep ==
  ASSUME JudgementInv, [GraphNext]_graphVars
  PROVE  RulingIsCorrected'
<1> USE DEF Same
<1>1. GraphTypeOK /\ FlawsAreTyped /\ RulingIsCorrected
  BY DEF JudgementInv
<1>2. CASE Invoke
  BY <1>1, <1>2, InvokeFacts DEF RulingIsCorrected
<1>3. CASE Restart
  BY <1>1, <1>3 DEF RulingIsCorrected, Restart, Blank, NoRuling, BlankCertificate
<1>4. CASE Detector
  BY <1>1, <1>4, DetectorFacts DEF RulingIsCorrected
<1>5. CASE VisionReads
  <2>1. PICK reports : ReadsSome(reports)
    BY <1>1, <1>5, VisionReadsFacts
  <2>2. QED
    BY <1>1, <1>5, <2>1, VisionReadsFacts DEF ReadsSome, RulingIsCorrected
<1>6. CASE VisionFails
  BY <1>1, <1>6, VisionFailsFacts DEF RulingIsCorrected
<1>7. CASE VisionSkips
  <2>1. ReadsSome(st.defects)
    BY <1>1, <1>7, VisionSkipsFacts
  <2>2. QED
    BY <1>1, <1>7, <2>1, VisionSkipsFacts DEF ReadsSome, RulingIsCorrected
<1>8. CASE PolicySkips
  BY <1>1, <1>8, PolicySkipsFacts DEF RulingIsCorrected
<1>9. CASE PolicyScores
  BY <1>1, <1>9, PolicyScoresFacts DEF RulingIsCorrected, Corrected
<1>10. CASE CriticSays
  BY <1>1, <1>10, CriticSaysFacts DEF RulingIsCorrected
<1>11. CASE CriticRetries
  BY <1>1, <1>11, CriticRetriesFacts DEF RulingIsCorrected
<1>12. CASE CriticRejects
  BY <1>1, <1>12, CriticRejectsFacts DEF RulingIsCorrected
<1>13. CASE Supervisor
  BY <1>1, <1>13, SupervisorFacts DEF RulingIsCorrected
<1>14. CASE Human
  BY <1>1, <1>14, HumanFacts DEF RulingIsCorrected
<1>15. CASE Report
  BY <1>1, <1>15, ReportFacts DEF RulingIsCorrected
<1>16. CASE UNCHANGED graphVars
  BY <1>1, <1>16 DEF graphVars, RulingIsCorrected
<1>17. QED
  BY <1>2, <1>3, <1>4, <1>5, <1>6, <1>7, <1>8, <1>9, <1>10, <1>11, <1>12, <1>13, <1>14, <1>15,
      <1>16 DEF GraphNext, Step


LEMMA CertificateStep ==
  ASSUME JudgementInv, [GraphNext]_graphVars
  PROVE  CertificateIsDated'
<1> USE DEF Same
<1>1. GraphTypeOK /\ FlawsAreTyped /\ CertificateIsDated /\ PassedIsCharged
  BY DEF JudgementInv
<1>2. CASE Invoke
  <2>1. st.certificate.run \in Nat /\ st.certificate.run <= run /\ run \in Nat
    BY <1>1, JudgementAssumption DEF GraphTypeOK, CertificateIsDated
  <2>2. /\ node' = "detector" /\ run' = run + 1 /\ st'.reason = "NONE"
        /\ st'.certificate = st.certificate
    BY <1>1, <1>2, InvokeFacts
  <2>3. QED
    BY <2>1, <2>2 DEF CertificateIsDated
<1>3. CASE Restart
  BY <1>1, <1>3 DEF CertificateIsDated, Restart, Blank, NoRuling, BlankCertificate, GraphTypeOK
<1>4. CASE Detector
  BY <1>1, <1>4, DetectorFacts DEF CertificateIsDated
<1>5. CASE VisionReads
  <2>1. PICK reports : ReadsSome(reports)
    BY <1>1, <1>5, VisionReadsFacts
  <2>2. QED
    BY <1>1, <1>5, <2>1, VisionReadsFacts DEF ReadsSome, CertificateIsDated
<1>6. CASE VisionFails
  BY <1>1, <1>6, VisionFailsFacts DEF CertificateIsDated
<1>7. CASE VisionSkips
  <2>1. ReadsSome(st.defects)
    BY <1>1, <1>7, VisionSkipsFacts
  <2>2. QED
    BY <1>1, <1>7, <2>1, VisionSkipsFacts DEF ReadsSome, CertificateIsDated
<1>8. CASE PolicySkips
  BY <1>1, <1>8, PolicySkipsFacts DEF CertificateIsDated
<1>9. CASE PolicyScores
  BY <1>1, <1>9, PolicyScoresFacts DEF CertificateIsDated
<1>10. CASE CriticSays
  BY <1>1, <1>10, CriticSaysFacts DEF CertificateIsDated
<1>11. CASE CriticRetries
  BY <1>1, <1>11, CriticRetriesFacts DEF CertificateIsDated
<1>12. CASE CriticRejects
  BY <1>1, <1>12, CriticRejectsFacts DEF CertificateIsDated
<1>13. CASE Supervisor
  BY <1>1, <1>13, SupervisorFacts DEF CertificateIsDated, Route
<1>14. CASE Human
  BY <1>1, <1>14, HumanFacts DEF CertificateIsDated
<1>15. CASE Report
  BY <1>1, <1>15, ReportFacts DEF CertificateIsDated, GraphTypeOK, NewCertificate, PassedIsCharged, Passed
<1>16. CASE UNCHANGED graphVars
  BY <1>1, <1>16 DEF graphVars, CertificateIsDated
<1>17. QED
  BY <1>2, <1>3, <1>4, <1>5, <1>6, <1>7, <1>8, <1>9, <1>10, <1>11, <1>12, <1>13, <1>14, <1>15,
      <1>16 DEF GraphNext, Step


LEMMA PassedStep ==
  ASSUME JudgementInv, [GraphNext]_graphVars
  PROVE  PassedIsCharged'
<1> USE DEF Same
<1>1. GraphTypeOK /\ FlawsAreTyped /\ PassedIsCharged
  BY DEF JudgementInv
<1>2. CASE Invoke
  BY <1>1, <1>2, InvokeFacts DEF PassedIsCharged
<1>3. CASE Restart
  BY <1>1, <1>3 DEF PassedIsCharged, Restart, Blank, NoRuling, BlankCertificate
<1>4. CASE Detector
  BY <1>1, <1>4, DetectorFacts DEF PassedIsCharged
<1>5. CASE VisionReads
  BY <1>1, <1>5, VisionReadsFacts DEF PassedIsCharged
<1>6. CASE VisionFails
  BY <1>1, <1>6, VisionFailsFacts DEF PassedIsCharged
<1>7. CASE VisionSkips
  BY <1>1, <1>7, VisionSkipsFacts DEF PassedIsCharged
<1>8. CASE PolicySkips
  BY <1>1, <1>8, PolicySkipsFacts DEF PassedIsCharged
<1>9. CASE PolicyScores
  BY <1>1, <1>9, PolicyScoresFacts DEF PassedIsCharged, ScoreCharged
<1>10. CASE CriticSays
  BY <1>1, <1>10, CriticSaysFacts DEF PassedIsCharged, ScoreCharged, Passed, Consistent
<1>11. CASE CriticRetries
  BY <1>1, <1>11, CriticRetriesFacts DEF PassedIsCharged
<1>12. CASE CriticRejects
  BY <1>1, <1>12, CriticRejectsFacts DEF PassedIsCharged
<1>13. CASE Supervisor
  <2>1. CASE Ruled = "ISSUE_REPORT"
    <3>1. ~NoPictureRead /\ st.reason = "OK"
      BY <1>1, <1>13, <2>1, SupervisorFacts DEF Ruled, PassedIsCharged
    <3>2. Passed' /\ ~NoPictureRead'
      BY <1>1, <1>13, <3>1, SupervisorFacts DEF PassedIsCharged, Passed, ScoreCharged, NoPictureRead
    <3>3. QED
      BY <1>1, <1>13, <2>1, <3>2, SupervisorFacts DEF PassedIsCharged, Route
  <2>2. CASE Ruled # "ISSUE_REPORT"
    BY <1>1, <1>13, <2>2, SupervisorFacts DEF PassedIsCharged, Route, Ruled
  <2>3. QED
    BY <2>1, <2>2
<1>14. CASE Human
  BY <1>1, <1>14, HumanFacts DEF PassedIsCharged
<1>15. CASE Report
  <2>1. Passed /\ st.decision = "ISSUE_REPORT" /\ ~NoPictureRead
    BY <1>1, <1>15, ReportFacts DEF PassedIsCharged
  <2>2. Score(scored, Workbook) \in 0..100
    BY <1>1, FlawsAreChargeable, ScoreIsBounded, JudgementAssumption DEF FlawsAreTyped
  <2>3. st'.score = st.score
    BY <1>1, <1>15, <2>1, <2>2, ReportFacts DEF Passed, ScoreCharged, NoScore
  <2>4. Issued'
    BY <1>1, <1>15, <2>1, <2>3, ReportFacts
    DEF Issued, Passed, ScoreCharged, NoPictureRead, NewCertificate
  <2>5. QED
    BY <1>1, <1>15, <2>4, ReportFacts DEF PassedIsCharged
<1>16. CASE UNCHANGED graphVars
  BY <1>1, <1>16 DEF graphVars, PassedIsCharged, ScoreCharged, Passed, Issued, NoPictureRead, NewCertificate
<1>17. QED
  BY <1>2, <1>3, <1>4, <1>5, <1>6, <1>7, <1>8, <1>9, <1>10, <1>11, <1>12, <1>13, <1>14, <1>15,
      <1>16 DEF GraphNext, Step

LEMMA InvInit == GraphInit => JudgementInv
<1> SUFFICES ASSUME GraphInit PROVE JudgementInv
  OBVIOUS
<1>1. /\ node = "idle" /\ st = Blank /\ run = 0 /\ up \in BOOLEAN
      /\ looked = FALSE /\ scored = {}
  BY DEF GraphInit
<1>2. /\ st.mint = "NONE" /\ st.reason = "NONE" /\ st.decision = "NONE" /\ st.invalid = {}
      /\ st.score = NoScore /\ st.revision = 0 /\ st.failed = FALSE /\ st.refund = FALSE
      /\ st.defects = {} /\ st.ruling = NoRuling /\ st.certificate = BlankCertificate
  BY <1>1 DEF Blank
<1>3. GraphTypeOK
  <2>1. run \in 0..MaxRuns /\ st.score \in {NoScore} \cup 0..100 /\ st.revision \in 0..2
    BY <1>1, <1>2, JudgementAssumption
  <2>2. node \in Nodes /\ looked \in BOOLEAN
    BY <1>1 DEF Nodes
  <2>3. st.mint \in Mints /\ st.reason \in Reasons /\ st.decision \in Decisions
    BY <1>2 DEF Mints, Reasons, Decisions
  <2>4. st.invalid \subseteq 0..(Images - 1) /\ {st.failed, st.refund} \subseteq BOOLEAN
    BY <1>2
  <2>5. QED
    BY <1>1, <1>2, <2>1, <2>2, <2>3, <2>4 DEF GraphTypeOK
<1>4. FlawsAreTyped
  BY <1>1, <1>2, FS_EmptySet DEF FlawsAreTyped, Flaws
<1>5. UnreadNeverPasses /\ TwinsAreMarked /\ PassedIsCharged
  BY <1>1, <1>2 DEF UnreadNeverPasses, TwinsAreMarked, Grounded, PassedIsCharged
<1>6. RulingIsCorrected /\ CertificateIsDated
  BY <1>1, <1>2 DEF RulingIsCorrected, NoRuling, CertificateIsDated, BlankCertificate
<1>7. QED
  BY <1>3, <1>4, <1>5, <1>6 DEF JudgementInv

(* The graph keeps its invariant: the state it checkpoints is well formed,  *)
(* what passed the critic was read in this run and charged as it stands,    *)
(* a ruling that stands was corrected, and a certificate is of the run that *)
(* passed.                                                                  *)
THEOREM JudgementInvariant == GraphSpec => []JudgementInv
<1>1. GraphInit => JudgementInv
  BY InvInit
<1>2. JudgementInv /\ [GraphNext]_graphVars => JudgementInv'
  BY TypeStep, FlawsStep, UnreadStep, TwinsStep, RulingStep, CertificateStep, PassedStep
  DEF JudgementInv
<1>3. QED
  BY <1>1, <1>2, PTL DEF GraphSpec

-----------------------------------------------------------------------------
(* What the invariant says of a verdict *)

LEMMA SettledIsIssued ==
  ASSUME JudgementInv, MachineSaid
  PROVE  Ended /\ Issued
<1>1. node = "end" /\ st.reason # "AWAITING_HUMAN"
  BY DEF MachineSaid, Ended, Verdict
<1>2. QED
  BY <1>1 DEF JudgementInv, PassedIsCharged, Ended

LEMMA ApprovedIsIssued ==
  ASSUME JudgementInv, Approved
  PROVE  Ended /\ Issued /\ (st.mint = "YES" \/ st.score >= 70)
<1>1. MachineSaid
  BY DEF Approved, MachineSaid
<1>2. QED
  BY <1>1, SettledIsIssued DEF Approved, Verdict

LEMMA IssuedScore ==
  ASSUME JudgementInv, Issued
  PROVE  st.score \in 0..100 /\ ((\A d \in scored : d.suspect) => st.score = 100)
<1>1. Flaws(scored) /\ Workbook \in BOOLEAN
  BY JudgementAssumption DEF JudgementInv, FlawsAreTyped
<1>2. st.score = Score(scored, Workbook)
  BY DEF Issued, Passed, ScoreCharged
<1>3. QED
  BY <1>1, <1>2, FlawsAreChargeable, ScoreIsBounded

LEMMA VerdictFromInv == JudgementInv => VerdictIsFounded
<1> SUFFICES ASSUME JudgementInv PROVE VerdictIsFounded
  OBVIOUS
<1>1. GraphTypeOK
  BY DEF JudgementInv
<1>2. ApprovalIsRead
  <2> SUFFICES ASSUME up, Images > 0, Approved PROVE looked /\ ~NoPictureRead
    BY DEF ApprovalIsRead
  <2>1. Ended /\ Issued
    BY ApprovedIsIssued
  <2>2. st.reason = "OK" /\ ~NoPictureRead
    BY <2>1 DEF Issued, Passed
  <2>3. looked
    BY <2>1, <2>2 DEF JudgementInv, UnreadNeverPasses, NothingRead, Ended
  <2>4. QED
    BY <2>2, <2>3
<1>3. InventedNeverSettled
  <2> SUFFICES ASSUME MachineSaid, NEW d \in scored
               PROVE  /\ HasBox(d) /\ d.image \in 0..(Images - 1)
                      /\ \A e \in scored :
                           e.box = d.box /\ e.image # d.image =>
                             FromDetector(d, st.candidates) \/ FromDetector(e, st.candidates)
    BY DEF InventedNeverSettled
  <2>1. Issued
    BY SettledIsIssued
  <2>2. st.defects = scored /\ Sound(st.defects, Images, st.score)
    BY <2>1 DEF Issued, Passed, ScoreCharged
  <2>3. HasBox(d) /\ ~d.ungrounded /\ (Images > 0 => d.image \in 0..(Images - 1))
    BY <2>2 DEF Sound
  <2>4. Images > 0
    BY <2>2 DEF JudgementInv, UnreadNeverPasses
  <2>5. \A e \in scored : e.box = d.box /\ e.image # d.image =>
          FromDetector(d, st.candidates) \/ FromDetector(e, st.candidates)
    BY <2>2, <2>3 DEF JudgementInv, TwinsAreMarked, Grounded
  <2>6. QED
    BY <2>3, <2>4, <2>5
<1>4. DismissalIsNoVerdict
  <2> SUFFICES ASSUME MachineSaid, scored # {} PROVE \E d \in scored : ~d.suspect
    BY DEF DismissalIsNoVerdict
  <2>1. Issued
    BY SettledIsIssued
  <2>2. st.score # 100
    BY <2>1 DEF Issued, Passed, ScoreCharged, Sound
  <2>3. QED
    BY <2>1, <2>2, IssuedScore
<1>5. VerdictOfLastReading
  BY SettledIsIssued DEF VerdictOfLastReading, Issued, Passed, ScoreCharged
<1>6. QED
  BY <1>1, <1>2, <1>3, <1>4, <1>5 DEF VerdictIsFounded

LEMMA PromisesFromInv == JudgementInv => PromisesAreFounded
<1> SUFFICES ASSUME JudgementInv PROVE PromisesAreFounded
  OBVIOUS
<1>1. GradeFollowsScore
  <2> SUFFICES ASSUME Approved
               PROVE  \/ FinalGrade = GradeOf(st.score) /\ FinalGrade # "REJECT"
                      \/ st.mint = "YES" /\ scored # {}
    BY DEF GradeFollowsScore
  <2>1. Issued /\ (st.mint = "YES" \/ st.score >= 70)
    BY ApprovedIsIssued
  <2>2. st.score \in 0..100
    BY <2>1, IssuedScore
  <2>3. CASE st.mint # "YES"
    BY <2>1, <2>2, <2>3, GradeOfScore DEF FinalGrade
  <2>4. CASE st.mint = "YES" /\ scored = {}
    <3>1. st.score >= 100
      BY <2>1, <2>4 DEF Issued, Passed, ScoreCharged, Sound
    <3>2. QED
      BY <2>2, <2>4, <3>1, GradeOfScore DEF FinalGrade
  <2>5. QED
    BY <2>3, <2>4
<1>2. NoticeIsBinding
  <2> SUFFICES ASSUME Ended, st.certificate.run = run, st.certificate.notice
               PROVE  /\ scored # {} /\ st.ruling.cited
                      /\ ~(st.ruling.bearer = "CUSTOMER" /\ st.ruling.liability = "UNDETERMINED")
    BY DEF NoticeIsBinding
  <2>1. node = "end" /\ st.reason # "AWAITING_HUMAN"
    BY JudgementAssumption DEF Ended, JudgementInv, CertificateIsDated, GraphTypeOK
  <2>2. Issued
    BY <2>1 DEF JudgementInv, PassedIsCharged
  <2>3. st.ruling.status = "OK"
    <3>1. NewCertificate.notice = (st.ruling.status = "OK" /\ st.ruling.accepted # "NULL")
      BY DEF NewCertificate
    <3>2. NewCertificate.notice
      BY <2>2 DEF Issued
    <3>3. QED
      BY <3>1, <3>2
  <2>4. QED
    BY <2>2, <2>3 DEF Issued, Passed, ScoreCharged, JudgementInv, RulingIsCorrected
<1>3. RefundIsOfThisRun
  <2> SUFFICES ASSUME Approved, st.refund
               PROVE  st.certificate.run = run /\ st.mint = "YES" /\ st.score >= 95
    BY DEF RefundIsOfThisRun
  <2>1. Issued
    BY ApprovedIsIssued
  <2>2. QED
    BY <2>1 DEF Issued, NewCertificate
<1>4. QED
  BY <1>1, <1>2, <1>3 DEF PromisesAreFounded

(* A verdict of the graph rests on a reading that was made in this run, of  *)
(* boxes that can have been seen, and on nothing an earlier reading, a      *)
(* failed one or an earlier inspection has left in the checkpoint.          *)
THEOREM VerdictsAreFounded == GraphSpec => []VerdictIsFounded
BY JudgementInvariant, VerdictFromInv, PTL

(* The grade of a book that is approved is what its score is worth, the     *)
(* notice to the customer comes from a binding clause, and a refund from a  *)
(* certificate of this run for a score that is mint.                        *)
THEOREM PromisesStand == GraphSpec => []PromisesAreFounded
BY JudgementInvariant, PromisesFromInv, PTL

-----------------------------------------------------------------------------
(* Uploads: the inductive invariant *)

FormType == [owner : Users, ext : Attachable, open : BOOLEAN]
FileType == Files \cup {NoFile}
CallType == [pc : {"idle", "get", "copy", "clear", "drop"}, key : Keys \cup {"NONE"}, size : 0..MaxBytes]

UploadTypes ==
  /\ form \in [Keys -> FormType \cup {NoForm}] /\ call \in [Calls -> CallType]
  /\ held \in [Keys -> FileType] /\ clean \in [Keys -> FileType] /\ sent \in [Keys -> FileType]
  /\ told \subseteq Keys /\ resent \subseteq Keys /\ swapped \subseteq resent

(* A key without a form is empty; the quarantine holds what was sent last,  *)
(* if anything, and nothing larger than the policy admits.                  *)
QuarantineIsLast ==
  \A k \in Keys :
    /\ form[k] = NoForm => sent[k] = NoFile /\ clean[k] = NoFile
    /\ held[k] \in {sent[k], NoFile} /\ sent[k].size <= MaxBytes

(* What a verification under way goes by: the size it has read, the verdict *)
(* it is about to act on, and the copy it has made.                         *)
VerdictHolds(c) ==
  LET k == call[c].key IN
  /\ k \in Keys /\ form[k] # NoForm
  /\ call[c].pc = "clear" => clean[k] # NoFile
  /\ call[c].pc = "copy" /\ k \notin swapped => Passes(sent[k], form[k].ext, sent[k].size)
  /\ k \notin resent =>
       /\ sent[k].size = call[c].size /\ sent[k] # NoFile
       /\ call[c].pc = "drop"  => ~Passes(sent[k], form[k].ext, sent[k].size)
       /\ call[c].pc = "clear" => clean[k] = sent[k]

VerdictsHold == \A c \in Calls : call[c].pc # "idle" => VerdictHolds(c)

UploadsInv ==
  /\ UploadTypes /\ QuarantineIsLast /\ VerdictsHold
  /\ ServedWasScanned /\ ToldIsServed /\ PromotionLosesNothing

-----------------------------------------------------------------------------
(* Uploads: lemmas *)

LEMMA FilesAreNoNoFile ==
  /\ MaxBytes \in Nat /\ NoFile.size = 0
  /\ \A f \in Files : f # NoFile /\ f.size \in Nat
<1>1. DOMAIN NoFile = {"size"} /\ NoFile.size = 0
  BY DEF NoFile
<1>2. \A f \in Files : "sig" \in DOMAIN f /\ f.size \in Nat
  BY UploadsAssumption
<1>3. QED
  BY <1>1, <1>2 DEF MaxBytes, MiB

LEMMA FormIsNoNoForm == \A f \in FormType : f # NoForm
BY UploadsAssumption DEF FormType, NoForm

LEMMA HarmlessPasses ==
  ASSUME NEW f \in Files, NEW ext, Harmless(f, ext), ~(ext = "txt" /\ f.cut)
  PROVE  Passes(f, ext, f.size)
<1> DEFINE g == [f EXCEPT !.cut = FALSE]
<1>1. DOMAIN f = { "sig", "plain", "cut", "size", "zip", "macro", "active", "pixels", "tail" }
  BY UploadsAssumption
<1>2. /\ g.sig = f.sig /\ g.plain = f.plain /\ g.size = f.size /\ g.zip = f.zip /\ g.macro = f.macro
      /\ g.active = f.active /\ g.pixels = f.pixels /\ g.tail = f.tail
  BY <1>1
<1>3. /\ SignatureFits(g, ext) <=> SignatureFits(f, ext)
      /\ NoMacro(g, ext) <=> NoMacro(f, ext)
      /\ ArchiveIsSafe(g, ext) <=> ArchiveIsSafe(f, ext)
      /\ IsPassive(g, ext) <=> IsPassive(f, ext)
      /\ PixelsFit(g, ext) <=> PixelsFit(f, ext)
      /\ NoPayload(g, ext) <=> NoPayload(f, ext)
  BY <1>2 DEF SignatureFits, NoMacro, ArchiveIsSafe, IsPassive, PixelsFit, NoPayload
<1>4. IsPlain(g, ext) => IsPlain(f, ext)
  BY <1>2 DEF IsPlain
<1>5. QED
  BY <1>2, <1>3, <1>4 DEF Harmless, Passes

LEMMA UploadsStart == Init => UploadsInv
<1> SUFFICES ASSUME Init PROVE UploadsInv
  OBVIOUS
<1>1. MaxBytes \in Nat /\ NoFile.size = 0
  BY FilesAreNoNoFile
<1>2. Idle \in CallType
  BY <1>1 DEF CallType, Idle
<1>3. UploadTypes
  BY <1>2 DEF Init, UploadTypes, FileType
<1>4. QuarantineIsLast
  BY <1>1 DEF Init, QuarantineIsLast
<1>5. VerdictsHold
  BY DEF Init, VerdictsHold, Idle
<1>6. ServedWasScanned /\ ToldIsServed /\ PromotionLosesNothing
  BY DEF Init, ServedWasScanned, ToldIsServed, PromotionLosesNothing
<1>7. QED
  BY <1>3, <1>4, <1>5, <1>6 DEF UploadsInv

-----------------------------------------------------------------------------
(* Uploads: the forms and what they let in *)

LEMMA PresignKeeps ==
  ASSUME UploadsInv, NEW u \in Users, NEW k \in Keys, Presign(u, k)
  PROVE  UploadsInv'
<1>1. /\ UploadTypes /\ QuarantineIsLast /\ VerdictsHold
      /\ ServedWasScanned /\ ToldIsServed /\ PromotionLosesNothing
  BY DEF UploadsInv
<1>2. PICK new \in FormType : form' = [form EXCEPT ![k] = new]
  <2>1. PICK name \in Names :
          /\ Named(name, Attachable) # Refused
          /\ form' = [form EXCEPT ![k] = [owner |-> u, ext |-> Named(name, Attachable), open |-> TRUE]]
    BY DEF Presign
  <2>2. PICK ext \in Attachable : ext = Named(name, Attachable)
    BY <2>1 DEF Named
  <2> DEFINE new == [owner |-> u, ext |-> ext, open |-> TRUE]
  <2>3. new \in FormType /\ form' = [form EXCEPT ![k] = new]
    BY <2>1, <2>2 DEF FormType
  <2>4. QED
    BY <2>3
<1>3. /\ form[k] = NoForm /\ held' = held /\ clean' = clean /\ call' = call
      /\ told' = told /\ sent' = sent /\ resent' = resent /\ swapped' = swapped
  BY DEF Presign
<1>4. UploadTypes'
  BY <1>1, <1>2, <1>3 DEF UploadTypes
<1>5. \A j \in Keys : j # k => form'[j] = form[j]
  BY <1>1, <1>2 DEF UploadTypes
<1>6. form'[k] # NoForm /\ sent[k] = NoFile /\ clean[k] = NoFile
  BY <1>1, <1>2, <1>3, FormIsNoNoForm DEF UploadTypes, QuarantineIsLast
<1>7. QuarantineIsLast'
  BY <1>1, <1>3, <1>5, <1>6 DEF QuarantineIsLast
<1>8. VerdictsHold'
  <2> SUFFICES ASSUME NEW c \in Calls, call[c].pc # "idle" PROVE VerdictHolds(c)'
    BY <1>3 DEF VerdictsHold
  <2>1. VerdictHolds(c)
    BY <1>1 DEF VerdictsHold
  <2>2. call[c].key # k
    BY <1>3, <2>1 DEF VerdictHolds
  <2>3. QED
    BY <1>3, <1>5, <2>1, <2>2 DEF VerdictHolds
<1>9. (ServedWasScanned /\ ToldIsServed /\ PromotionLosesNothing)'
  BY <1>1, <1>3, <1>5, <1>6 DEF ServedWasScanned, ToldIsServed, PromotionLosesNothing
<1>10. QED
  BY <1>4, <1>7, <1>8, <1>9 DEF UploadsInv

LEMMA ExpireKeeps ==
  ASSUME UploadsInv, NEW k \in Keys, Expire(k)
  PROVE  UploadsInv'
<1>1. /\ UploadTypes /\ QuarantineIsLast /\ VerdictsHold
      /\ ServedWasScanned /\ ToldIsServed /\ PromotionLosesNothing
  BY DEF UploadsInv
<1>2. /\ form[k].open /\ form' = [form EXCEPT ![k].open = FALSE]
      /\ held' = held /\ clean' = clean /\ call' = call /\ told' = told /\ sent' = sent /\ resent' = resent /\ swapped' = swapped
  BY DEF Expire
<1>3. form[k] \in FormType
  BY <1>1, <1>2 DEF UploadTypes, NoForm
<1>4. PICK new \in FormType : form' = [form EXCEPT ![k] = new] /\ new.ext = form[k].ext
  <2>1. PICK new : new = [form[k] EXCEPT !.open = FALSE]
    OBVIOUS
  <2>2. new \in FormType /\ new.ext = form[k].ext
    BY <1>3, <2>1 DEF FormType
  <2>3. QED
    BY <1>2, <2>1, <2>2
<1>5. \A j \in Keys : /\ form'[j].ext = form[j].ext
                      /\ form'[j] = NoForm <=> form[j] = NoForm
  BY <1>1, <1>3, <1>4, FormIsNoNoForm DEF UploadTypes
<1>6. UploadTypes'
  BY <1>1, <1>2, <1>4 DEF UploadTypes
<1>7. QuarantineIsLast'
  BY <1>1, <1>2, <1>5 DEF QuarantineIsLast
<1>8. VerdictsHold'
  <2> SUFFICES ASSUME NEW c \in Calls, call[c].pc # "idle" PROVE VerdictHolds(c)'
    BY <1>2 DEF VerdictsHold
  <2>1. VerdictHolds(c)
    BY <1>1 DEF VerdictsHold
  <2>2. QED
    BY <1>2, <1>5, <2>1 DEF VerdictHolds
<1>9. (ServedWasScanned /\ ToldIsServed /\ PromotionLosesNothing)'
  BY <1>1, <1>2, <1>5 DEF ServedWasScanned, ToldIsServed, PromotionLosesNothing
<1>10. QED
  BY <1>6, <1>7, <1>8, <1>9 DEF UploadsInv

LEMMA SendKeeps ==
  ASSUME UploadsInv, NEW k \in Keys, Send(k)
  PROVE  UploadsInv'
<1>1. /\ UploadTypes /\ QuarantineIsLast /\ VerdictsHold
      /\ ServedWasScanned /\ ToldIsServed /\ PromotionLosesNothing
  BY DEF UploadsInv
<1>2. PICK f \in Files : /\ f.size \in 1..MaxBytes
                         /\ held' = [held EXCEPT ![k] = f] /\ sent' = [sent EXCEPT ![k] = f]
  BY DEF Send
<1>3. /\ form[k].open /\ form' = form /\ clean' = clean /\ call' = call /\ told' = told
      /\ resent' = IF Verifying(k) THEN resent \cup {k} ELSE resent
      /\ swapped' = IF Scanned(k) THEN swapped \cup {k} ELSE swapped
  BY DEF Send
<1>4. form[k] # NoForm
  BY <1>3 DEF NoForm
<1>5. /\ \A j \in Keys : j # k => held'[j] = held[j] /\ sent'[j] = sent[j]
      /\ held'[k] = f /\ sent'[k] = f
  BY <1>1, <1>2 DEF UploadTypes
<1>6. /\ resent \subseteq resent' /\ resent' \subseteq resent \cup {k}
      /\ swapped \subseteq swapped' /\ swapped' \subseteq swapped \cup {k} /\ swapped' \subseteq resent'
      /\ Verifying(k) => k \in resent'
      /\ Scanned(k) => k \in swapped'
  BY <1>1, <1>3 DEF UploadTypes, Scanned, Verifying
<1>7. UploadTypes'
  BY <1>1, <1>2, <1>3, <1>6 DEF UploadTypes, FileType
<1>8. QuarantineIsLast'
  BY <1>1, <1>2, <1>3, <1>4, <1>5, FilesAreNoNoFile DEF QuarantineIsLast
<1>9. VerdictsHold'
  <2> SUFFICES ASSUME NEW c \in Calls, call[c].pc # "idle" PROVE VerdictHolds(c)'
    BY <1>3 DEF VerdictsHold
  <2>1. VerdictHolds(c)
    BY <1>1 DEF VerdictsHold
  <2>2. CASE call[c].key = k
    <3>1. k \in resent' /\ (call[c].pc = "copy" => k \in swapped')
      BY <1>6, <2>2 DEF Verifying, Scanned
    <3>2. QED
      BY <1>3, <2>1, <2>2, <3>1 DEF VerdictHolds
  <2>3. CASE call[c].key # k
    BY <1>3, <1>5, <1>6, <2>1, <2>3 DEF VerdictHolds
  <2>4. QED
    BY <2>2, <2>3
<1>10. (ServedWasScanned /\ ToldIsServed)'
  BY <1>1, <1>3, <1>6 DEF ServedWasScanned, ToldIsServed
<1>11. PromotionLosesNothing'
  BY <1>1, <1>3, <1>5, <1>6 DEF PromotionLosesNothing
<1>12. QED
  BY <1>7, <1>8, <1>9, <1>10, <1>11 DEF UploadsInv

-----------------------------------------------------------------------------
(* Uploads: the calls of a verification *)

(* A step of one verification leaves the others as they are.                *)
LEMMA OthersHold ==
  ASSUME UploadTypes, VerdictsHold, NEW c \in Calls, NEW new,
         call' = [call EXCEPT ![c] = new],
         form' = form /\ sent' = sent /\ resent' = resent /\ swapped' = swapped,
         \A k \in Keys : \/ clean'[k] = clean[k]
                         \/ clean'[k] # NoFile /\ (k \notin resent => clean'[k] = sent[k]),
         new.pc # "idle" => VerdictHolds(c)'
  PROVE  VerdictsHold'
<1> SUFFICES ASSUME NEW d \in Calls, call'[d].pc # "idle" PROVE VerdictHolds(d)'
  BY DEF VerdictsHold
<1>1. CASE d = c
  BY <1>1 DEF UploadTypes
<1>2. CASE d # c
  <2>1. call'[d] = call[d]
    BY <1>2 DEF UploadTypes
  <2>2. VerdictHolds(d)
    BY <2>1 DEF VerdictsHold
  <2>3. QED
    BY <2>1, <2>2 DEF VerdictHolds
<1>3. QED
  BY <1>1, <1>2

LEMMA IdleFacts == Idle \in CallType /\ Idle.pc = "idle"
BY FilesAreNoNoFile DEF Idle, CallType

(* What stops, for whatever reason, leaves nothing to hold.                 *)
LEMMA BreakKeeps ==
  ASSUME UploadsInv, NEW c \in Calls, Break(c)
  PROVE  UploadsInv'
<1>1. /\ UploadTypes /\ QuarantineIsLast /\ VerdictsHold
      /\ ServedWasScanned /\ ToldIsServed /\ PromotionLosesNothing
  BY DEF UploadsInv
<1>2. /\ call' = [call EXCEPT ![c] = Idle]
      /\ form' = form /\ held' = held /\ clean' = clean /\ told' = told /\ sent' = sent /\ resent' = resent /\ swapped' = swapped
  BY DEF Break, Stop
<1>3. UploadTypes'
  BY <1>1, <1>2, IdleFacts DEF UploadTypes
<1>4. VerdictsHold'
  BY <1>1, <1>2, IdleFacts, OthersHold
<1>5. QED
  BY <1>1, <1>2, <1>3, <1>4
     DEF UploadsInv, QuarantineIsLast, ServedWasScanned, ToldIsServed, PromotionLosesNothing

LEMMA BeginKeeps ==
  ASSUME UploadsInv, NEW c \in Calls, NEW u \in Users, NEW k \in Keys, Begin(c, u, k)
  PROVE  UploadsInv'
<1>1. /\ UploadTypes /\ QuarantineIsLast /\ VerdictsHold
      /\ ServedWasScanned /\ ToldIsServed /\ PromotionLosesNothing
  BY DEF UploadsInv
<1>2. /\ form[k].owner = u /\ held[k] # NoFile
      /\ call' = [call EXCEPT ![c] =
                    [pc |-> IF held[k].size > MaxBytes THEN "drop" ELSE "get", key |-> k, size |-> held[k].size]]
      /\ form' = form /\ held' = held /\ clean' = clean /\ told' = told /\ sent' = sent /\ resent' = resent /\ swapped' = swapped
  BY DEF Begin
<1>3. held[k] = sent[k] /\ held[k] \in Files /\ held[k].size \in 0..MaxBytes
  BY <1>1, <1>2, FilesAreNoNoFile DEF QuarantineIsLast, UploadTypes, FileType
<1>4. PICK new \in CallType : /\ call' = [call EXCEPT ![c] = new]
                              /\ new.pc = "get" /\ new.key = k /\ new.size = held[k].size
  <2> DEFINE new == [pc |-> "get", key |-> k, size |-> held[k].size]
  <2>1. ~(held[k].size > MaxBytes)
    BY <1>3, FilesAreNoNoFile
  <2>2. call' = [call EXCEPT ![c] = new]
    BY <1>2, <2>1
  <2>3. new \in CallType
    BY <1>3 DEF CallType
  <2>4. QED
    BY <2>2, <2>3
<1>5. form[k] # NoForm
  BY <1>2, UploadsAssumption DEF NoForm
<1>6. UploadTypes'
  BY <1>1, <1>2, <1>4 DEF UploadTypes
<1>7. VerdictsHold'
  <2>1. call'[c] = new
    BY <1>1, <1>4 DEF UploadTypes
  <2>2. VerdictHolds(c)'
    BY <1>2, <1>3, <1>4, <1>5, <2>1 DEF VerdictHolds
  <2>3. QED
    BY <1>1, <1>2, <1>4, <2>2, OthersHold
<1>8. QED
  BY <1>1, <1>2, <1>6, <1>7
     DEF UploadsInv, QuarantineIsLast, ServedWasScanned, ToldIsServed, PromotionLosesNothing

(* A verification that goes on: which, of which key, and what held of it.   *)
LEMMA UnderWay ==
  ASSUME UploadsInv, NEW c \in Calls, ~At(c, "idle")
  PROVE  /\ call[c].key \in Keys /\ form[call[c].key] # NoForm /\ VerdictHolds(c)
         /\ \A pc \in {"idle", "get", "copy", "clear", "drop"} : \E new \in CallType :
              /\ [call[c] EXCEPT !.pc = pc] = new
              /\ new.pc = pc /\ new.key = call[c].key /\ new.size = call[c].size
<1>1. UploadTypes /\ VerdictHolds(c)
  BY DEF UploadsInv, VerdictsHold, At
<1>2. call[c] \in CallType
  BY <1>1 DEF UploadTypes
<1>3. call[c].key \in Keys /\ form[call[c].key] # NoForm
  BY <1>1 DEF VerdictHolds
<1>4. ASSUME NEW pc \in {"idle", "get", "copy", "clear", "drop"}
      PROVE  LET new == [call[c] EXCEPT !.pc = pc]
             IN  new \in CallType /\ new.pc = pc /\ new.key = call[c].key /\ new.size = call[c].size
  BY <1>2 DEF CallType
<1>5. QED
  BY <1>1, <1>3, <1>4

LEMMA GetKeeps ==
  ASSUME UploadsInv, NEW c \in Calls, Get(c)
  PROVE  UploadsInv'
<1>1. /\ UploadTypes /\ QuarantineIsLast /\ VerdictsHold
      /\ ServedWasScanned /\ ToldIsServed /\ PromotionLosesNothing
  BY DEF UploadsInv
<1> DEFINE k == call[c].key
           passes == Passes(held[k], form[k].ext, call[c].size)
<1>2. /\ At(c, "get")
      /\ call' = [call EXCEPT ![c] = IF held[k] = NoFile THEN Idle
                                     ELSE [@ EXCEPT !.pc = IF passes THEN "copy" ELSE "drop"]]
      /\ form' = form /\ held' = held /\ clean' = clean /\ told' = told /\ sent' = sent /\ resent' = resent /\ swapped' = swapped
  BY DEF Get, Stop, Goto
<1>3. k \in Keys /\ VerdictHolds(c)
  BY <1>2, UnderWay DEF At
<1>4. PICK new \in CallType :
        /\ call' = [call EXCEPT ![c] = new]
        /\ new.pc = "idle" \/ /\ new.key = k /\ new.size = call[c].size /\ held[k] # NoFile
                              /\ new.pc = IF passes THEN "copy" ELSE "drop"
  <2>1. CASE held[k] = NoFile
    BY <1>2, <2>1, IdleFacts
  <2>2. CASE held[k] # NoFile
    BY <1>2, <2>2, UnderWay DEF At
  <2>3. QED
    BY <2>1, <2>2
<1>5. UploadTypes'
  BY <1>1, <1>2, <1>4 DEF UploadTypes
<1>6. VerdictsHold'
  <2>1. call'[c] = new
    BY <1>1, <1>4 DEF UploadTypes
  <2>2. ASSUME new.pc # "idle" PROVE VerdictHolds(c)'
    <3>1. held[k] = sent[k] /\ (k \notin resent => sent[k].size = call[c].size)
      BY <1>1, <1>3, <1>4, <2>2 DEF QuarantineIsLast, VerdictHolds
    <3>6. passes => Passes(sent[k], form[k].ext, sent[k].size)
      BY <3>1 DEF Passes
    <3>2. /\ new.key = k /\ new.size = call[c].size
          /\ new.pc = IF passes THEN "copy" ELSE "drop"
      BY <1>4, <2>2
    <3>3. k \notin resent => (passes <=> Passes(sent[k], form[k].ext, sent[k].size))
      BY <3>1
    <3> HIDE DEF k, passes
    <3>4. call'[c].key = k
      BY <2>1, <3>2
    <3>5. QED
      BY <1>2, <1>3, <2>1, <3>2, <3>3, <3>4, <3>6 DEF VerdictHolds, k
  <2>3. QED
    BY <1>1, <1>2, <1>4, <2>2, OthersHold
<1>7. QED
  BY <1>1, <1>2, <1>5, <1>6
     DEF UploadsInv, QuarantineIsLast, ServedWasScanned, ToldIsServed, PromotionLosesNothing

LEMMA CopyKeeps ==
  ASSUME UploadsInv, NEW c \in Calls, Copy(c)
  PROVE  UploadsInv'
<1>1. /\ UploadTypes /\ QuarantineIsLast /\ VerdictsHold
      /\ ServedWasScanned /\ ToldIsServed /\ PromotionLosesNothing
  BY DEF UploadsInv
<1> DEFINE k == call[c].key
<1>2. /\ At(c, "copy")
      /\ form' = form /\ held' = held /\ told' = told /\ sent' = sent /\ resent' = resent /\ swapped' = swapped
      /\ \/ held[k] = NoFile /\ Stop(c) /\ clean' = clean
         \/ held[k] # NoFile /\ Goto(c, "clear") /\ clean' = [clean EXCEPT ![k] = held[k]]
  BY DEF Copy
<1>3. /\ k \in Keys /\ form[k] # NoForm /\ VerdictHolds(c)
      /\ held[k] \in {sent[k], NoFile}
      /\ k \notin swapped => Passes(sent[k], form[k].ext, sent[k].size)
  <2>1. k \in Keys /\ form[k] # NoForm /\ VerdictHolds(c)
    BY <1>2, UnderWay DEF At
  <2>2. QED
    BY <1>1, <1>2, <2>1 DEF QuarantineIsLast, VerdictHolds, At
<1>4. CASE held[k] = NoFile
  <2>1. call' = [call EXCEPT ![c] = Idle] /\ clean' = clean
    BY <1>2, <1>4 DEF Stop
  <2>2. UploadTypes'
    BY <1>1, <1>2, <2>1, IdleFacts DEF UploadTypes
  <2>3. VerdictsHold'
    BY <1>1, <1>2, <2>1, IdleFacts, OthersHold
  <2>4. QED
    BY <1>1, <1>2, <2>1, <2>2, <2>3
       DEF UploadsInv, QuarantineIsLast, ServedWasScanned, ToldIsServed, PromotionLosesNothing
<1>5. CASE held[k] # NoFile
  <2>1. PICK new \in CallType : /\ call' = [call EXCEPT ![c] = new]
                                /\ new.pc = "clear" /\ new.key = k /\ new.size = call[c].size
    BY <1>2, <1>5, UnderWay DEF Goto, At
  <2>2. held[k] = sent[k] /\ clean' = [clean EXCEPT ![k] = sent[k]] /\ sent[k] # NoFile
    BY <1>2, <1>3, <1>5
  <2> HIDE DEF k
  <2>3. /\ clean'[k] = sent[k]
        /\ \A j \in Keys : j # k => clean'[j] = clean[j]
    BY <1>1, <1>3, <2>2 DEF UploadTypes
  <2>4. UploadTypes'
    BY <1>1, <1>2, <1>3, <2>1, <2>2 DEF UploadTypes
  <2>5. QuarantineIsLast'
    BY <1>1, <1>2, <1>3, <2>3 DEF QuarantineIsLast
  <2>6. VerdictsHold'
    <3>1. call'[c] = new
      BY <1>1, <2>1 DEF UploadTypes
    <3>2. /\ k \in Keys /\ form'[k] # NoForm /\ clean'[k] # NoFile
          /\ k \notin resent' =>
               sent'[k].size = call'[c].size /\ sent'[k] # NoFile /\ clean'[k] = sent'[k]
      BY <1>2, <1>3, <2>1, <2>2, <2>3, <3>1 DEF VerdictHolds, k
    <3>3. VerdictHolds(c)'
      BY <2>1, <3>1, <3>2 DEF VerdictHolds
    <3>4. QED
      BY <1>1, <1>2, <2>1, <2>2, <2>3, <3>3, OthersHold
  <2>7. ServedWasScanned'
    BY <1>1, <1>2, <1>3, <2>3 DEF ServedWasScanned
  <2>8. (ToldIsServed /\ PromotionLosesNothing)'
    BY <1>1, <1>2, <2>2, <2>3 DEF ToldIsServed, PromotionLosesNothing, UploadTypes
  <2>9. QED
    BY <2>4, <2>5, <2>6, <2>7, <2>8 DEF UploadsInv
<1>6. QED
  BY <1>4, <1>5

(* The quarantine is emptied when its file was copied, ...                  *)
LEMMA ClearKeeps ==
  ASSUME UploadsInv, NEW c \in Calls, Clear(c)
  PROVE  UploadsInv'
<1>1. /\ UploadTypes /\ QuarantineIsLast /\ VerdictsHold
      /\ ServedWasScanned /\ ToldIsServed /\ PromotionLosesNothing
  BY DEF UploadsInv
<1> DEFINE k == call[c].key
<1>2. /\ At(c, "clear")
      /\ call' = [call EXCEPT ![c] = Idle] /\ held' = [held EXCEPT ![k] = NoFile] /\ told' = told \cup {k}
      /\ form' = form /\ clean' = clean /\ sent' = sent /\ resent' = resent /\ swapped' = swapped
  BY DEF Clear, Stop
<1>3. k \in Keys /\ clean[k] # NoFile /\ (k \notin resent => clean[k] = sent[k])
  <2>1. k \in Keys /\ VerdictHolds(c)
    BY <1>2, UnderWay DEF At
  <2>2. QED
    BY <1>2, <2>1 DEF VerdictHolds, At
<1> HIDE DEF k
<1>4. held'[k] = NoFile /\ \A j \in Keys : j # k => held'[j] = held[j]
  BY <1>1, <1>2, <1>3 DEF UploadTypes
<1>5. UploadTypes'
  BY <1>1, <1>2, <1>3, IdleFacts DEF UploadTypes, FileType
<1>6. QuarantineIsLast'
  BY <1>1, <1>2, <1>4 DEF QuarantineIsLast
<1>7. VerdictsHold'
  BY <1>1, <1>2, IdleFacts, OthersHold
<1>8. (ServedWasScanned /\ ToldIsServed)'
  BY <1>1, <1>2, <1>3 DEF ServedWasScanned, ToldIsServed
<1>9. PromotionLosesNothing'
  BY <1>1, <1>2, <1>3, <1>4 DEF PromotionLosesNothing
<1>10. QED
  BY <1>5, <1>6, <1>7, <1>8, <1>9 DEF UploadsInv

(* ... or when it does not pass.                                            *)
LEMMA DropKeeps ==
  ASSUME UploadsInv, NEW c \in Calls, Drop(c)
  PROVE  UploadsInv'
<1>1. /\ UploadTypes /\ QuarantineIsLast /\ VerdictsHold
      /\ ServedWasScanned /\ ToldIsServed /\ PromotionLosesNothing
  BY DEF UploadsInv
<1> DEFINE k == call[c].key
<1>2. /\ At(c, "drop")
      /\ call' = [call EXCEPT ![c] = Idle] /\ held' = [held EXCEPT ![k] = NoFile]
      /\ form' = form /\ clean' = clean /\ told' = told /\ sent' = sent /\ resent' = resent /\ swapped' = swapped
  BY DEF Drop, Stop
<1>3. /\ k \in Keys
      /\ k \notin resent => sent[k] # NoFile /\ ~Passes(sent[k], form[k].ext, sent[k].size)
  <2>1. k \in Keys /\ VerdictHolds(c)
    BY <1>2, UnderWay DEF At
  <2>2. QED
    BY <1>2, <2>1 DEF VerdictHolds, At
<1> HIDE DEF k
<1>4. held'[k] = NoFile /\ \A j \in Keys : j # k => held'[j] = held[j]
  BY <1>1, <1>2, <1>3 DEF UploadTypes
<1>5. UploadTypes'
  BY <1>1, <1>2, <1>3, IdleFacts DEF UploadTypes, FileType
<1>6. QuarantineIsLast'
  BY <1>1, <1>2, <1>4 DEF QuarantineIsLast
<1>7. VerdictsHold'
  BY <1>1, <1>2, IdleFacts, OthersHold
<1>8. (ServedWasScanned /\ ToldIsServed)'
  BY <1>1, <1>2 DEF ServedWasScanned, ToldIsServed
<1>9. PromotionLosesNothing'
  <2> SUFFICES ASSUME NEW j \in Keys \ resent, sent[j] # NoFile, Harmless(sent[j], form[j].ext),
                      ~(form[j].ext = "txt" /\ sent[j].cut)
               PROVE  sent[j] \in {held'[j], clean[j]}
    BY <1>2 DEF PromotionLosesNothing
  <2>1. Passes(sent[j], form[j].ext, sent[j].size)
    <3>1. sent[j] \in Files
      BY <1>1 DEF UploadTypes, FileType
    <3>2. QED
      BY <3>1, HarmlessPasses
  <2>2. j # k
    BY <1>3, <2>1
  <2>3. QED
    BY <1>1, <1>4, <2>2 DEF PromotionLosesNothing
<1>10. QED
  BY <1>5, <1>6, <1>7, <1>8, <1>9 DEF UploadsInv

LEMMA UploadsStep == UploadsInv /\ [Next]_vars => UploadsInv'
<1> SUFFICES ASSUME UploadsInv, [Next]_vars PROVE UploadsInv'
  OBVIOUS
<1>1. CASE UNCHANGED vars
  BY <1>1 DEF vars, UploadsInv, UploadTypes, QuarantineIsLast, VerdictsHold, VerdictHolds,
              ServedWasScanned, ToldIsServed, PromotionLosesNothing
<1>2. CASE Next
  <2>1. ASSUME NEW k \in Keys, Send(k) \/ Expire(k) \/ \E u \in Users : Presign(u, k)
        PROVE  UploadsInv'
    BY <2>1, SendKeeps, ExpireKeeps, PresignKeeps
  <2>2. ASSUME NEW c \in Calls,
               \/ Get(c) \/ Copy(c) \/ Clear(c) \/ Drop(c) \/ Break(c)
               \/ \E u \in Users, k \in Keys : Begin(c, u, k)
        PROVE  UploadsInv'
    BY <2>2, GetKeeps, CopyKeeps, ClearKeeps, DropKeeps, BreakKeeps, BeginKeeps
  <2>3. QED
    BY <1>2, <2>1, <2>2 DEF Next
<1>3. QED
  BY <1>1, <1>2

LEMMA FilesFromInv == UploadsInv => FilesAreSafe
<1> SUFFICES ASSUME UploadsInv PROVE TypeOK
  BY DEF UploadsInv, FilesAreSafe
<1>1. UploadTypes
  BY DEF UploadsInv
<1>2. \A k \in Keys : /\ form[k].owner \in Users \cup {"NOBODY"} /\ form[k].open \in BOOLEAN
                     /\ form[k].ext \in Attachable \cup {"NONE"}
  <2> TAKE k \in Keys
  <2>1. CASE form[k] = NoForm
    BY <2>1 DEF NoForm
  <2>2. CASE form[k] \in FormType
    BY <2>2 DEF FormType
  <2>3. QED
    BY <1>1, <2>1, <2>2 DEF UploadTypes
<1>3. \A k \in Keys : {held[k], clean[k], sent[k]} \subseteq Files \cup {NoFile}
  BY <1>1 DEF UploadTypes, FileType
<1>4. \A c \in Calls : /\ call[c].pc \in {"idle", "get", "copy", "clear", "drop"}
                      /\ call[c].key \in Keys \cup {"NONE"} /\ call[c].size \in 0..MaxBytes
  BY <1>1 DEF UploadTypes, CallType
<1>5. QED
  BY <1>1, <1>2, <1>3, <1>4 DEF TypeOK, UploadTypes

(* The inductive invariant of the attachments.                              *)
THEOREM UploadsInvariant == EvidenceSpec => []UploadsInv
<1>1. EvidenceInit => UploadsInv
  BY UploadsStart DEF EvidenceInit
<1>2. UploadsInv /\ [EvidenceNext]_<<vars, reviewVars>> => UploadsInv'
  <2>1. [EvidenceNext]_<<vars, reviewVars>> => [Next]_vars
    BY DEF EvidenceNext
  <2>2. QED
    BY <2>1, UploadsStep
<1>3. QED
  BY <1>1, <1>2, PTL DEF EvidenceSpec

(* Attachments are neither served unscanned nor lost on the way, however    *)
(* many files, keys and verifications there are.                            *)
THEOREM FilesStaySafe == EvidenceSpec => []FilesAreSafe
BY UploadsInvariant, FilesFromInv, PTL

-----------------------------------------------------------------------------
(* Review: the inductive invariant *)

Statuses == {"HITL_REQUIRED", "PENDING", "APPROVED", "REJECTED"}
CertificateType == [score : Scores, grade : Grades \cup {"NONE", "NORMAL"}, listed : SUBSET Nat]
LogType ==
  [ reports : Seq(ReportType), suggested : DOMAIN Bands, of : Int, target : Grades \cup {"NONE"},
    certificate : CertificateType ]
TaskType == [status : Statuses, score : Scores, log : LogType]
RowType ==
  [ status : {"HITL_PENDING", "IN_STOCK", "REJECTED"}, grade : Grades \cup DOMAIN Bands \cup {"PENDING"},
    score : Scores, source : {"PENDING_HITL", "AI_AUTO", "HITL"} ]
AiType ==
  [pc : {"idle", "reading"}]
    \cup [pc : {"acted"}, reading : Readings, verdict : {"HITL_REQUIRED", "REJECTED"}, over : Statuses]
RestType  == [pc : {"closed", "queued"}]
OpenType  == [pc : {"open"}, seen : Seq(ReportType), of : Int]
ShownType == [pc : {"shown"}, only : BOOLEAN, score : Int]
ScoringType ==
  [ pc : {"scoring"}, seen : Seq(ReportType), edit : Edits, verdict : Verdicts,
    grade : Grades \cup {"NONE"}, read : TaskType, same : BOOLEAN ]
SettledType ==
  [ pc : {"settled"}, seen : Seq(ReportType), reports : Seq(ReportType), verdict : Verdicts,
    grade : Grades \cup {"NONE"} ]
DrawingType == [pc : {"drawing"}, read : TaskType]
SheetType == RestType \cup OpenType \cup ShownType \cup ScoringType \cup SettledType \cup DrawingType

ReviewTypes ==
  /\ task \in TaskType /\ row \in RowType /\ ai \in AiType /\ sheet \in [Reviewers -> SheetType]
  /\ readings \in 1..MaxReadings /\ decisions \in 0..MaxDecisions
  /\ untouched \in BOOLEAN /\ raced \in BOOLEAN /\ lost \subseteq {"audit", "certificate", "reports"}

(* Only an approval names a grade; a reading under way is within the bound, *)
(* and none is numbered higher than the last.                               *)
SheetsAreFilledIn ==
  /\ \A r \in Reviewers :
       /\ sheet[r].pc \in {"scoring", "settled"} /\ sheet[r].verdict # "APPROVE" => sheet[r].grade = "NONE"
       /\ sheet[r].pc = "scoring" => sheet[r].edit.out \subseteq DOMAIN sheet[r].seen
       /\ sheet[r].pc = "open" => sheet[r].of <= readings
       /\ sheet[r].pc \in {"scoring", "drawing"} => sheet[r].read.log.of <= readings
  /\ task.log.of <= readings
  /\ ai.pc # "idle" => readings < MaxReadings

IsSettled(r)   == sheet[r].pc = "settled"
NobodySettled  == \A r \in Reviewers : ~IsSettled(r)
OnlySettled(r) == IsSettled(r) /\ \A t \in Reviewers \ {r} : ~IsSettled(t)
Sold           == row.source = "HITL" /\ task.status = "APPROVED"

(* The AI has put the book elsewhere before its job says so.                *)
AiKeepsOff == ~raced /\ ai.pc = "acted" => row.source # "HITL"

(* What the AI is about to save it has put into stock with a score.         *)
AiScores == ~raced /\ ai.pc = "acted" => row.score # NoScore

(* A grade that is named is the one the row is sold under.                  *)
SoldAs(grade) == grade # "NONE" /\ row.status = "IN_STOCK" => row.grade = grade

(* Between the two commits the settled request is the one that stands.      *)
SettledStands ==
  ~raced /\ "certificate" \notin lost =>
    \A r \in Reviewers :
      OnlySettled(r) /\ task.status = "APPROVED" =>
        /\ sheet[r].verdict = "APPROVE"
        /\ row.source = "HITL" => SoldAs(sheet[r].grade)

LoggedIsDecided ==
  ~raced /\ "audit" \notin lost /\ NobodySettled /\ row.source = "HITL"
    /\ task.status \in {"APPROVED", "REJECTED"} => audit.status = task.status

TargetIsSold ==
  ~raced /\ "certificate" \notin lost /\ NobodySettled /\ Sold => SoldAs(task.log.target)

CertificateIsCurrent ==
  /\ ~raced /\ "certificate" \notin lost /\ Sold
  /\ \A r \in Reviewers : sheet[r].pc \notin {"settled", "queued", "drawing"}
  => task.log.certificate = Certificate(task)

(* The reports a reviewer saw are still there, at their places.             *)
Extends(reports, seen) ==
  /\ DOMAIN seen \subseteq DOMAIN reports
  /\ \A i \in DOMAIN seen : reports[i].type = seen[i].type /\ reports[i].image = seen[i].image

SeenIsThere ==
  ~raced =>
    \A r \in Reviewers :
      /\ sheet[r].pc = "open" /\ sheet[r].of = task.log.of => Extends(task.log.reports, sheet[r].seen)
      /\ sheet[r].pc = "scoring" /\ sheet[r].same => Extends(sheet[r].read.log.reports, sheet[r].seen)

ReviewInv ==
  /\ ReviewTypes /\ SheetsAreFilledIn /\ AiKeepsOff /\ AiScores /\ UndecidedIsScored
  /\ StockTellsDecision /\ SettledStands
  /\ LoggedIsDecided /\ TargetIsSold /\ CertificateIsCurrent /\ SeenIsThere

-----------------------------------------------------------------------------
(* Review: lists of reports *)

LEMMA MappedSequence ==
  ASSUME NEW S, NEW T, NEW s \in Seq(S), NEW m, m = [i \in DOMAIN s |-> m[i]],
         \A i \in DOMAIN s : m[i] \in T
  PROVE  m \in Seq(T) /\ DOMAIN m = DOMAIN s
<1>1. Len(s) \in Nat /\ DOMAIN s = 1..Len(s)
  OBVIOUS
<1>2. m \in [1..Len(s) -> T]
  BY <1>1
<1>3. QED
  BY <1>1, <1>2

LEMMA ReviewedType ==
  ASSUME NEW type \in Kinds, NEW box \in BoxType, NEW image \in Int, NEW conf \in Int
  PROVE  Reviewed(type, box, image, conf) \in ReportType
BY DEF Reviewed, ReportType

LEMMA AddedType ==
  ASSUME NEW e \in Edits
  PROVE  Adopted(e) \in Seq(ReportType) /\ Drawn(e) \in Seq(ReportType)
<1>1. Adopted(e) \in Seq(ReportType)
  <2>1. e.adopt \in Seq(DOMAIN Proposals)
    BY ReviewAssumption
  <2>2. ASSUME NEW k \in DOMAIN e.adopt PROVE Adopted(e)[k] \in ReportType
    <3>1. e.adopt[k] \in DOMAIN Proposals
      BY <2>1
    <3> DEFINE Candidate == [type : Kinds, box : BoxType, image : Int, conf : Int]
    <3>2. PICK c \in Candidate : c = Proposals[e.adopt[k]]
      <4>1. Proposals \in Seq(Candidate)
        BY ReviewAssumption
      <4> HIDE DEF Candidate
      <4>2. QED
        BY <3>1, <4>1
    <3>3. Adopted(e)[k] = Reviewed(c.type, c.box, c.image, c.conf)
      BY <3>2 DEF Adopted
    <3>4. QED
      BY <3>2, <3>3, ReviewedType
  <2>3. Adopted(e) = [k \in DOMAIN e.adopt |-> Adopted(e)[k]]
    BY DEF Adopted
  <2>4. QED
    BY <2>1, <2>2, <2>3, MappedSequence
<1>2. Drawn(e) \in Seq(ReportType)
  <2> DEFINE Drawing == [type : Kinds, box : BoxType, image : Int]
  <2>0. PICK draw \in Seq(Drawing) : draw = e.draw
    BY ReviewAssumption
  <2>1. e.draw \in Seq(Drawing)
    BY <2>0
  <2>2. ASSUME NEW k \in DOMAIN e.draw PROVE Drawn(e)[k] \in ReportType
    <3>1. PICK c \in Drawing : c = e.draw[k]
      <4> HIDE DEF Drawing
      <4> QED
        BY <2>0, <2>2
    <3>2. Drawn(e)[k] = Reviewed(c.type, c.box, c.image, 0)
      BY <3>1 DEF Drawn
    <3>3. QED
      BY <3>1, <3>2, ReviewedType
  <2>3. Drawn(e) = [k \in DOMAIN e.draw |-> Drawn(e)[k]]
    BY DEF Drawn
  <2> HIDE DEF Drawing
  <2>4. QED
    BY <2>1, <2>2, <2>3, MappedSequence
<1>3. QED
  BY <1>1, <1>2

(* Edits mark and move reports and add some at the end; they take none away *)
(* and change none into another.                                            *)
LEMMA EditsExtend ==
  ASSUME NEW reports \in Seq(ReportType), NEW e \in Edits
  PROVE  /\ ApplyEdits(reports, e) \in Seq(ReportType)
         /\ Extends(ApplyEdits(reports, e), reports)
         /\ \A i \in DOMAIN reports \cap e.out : ApplyEdits(reports, e)[i].excluded
<1> DEFINE marked == [i \in DOMAIN reports |-> [reports[i] EXCEPT !.excluded = @ \/ i \in e.out]]
           all    == marked \o Adopted(e)
           moved  == [i \in DOMAIN all |-> IF i \in DOMAIN e.move THEN [all[i] EXCEPT !.box = e.move[i]]
                                           ELSE all[i]]
<1>1. ApplyEdits(reports, e) = moved \o Drawn(e)
  BY DEF ApplyEdits
<1>2. ASSUME NEW i \in DOMAIN reports
      PROVE  /\ marked[i] \in ReportType
             /\ marked[i].type = reports[i].type /\ marked[i].image = reports[i].image
             /\ i \in e.out => marked[i].excluded
  <2>1. reports[i] \in ReportType
    OBVIOUS
  <2>2. PICK out \in BOOLEAN : out = (reports[i].excluded \/ i \in e.out)
    OBVIOUS
  <2>3. marked[i] = [reports[i] EXCEPT !.excluded = out]
    BY <2>2
  <2>4. QED
    BY <2>1, <2>2, <2>3 DEF ReportType
<1>3. marked \in Seq(ReportType) /\ DOMAIN marked = DOMAIN reports
  <2>1. marked = [i \in DOMAIN reports |-> marked[i]]
    OBVIOUS
  <2> HIDE DEF marked
  <2>2. QED
    BY <1>2, <2>1, MappedSequence
<1>4. /\ all \in Seq(ReportType) /\ DOMAIN reports \subseteq DOMAIN all
      /\ \A i \in DOMAIN reports : all[i] = marked[i]
  <2> HIDE DEF marked
  <2> QED
    BY <1>3, AddedType
<1>5. ASSUME NEW i \in DOMAIN all
      PROVE  /\ moved[i] \in ReportType /\ moved[i].excluded = all[i].excluded
             /\ moved[i].type = all[i].type /\ moved[i].image = all[i].image
  <2> HIDE DEF all
  <2>1. all[i] \in ReportType
    BY <1>4
  <2>2. CASE i \in DOMAIN e.move
    <3>1. PICK box \in BoxType : box = e.move[i]
      BY <2>2, ReviewAssumption
    <3>2. moved[i] = [all[i] EXCEPT !.box = box]
      BY <2>2, <3>1
    <3>3. QED
      BY <2>1, <3>1, <3>2 DEF ReportType
  <2>3. CASE i \notin DOMAIN e.move
    BY <2>1, <2>3
  <2>4. QED
    BY <2>2, <2>3
<1>6. moved \in Seq(ReportType) /\ DOMAIN moved = DOMAIN all
  <2> HIDE DEF all
  <2> QED
    BY <1>4, <1>5, MappedSequence
<1>7. /\ moved \o Drawn(e) \in Seq(ReportType) /\ DOMAIN reports \subseteq DOMAIN (moved \o Drawn(e))
      /\ \A i \in DOMAIN reports : (moved \o Drawn(e))[i] = moved[i]
  <2> HIDE DEF moved, all
  <2> QED
    BY <1>4, <1>6, AddedType
<1>8. ASSUME NEW i \in DOMAIN reports
      PROVE  /\ ApplyEdits(reports, e)[i].type = reports[i].type
             /\ ApplyEdits(reports, e)[i].image = reports[i].image
             /\ i \in e.out => ApplyEdits(reports, e)[i].excluded
  <2>1. ApplyEdits(reports, e)[i] = moved[i] /\ i \in DOMAIN all
    <3> HIDE DEF moved, all
    <3> QED
      BY <1>1, <1>4, <1>7
  <2>2. /\ moved[i].type = all[i].type /\ moved[i].image = all[i].image
        /\ moved[i].excluded = all[i].excluded
    <3> HIDE DEF moved, all
    <3> QED
      BY <1>5, <2>1
  <2>3. all[i] = marked[i]
    BY <1>4
  <2> HIDE DEF moved, all, marked
  <2>4. QED
    BY <1>2, <2>1, <2>2, <2>3
<1>9. QED
  <2> HIDE DEF moved, all, marked
  <2> QED
    BY <1>1, <1>7, <1>8 DEF Extends

LEMMA ExtendsIsTransitive ==
  ASSUME NEW a, NEW b, NEW c, Extends(c, b), Extends(b, a)
  PROVE  Extends(c, a)
BY DEF Extends

LEMMA ExtendsItself == \A a : Extends(a, a)
BY DEF Extends

-----------------------------------------------------------------------------
(* Review: what reports are worth *)

(* A report with its index is charged as the report is.                     *)
LEMMA ChargeOfReport ==
  ASSUME NEW reports \in Seq(ReportType), NEW i \in DOMAIN reports
  PROVE  Chargeable(Numbered(i, reports[i]))
<1>1. PICK d \in ReportType : d = reports[i]
  OBVIOUS
<1>2. QED
  BY <1>1 DEF Numbered, Chargeable, ReportType

LEMMA ScoredReports ==
  ASSUME NEW reports \in Seq(ReportType), NEW at \in SUBSET DOMAIN reports, NEW workbook \in BOOLEAN
  PROVE  /\ ChargeableSet({ Numbered(i, reports[i]) : i \in at })
         /\ Score({ Numbered(i, reports[i]) : i \in at }, workbook) \in 0..100
<1> DEFINE f == [i \in at |-> Numbered(i, reports[i])]
           ds == { f[i] : i \in at }
<1>1. IsFiniteSet(at)
  BY FS_Interval, FS_Subset
<1>2. IsFiniteSet(ds)
  <2> HIDE DEF f
  <2> QED
    BY <1>1, ImageIsFinite
<1>3. ChargeableSet(ds)
  BY <1>2, ChargeOfReport DEF ChargeableSet
<1>4. ds = { Numbered(i, reports[i]) : i \in at }
  OBVIOUS
<1>5. QED
  <2> HIDE DEF ds
  <2> QED
    BY <1>3, <1>4, ScoreIsBounded

LEMMA RescoredType ==
  ASSUME NEW reports \in Seq(ReportType)
  PROVE  Rescored(reports) \in 0..100
<1>1. { k \in DOMAIN reports : ~reports[k].excluded } \in SUBSET DOMAIN reports
  OBVIOUS
<1>2. QED
  BY <1>1, ScoredReports DEF Rescored, Charged

LEMMA ReadingFacts ==
  ASSUME NEW r \in Readings, NEW n \in Int
  PROVE  /\ ScoreOf(r) \in Scores /\ RowScore(ScoreOf(r)) \in 0..100
         /\ RowScore(ScoreOf(r)) \in Scores /\ RowScore(ScoreOf(r)) # NoScore
         /\ GradeOf(ScoreOf(r)) \in DOMAIN Bands /\ Log(r, n) \in LogType
<1>1. r.reports \in Seq(ReportType) /\ r.failed \in BOOLEAN /\ IsWorkbook \in BOOLEAN
  BY ReviewAssumption
<1>2. ScoreOf(r) = NoScore \/ ScoreOf(r) \in 0..100
  <2>1. Score(AsRead(r.reports), IsWorkbook) \in 0..100
    BY <1>1, ScoredReports DEF AsRead
  <2>2. QED
    BY <2>1 DEF ScoreOf
<1>3. PICK score \in Scores : score = ScoreOf(r)
  BY <1>2 DEF Scores
<1>4. RowScore(score) \in 0..100 /\ RowScore(score) \in Scores /\ RowScore(score) # NoScore
  BY <1>3 DEF RowScore, Scores, NoScore
<1>5. GradeOf(score) \in DOMAIN Bands
  <2>1. CASE score = NoScore
    BY <2>1 DEF GradeOf, Bands
  <2>2. CASE score \in 0..100
    BY <2>2, GradeOfScore
  <2>3. QED
    BY <1>3, <2>1, <2>2 DEF Scores
<1>6. NoCertificate \in CertificateType
  BY DEF NoCertificate, CertificateType, Scores
<1>7. Log(r, n) \in LogType
  BY <1>1, <1>3, <1>5, <1>6 DEF Log, LogType
<1>8. QED
  BY <1>3, <1>4, <1>5, <1>7

-----------------------------------------------------------------------------
(* Review: what a reviewer has before him *)

LEMMA SheetByPlace ==
  ASSUME NEW q \in SheetType
  PROVE  /\ q.pc \in {"closed", "open", "shown", "scoring", "settled", "queued", "drawing"}
         /\ q.pc = "open"    => q \in OpenType
         /\ q.pc = "scoring" => q \in ScoringType
         /\ q.pc = "settled" => q \in SettledType
         /\ q.pc = "drawing" => q \in DrawingType
BY DEF SheetType, RestType, OpenType, ShownType, ScoringType, SettledType, DrawingType

LEMMA SheetChange ==
  ASSUME sheet \in [Reviewers -> SheetType], NEW r \in Reviewers, NEW new \in SheetType,
         sheet' = [sheet EXCEPT ![r] = new]
  PROVE  /\ sheet' \in [Reviewers -> SheetType] /\ sheet'[r] = new
         /\ \A t \in Reviewers : t # r => sheet'[t] = sheet[t]
OBVIOUS

LEMMA ReviewStarts == ReviewInit => ReviewInv
<1> SUFFICES ASSUME ReviewInit PROVE ReviewInv
  OBVIOUS
<1>1. PICK reading \in Readings :
        /\ task = [status |-> "HITL_REQUIRED", score |-> ScoreOf(reading), log |-> Log(reading, 1)]
        /\ row = Waiting(ScoreOf(reading))
  BY DEF ReviewInit
<1>2. /\ sheet = [r \in Reviewers |-> Closed] /\ ai = [pc |-> "idle"]
      /\ readings = 1 /\ decisions = 0 /\ untouched = TRUE /\ raced = FALSE /\ lost = {}
  BY DEF ReviewInit
<1>3. ReviewTypes
  <2>1. task \in TaskType
    BY <1>1, ReadingFacts DEF TaskType, Statuses
  <2>2. row \in RowType
    BY <1>1, ReadingFacts DEF RowType, Waiting, StockRow
  <2>3. ai \in AiType /\ sheet \in [Reviewers -> SheetType]
    BY <1>2 DEF AiType, SheetType, RestType, Closed
  <2>4. readings \in 1..MaxReadings /\ decisions \in 0..MaxDecisions
    BY <1>2, ReviewAssumption
  <2>5. QED
    BY <1>2, <2>1, <2>2, <2>3, <2>4 DEF ReviewTypes
<1>4. /\ \A r \in Reviewers : sheet[r].pc = "closed"
      /\ task.log.of = 1 /\ row.source = "PENDING_HITL"
  BY <1>1, <1>2 DEF Closed, Log, Waiting, StockRow
<1>5. SheetsAreFilledIn
  BY <1>2, <1>4 DEF SheetsAreFilledIn
<1>6. AiKeepsOff /\ StockTellsDecision /\ LoggedIsDecided /\ TargetIsSold /\ CertificateIsCurrent
  BY <1>4
  DEF AiKeepsOff, StockTellsDecision, LoggedIsDecided, TargetIsSold, CertificateIsCurrent, Sold
<1>9. AiScores /\ UndecidedIsScored
  <2>1. row.score = RowScore(ScoreOf(reading))
    BY <1>1 DEF Waiting, StockRow
  <2>2. QED
    BY <1>2, <2>1, ReadingFacts DEF AiScores, UndecidedIsScored
<1>7. SettledStands /\ SeenIsThere
  BY <1>4 DEF SettledStands, OnlySettled, IsSettled, SeenIsThere
<1>8. QED
  BY <1>3, <1>5, <1>6, <1>7, <1>9 DEF ReviewInv

(* What one reviewer looks at, asks for, or gives up concerns the others    *)
(* only if he has committed something: then what is missing is noted.       *)
LEMMA SheetKeeps ==
  ASSUME ReviewInv, NEW r \in Reviewers, NEW new \in SheetType,
         sheet' = [sheet EXCEPT ![r] = new],
         UNCHANGED << task, row, audit, ai, readings, untouched, raced >>,
         decisions' \in 0..MaxDecisions,
         lost \subseteq lost', lost' \subseteq {"audit", "certificate", "reports"},
         new.pc # "settled",
         sheet[r].pc = "settled" => {"audit", "certificate"} \subseteq lost',
         sheet[r].pc \in {"queued", "drawing"} => new.pc \in {"queued", "drawing"} \/ "certificate" \in lost',
         new.pc = "scoring" => /\ new.verdict # "APPROVE" => new.grade = "NONE"
                               /\ new.edit.out \subseteq DOMAIN new.seen,
         new.pc = "open" => new.of <= readings,
         new.pc \in {"scoring", "drawing"} => new.read.log.of <= readings,
         ~raced => /\ new.pc = "open" /\ new.of = task.log.of => Extends(task.log.reports, new.seen)
                   /\ new.pc = "scoring" /\ new.same => Extends(new.read.log.reports, new.seen)
  PROVE  ReviewInv'
<1>1. /\ ReviewTypes /\ SheetsAreFilledIn /\ AiKeepsOff /\ StockTellsDecision /\ SettledStands
      /\ LoggedIsDecided /\ TargetIsSold /\ CertificateIsCurrent /\ SeenIsThere
  BY DEF ReviewInv
<1>2. sheet \in [Reviewers -> SheetType]
  BY <1>1 DEF ReviewTypes
<1>3. /\ sheet' \in [Reviewers -> SheetType] /\ sheet'[r] = new
      /\ \A t \in Reviewers : t # r => sheet'[t] = sheet[t]
  BY <1>2, SheetChange
<1>4. ReviewTypes'
  BY <1>1, <1>3 DEF ReviewTypes
<1>5. SheetsAreFilledIn'
  BY <1>1, <1>3 DEF SheetsAreFilledIn
<1>6. AiKeepsOff' /\ AiScores' /\ UndecidedIsScored' /\ StockTellsDecision'
  BY DEF ReviewInv, AiKeepsOff, AiScores, UndecidedIsScored, StockTellsDecision, Known
<1>7. SettledStands'
  <2> SUFFICES ASSUME ~raced, "certificate" \notin lost', task.status = "APPROVED",
                      NEW t \in Reviewers, OnlySettled(t)'
               PROVE  /\ sheet'[t].verdict = "APPROVE"
                      /\ row.source = "HITL" => SoldAs(sheet'[t].grade)
    BY DEF SettledStands, SoldAs
  <2>1. t # r /\ sheet'[t] = sheet[t]
    BY <1>3 DEF OnlySettled, IsSettled
  <2>2. OnlySettled(t)
    BY <1>3, <2>1 DEF OnlySettled, IsSettled
  <2>3. QED
    BY <1>1, <2>1, <2>2 DEF SettledStands
<1>8. NobodySettled' /\ ("audit" \notin lost' \/ "certificate" \notin lost') => NobodySettled
  BY <1>3 DEF NobodySettled, IsSettled
<1>9. LoggedIsDecided' /\ TargetIsSold'
  BY <1>1, <1>8 DEF LoggedIsDecided, TargetIsSold, Sold, SoldAs
<1>10. CertificateIsCurrent'
  BY <1>1, <1>3 DEF CertificateIsCurrent, Sold, Certificate
<1>11. SeenIsThere'
  BY <1>1, <1>3 DEF SeenIsThere
<1>12. QED
  BY <1>4, <1>5, <1>6, <1>7, <1>9, <1>10, <1>11 DEF ReviewInv

LEMMA OpenKeeps ==
  ASSUME ReviewInv, NEW r \in Reviewers, Open(r)
  PROVE  ReviewInv'
<1> DEFINE new == [pc |-> "open", seen |-> task.log.reports, of |-> task.log.of]
<1>1. ReviewTypes /\ SheetsAreFilledIn
  BY DEF ReviewInv
<1>2. /\ sheet[r] = Closed /\ sheet' = [sheet EXCEPT ![r] = new]
      /\ UNCHANGED << task, row, audit, ai, readings, decisions, untouched, raced, lost >>
  BY DEF Open
<1>3. new \in SheetType /\ new.of <= readings /\ Extends(task.log.reports, new.seen)
  BY <1>1, ExtendsItself
  DEF ReviewTypes, SheetsAreFilledIn, TaskType, LogType, SheetType, OpenType
<1>4. new.pc = "open" /\ sheet[r].pc = "closed"
  BY <1>2 DEF Closed
<1>5. decisions' \in 0..MaxDecisions /\ lost \subseteq lost' /\ lost' \subseteq {"audit", "certificate", "reports"}
  BY <1>1, <1>2 DEF ReviewTypes
<1>6. QED
  <2> HIDE DEF new
  <2> QED
    BY <1>2, <1>3, <1>4, <1>5, SheetKeeps

LEMMA PreviewKeeps ==
  ASSUME ReviewInv, NEW r \in Reviewers, NEW e \in Edits, Preview(r, e)
  PROVE  ReviewInv'
<1> DEFINE new == [pc |-> "shown", only |-> e = [NoEdit EXCEPT !.out = e.out],
                   score |-> Rescored(ApplyEdits(task.log.reports, e))]
<1>1. ReviewTypes
  BY DEF ReviewInv
<1>2. /\ sheet[r].pc = "open" /\ sheet' = [sheet EXCEPT ![r] = new]
      /\ UNCHANGED << task, row, audit, ai, readings, decisions, untouched, raced, lost >>
  BY DEF Preview
<1>3. new \in SheetType
  <2>1. task.log.reports \in Seq(ReportType)
    BY <1>1 DEF ReviewTypes, TaskType, LogType
  <2>2. PICK score \in Int : score = Rescored(ApplyEdits(task.log.reports, e))
    <3>1. PICK edited \in Seq(ReportType) : edited = ApplyEdits(task.log.reports, e)
      BY <2>1, EditsExtend
    <3>2. Rescored(edited) \in 0..100
      BY RescoredType
    <3>3. QED
      BY <3>1, <3>2
  <2>3. PICK only \in BOOLEAN : only = (e = [NoEdit EXCEPT !.out = e.out])
    OBVIOUS
  <2>4. new = [pc |-> "shown", only |-> only, score |-> score]
    BY <2>2, <2>3
  <2>5. QED
    BY <2>2, <2>3, <2>4 DEF SheetType, ShownType
<1>4. new.pc = "shown"
  OBVIOUS
<1>5. decisions' \in 0..MaxDecisions /\ lost \subseteq lost' /\ lost' \subseteq {"audit", "certificate", "reports"}
  BY <1>1, <1>2 DEF ReviewTypes
<1>6. QED
  <2> HIDE DEF new
  <2> QED
    BY <1>2, <1>3, <1>4, <1>5, SheetKeeps

LEMMA SubmitKeeps ==
  ASSUME ReviewInv, NEW r \in Reviewers, NEW e \in Edits, NEW verdict \in Verdicts,
         NEW grade \in Grades \cup {"NONE"}, Submit(r, e, verdict, grade)
  PROVE  ReviewInv'
<1> DEFINE new == [pc |-> "scoring", seen |-> sheet[r].seen, edit |-> e, verdict |-> verdict,
                   grade |-> grade, read |-> task, same |-> sheet[r].of = task.log.of]
<1>1. ReviewTypes /\ SheetsAreFilledIn /\ SeenIsThere
  BY DEF ReviewInv
<1>2. /\ sheet[r].pc = "open" /\ e \in Offered(r) /\ decisions < MaxDecisions
      /\ verdict # "APPROVE" => grade = "NONE"
      /\ sheet' = [sheet EXCEPT ![r] = new] /\ decisions' = decisions + 1
      /\ UNCHANGED << task, row, audit, ai, readings, untouched, raced, lost >>
  BY DEF Submit
<1>3. PICK same \in BOOLEAN : same = (sheet[r].of = task.log.of)
  OBVIOUS
<1>4. new \in SheetType /\ new.pc = "scoring" /\ new.verdict = verdict /\ new.grade = grade
  <2>1. sheet[r] \in OpenType
    BY <1>1, <1>2, SheetByPlace DEF ReviewTypes
  <2>2. new = [pc |-> "scoring", seen |-> sheet[r].seen, edit |-> e, verdict |-> verdict,
               grade |-> grade, read |-> task, same |-> same]
    BY <1>3
  <2>3. new \in ScoringType
    BY <1>1, <1>3, <2>1, <2>2 DEF ReviewTypes, OpenType, ScoringType
  <2>4. QED
    BY <2>3 DEF SheetType
<1>5. new.edit.out \subseteq DOMAIN new.seen /\ new.read.log.of <= readings
  BY <1>1, <1>2 DEF Offered, SheetsAreFilledIn
<1>6. ~raced /\ new.same => Extends(new.read.log.reports, new.seen)
  BY <1>1, <1>2 DEF SeenIsThere
<1>7. /\ decisions' \in 0..MaxDecisions
      /\ lost \subseteq lost' /\ lost' \subseteq {"audit", "certificate", "reports"}
  <2>1. decisions \in 0..MaxDecisions /\ MaxDecisions \in Nat
    BY <1>1, ReviewAssumption DEF ReviewTypes
  <2>2. decisions' \in 0..MaxDecisions
    BY <1>2, <2>1
  <2>3. QED
    BY <1>1, <1>2, <2>2 DEF ReviewTypes
<1>8. QED
  <2> HIDE DEF new
  <2> QED
    BY <1>2, <1>4, <1>5, <1>6, <1>7, SheetKeeps

LEMMA DrawUpKeeps ==
  ASSUME ReviewInv, NEW r \in Reviewers, DrawUp(r)
  PROVE  ReviewInv'
<1> DEFINE new == [pc |-> "drawing", read |-> task]
<1>1. ReviewTypes /\ SheetsAreFilledIn
  BY DEF ReviewInv
<1>2. /\ sheet[r].pc = "queued" /\ sheet' = [sheet EXCEPT ![r] = new]
      /\ UNCHANGED << task, row, audit, ai, readings, decisions, untouched, raced, lost >>
  BY DEF DrawUp
<1>3. new \in SheetType /\ new.pc = "drawing" /\ new.read.log.of <= readings
  BY <1>1 DEF ReviewTypes, SheetsAreFilledIn, SheetType, DrawingType
<1>4. decisions' \in 0..MaxDecisions /\ lost \subseteq lost' /\ lost' \subseteq {"audit", "certificate", "reports"}
  BY <1>1, <1>2 DEF ReviewTypes
<1>5. QED
  <2> HIDE DEF new
  <2> QED
    BY <1>2, <1>3, <1>4, SheetKeeps

LEMMA AbandonKeeps ==
  ASSUME ReviewInv, NEW r \in Reviewers, Abandon(r)
  PROVE  ReviewInv'
<1>1. ReviewTypes
  BY DEF ReviewInv
<1>2. /\ sheet' = [sheet EXCEPT ![r] = Closed]
      /\ UNCHANGED << task, row, audit, ai, readings, decisions, untouched, raced >>
  BY DEF Abandon
<1>3. Closed \in SheetType /\ Closed.pc = "closed"
  BY DEF SheetType, RestType, Closed
<1>4. PICK missing \in SUBSET {"audit", "certificate"} :
        /\ lost' = lost \cup missing
        /\ sheet[r].pc = "settled" => missing = {"audit", "certificate"}
        /\ sheet[r].pc \in {"queued", "drawing"} => missing = {"certificate"}
  <2> DEFINE missing == CASE sheet[r].pc = "settled" -> {"audit", "certificate"}
                          [] sheet[r].pc \in {"queued", "drawing"} -> {"certificate"}
                          [] OTHER -> {}
  <2>1. lost' = lost \cup missing
    BY DEF Abandon
  <2>2. /\ missing \in SUBSET {"audit", "certificate"}
        /\ sheet[r].pc = "settled" => missing = {"audit", "certificate"}
        /\ sheet[r].pc \in {"queued", "drawing"} => missing = {"certificate"}
    OBVIOUS
  <2>3. QED
    BY <2>1, <2>2
<1>5. /\ decisions' \in 0..MaxDecisions
      /\ lost \subseteq lost' /\ lost' \subseteq {"audit", "certificate", "reports"}
      /\ sheet[r].pc = "settled" => {"audit", "certificate"} \subseteq lost'
      /\ sheet[r].pc \in {"queued", "drawing"} => "certificate" \in lost'
  BY <1>1, <1>2, <1>4 DEF ReviewTypes
<1>6. QED
  BY <1>2, <1>3, <1>5, SheetKeeps

-----------------------------------------------------------------------------
(* Review: the AI, and the recall *)

LEMMA TaskFields ==
  ASSUME NEW t \in TaskType
  PROVE  /\ t.status \in Statuses /\ t.score \in Scores /\ t.log \in LogType
         /\ t.log.reports \in Seq(ReportType) /\ t.log.suggested \in DOMAIN Bands
         /\ t.log.of \in Int /\ t.log.target \in Grades \cup {"NONE"}
         /\ t.log.certificate \in CertificateType
BY DEF TaskType, LogType

(* What the AI, a recall, or a request for another reading does to the job  *)
(* and its row, while every reviewer's sheet stays as it is. They leave no  *)
(* job approved that was not.                                               *)
LEMMA RowKeeps ==
  ASSUME ReviewInv,
         task' \in TaskType, row' \in RowType, ai' \in AiType,
         UNCHANGED << audit, sheet, readings, decisions, untouched, lost >>,
         raced' \in BOOLEAN, raced => raced',
         task'.log = task.log,
         task'.status \in {"HITL_REQUIRED", "PENDING"} \/ (task' = task /\ row'.source # "HITL"),
         ai'.pc = "acted" => row'.source # "HITL",
         ai'.pc # "idle" => readings < MaxReadings,
         \/ row'.score # NoScore
         \/ row'.score = row.score /\ (ai'.pc = "acted" => ai.pc = "acted")
  PROVE  ReviewInv'
<1>1. /\ ReviewTypes /\ SheetsAreFilledIn /\ AiKeepsOff /\ StockTellsDecision /\ SettledStands
      /\ LoggedIsDecided /\ TargetIsSold /\ CertificateIsCurrent /\ SeenIsThere
  BY DEF ReviewInv
<1>2. ReviewTypes'
  BY <1>1 DEF ReviewTypes
<1>3. SheetsAreFilledIn'
  BY <1>1 DEF SheetsAreFilledIn
<1>4. AiKeepsOff' /\ AiScores' /\ UndecidedIsScored'
  BY DEF ReviewInv, AiKeepsOff, AiScores, UndecidedIsScored
<1>5. row'.source # "HITL" \/ task'.status \notin {"APPROVED", "REJECTED"}
  OBVIOUS
<1>6. StockTellsDecision' /\ LoggedIsDecided' /\ TargetIsSold' /\ CertificateIsCurrent'
  BY <1>5 DEF StockTellsDecision, LoggedIsDecided, TargetIsSold, CertificateIsCurrent, Sold
<1>7. SettledStands'
  BY <1>1, <1>5 DEF SettledStands, OnlySettled, IsSettled
<1>8. SeenIsThere'
  BY <1>1 DEF SeenIsThere
<1>9. QED
  BY <1>2, <1>3, <1>4, <1>6, <1>7, <1>8 DEF ReviewInv

LEMMA ReinspectKeeps ==
  ASSUME ReviewInv, Reinspect
  PROVE  ReviewInv'
<1>1. ReviewTypes
  BY DEF ReviewInv
<1>2. /\ readings < MaxReadings /\ task' = [task EXCEPT !.status = "PENDING"] /\ ai' = [pc |-> "reading"]
      /\ UNCHANGED << row, audit, sheet, readings, decisions, untouched, raced, lost >>
  BY DEF Reinspect
<1>3. task' \in TaskType /\ task'.status \in {"HITL_REQUIRED", "PENDING"} /\ task'.log = task.log
  BY <1>1, <1>2 DEF ReviewTypes, TaskType, Statuses
<1>4. ai' \in AiType /\ (ai'.pc = "acted" => row'.source # "HITL")
  BY <1>2 DEF AiType
<1>5. /\ row' \in RowType /\ raced' \in BOOLEAN /\ (raced => raced')
      /\ row'.score = row.score /\ (ai'.pc = "acted" => ai.pc = "acted")
  BY <1>1, <1>2 DEF ReviewTypes
<1>6. /\ readings < MaxReadings
      /\ UNCHANGED << audit, sheet, readings, decisions, untouched, lost >>
  BY <1>2
<1>7. QED
  BY <1>3, <1>4, <1>5, <1>6, RowKeeps

LEMMA AiActsKeeps ==
  ASSUME ReviewInv, AiActs
  PROVE  ReviewInv'
<1>1. ReviewTypes /\ SheetsAreFilledIn
  BY DEF ReviewInv
<1>2. PICK r \in Readings, verdict \in {"HITL_REQUIRED", "REJECTED"} :
        /\ ai' = [pc |-> "acted", reading |-> r, verdict |-> verdict, over |-> task.status]
        /\ row' = IF verdict = "HITL_REQUIRED" THEN Waiting(ScoreOf(r))
                  ELSE StockRow("REJECTED", GradeOf(ScoreOf(r)), RowScore(ScoreOf(r)), "AI_AUTO")
  BY DEF AiActs
<1>3. /\ ai.pc = "reading"
      /\ UNCHANGED << task, audit, sheet, readings, decisions, untouched, raced, lost >>
  BY DEF AiActs
<1>4. ai' \in AiType
  BY <1>1, <1>2, TaskFields DEF AiType, ReviewTypes
<1>5. row' \in RowType /\ row'.source # "HITL" /\ row'.score # NoScore
  <2>1. PICK score \in Scores \ {NoScore}, grade \in DOMAIN Bands :
          score = RowScore(ScoreOf(r)) /\ grade = GradeOf(ScoreOf(r))
    BY ReadingFacts
  <2>2. QED
    BY <1>2, <2>1 DEF RowType, Waiting, StockRow
<1>6. readings < MaxReadings
  BY <1>1, <1>3 DEF SheetsAreFilledIn
<1>7. task' \in TaskType /\ raced' \in BOOLEAN
  BY <1>1, <1>3 DEF ReviewTypes
<1>8. QED
  BY <1>3, <1>4, <1>5, <1>6, <1>7, RowKeeps

LEMMA RecallKeeps ==
  ASSUME ReviewInv, Recall
  PROVE  ReviewInv'
<1>1. ReviewTypes /\ SheetsAreFilledIn
  BY DEF ReviewInv
<1>2. /\ task' = [task EXCEPT !.status = "HITL_REQUIRED"]
      /\ row' = [row EXCEPT !.status = "HITL_PENDING", !.source = "PENDING_HITL"]
      /\ raced' = (raced \/ Deciding)
      /\ UNCHANGED << audit, sheet, ai, readings, decisions, untouched, lost >>
  BY DEF Recall
<1>3. task' \in TaskType /\ task'.status = "HITL_REQUIRED" /\ task'.log = task.log
  BY <1>1, <1>2 DEF ReviewTypes, TaskType, Statuses
<1>4. row' \in RowType /\ row'.source # "HITL" /\ row'.score = row.score
  BY <1>1, <1>2 DEF ReviewTypes, RowType
<1>5. raced' \in BOOLEAN /\ (raced => raced')
  BY <1>1, <1>2 DEF ReviewTypes, Deciding
<1>6. ai' \in AiType /\ ai' = ai /\ (ai'.pc # "idle" => readings < MaxReadings)
  BY <1>1, <1>2 DEF ReviewTypes, SheetsAreFilledIn
<1>7. QED
  BY <1>2, <1>3, <1>4, <1>5, <1>6, RowKeeps

(* By the time the AI saves what it has read, the row is not a human's, or  *)
(* the requests overlapped.                                                 *)
LEMMA AiSavesKeeps ==
  ASSUME ReviewInv, AiSaves
  PROVE  ReviewInv'
<1>1. /\ ReviewTypes /\ SheetsAreFilledIn /\ AiKeepsOff /\ StockTellsDecision /\ SettledStands
      /\ LoggedIsDecided /\ TargetIsSold /\ CertificateIsCurrent /\ SeenIsThere
  BY DEF ReviewInv
<1> DEFINE new == Log(ai.reading, readings + 1)
<1>2. /\ ai.pc = "acted" /\ ai' = [pc |-> "idle"] /\ readings' = readings + 1 /\ untouched' = TRUE
      /\ task' = [status |-> IF task.status = "HITL_REQUIRED" THEN "HITL_REQUIRED" ELSE ai.verdict,
                  score |-> ScoreOf(ai.reading), log |-> [new EXCEPT !.target = task.log.target]]
      /\ raced' = (raced \/ ai.over # task.status \/ Deciding)
      /\ UNCHANGED << row, audit, sheet, decisions, lost >>
  BY DEF AiSaves
<1>3. ai.reading \in Readings /\ ai.verdict \in {"HITL_REQUIRED", "REJECTED"}
  BY <1>1, <1>2 DEF ReviewTypes, AiType
<1>4. readings \in Int /\ readings + 1 \in 1..MaxReadings /\ task.log.target \in Grades \cup {"NONE"}
  <2>1. readings \in 1..MaxReadings /\ readings < MaxReadings /\ MaxReadings \in Nat
    BY <1>1, <1>2, ReviewAssumption DEF ReviewTypes, SheetsAreFilledIn
  <2>2. readings \in Int /\ readings + 1 \in 1..MaxReadings
    BY <2>1
  <2>3. QED
    BY <1>1, <2>2, TaskFields DEF ReviewTypes
<1>5. /\ task' \in TaskType /\ task'.status \in {"HITL_REQUIRED", "REJECTED"}
      /\ task'.log.of = readings + 1
  <2>1. new \in LogType /\ new.of = readings + 1 /\ ScoreOf(ai.reading) \in Scores
    BY <1>3, <1>4, ReadingFacts DEF Log
  <2> HIDE DEF new
  <2>2. PICK log : log = [new EXCEPT !.target = task.log.target]
    OBVIOUS
  <2>3. log \in LogType /\ log.of = readings + 1
    BY <1>4, <2>1, <2>2 DEF LogType
  <2>4. QED
    BY <1>2, <1>3, <2>1, <2>2, <2>3 DEF TaskType, Statuses
<1>6. raced' \in BOOLEAN /\ (raced => raced') /\ (~raced' => row.source # "HITL")
  BY <1>1, <1>2 DEF ReviewTypes, Deciding, AiKeepsOff
<1>7. ai' \in AiType /\ ai'.pc = "idle"
  BY <1>2 DEF AiType
<1>8. ReviewTypes'
  BY <1>1, <1>2, <1>4, <1>5, <1>6, <1>7 DEF ReviewTypes
<1>9. SheetsAreFilledIn'
  <2>1. ASSUME NEW r \in Reviewers
        PROVE  /\ sheet[r].pc = "open" => sheet[r].of <= readings + 1
               /\ sheet[r].pc \in {"scoring", "drawing"} => sheet[r].read.log.of <= readings + 1
    <3>1. sheet[r] \in SheetType
      BY <1>1 DEF ReviewTypes
    <3>2. CASE sheet[r].pc = "open"
      <4>1. sheet[r].of \in Int /\ sheet[r].of <= readings
        BY <1>1, <3>1, <3>2, SheetByPlace DEF SheetsAreFilledIn, OpenType
      <4>2. QED
        BY <1>4, <3>2, <4>1
    <3>3. CASE sheet[r].pc \in {"scoring", "drawing"}
      <4>1. sheet[r].read \in TaskType
        BY <3>1, <3>3, SheetByPlace DEF ScoringType, DrawingType
      <4>2. sheet[r].read.log.of \in Int /\ sheet[r].read.log.of <= readings
        BY <1>1, <3>3, <4>1, TaskFields DEF SheetsAreFilledIn
      <4>3. QED
        BY <1>4, <3>3, <4>2
    <3>4. QED
      BY <3>2, <3>3
  <2>2. QED
    BY <1>1, <1>2, <1>4, <1>5, <1>7, <2>1 DEF SheetsAreFilledIn
<1>14. AiScores' /\ UndecidedIsScored'
  BY <1>2, <1>6, <1>7 DEF ReviewInv, AiScores, UndecidedIsScored
<1>10. AiKeepsOff' /\ StockTellsDecision' /\ LoggedIsDecided' /\ TargetIsSold' /\ CertificateIsCurrent'
  BY <1>2, <1>5, <1>6, <1>7
     DEF AiKeepsOff, StockTellsDecision, LoggedIsDecided, TargetIsSold, CertificateIsCurrent, Sold
<1>11. SettledStands'
  BY <1>5 DEF SettledStands
<1>12. SeenIsThere'
  <2> SUFFICES ASSUME ~raced', NEW r \in Reviewers
               PROVE  /\ sheet[r].pc = "open" /\ sheet[r].of = task'.log.of => FALSE
                      /\ sheet[r].pc = "scoring" /\ sheet[r].same =>
                           Extends(sheet[r].read.log.reports, sheet[r].seen)
    BY <1>2 DEF SeenIsThere
  <2>1. sheet[r].pc = "open" => sheet[r].of \in Int /\ sheet[r].of <= readings
    BY <1>1, SheetByPlace DEF ReviewTypes, SheetsAreFilledIn, OpenType
  <2>2. QED
    BY <1>1, <1>4, <1>5, <1>6, <2>1 DEF SeenIsThere
<1>13. QED
  BY <1>8, <1>9, <1>10, <1>11, <1>12, <1>14 DEF ReviewInv

-----------------------------------------------------------------------------
(* Review: the second commit, and the certificate *)

LEMMA FinishKeeps ==
  ASSUME ReviewInv, NEW r \in Reviewers, Finish(r)
  PROVE  ReviewInv'
<1>1. /\ ReviewTypes /\ SheetsAreFilledIn /\ AiKeepsOff /\ StockTellsDecision /\ SettledStands
      /\ LoggedIsDecided /\ TargetIsSold /\ CertificateIsCurrent /\ SeenIsThere
  BY DEF ReviewInv
<1>2. /\ sheet[r].pc = "settled" /\ audit' = Entry(task.status, Evidence(r))
      /\ raced' = (raced \/ Overtaken(r))
      /\ UNCHANGED << row, ai, readings, decisions, untouched, lost >>
  BY DEF Finish
<1>3. sheet[r] \in SettledType
  BY <1>1, <1>2, SheetByPlace DEF ReviewTypes
<1>4. PICK new \in SheetType :
        /\ sheet' = [sheet EXCEPT ![r] = new]
        /\ new.pc = IF sheet[r].verdict = "APPROVE" THEN "queued" ELSE "closed"
  <2>1. [pc |-> "queued"] \in SheetType /\ Closed \in SheetType /\ Closed.pc = "closed"
    BY DEF SheetType, RestType, Closed
  <2>2. QED
    BY <2>1 DEF Finish, Leaves
<1>5. /\ sheet' \in [Reviewers -> SheetType] /\ sheet'[r] = new
      /\ \A t \in Reviewers : t # r => sheet'[t] = sheet[t]
  BY <1>1, <1>4, SheetChange DEF ReviewTypes
<1>6. /\ task' \in TaskType /\ task'.status = task.status /\ task'.score = task.score
      /\ task'.log.target = sheet[r].grade /\ task'.log.reports = task.log.reports
      /\ task'.log.of = task.log.of
  <2>1. PICK log : log = [task.log EXCEPT !.target = sheet[r].grade]
    OBVIOUS
  <2>2. task' = [task EXCEPT !.log = log]
    BY <2>1 DEF Finish, NotesGrade
  <2>3. task \in TaskType /\ task.log \in LogType /\ sheet[r].grade \in Grades \cup {"NONE"}
    BY <1>1, <1>3, TaskFields DEF ReviewTypes, SettledType
  <2>4. log \in LogType /\ log.target = sheet[r].grade /\ log.reports = task.log.reports /\ log.of = task.log.of
    BY <2>1, <2>3 DEF LogType
  <2>5. QED
    BY <2>2, <2>3, <2>4 DEF TaskType
<1>7. /\ raced' \in BOOLEAN
      /\ ~raced' => ~raced /\ OnlySettled(r)
  BY <1>1, <1>2 DEF ReviewTypes, Overtaken, OnlySettled, IsSettled
<1>8. ReviewTypes'
  BY <1>1, <1>2, <1>5, <1>6, <1>7 DEF ReviewTypes
<1>9. SheetsAreFilledIn'
  BY <1>1, <1>2, <1>4, <1>5, <1>6 DEF SheetsAreFilledIn
<1>10. AiKeepsOff' /\ AiScores' /\ UndecidedIsScored' /\ StockTellsDecision'
  BY <1>2, <1>6, <1>7 DEF ReviewInv, AiKeepsOff, AiScores, UndecidedIsScored, StockTellsDecision, Known
<1>11. SettledStands'
  BY <1>4, <1>5, <1>7 DEF SettledStands, OnlySettled, IsSettled
<1>12. LoggedIsDecided'
  BY <1>2, <1>6 DEF LoggedIsDecided, Entry
<1>13. ~raced' /\ "certificate" \notin lost /\ task.status = "APPROVED" =>
         /\ sheet[r].verdict = "APPROVE"
         /\ row.source = "HITL" => SoldAs(sheet[r].grade)
  BY <1>1, <1>7 DEF SettledStands
<1>14. TargetIsSold'
  BY <1>2, <1>6, <1>13 DEF TargetIsSold, Sold, SoldAs
<1>15. CertificateIsCurrent'
  BY <1>2, <1>4, <1>5, <1>6, <1>13 DEF CertificateIsCurrent, Sold
<1>16. SeenIsThere'
  BY <1>1, <1>4, <1>5, <1>6, <1>7 DEF SeenIsThere
<1>17. QED
  BY <1>8, <1>9, <1>10, <1>11, <1>12, <1>14, <1>15, <1>16 DEF ReviewInv

LEMMA CertificateTyped ==
  ASSUME NEW t \in TaskType
  PROVE  Certificate(t) \in CertificateType
<1>1. /\ t.score \in Scores /\ t.log.target \in Grades \cup {"NONE"}
      /\ \A i \in DOMAIN t.log.reports : i \in Nat
  BY TaskFields
<1>2. { i \in DOMAIN t.log.reports : ~t.log.reports[i].suspect } \in SUBSET Nat
  BY <1>1
<1>3. QED
  BY <1>1, <1>2 DEF Certificate, CertificateType, Scores

LEMMA CertifyKeeps ==
  ASSUME ReviewInv, NEW r \in Reviewers, Certify(r)
  PROVE  ReviewInv'
<1>1. /\ ReviewTypes /\ SheetsAreFilledIn /\ AiKeepsOff /\ StockTellsDecision /\ SettledStands
      /\ LoggedIsDecided /\ TargetIsSold /\ CertificateIsCurrent /\ SeenIsThere
  BY DEF ReviewInv
<1>2. PICK read : read = sheet[r].read
  OBVIOUS
<1>3. /\ sheet[r].pc = "drawing" /\ sheet' = [sheet EXCEPT ![r] = Closed]
      /\ task' = [task EXCEPT !.log = [read.log EXCEPT !.certificate = Certificate(read)]]
      /\ raced' = (raced \/ task.log # read.log \/ task.score # read.score)
      /\ lost' = lost \cup IF task.log.reports # read.log.reports THEN {"reports"} ELSE {}
      /\ UNCHANGED << row, audit, ai, readings, decisions, untouched >>
  BY <1>2 DEF Certify
<1>4. /\ Closed \in SheetType /\ Closed.pc = "closed"
      /\ sheet' \in [Reviewers -> SheetType] /\ sheet'[r] = Closed
      /\ \A t \in Reviewers : t # r => sheet'[t] = sheet[t]
  <2>1. Closed \in SheetType /\ Closed.pc = "closed"
    BY DEF SheetType, RestType, Closed
  <2>2. QED
    BY <1>1, <1>3, <2>1, SheetChange DEF ReviewTypes
<1>5. read \in TaskType /\ read.log.of <= readings
  BY <1>1, <1>2, <1>3, SheetByPlace DEF ReviewTypes, DrawingType, SheetsAreFilledIn
<1>6. /\ task' \in TaskType /\ task'.status = task.status /\ task'.score = task.score
      /\ task'.log.target = read.log.target /\ task'.log.reports = read.log.reports
      /\ task'.log.of = read.log.of /\ task'.log.certificate = Certificate(read)
  <2>1. PICK log : log = [read.log EXCEPT !.certificate = Certificate(read)]
    OBVIOUS
  <2>2. task' = [task EXCEPT !.log = log]
    BY <1>3, <2>1
  <2>3. task \in TaskType /\ read.log \in LogType /\ Certificate(read) \in CertificateType
    BY <1>1, <1>5, TaskFields, CertificateTyped DEF ReviewTypes
  <2>4. /\ log \in LogType /\ log.target = read.log.target /\ log.reports = read.log.reports
        /\ log.of = read.log.of /\ log.certificate = Certificate(read)
    BY <2>1, <2>3 DEF LogType
  <2>5. QED
    BY <2>2, <2>3, <2>4 DEF TaskType
<1>7. /\ raced' \in BOOLEAN
      /\ ~raced' => ~raced /\ task.log = read.log /\ task.score = read.score
  BY <1>1, <1>3 DEF ReviewTypes
<1>8. /\ lost \subseteq lost' /\ lost' \subseteq {"audit", "certificate", "reports"}
      /\ "certificate" \in lost' => "certificate" \in lost
      /\ "audit" \in lost' => "audit" \in lost
  BY <1>1, <1>3 DEF ReviewTypes
<1>9. ReviewTypes'
  BY <1>1, <1>3, <1>4, <1>6, <1>7, <1>8 DEF ReviewTypes
<1>10. SheetsAreFilledIn'
  BY <1>1, <1>3, <1>4, <1>5, <1>6 DEF SheetsAreFilledIn
<1>11. AiKeepsOff' /\ AiScores' /\ UndecidedIsScored' /\ StockTellsDecision'
  BY <1>3, <1>6, <1>7 DEF ReviewInv, AiKeepsOff, AiScores, UndecidedIsScored, StockTellsDecision, Known
<1>12. /\ \A t \in Reviewers : IsSettled(t)' <=> IsSettled(t)
       /\ \A t \in Reviewers : sheet'[t].pc # "closed" => sheet'[t] = sheet[t]
  BY <1>3, <1>4 DEF IsSettled
<1>13. SettledStands'
  <2>1. \A t \in Reviewers : OnlySettled(t)' => OnlySettled(t) /\ sheet'[t] = sheet[t]
    BY <1>12 DEF OnlySettled, IsSettled
  <2>2. QED
    BY <1>1, <1>3, <1>6, <1>7, <1>8, <2>1 DEF SettledStands, SoldAs
<1>14. LoggedIsDecided' /\ TargetIsSold'
  BY <1>1, <1>3, <1>6, <1>7, <1>8, <1>12 DEF LoggedIsDecided, TargetIsSold, NobodySettled, Sold, SoldAs
<1>15. CertificateIsCurrent'
  <2> SUFFICES ASSUME ~raced' PROVE task'.log.certificate = Certificate(task)'
    BY DEF CertificateIsCurrent
  <2>1. Certificate(task)' = Certificate(read)
    BY <1>6, <1>7 DEF Certificate
  <2>2. QED
    BY <1>6, <2>1
<1>16. SeenIsThere'
  BY <1>1, <1>6, <1>7, <1>12 DEF SeenIsThere
<1>17. QED
  BY <1>9, <1>10, <1>11, <1>13, <1>14, <1>15, <1>16 DEF ReviewInv

-----------------------------------------------------------------------------
(* Review: the decision *)

LEMMA RequestFacts ==
  ASSUME NEW q \in ScoringType
  PROVE  /\ Reports(q) \in Seq(ReportType) /\ Extends(Reports(q), q.read.log.reports)
         /\ \A i \in q.edit.out \cap DOMAIN q.read.log.reports : Reports(q)[i].excluded
         /\ Grade(q) \in Grades \cup DOMAIN Bands /\ Final(q) \in Scores
         /\ q.verdict # "RE_CHECK" /\ Known(Grade(q)) =>
              Bands[Upper[Grade(q)]][1] <= Final(q) /\ Final(q) <= Bands[Upper[Grade(q)]][2]
<1>1. /\ q.read \in TaskType /\ q.edit \in Edits /\ q.verdict \in Verdicts
      /\ q.grade \in Grades \cup {"NONE"}
  BY DEF ScoringType
<1>2. /\ q.read.log.reports \in Seq(ReportType) /\ q.read.score \in Scores
      /\ q.read.log.suggested \in DOMAIN Bands
  BY <1>1, TaskFields
<1>3. /\ Reports(q) \in Seq(ReportType) /\ Extends(Reports(q), q.read.log.reports)
      /\ \A i \in q.edit.out \cap DOMAIN q.read.log.reports : Reports(q)[i].excluded
  <2>1. CASE q.edit = NoEdit
    <3>1. q.edit.out = {} /\ Reports(q) = q.read.log.reports
      BY <2>1 DEF NoEdit, Reports
    <3>2. QED
      BY <1>2, <3>1, ExtendsItself
  <2>2. CASE q.edit # NoEdit
    <3>1. PICK reports \in Seq(ReportType) : reports = q.read.log.reports
      BY <1>2
    <3>2. Reports(q) = ApplyEdits(reports, q.edit)
      BY <2>2, <3>1 DEF Reports
    <3>3. QED
      BY <1>1, <3>1, <3>2, EditsExtend
  <2>3. QED
    BY <2>1, <2>2
<1>4. Grade(q) \in Grades \cup DOMAIN Bands
  BY <1>1, <1>2, BandsAreSpans, ReviewAssumption DEF Grade
<1>5. PICK base \in Scores : base = Base(q)
  <2>1. Rescored(Reports(q)) \in 0..100
    BY <1>3, RescoredType
  <2>2. QED
    BY <1>2, <2>1 DEF Base, Scores
<1>6. base \in Int
  BY <1>5 DEF Scores, NoScore
<1>7. /\ Clamped(base, Grade(q)) \in Scores
      /\ Known(Grade(q)) => /\ Bands[Upper[Grade(q)]][1] <= Clamped(base, Grade(q))
                             /\ Clamped(base, Grade(q)) <= Bands[Upper[Grade(q)]][2]
  <2>1. CASE Known(Grade(q))
    <3>1. PICK band \in DOMAIN Bands : band = Upper[Grade(q)]
      BY <2>1 DEF Known
    <3>2. /\ ClampToGrade(base, band) \in 0..100
          /\ Bands[band][1] <= ClampToGrade(base, band)
          /\ ClampToGrade(base, band) <= Bands[band][2]
      BY <1>6, ClampFits
    <3>3. Clamped(base, Grade(q)) = ClampToGrade(base, band)
      BY <2>1, <3>1 DEF Clamped
    <3>4. QED
      BY <3>1, <3>2, <3>3 DEF Scores
  <2>2. CASE ~Known(Grade(q))
    BY <1>5, <2>2 DEF Clamped
  <2>3. QED
    BY <2>1, <2>2
<1>8. Final(q) = IF q.verdict = "RE_CHECK" THEN base ELSE Clamped(base, Grade(q))
  BY <1>5 DEF Final
<1>9. Final(q) \in Scores
  BY <1>5, <1>7, <1>8
<1>10. QED
  BY <1>3, <1>4, <1>7, <1>8, <1>9

LEMMA SettleFacts ==
  ASSUME ReviewInv, NEW r \in Reviewers, Settle(r)
  PROVE  LET q == sheet[r]
             new == [pc |-> "settled", seen |-> q.seen, reports |-> Reports(q),
                     verdict |-> q.verdict, grade |-> q.grade]
         IN  /\ q \in ScoringType
             /\ new \in SettledType /\ sheet' = [sheet EXCEPT ![r] = new]
             /\ task' \in TaskType /\ row' \in RowType /\ ai' \in AiType
             /\ ai'.pc # "idle" => readings < MaxReadings
             /\ task'.log.of <= readings
             /\ raced' \in BOOLEAN
             /\ ~raced' =>
                  /\ ~raced /\ task = q.read /\ ai'.pc # "acted"
                  /\ task'.status = Status(q) /\ task'.score = Final(q)
                  /\ task'.log.reports = Reports(q) /\ task'.log.of = task.log.of
<1>1. ReviewTypes /\ SheetsAreFilledIn
  BY DEF ReviewInv
<1>2. PICK q : q = sheet[r]
  OBVIOUS
<1>3. /\ q.pc = "scoring"
      /\ task' = [status |-> Saved(q.read.status, Status(q), task.status),
                  score |-> Saved(q.read.score, Final(q), task.score),
                  log |-> Saved(q.read.log, [q.read.log EXCEPT !.reports = Reports(q)], task.log)]
      /\ row' = IF q.verdict = "RE_CHECK" THEN row
                ELSE DecidedRow(Grade(q), Final(q))
      /\ ai' = IF q.verdict = "RE_CHECK" /\ ai.pc = "idle" /\ readings < MaxReadings
               THEN [pc |-> "reading"] ELSE ai
      /\ sheet' = [sheet EXCEPT ![r] = [pc |-> "settled", seen |-> q.seen, reports |-> Reports(q),
                                        verdict |-> q.verdict, grade |-> q.grade]]
      /\ raced' = (raced \/ task # q.read \/ ai.pc # "idle")
  BY <1>2 DEF Settle
<1>4. q \in ScoringType /\ q.read.log.of <= readings
  BY <1>1, <1>2, <1>3, SheetByPlace DEF ReviewTypes, SheetsAreFilledIn
<1>5. Reports(q) \in Seq(ReportType) /\ Grade(q) \in Grades \cup DOMAIN Bands /\ Final(q) \in Scores
  BY <1>4, RequestFacts
<1>6. [pc |-> "settled", seen |-> q.seen, reports |-> Reports(q),
       verdict |-> q.verdict, grade |-> q.grade] \in SettledType
  BY <1>4, <1>5 DEF ScoringType, SettledType
<1>7. PICK log : log = [q.read.log EXCEPT !.reports = Reports(q)]
  OBVIOUS
<1>8. log \in LogType /\ log.reports = Reports(q) /\ log.of = q.read.log.of
  <2>1. q.read.log \in LogType
    BY <1>4, TaskFields DEF ScoringType
  <2>2. QED
    BY <1>5, <1>7, <2>1 DEF LogType
<1>9. Status(q) \in Statuses
  BY DEF Status, Statuses
<1>10. /\ task'.status \in {Status(q), task.status} /\ task'.score \in {Final(q), task.score}
       /\ task'.log \in {log, task.log}
       /\ task = q.read => task'.status = Status(q) /\ task'.score = Final(q) /\ task'.log = log
  BY <1>3, <1>7 DEF Saved
<1>11. task' \in TaskType /\ task'.log.of <= readings
  <2>1. task \in TaskType /\ task.log.of <= readings
    BY <1>1 DEF ReviewTypes, SheetsAreFilledIn
  <2>2. PICK status, score, new : task' = [status |-> status, score |-> score, log |-> new]
    BY <1>3
  <2>3. status \in Statuses /\ score \in Scores /\ new \in {log, task.log}
    BY <1>5, <1>9, <1>10, <2>1, <2>2, TaskFields
  <2>4. new \in LogType
    BY <1>8, <2>1, <2>3, TaskFields
  <2>5. QED
    BY <1>4, <1>8, <2>1, <2>2, <2>3, <2>4 DEF TaskType
<1>12. row' \in RowType
  <2>1. "REJECT" \in DOMAIN Bands
    BY BandsAreSpans
  <2>2. DecidedRow(Grade(q), Final(q)) \in RowType
    BY <1>5, <2>1 DEF RowType, StockRow, DecidedRow
  <2>3. QED
    BY <1>1, <1>3, <2>2 DEF ReviewTypes
<1>13. ai' \in AiType /\ (ai'.pc # "idle" => readings < MaxReadings)
  BY <1>1, <1>3 DEF ReviewTypes, SheetsAreFilledIn, AiType
<1>14. /\ raced' \in BOOLEAN
       /\ ~raced' => ~raced /\ task = q.read /\ ai'.pc # "acted"
  BY <1>1, <1>3 DEF ReviewTypes
<1>15. QED
  BY <1>2, <1>3, <1>4, <1>6, <1>8, <1>10, <1>11, <1>12, <1>13, <1>14

LEMMA SettleKeeps ==
  ASSUME ReviewInv, NEW r \in Reviewers, Settle(r)
  PROVE  ReviewInv'
<1>1. /\ ReviewTypes /\ SheetsAreFilledIn /\ AiKeepsOff /\ StockTellsDecision /\ SettledStands
      /\ LoggedIsDecided /\ TargetIsSold /\ CertificateIsCurrent /\ SeenIsThere
  BY DEF ReviewInv
<1>2. PICK q : q = sheet[r]
  OBVIOUS
<1>3. PICK new : new = [pc |-> "settled", seen |-> q.seen, reports |-> Reports(q),
                        verdict |-> q.verdict, grade |-> q.grade]
  OBVIOUS
<1>4. /\ q \in ScoringType /\ new \in SettledType /\ sheet' = [sheet EXCEPT ![r] = new]
      /\ task' \in TaskType /\ row' \in RowType /\ ai' \in AiType
      /\ ai'.pc # "idle" => readings < MaxReadings
      /\ task'.log.of <= readings
      /\ raced' \in BOOLEAN
  BY <1>2, <1>3, SettleFacts
<1>5. ~raced' =>
        /\ ~raced /\ task = q.read /\ ai'.pc # "acted"
        /\ task'.status = Status(q) /\ task'.score = Final(q)
        /\ task'.log.reports = Reports(q) /\ task'.log.of = task.log.of
  BY <1>2, SettleFacts
<1>6. /\ row' = IF q.verdict = "RE_CHECK" THEN row
                ELSE DecidedRow(Grade(q), Final(q))
      /\ untouched' = FALSE /\ UNCHANGED << audit, readings, decisions, lost >>
  BY <1>2 DEF Settle
<1>7. new \in SheetType /\ new.pc = "settled" /\ new.verdict = q.verdict /\ new.grade = q.grade
  BY <1>3, <1>4 DEF SheetType
<1>8. /\ sheet' \in [Reviewers -> SheetType] /\ sheet'[r] = new
      /\ \A t \in Reviewers : t # r => sheet'[t] = sheet[t]
  BY <1>1, <1>4, <1>7, SheetChange DEF ReviewTypes
<1>9. sheet[r].pc = "scoring" /\ (q.verdict # "APPROVE" => q.grade = "NONE") /\ q.verdict \in Verdicts
  BY <1>1, <1>2, <1>4 DEF SheetsAreFilledIn, ScoringType
<1>10. ReviewTypes'
  BY <1>1, <1>4, <1>6, <1>8 DEF ReviewTypes
<1>11. SheetsAreFilledIn'
  BY <1>1, <1>4, <1>6, <1>7, <1>8, <1>9 DEF SheetsAreFilledIn
<1>12. AiKeepsOff' /\ AiScores' /\ UndecidedIsScored'
  BY <1>5, <1>6 DEF AiKeepsOff, AiScores, UndecidedIsScored
<1>13. StockTellsDecision'
  <2> SUFFICES ASSUME ~raced', row'.source = "HITL", task'.status \in {"APPROVED", "REJECTED"}
               PROVE  /\ row'.score = task'.score
                      /\ Known(row'.grade) /\ (row'.status = "IN_STOCK" \/ task'.status = "REJECTED")
                         => /\ Bands[Upper[row'.grade]][1] <= row'.score
                            /\ row'.score <= Bands[Upper[row'.grade]][2]
                      /\ row'.status = "IN_STOCK" => task'.status = "APPROVED"
    BY DEF StockTellsDecision, Known
  <2>1. q.verdict # "RE_CHECK" /\ (q.verdict = "APPROVE" <=> task'.status = "APPROVED")
    BY <1>5, <1>9 DEF Status, Verdicts
  <2>2. row' = DecidedRow(Grade(q), Final(q))
    BY <1>6, <2>1
  <2>3. /\ row'.score = Final(q)
        /\ row'.status = "IN_STOCK" => row'.grade = Grade(q) /\ Grade(q) # "REJECT"
    BY <2>2 DEF StockRow, DecidedRow, Discarded
  <2>4. q.verdict = "REJECT" => Grade(q) = "REJECT" /\ row'.grade = "REJECT"
    BY <2>2 DEF Grade, StockRow, DecidedRow, Discarded
  <2>5. Known(Grade(q)) =>
          Bands[Upper[Grade(q)]][1] <= Final(q) /\ Final(q) <= Bands[Upper[Grade(q)]][2]
    BY <1>4, <2>1, RequestFacts
  <2>6. row'.status = "IN_STOCK" => q.verdict = "APPROVE"
    BY <1>9, <2>1, <2>3, <2>4 DEF Verdicts
  <2>7. task'.status = "REJECTED" => row'.grade = Grade(q)
    BY <1>9, <2>1, <2>4 DEF Verdicts
  <2>8. QED
    BY <1>5, <2>1, <2>3, <2>5, <2>6, <2>7
<1>14. SettledStands'
  <2> SUFFICES ASSUME ~raced', task'.status = "APPROVED", NEW t \in Reviewers, OnlySettled(t)'
               PROVE  /\ sheet'[t].verdict = "APPROVE"
                      /\ row'.status = "IN_STOCK" /\ sheet'[t].grade # "NONE" => row'.grade = sheet'[t].grade
    BY DEF SettledStands, SoldAs
  <2>1. t = r
    BY <1>7, <1>8 DEF OnlySettled, IsSettled
  <2>2. q.verdict = "APPROVE"
    BY <1>5, <1>9 DEF Status, Verdicts
  <2>3. row'.status = "IN_STOCK" /\ q.grade # "NONE" => row'.grade = q.grade
    BY <1>6, <2>2 DEF StockRow, DecidedRow, Grade
  <2>4. QED
    BY <1>7, <1>8, <2>1, <2>2, <2>3
<1>15. ~NobodySettled' /\ sheet'[r].pc = "settled"
  BY <1>7, <1>8 DEF NobodySettled, IsSettled
<1>16. LoggedIsDecided' /\ TargetIsSold' /\ CertificateIsCurrent'
  BY <1>15 DEF LoggedIsDecided, TargetIsSold, CertificateIsCurrent
<1>17. SeenIsThere'
  <2> SUFFICES ASSUME ~raced', NEW t \in Reviewers
               PROVE  /\ sheet'[t].pc = "open" /\ sheet'[t].of = task'.log.of =>
                           Extends(task'.log.reports, sheet'[t].seen)
                      /\ sheet'[t].pc = "scoring" /\ sheet'[t].same =>
                           Extends(sheet'[t].read.log.reports, sheet'[t].seen)
    BY DEF SeenIsThere
  <2>1. Extends(task'.log.reports, task.log.reports) /\ task'.log.of = task.log.of /\ ~raced
    BY <1>4, <1>5, RequestFacts
  <2>2. CASE t = r
    BY <1>15, <2>2
  <2>3. CASE t # r
    <3>1. sheet'[t] = sheet[t]
      BY <1>8, <2>3
    <3>2. sheet[t].pc = "open" /\ sheet[t].of = task.log.of => Extends(task.log.reports, sheet[t].seen)
      BY <1>1, <2>1 DEF SeenIsThere
    <3>3. sheet[t].pc = "scoring" /\ sheet[t].same => Extends(sheet[t].read.log.reports, sheet[t].seen)
      BY <1>1, <2>1 DEF SeenIsThere
    <3>4. QED
      BY <2>1, <3>1, <3>2, <3>3, ExtendsIsTransitive
  <2>4. QED
    BY <2>2, <2>3
<1>18. QED
  BY <1>10, <1>11, <1>12, <1>13, <1>14, <1>16, <1>17 DEF ReviewInv

-----------------------------------------------------------------------------
(* Review: theorems *)

LEMMA ReviewStep == ReviewInv /\ [ReviewNext]_reviewVars => ReviewInv'
<1> SUFFICES ASSUME ReviewInv, [ReviewNext]_reviewVars PROVE ReviewInv'
  OBVIOUS
<1>1. CASE UNCHANGED reviewVars
  <2>1. UNCHANGED << task, row, audit, sheet, ai, readings, decisions, untouched, raced, lost >>
    BY <1>1 DEF reviewVars
  <2>2. (ReviewTypes /\ SheetsAreFilledIn)'
    BY <2>1 DEF ReviewInv, ReviewTypes, SheetsAreFilledIn
  <2>3. /\ (AiKeepsOff /\ AiScores /\ UndecidedIsScored /\ StockTellsDecision)'
        /\ (LoggedIsDecided /\ TargetIsSold)'
    BY <2>1 DEF ReviewInv, AiKeepsOff, AiScores, UndecidedIsScored, StockTellsDecision, Known,
                LoggedIsDecided, TargetIsSold, Sold, SoldAs, NobodySettled, IsSettled
  <2>4. (SettledStands /\ CertificateIsCurrent /\ SeenIsThere)'
    BY <2>1 DEF ReviewInv, SettledStands, OnlySettled, IsSettled, CertificateIsCurrent, Sold, SoldAs,
                Certificate, SeenIsThere
  <2>5. QED
    BY <2>2, <2>3, <2>4 DEF ReviewInv
<1>2. CASE ReviewNext
  <2>1. ASSUME NEW r \in Reviewers, Abandon(r)
        PROVE  ReviewInv'
    BY <2>1, AbandonKeeps
  <2>2. ASSUME NEW r \in Reviewers, Open(r) \/ Settle(r) \/ Finish(r) \/ DrawUp(r) \/ Certify(r)
        PROVE  ReviewInv'
    BY <2>2, OpenKeeps, SettleKeeps, FinishKeeps, DrawUpKeeps, CertifyKeeps
  <2>3. ASSUME NEW r \in Reviewers, NEW e \in Edits,
               \/ Preview(r, e)
               \/ \E verdict \in Verdicts, grade \in Grades \cup {"NONE"} : Submit(r, e, verdict, grade)
        PROVE  ReviewInv'
    BY <2>3, PreviewKeeps, SubmitKeeps
  <2>4. CASE Reinspect \/ AiActs \/ AiSaves \/ Recall
    BY <2>4, ReinspectKeeps, AiActsKeeps, AiSavesKeeps, RecallKeeps
  <2>5. QED
    BY <1>2, <2>1, <2>2, <2>3, <2>4 DEF ReviewNext
<1>3. QED
  BY <1>1, <1>2

LEMMA DecisionFromInv == ReviewInv => DecisionIsTold
<1> SUFFICES ASSUME ReviewInv PROVE DecisionIsTold
  OBVIOUS
<1>1. /\ ReviewTypes /\ SheetsAreFilledIn /\ StockTellsDecision
      /\ LoggedIsDecided /\ TargetIsSold /\ CertificateIsCurrent
  BY DEF ReviewInv
<1>2. ReviewTypeOK
  <2>1. /\ task.status \in Statuses /\ task.score \in Scores /\ task.log.suggested \in DOMAIN Bands
        /\ task.log.target \in Grades \cup {"NONE"} /\ task.log.certificate.score \in Scores
    BY <1>1, TaskFields DEF ReviewTypes, CertificateType
  <2>2. \A r \in Reviewers :
          sheet[r].pc \in {"closed", "open", "shown", "scoring", "settled", "queued", "drawing"}
    BY <1>1, SheetByPlace DEF ReviewTypes
  <2>3. /\ row.status \in {"HITL_PENDING", "IN_STOCK", "REJECTED"}
        /\ row.score \in Scores /\ row.grade \in Grades \cup DOMAIN Bands \cup {"PENDING"}
    BY <1>1 DEF ReviewTypes, RowType
  <2>4. readings \in 1..MaxReadings + 1
    <3>1. readings \in 1..MaxReadings /\ MaxReadings \in Nat
      BY <1>1, ReviewAssumption DEF ReviewTypes
    <3>2. QED
      BY <3>1
  <2>5. {untouched, raced} \subseteq BOOLEAN
    BY <1>1 DEF ReviewTypes
  <2>6. QED
    BY <1>1, <2>1, <2>2, <2>3, <2>4, <2>5 DEF ReviewTypeOK, ReviewTypes, Statuses
<1>3. ~Deciding => NobodySettled
  BY DEF Deciding, NobodySettled, IsSettled
<1>4. DecisionIsAudited
  <2>1. NoAudit.status = "NONE"
    BY DEF NoAudit
  <2>2. QED
    BY <1>1, <1>3, <2>1 DEF DecisionIsAudited, LoggedIsDecided
<1>5. CertificateTellsDecision
  <2> SUFFICES ASSUME "certificate" \notin lost, ~raced, ~Deciding,
                      \A r \in Reviewers : sheet[r].pc \notin {"queued", "drawing"},
                      row.source = "HITL", task.status = "APPROVED"
               PROVE  /\ row.score # NoScore => task.log.certificate.score = row.score
                      /\ task.log.target # "NONE" /\ row.status = "IN_STOCK" =>
                           task.log.certificate.grade = row.grade
                      /\ { i \in DOMAIN task.log.reports :
                             ~task.log.reports[i].suspect /\ ~task.log.reports[i].excluded }
                           \subseteq task.log.certificate.listed
    BY DEF CertificateTellsDecision
  <2>1. NobodySettled /\ \A r \in Reviewers : sheet[r].pc \notin {"settled", "queued", "drawing"}
    BY <1>3 DEF NobodySettled, IsSettled
  <2>2. task.log.certificate = Certificate(task)
    BY <1>1, <2>1 DEF CertificateIsCurrent, Sold
  <2>3. task.log.target # "NONE" /\ row.status = "IN_STOCK" => task.log.target = row.grade
    BY <1>1, <2>1 DEF TargetIsSold, Sold, SoldAs
  <2>4. row.score = task.score
    BY <1>1 DEF StockTellsDecision
  <2>5. QED
    BY <2>2, <2>3, <2>4 DEF Certificate
<1>6. QED
  BY <1>1, <1>2, <1>4, <1>5 DEF ReviewInv, DecisionIsTold

(* The inductive invariant of the reviews.                                  *)
THEOREM ReviewInvariant == EvidenceSpec => []ReviewInv
<1>1. EvidenceInit => ReviewInv
  BY ReviewStarts DEF EvidenceInit
<1>2. ReviewInv /\ [EvidenceNext]_<<vars, reviewVars>> => ReviewInv'
  <2>1. [EvidenceNext]_<<vars, reviewVars>> => [ReviewNext]_reviewVars
    BY DEF EvidenceNext
  <2>2. QED
    BY <2>1, ReviewStep
<1>3. QED
  BY <1>1, <1>2, PTL DEF EvidenceSpec

(* Job, stock row, audit log and certificate tell one decision, for every   *)
(* number of reviewers, decisions and readings, and whatever the AI reports.*)
THEOREM DecisionStaysTold == EvidenceSpec => []DecisionIsTold
BY ReviewInvariant, DecisionFromInv, PTL

-----------------------------------------------------------------------------
(* Review: who writes what *)

Acts(t) ==
  \/ Open(t) \/ Settle(t) \/ Finish(t) \/ DrawUp(t) \/ Certify(t) \/ Abandon(t)
  \/ sheet[t].pc = "open" /\ \E e \in Edits :
       \/ Preview(t, e)
       \/ \E verdict \in Verdicts, grade \in Grades \cup {"NONE"} : Submit(t, e, verdict, grade)

(* The AI, and a recall, leave the reviewers' sheets and the audit alone.   *)
LEMMA ReviewerActs ==
  ASSUME [ReviewNext]_reviewVars, sheet' # sheet \/ audit' # audit
  PROVE  \E t \in Reviewers : Acts(t)
<1>1. ReviewNext
  BY DEF reviewVars
<1>2. ~Reinspect /\ ~AiActs /\ ~AiSaves /\ ~Recall
  BY DEF Reinspect, AiActs, AiSaves, Recall
<1>3. QED
  BY <1>1, <1>2 DEF ReviewNext, Acts

(* Each fills in his own sheet only.                                        *)
LEMMA OwnSheet ==
  ASSUME ReviewTypes, NEW t \in Reviewers, Acts(t), NEW r \in Reviewers, sheet'[r] # sheet[r]
  PROVE  t = r
<1>1. sheet \in [Reviewers -> SheetType]
  BY DEF ReviewTypes
<1>2. ASSUME NEW new, sheet' = [sheet EXCEPT ![t] = new] PROVE t = r
  BY <1>1, <1>2
<1>3. CASE Open(t)
  BY <1>2, <1>3 DEF Open
<1>4. CASE Settle(t)
  BY <1>2, <1>4 DEF Settle
<1>5. CASE Finish(t)
  BY <1>2, <1>5 DEF Finish, Leaves
<1>6. CASE DrawUp(t)
  BY <1>2, <1>6 DEF DrawUp
<1>7. CASE Certify(t)
  BY <1>2, <1>7 DEF Certify
<1>8. CASE Abandon(t)
  BY <1>2, <1>8 DEF Abandon
<1>9. ASSUME NEW e \in Edits, Preview(t, e) PROVE t = r
  BY <1>2, <1>9 DEF Preview
<1>10. ASSUME NEW e \in Edits, NEW verdict, NEW grade, Submit(t, e, verdict, grade) PROVE t = r
  BY <1>2, <1>10 DEF Submit
<1>11. QED
  BY <1>3, <1>4, <1>5, <1>6, <1>7, <1>8, <1>9, <1>10 DEF Acts

(* What a reviewer has before him afterwards tells what he did.             *)
LEMMA WhatWasDone ==
  ASSUME ReviewTypes, [ReviewNext]_reviewVars, NEW r \in Reviewers
  PROVE  /\ sheet[r].pc = "scoring" /\ sheet'[r].pc = "settled" => Settle(r)
         /\ sheet[r].pc = "open" /\ sheet'[r].pc = "shown" => \E e \in Edits : Preview(r, e)
<1> SUFFICES ASSUME \/ sheet[r].pc = "scoring" /\ sheet'[r].pc = "settled"
                    \/ sheet[r].pc = "open" /\ sheet'[r].pc = "shown"
             PROVE  \/ sheet[r].pc = "scoring" /\ Settle(r)
                    \/ sheet[r].pc = "open" /\ \E e \in Edits : Preview(r, e)
  OBVIOUS
<1>1. sheet \in [Reviewers -> SheetType] /\ sheet'[r] # sheet[r]
  BY DEF ReviewTypes
<1>2. PICK t \in Reviewers : Acts(t)
  BY <1>1, ReviewerActs
<1>3. Acts(r)
  BY <1>1, <1>2, OwnSheet
<1>4. ASSUME NEW new, sheet' = [sheet EXCEPT ![r] = new] PROVE sheet'[r] = new
  BY <1>1, <1>4
<1>5. Closed.pc = "closed"
  BY DEF Closed
<1>6. ~Open(r)
  BY <1>4, <1>5 DEF Open
<1>7. ~Finish(r) /\ ~DrawUp(r) /\ ~Certify(r)
  BY DEF Finish, DrawUp, Certify
<1>8. ~Abandon(r)
  BY <1>4, <1>5 DEF Abandon
<1>9. \A e \in Edits : \A verdict, grade : ~Submit(r, e, verdict, grade)
  <2> SUFFICES ASSUME NEW e \in Edits, NEW verdict, NEW grade, Submit(r, e, verdict, grade)
               PROVE  FALSE
    OBVIOUS
  <2>1. sheet[r].pc = "open"
    BY DEF Submit
  <2>2. sheet'[r].pc = "scoring"
    BY <1>1 DEF Submit
  <2>3. QED
    BY <2>1, <2>2
<1>10. Settle(r) => sheet[r].pc = "scoring"
  BY DEF Settle
<1>11. QED
  BY <1>3, <1>6, <1>7, <1>8, <1>9, <1>10 DEF Acts

LEMMA AuditIsFinishes ==
  ASSUME [ReviewNext]_reviewVars, audit' # audit
  PROVE  \E r \in Reviewers : Finish(r)
<1>1. PICK t \in Reviewers : Acts(t)
  BY ReviewerActs
<1>2. ~Open(t) /\ ~Settle(t) /\ ~DrawUp(t) /\ ~Certify(t) /\ ~Abandon(t)
  BY DEF Open, Settle, DrawUp, Certify, Abandon
<1>3. \A e \in Edits : /\ ~Preview(t, e)
                       /\ \A verdict, grade : ~Submit(t, e, verdict, grade)
  BY DEF Preview, Submit
<1>4. QED
  BY <1>1, <1>2, <1>3 DEF Acts

-----------------------------------------------------------------------------
(* Review: edits mean what they show *)

(* The score of a job nobody has decided on since the AI read the book is   *)
(* that of the reports in its log.                                          *)
ReadIsScored ==
  untouched /\ "reports" \notin lost =>
    \E rd \in Readings : task.log.reports = rd.reports /\ task.score = ScoreOf(rd)

EditsInv == ReviewInv /\ ReadIsScored

LEMMA EditsStart == ReviewInit => EditsInv
<1> SUFFICES ASSUME ReviewInit PROVE ReadIsScored
  BY ReviewStarts DEF EditsInv
<1>1. PICK rd \in Readings :
        task = [status |-> "HITL_REQUIRED", score |-> ScoreOf(rd), log |-> Log(rd, 1)]
  BY DEF ReviewInit
<1>2. task.log.reports = rd.reports /\ task.score = ScoreOf(rd)
  BY <1>1 DEF Log
<1>3. QED
  BY <1>2 DEF ReadIsScored

LEMMA LogIsKept ==
  ASSUME ReadIsScored, untouched' => untouched, lost \subseteq lost',
         "reports" \in lost' \/ (task'.log.reports = task.log.reports /\ task'.score = task.score)
  PROVE  ReadIsScored'
BY DEF ReadIsScored

LEMMA EditsStep == EditsInv /\ [ReviewNext]_reviewVars => EditsInv'
<1> SUFFICES ASSUME EditsInv, [ReviewNext]_reviewVars PROVE ReadIsScored'
  BY ReviewStep DEF EditsInv
<1>1. ReviewTypes /\ ReadIsScored
  BY DEF EditsInv, ReviewInv
<1>2. task \in TaskType /\ ai \in AiType
  BY <1>1 DEF ReviewTypes
<1>3. CASE UNCHANGED << task, untouched, lost >>
  BY <1>1, <1>3 DEF ReadIsScored
<1>4. CASE Reinspect \/ Recall
  <2>1. /\ UNCHANGED << untouched, lost >>
        /\ \E status : task' = [task EXCEPT !.status = status]
    BY <1>4 DEF Reinspect, Recall
  <2>2. task'.log = task.log /\ task'.score = task.score
    BY <1>2, <2>1 DEF TaskType
  <2>3. QED
    BY <1>1, <2>1, <2>2, LogIsKept
<1>5. CASE AiSaves
  <2> DEFINE new == Log(ai.reading, readings + 1)
  <2>1. /\ ai.pc = "acted"
        /\ task' = [status |-> IF task.status = "HITL_REQUIRED" THEN "HITL_REQUIRED" ELSE ai.verdict,
                    score |-> ScoreOf(ai.reading), log |-> [new EXCEPT !.target = task.log.target]]
    BY <1>5 DEF AiSaves
  <2>2. ai.reading \in Readings
    BY <1>2, <2>1 DEF AiType
  <2>3. new.reports = ai.reading.reports /\ [new EXCEPT !.target = task.log.target].reports = new.reports
    BY DEF Log
  <2>4. task'.log.reports = ai.reading.reports /\ task'.score = ScoreOf(ai.reading)
    BY <2>1, <2>3
  <2>5. QED
    BY <2>2, <2>4 DEF ReadIsScored
<1>6. ASSUME NEW t \in Reviewers, Settle(t) PROVE ReadIsScored'
  BY <1>6 DEF Settle, ReadIsScored
<1>7. ASSUME NEW t \in Reviewers, Finish(t) PROVE ReadIsScored'
  <2>1. /\ UNCHANGED << untouched, lost >>
        /\ task' = [task EXCEPT !.log.target = sheet[t].grade]
    BY <1>7 DEF Finish, NotesGrade
  <2>2. task'.log.reports = task.log.reports /\ task'.score = task.score
    BY <1>2, <2>1 DEF TaskType, LogType
  <2>3. QED
    BY <1>1, <2>1, <2>2, LogIsKept
<1>8. ASSUME NEW t \in Reviewers, Certify(t) PROVE ReadIsScored'
  <2>1. PICK read : read = sheet[t].read
    OBVIOUS
  <2>2. /\ sheet[t].pc = "drawing" /\ UNCHANGED untouched
        /\ task' = [task EXCEPT !.log = [read.log EXCEPT !.certificate = Certificate(read)]]
        /\ lost' = lost \cup IF task.log.reports # read.log.reports THEN {"reports"} ELSE {}
    BY <1>8, <2>1 DEF Certify
  <2>3. read \in TaskType
    BY <1>1, <2>1, <2>2, SheetByPlace DEF ReviewTypes, DrawingType
  <2>4. task'.log.reports = read.log.reports /\ task'.score = task.score
    BY <1>2, <2>2, <2>3 DEF TaskType, LogType
  <2>5. QED
    BY <1>1, <2>2, <2>4, LogIsKept
<1>9. ASSUME NEW t \in Reviewers, Open(t) \/ DrawUp(t) \/ Abandon(t) PROVE ReadIsScored'
  <2>1. UNCHANGED << task, untouched >> /\ lost \subseteq lost'
    BY <1>9 DEF Open, DrawUp, Abandon
  <2>2. QED
    BY <1>1, <2>1, LogIsKept
<1>10. ASSUME NEW t \in Reviewers, NEW e \in Edits,
              Preview(t, e) \/ \E verdict \in Verdicts, grade \in Grades \cup {"NONE"} :
                                 Submit(t, e, verdict, grade)
       PROVE  ReadIsScored'
  <2>1. UNCHANGED << task, untouched, lost >>
    BY <1>10 DEF Preview, Submit
  <2>2. QED
    BY <1>3, <2>1
<1>11. CASE AiActs \/ UNCHANGED reviewVars
  BY <1>3, <1>11 DEF AiActs, reviewVars
<1>12. CASE \E t \in Reviewers : Acts(t)
  BY <1>6, <1>7, <1>8, <1>9, <1>10, <1>12 DEF Acts
<1>13. QED
  BY <1>4, <1>5, <1>11, <1>12 DEF ReviewNext, Acts

LEMMA ExcludesSeen ==
  ASSUME ReviewInv, [ReviewNext]_reviewVars, NEW r \in Reviewers,
         sheet[r].pc = "scoring", sheet'[r].pc = "settled", sheet[r].same, ~raced,
         NEW i \in sheet[r].edit.out
  PROVE  /\ sheet'[r].reports[i].excluded
         /\ sheet'[r].reports[i].type = sheet[r].seen[i].type
         /\ sheet'[r].reports[i].image = sheet[r].seen[i].image
<1>1. ReviewTypes /\ SheetsAreFilledIn /\ SeenIsThere
  BY DEF ReviewInv
<1>2. Settle(r)
  BY <1>1, WhatWasDone
<1>3. PICK q : q = sheet[r]
  OBVIOUS
<1>4. q \in ScoringType
  BY <1>1, <1>3, SheetByPlace DEF ReviewTypes
<1>5. sheet'[r].reports = Reports(q)
  BY <1>1, <1>2, <1>3 DEF Settle, ReviewTypes
<1>6. /\ Extends(Reports(q), q.read.log.reports)
      /\ \A k \in q.edit.out \cap DOMAIN q.read.log.reports : Reports(q)[k].excluded
  BY <1>4, RequestFacts
<1>7. Extends(q.read.log.reports, q.seen) /\ q.edit.out \subseteq DOMAIN q.seen
  BY <1>1, <1>3 DEF SeenIsThere, SheetsAreFilledIn
<1>8. i \in DOMAIN q.seen /\ i \in DOMAIN q.read.log.reports
  BY <1>3, <1>7 DEF Extends
<1>9. QED
  BY <1>3, <1>5, <1>6, <1>7, <1>8 DEF Extends

LEMMA NotTaught ==
  ASSUME [ReviewNext]_reviewVars, ~raced', audit' # audit, NEW b \in Exported(audit')
  PROVE  ~task.log.reports[b.at].excluded
<1>1. PICK r \in Reviewers : Finish(r)
  BY AuditIsFinishes
<1>2. PICK reports : reports = sheet[r].reports
  OBVIOUS
<1>3. audit' = Entry(task.status, Boxes(reports)) /\ raced' = (raced \/ Overtaken(r))
  BY <1>1, <1>2 DEF Finish, Evidence
<1>4. task.log.reports = reports
  BY <1>2, <1>3 DEF Overtaken
<1>5. b \in Boxes(reports) /\ ~b.excluded
  BY <1>3 DEF Exported, Entry
<1>6. b.excluded = reports[b.at].excluded
  BY <1>5 DEF Boxes
<1>7. QED
  BY <1>4, <1>5, <1>6

(* Ruling reports out leaves a part of those that were scored.              *)
LEMMA OnlyMarked ==
  ASSUME NEW reports \in Seq(ReportType), NEW e \in Edits, e = [NoEdit EXCEPT !.out = e.out]
  PROVE  Charged(ApplyEdits(reports, e)) \subseteq AsRead(reports)
<1> DEFINE marked == [i \in DOMAIN reports |-> [reports[i] EXCEPT !.excluded = @ \/ i \in e.out]]
<1>1. e.adopt = << >> /\ e.move = << >> /\ e.draw = << >>
  BY DEF NoEdit
<1>2. Adopted(e) = << >> /\ Drawn(e) = << >>
  BY <1>1 DEF Adopted, Drawn
<1>3. marked \in Seq(ReportType) /\ DOMAIN marked = DOMAIN reports
  <2>1. \A i \in DOMAIN reports : marked[i] \in ReportType
    <3> TAKE i \in DOMAIN reports
    <3>1. PICK out \in BOOLEAN : out = (reports[i].excluded \/ i \in e.out)
      OBVIOUS
    <3>2. reports[i] \in ReportType /\ marked[i] = [reports[i] EXCEPT !.excluded = out]
      BY <3>1
    <3>3. QED
      BY <3>1, <3>2 DEF ReportType
  <2>2. marked = [i \in DOMAIN reports |-> marked[i]]
    OBVIOUS
  <2> HIDE DEF marked
  <2>3. QED
    BY <2>1, <2>2, MappedSequence
<1>4. ApplyEdits(reports, e) = marked
  <2>1. marked \o << >> = marked
    <3> HIDE DEF marked
    <3> QED
      BY <1>3
  <2>2. [i \in DOMAIN marked |-> IF i \in DOMAIN << >> THEN [marked[i] EXCEPT !.box = << >>[i]]
                                 ELSE marked[i]] = marked
    OBVIOUS
  <2>3. ApplyEdits(reports, e)
          = [i \in DOMAIN marked |-> IF i \in DOMAIN << >> THEN [marked[i] EXCEPT !.box = << >>[i]]
                                     ELSE marked[i]] \o << >>
    BY <1>1, <1>2, <2>1 DEF ApplyEdits
  <2> HIDE DEF marked
  <2>4. QED
    BY <2>1, <2>2, <2>3
<1>5. ASSUME NEW i \in DOMAIN reports PROVE Numbered(i, marked[i]) = Numbered(i, reports[i])
  <2>1. reports[i] \in ReportType
    OBVIOUS
  <2>2. QED
    BY <2>1 DEF Numbered, ReportType
<1>6. Charged(marked) \subseteq AsRead(reports)
  <2> HIDE DEF marked
  <2> QED
    BY <1>3, <1>5 DEF Charged, AsRead
<1>7. QED
  BY <1>4, <1>6

LEMMA ReadReports ==
  ASSUME NEW reports \in Seq(ReportType)
  PROVE  ChargeableSet(AsRead(reports)) /\ \A d \in AsRead(reports) : Measured(d)
<1>1. ChargeableSet(AsRead(reports))
  BY ScoredReports DEF AsRead
<1>2. ASSUME NEW i \in DOMAIN reports PROVE Measured(Numbered(i, reports[i]))
  <2>1. PICK d \in ReportType : d = reports[i]
    OBVIOUS
  <2>2. QED
    BY <2>1 DEF Numbered, Measured, ReportType
<1>3. QED
  BY <1>1, <1>2 DEF AsRead

LEMMA NoScoreBetween ==
  ASSUME NEW a \in 0..100, NEW b \in 0..100, NEW c \in 0..100, a >= b, b >= c
  PROVE  a >= c
OBVIOUS

LEMMA RulingOutIsFree ==
  ASSUME EditsInv, [ReviewNext]_reviewVars, NEW r \in Reviewers,
         sheet[r].pc = "open", sheet'[r].pc = "shown", sheet'[r].only, untouched, "reports" \notin lost,
         NEW plain \in BOOLEAN, plain = FALSE
  PROVE  sheet'[r].score >= IF IsWorkbook /\ DoodleDeduction(AsRead(task.log.reports), plain) > WorkbookCap
                            THEN Score(AsRead(task.log.reports), plain) ELSE task.score
<1>1. ReviewTypes /\ ReadIsScored
  BY DEF EditsInv, ReviewInv
<1>2. PICK e \in Edits : Preview(r, e)
  BY <1>1, WhatWasDone
<1>3. PICK reports \in Seq(ReportType) : reports = task.log.reports
  BY <1>1, TaskFields DEF ReviewTypes
<1>4. PICK rd \in Readings : reports = rd.reports /\ task.score = ScoreOf(rd)
  BY <1>1, <1>3 DEF ReadIsScored
<1>5. /\ e = [NoEdit EXCEPT !.out = e.out]
      /\ sheet'[r].score = Score(Charged(ApplyEdits(reports, e)), plain)
  BY <1>1, <1>2, <1>3 DEF Preview, Rescored, ReviewTypes
<1>6. PICK all, left : all = AsRead(reports) /\ left = Charged(ApplyEdits(reports, e)) /\ left \subseteq all
  BY <1>5, OnlyMarked
<1>7. ChargeableSet(all) /\ \A d \in all : Measured(d)
  BY <1>6, ReadReports
<1>8. Score(left, plain) >= Score(all, plain)
  BY <1>6, <1>7, ScoreMonotone
<1>9. PICK shown \in 0..100, full \in 0..100 :
        shown = Score(left, plain) /\ full = Score(all, plain) /\ shown >= full
  <2>1. ChargeableSet(left)
    BY <1>6, <1>7, FS_Subset DEF ChargeableSet
  <2>2. QED
    BY <1>7, <1>8, <2>1, ScoreIsBounded
<1>10. shown >= -1
  OBVIOUS
<1>11. PICK written \in Nat : written = DoodleDeduction(all, plain)
  BY <1>7, DoodleDeductionType
<1>12. sheet'[r].score = shown /\ WorkbookCap \in Nat
  BY <1>5, <1>6, <1>9 DEF WorkbookCap
<1>13. CASE IsWorkbook /\ written > WorkbookCap
  BY <1>3, <1>6, <1>9, <1>11, <1>12, <1>13
<1>14. CASE ~(IsWorkbook /\ written > WorkbookCap)
  <2>1. shown >= task.score
    <3>1. CASE rd.failed
      <4>1. task.score = -1
        BY <1>4, <3>1 DEF ScoreOf, NoScore
      <4>2. QED
        BY <1>10, <4>1
    <3>2. CASE ~rd.failed /\ IsWorkbook
      <4>1. task.score = Score(all, IsWorkbook)
        BY <1>4, <1>6, <3>2 DEF ScoreOf
      <4>2. DoodleDeduction(all, plain) <= WorkbookCap
        BY <1>11, <1>12, <1>14, <3>2
      <4>3. Score(all, plain) >= Score(all, IsWorkbook)
        BY <1>7, <3>2, <4>2, CapCosts, ReviewAssumption
      <4>4. PICK capped \in 0..100 : capped = Score(all, IsWorkbook) /\ full >= capped
        BY <1>7, <1>9, <4>3, ScoreIsBounded, ReviewAssumption
      <4>5. task.score = capped
        BY <4>1, <4>4
      <4>6. shown >= capped
        BY <1>9, <4>4, NoScoreBetween
      <4>7. QED
        BY <4>5, <4>6
    <3>3. CASE ~rd.failed /\ ~IsWorkbook
      <4>1. IsWorkbook = plain
        BY <3>3, ReviewAssumption
      <4>2. task.score = Score(all, plain)
        BY <1>4, <1>6, <3>3, <4>1 DEF ScoreOf
      <4>3. QED
        BY <1>9, <4>2
    <3>4. QED
      BY <3>1, <3>2, <3>3
  <2>2. QED
    BY <1>3, <1>6, <1>11, <1>12, <1>14, <2>1
<1>15. QED
  BY <1>13, <1>14

(* What a reviewer does to the reports has the effect he saw, for every     *)
(* number of reviewers, and whatever they edit: an exclusion hits the       *)
(* report he saw, is not taught, and costs the customer nothing.            *)
THEOREM EditsAreMeant == EvidenceSpec => EditsMeanWhatTheyShow
<1> DEFINE Seen == \A r \in Reviewers :
              sheet[r].pc = "scoring" /\ sheet'[r].pc = "settled" /\ sheet[r].same /\ ~raced =>
                \A i \in sheet[r].edit.out :
                  /\ sheet'[r].reports[i].excluded
                  /\ sheet'[r].reports[i].type = sheet[r].seen[i].type
                  /\ sheet'[r].reports[i].image = sheet[r].seen[i].image
           Taught == ~raced' /\ audit' # audit =>
              \A b \in Exported(audit') : ~task.log.reports[b.at].excluded
           Free == \A r \in Reviewers :
              sheet[r].pc = "open" /\ sheet'[r].pc = "shown" /\ sheet'[r].only /\ untouched
                /\ "reports" \notin lost =>
                LET all == AsRead(task.log.reports) IN
                sheet'[r].score >= IF IsWorkbook /\ DoodleDeduction(all, FALSE) > WorkbookCap
                                   THEN Score(all, FALSE) ELSE task.score
<1>1. EvidenceInit => EditsInv
  BY EditsStart DEF EvidenceInit
<1>2. [EvidenceNext]_<<vars, reviewVars>> => [ReviewNext]_reviewVars
  BY DEF EvidenceNext
<1>3. EditsInv /\ [EvidenceNext]_<<vars, reviewVars>> => EditsInv'
  BY <1>2, EditsStep
<1>4. EditsInv /\ [EvidenceNext]_<<vars, reviewVars>> => Seen /\ Taught /\ Free
  <2> SUFFICES ASSUME EditsInv, [ReviewNext]_reviewVars PROVE Seen /\ Taught /\ Free
    BY <1>2
  <2>1. ReviewInv
    BY DEF EditsInv
  <2>2. Seen
    BY <2>1, ExcludesSeen
  <2>3. Taught
    BY NotTaught
  <2>4. Free
    BY RulingOutIsFree
  <2>5. QED
    BY <2>2, <2>3, <2>4
<1> HIDE DEF Seen, Taught, Free
<1>5. EvidenceSpec => [][Seen]_reviewVars /\ [][Taught]_reviewVars /\ [][Free]_reviewVars
  BY <1>1, <1>3, <1>4, PTL DEF EvidenceSpec
<1>6. [][Seen]_reviewVars => ExcludesWhatWasSeen
  BY PTL DEF ExcludesWhatWasSeen, Seen
<1>7. [][Taught]_reviewVars => ExcludedIsNotTaught
  BY PTL DEF ExcludedIsNotTaught, Taught
<1>8. [][Free]_reviewVars => RulingOutNeverCosts
  BY PTL DEF RulingOutNeverCosts, Free
<1>9. QED
  BY <1>5, <1>6, <1>7, <1>8 DEF EditsMeanWhatTheyShow
=============================================================================
