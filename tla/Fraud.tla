------------------------------- MODULE Fraud -------------------------------
(***************************************************************************)
(* The fraud scan of the administration: its rules over orders and human   *)
(* reviews, the suppression of what was reported within a day, the reports *)
(* and their alarms.                                                       *)
(*                                                                         *)
(* Time advances in half days, by day and by night in turn, and stands     *)
(* still while a scan runs, which takes seconds.  A scan reads what its    *)
(* rules need in one action, considers its detections one at a time (the   *)
(* analyst model is called in between), commits once and then raises the   *)
(* alarms.  The rule on returned orders is left out: no code ever sets the *)
(* status it counts.                                                       *)
(***************************************************************************)
EXTENDS Integers, FiniteSets, FiniteSetsExt

CONSTANTS
  Admins, Customers, Jobs,
  Scanners,      \* requests running POST /fds/scan
  Prices,        \* totals an order may have
  Given,         \* grades that the AI gives
  Verdicts,      \* what reviewers send: action, pace and grade; some have no rank
  Bulk,          \* NIGHT_BULK_MIN_PRICE
  Outlier,       \* NIGHT_BULK_OUTLIER_RATIO
  MinReviews,    \* BLIND_APPROVAL_MIN_SAMPLES
  MinOverrides,  \* GRADE_OVERRIDE_MIN_COUNT
  DedupWindow,   \* DEDUP_WINDOW_HOURS, all windows in half days
  OrderWindow,   \* the week of orders R3 looks at
  HistoryWindow, \* NIGHT_BULK_HISTORY_DAYS
  ReviewWindow,  \* BLIND_APPROVAL_WINDOW_DAYS
  GradeWindow,   \* GRADE_OVERRIDE_WINDOW_DAYS
  MaxTime, MaxRows, MaxScans, MaxFaults  \* bounds; MaxRows: orders and reviews

Rules  == {"R1", "R2", "R3"}
Ranked == <<"REJECT", "NORMAL", "GOOD", "MINT">>
Grades == {"REJECT", "NORMAL", "GOOD", "MINT"}
Rank(g) == CHOOSE i \in 1..4 : Ranked[i] = g
Gone    == "gone"               \* the suggestion of a job whose row was deleted
Actions == {"APPROVE", "REJECT"}         \* REJECT: also the request to inspect again
Paces   == {"fast", "slow", "unknown"}   \* how long a review took, if its log tells

ASSUME FraudAssumption ==
  /\ Gone \notin Given /\ \A v \in Verdicts : v.action \in Actions /\ v.pace \in Paces
  /\ Prices \subseteq Nat /\ Bulk \in Nat /\ Outlier \in Nat \ {0}
  /\ MinReviews \in Nat \ {0} /\ MinOverrides \in Nat \ {0}
  /\ \A n \in {DedupWindow, OrderWindow, HistoryWindow, ReviewWindow, GradeWindow,
               MaxTime, MaxRows, MaxScans, MaxFaults} : n \in Nat

VARIABLES
  now,
  orders,     \* orders: number, customer, total, time
  reviews,    \* admin_audit_logs: number, admin, job, action, pace, grade, time, and
              \* what the AI suggested when the grade was given
  suggested,  \* agent_logs.suggested_grade of each job
  reports,    \* fds_reports: rule, target, evidence, time; and the scan that wrote it
  scan,       \* each scanner: stage, rules that failed, detections left, reports to commit
  alarms,     \* the reports alarms were raised for
  \* history
  overlapped, \* scans that ran beside another one
  broken,     \* scans that died, or could not raise an alarm
  renewed,    \* jobs inspected again after a review
  scans, faults

vars == << now, orders, reviews, suggested, reports, scan, alarms, overlapped,
           broken, renewed, scans, faults >>

Idle == [pc |-> "idle", id |-> 0, failed |-> {}, found |-> {}, left |-> {}, pending |-> {}]

Report == [rule : Rules, target : Admins \cup Customers, about : 0..MaxRows,
           at : 0..MaxTime, by : 1..MaxScans]

TypeOK ==
  /\ now \in 0..MaxTime
  /\ \A o \in orders : o.customer \in Customers /\ o.price \in Prices /\ o.at \in 0..now
  /\ \A r \in reviews : r.admin \in Admins /\ r.job \in Jobs /\ r.at \in 0..now
  /\ suggested \in [Jobs -> Given \cup {Gone}]
  /\ reports \subseteq Report /\ alarms \subseteq Report
  /\ \A s \in Scanners : scan[s].pending \subseteq Report
                           /\ scan[s].left \subseteq scan[s].found
  /\ overlapped \cup broken \subseteq 1..MaxScans /\ renewed \subseteq Jobs
  /\ scans \in 0..MaxScans /\ faults \in 0..MaxFaults

Init ==
  /\ now = 0 /\ orders = {} /\ reviews = {} /\ reports = {} /\ alarms = {}
  /\ suggested \in [Jobs -> Given]
  /\ scan = [s \in Scanners |-> Idle]
  /\ overlapped = {} /\ broken = {} /\ renewed = {}
  /\ scans = 0 /\ faults = 0

-----------------------------------------------------------------------------
(* What the scan reads *)

Resting == \A s \in Scanners : scan[s].pc = "idle"
Night(t) == t % 2 = 1

Tick ==
  /\ Resting /\ now < MaxTime
  /\ now' = now + 1
  /\ UNCHANGED << orders, reviews, suggested, reports, scan, alarms, overlapped,
                  broken, renewed, scans, faults >>

(* create_order_with_items: the customer and the total the rule looks at.   *)
PlaceOrder(c, p) ==
  /\ Resting /\ Cardinality(orders) + Cardinality(reviews) < MaxRows
  /\ orders' = orders \cup
       {[id |-> Cardinality(orders) + 1, customer |-> c, price |-> p, at |-> now]}
  /\ UNCHANGED << now, reviews, suggested, reports, scan, alarms, overlapped,
                  broken, renewed, scans, faults >>

(* submit_hitl_override: the decision, its pace and its grade go to the log.*)
Review(a, j, v) ==
  /\ Resting /\ Cardinality(orders) + Cardinality(reviews) < MaxRows
  /\ suggested[j] # Gone
  /\ reviews' = reviews \cup
       {[id |-> Cardinality(reviews) + 1, admin |-> a, job |-> j, action |-> v.action,
         pace |-> v.pace, grade |-> v.grade, at |-> now, held |-> suggested[j]]}
  /\ UNCHANGED << now, orders, suggested, reports, scan, alarms, overlapped,
                  broken, renewed, scans, faults >>

(* save_inspection_result of a re-inspection writes a new suggestion.       *)
Renew(j, g) ==
  /\ Resting /\ suggested[j] \notin {g, Gone} /\ \E r \in reviews : r.job = j
  /\ suggested' = [suggested EXCEPT ![j] = g]
  /\ renewed' = renewed \cup {j}
  /\ UNCHANGED << now, orders, reviews, reports, scan, alarms, overlapped, broken,
                  scans, faults >>

(* hard_delete_inventory_row: the job goes with its book, its reviews stay. *)
DeleteJob(j) ==
  /\ Resting /\ suggested[j] # Gone /\ \E r \in reviews : r.job = j
  /\ suggested' = [suggested EXCEPT ![j] = Gone]
  /\ UNCHANGED << now, orders, reviews, reports, scan, alarms, overlapped, broken,
                  renewed, scans, faults >>

-----------------------------------------------------------------------------
(* The rules *)

Since(rows, window) == {r \in rows : r.at >= now - window}

(* R1: the share of reviews shorter than a second, not their mean.          *)
BlindApproval(a) ==
  LET timed == {r \in Since(reviews, ReviewWindow) : r.admin = a /\ r.pace # "unknown"}
      fast  == {r \in timed : r.pace = "fast"}
  IN Cardinality(timed) >= MinReviews /\ Cardinality(fast) * 10 >= Cardinality(timed) * 6

(* Mutant of Suspicious: a person is named for a review or two.             *)
SuspiciousAtOnce(a) ==
  LET timed == {r \in reviews : r.admin = a /\ r.pace # "unknown" /\ now - r.at <= ReviewWindow}
  IN timed # {} /\ Cardinality({r \in timed : r.pace = "fast"}) * 100 >= Cardinality(timed) * 60

(* generate_fds_report, the screen beside: it computes the same again.      *)
Suspicious(a) ==
  LET timed == {r \in reviews : r.admin = a /\ r.pace # "unknown" /\ now - r.at <= ReviewWindow}
  IN /\ Cardinality(timed) >= MinReviews
     /\ Cardinality({r \in timed : r.pace = "fast"}) * 100 >= Cardinality(timed) * 60

StepsUp(r) == Rank(r.grade) - Rank(suggested[r.job])

(* Mutant of Compared: whatever was decided.                                *)
ComparedAnyhow(r) == {r.grade, suggested[r.job]} \subseteq Grades

(* Approvals whose grade has a rank, of a job that is still there and whose *)
(* suggestion has one.                                                      *)
Compared(r) == r.action = "APPROVE" /\ {r.grade, suggested[r.job]} \subseteq Grades

(* R2: approvals two grades above what the job's log suggests today.        *)
GradeOverride(a) ==
  Cardinality({r \in Since(reviews, GradeWindow) :
                 r.admin = a /\ Compared(r) /\ StepsUp(r) >= 2}) >= MinOverrides

(* R3: a night order over the floor, and far above the customer's other     *)
(* orders when there are any.                                               *)
NightBulk(o) ==
  LET others == {p \in Since(orders, HistoryWindow) : p.customer = o.customer /\ p.id # o.id}
      spent  == MapThenSumSet(LAMBDA p : p.price, others)
  IN /\ Night(o.at) /\ o.price >= Bulk
     /\ spent = 0 \/ o.price * Cardinality(others) >= spent * Outlier

Detections(rule) ==
  CASE rule = "R1" -> {[rule |-> rule, target |-> a, about |-> 0] :
                         a \in {b \in Admins : BlindApproval(b)}}
    [] rule = "R2" -> {[rule |-> rule, target |-> a, about |-> 0] :
                         a \in {b \in Admins : GradeOverride(b)}}
    [] rule = "R3" -> {[rule |-> rule, target |-> o.customer, about |-> o.id] :
                         o \in {p \in Since(orders, OrderWindow) : NightBulk(p)}}

-----------------------------------------------------------------------------
(* run_scan *)

Set(s, r) == scan' = [scan EXCEPT ![s] = r]

(* The rules run one after the other; one that raises is logged, the others *)
(* still count.                                                             *)
Detect(s) ==
  /\ scan[s].pc = "idle" /\ scans < MaxScans
  /\ scans' = scans + 1
  /\ \E failed \in {{}} \cup {{r} : r \in Rules} :
       LET found == UNION {Detections(r) : r \in Rules \ failed} IN
       /\ faults + Cardinality(failed) <= MaxFaults
       /\ faults' = faults + Cardinality(failed)
       /\ Set(s, [pc |-> "considering", id |-> scans + 1, failed |-> failed,
                  found |-> found, left |-> found, pending |-> {}])
  /\ overlapped' = overlapped \cup
       LET beside == {scan[t].id : t \in {u \in Scanners \ {s} : scan[u].pc # "idle"}}
       IN IF beside = {} THEN {} ELSE beside \cup {scans + 1}
  /\ UNCHANGED << now, orders, reviews, suggested, reports, alarms, broken, renewed >>

SameKey(r, d) == r.rule = d.rule /\ r.target = d.target

(* Mutants of Known: the reports this scan is about to write are not seen;  *)
(* any report on the target will do.                                        *)
KnownCommitted(s, d) == \E r \in Since(reports, DedupWindow) : SameKey(r, d)
KnownTarget(s, d) ==
  \E r \in Since(reports, DedupWindow) \cup scan[s].pending : r.target = d.target

(* A report on this rule and target within the window: committed, or added  *)
(* to this session, which flushes before it queries.                        *)
Known(s, d) ==
  \E r \in Since(reports, DedupWindow) \cup scan[s].pending : SameKey(r, d)

(* One detection: suppressed, or described by the analyst (by the template  *)
(* when the model fails) and added.                                         *)
Consider(s, d) ==
  /\ scan[s].pc = "considering" /\ d \in scan[s].left
  /\ Set(s, [scan[s] EXCEPT
       !.left = @ \ {d},
       !.pending = IF Known(s, d) THEN @
                   ELSE @ \cup {[rule |-> d.rule, target |-> d.target, about |-> d.about,
                                 at |-> now, by |-> scan[s].id]}])
  /\ UNCHANGED << now, orders, reviews, suggested, reports, alarms, overlapped,
                  broken, renewed, scans, faults >>

(* Mutant of Commit: the alarms are raised before the commit, which fails.  *)
AlarmFirst(s) ==
  /\ scan[s].pc = "considering" /\ scan[s].left = {}
  /\ alarms' = alarms \cup scan[s].pending
  /\ Set(s, Idle)
  /\ UNCHANGED << now, orders, reviews, suggested, reports, overlapped, broken,
                  renewed, scans, faults >>

(* Mutant of Commit: it stores the detections as the rules returned them.   *)
CommitRaw(s) ==
  /\ scan[s].pc = "considering" /\ scan[s].left = {}
  /\ reports' = reports \cup scan[s].found
  /\ Set(s, [scan[s] EXCEPT !.pc = "alerting"])
  /\ UNCHANGED << now, orders, reviews, suggested, alarms, overlapped, broken,
                  renewed, scans, faults >>

Commit(s) ==
  /\ scan[s].pc = "considering" /\ scan[s].left = {}
  /\ reports' = reports \cup scan[s].pending
  /\ Set(s, [scan[s] EXCEPT !.pc = "alerting"])
  /\ UNCHANGED << now, orders, reviews, suggested, alarms, overlapped, broken,
                  renewed, scans, faults >>

(* _publish_alert: an alarm that cannot be raised is logged and forgotten.  *)
Alert(s, r) ==
  /\ scan[s].pc = "alerting" /\ r \in scan[s].pending
  /\ Set(s, [scan[s] EXCEPT !.pending = @ \ {r}])
  /\ \/ alarms' = alarms \cup {r} /\ UNCHANGED << faults, broken >>
     \/ /\ faults < MaxFaults /\ faults' = faults + 1
        /\ broken' = broken \cup {scan[s].id} /\ UNCHANGED alarms
  /\ UNCHANGED << now, orders, reviews, suggested, reports, overlapped, renewed, scans >>

Answered(s) ==
  /\ scan[s].pc = "alerting" /\ scan[s].pending = {}
  /\ Set(s, Idle)
  /\ UNCHANGED << now, orders, reviews, suggested, reports, alarms, overlapped,
                  broken, renewed, scans, faults >>

(* The process dies: what it had not committed is rolled back.              *)
Die(s) ==
  /\ scan[s].pc # "idle" /\ faults < MaxFaults
  /\ faults' = faults + 1
  /\ broken' = broken \cup {scan[s].id}
  /\ Set(s, Idle)
  /\ UNCHANGED << now, orders, reviews, suggested, reports, alarms, overlapped,
                  renewed, scans >>

Scan(s) ==
  \/ Detect(s) \/ Commit(s) \/ Answered(s) \/ Die(s)
  \/ \E d \in scan[s].left : Consider(s, d)
  \/ \E r \in scan[s].pending : Alert(s, r)

Next ==
  \/ Tick
  \/ \E c \in Customers, p \in Prices : PlaceOrder(c, p)
  \/ \E a \in Admins, j \in Jobs, v \in Verdicts : Review(a, j, v)
  \/ \E j \in Jobs : DeleteJob(j) \/ \E g \in Given : Renew(j, g)
  \/ \E s \in Scanners : Scan(s)

Spec == Init /\ [][Next]_vars

-----------------------------------------------------------------------------
(* Properties *)

(* The suppression of a rule and target for a day: two of its reports are   *)
(* a day apart, within a scan as between scans, unless two scans overlapped *)
(* and neither saw what the other had not committed.                        *)
ReportsAreSpaced ==
  \A q, r \in reports \cup UNION {scan[s].pending : s \in Scanners} :
    q # r /\ SameKey(q, r) /\ q.at >= r.at - DedupWindow /\ q.at <= r.at
      => {q.by, r.by} \subseteq overlapped

(* Suppression hides a repetition, never a person or a rule: when a scan    *)
(* commits, each of its detections stands in a report of that rule on that  *)
(* target not older than a day.                                             *)
DetectionIsReported ==
  [][\A s \in Scanners :
       scan[s].pc = "considering" /\ scan'[s].pc = "alerting" =>
         \A d \in scan[s].found :
           \E r \in reports' : SameKey(r, d) /\ r.at >= now - DedupWindow]_vars

(* R2 compares with the grade the AI suggested "at the time", but reads the *)
(* suggestion the job has now, if the job is still there: the administrators*)
(* it names are those who did approve far above the AI, in jobs that nobody *)
(* deleted since, as long as none they reviewed was inspected again.        *)
OverridesAreReal ==
  [][\A s \in Scanners, a \in Admins :
       LET mine == {r \in Since(reviews, GradeWindow) : r.admin = a}
           real == {r \in mine : /\ r.action = "APPROVE" /\ {r.grade, r.held} \subseteq Grades
                                 /\ Rank(r.grade) >= Rank(r.held) + 2}
       IN
       /\ scan[s].pc = "idle" /\ scan'[s].pc = "considering"
       /\ "R2" \notin scan'[s].failed
       /\ \A r \in mine : r.job \notin renewed
       => ((\E d \in scan'[s].found : d.rule = "R2" /\ d.target = a)
             <=> Cardinality({r \in real : suggested[r.job] # Gone}) >= MinOverrides)]_vars

(* The two screens do not contradict each other: whom a running scan names  *)
(* for blind approvals is whom the list of all reviewers marks at the time. *)
TwoScreensAgree ==
  \A s \in Scanners : scan[s].pc # "idle" /\ "R1" \notin scan[s].failed =>
    {d.target : d \in {e \in scan[s].found : e.rule = "R1"}} = {a \in Admins : Suspicious(a)}

(* The reports are committed before their alarms are raised: an alarm names *)
(* a stored report, and a stored report without alarm was left behind by a  *)
(* scan that died or failed there; the suppression keeps it silent.         *)
AlarmsFollowReports ==
  /\ alarms \subseteq reports
  /\ \A r \in reports \ alarms :
       \/ r.by \in broken
       \/ \E s \in Scanners : r \in scan[s].pending

(* The fraud screens agree with each other, with the reports and with the   *)
(* alarms, whatever scans overlap.                                          *)
ScreensAgree == ReportsAreSpaced /\ AlarmsFollowReports /\ TwoScreensAgree

(* A scan reports whom it must, and accuses nobody wrongly.                 *)
ScansAreFair == DetectionIsReported /\ OverridesAreReal
=============================================================================
