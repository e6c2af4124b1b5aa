----------------------------- MODULE DeskProofs -----------------------------
(***************************************************************************)
(* Proofs about the order desk: the fraud scan, for any number of scanners,*)
(* orders, reviews and faults and whatever their thresholds; the weekly    *)
(* report, for any number of visitors, batches and days; the quotes, for   *)
(* any lines, prices and predicted chances; and the places, for any books, *)
(* sightings and pages.                                                    *)
(***************************************************************************)
EXTENDS Desk, GradingProofs

-----------------------------------------------------------------------------
(* The fraud scan: what a rule finds, and a scan under way.                 *)
Detection == [rule : Rules, target : Admins \cup Customers, about : 0..MaxRows]
ScanType ==
  [pc : {"idle", "considering", "alerting"}, id : 0..MaxScans, failed : SUBSET Rules,
   found : SUBSET Detection, left : SUBSET Detection, pending : SUBSET Report]

OrderFits(o)  == o.customer \in Customers /\ o.price \in Prices /\ o.at \in 0..now /\ o.id \in 1..MaxRows
ReviewFits(r) == r.admin \in Admins /\ r.job \in Jobs /\ r.at \in 0..now
Remembered(r) == r.job \notin renewed => r.held = suggested[r.job] \/ suggested[r.job] = Gone

RowsInv ==
  /\ now \in 0..MaxTime /\ suggested \in [Jobs -> Given \cup {Gone}] /\ renewed \subseteq Jobs
  /\ IsFiniteSet(orders) /\ IsFiniteSet(reviews) /\ Cardinality(orders) + Cardinality(reviews) <= MaxRows
  /\ \A o \in orders : OrderFits(o)
  /\ \A r \in reviews : ReviewFits(r) /\ Remembered(r)

FraudShape ==
  /\ reports \subseteq Report /\ \A r \in reports : r.at <= now
  /\ overlapped \cup broken \subseteq 1..MaxScans /\ scans \in 0..MaxScans /\ faults \in 0..MaxFaults
  /\ scan \in [Scanners -> ScanType]

(* What a scan that is in state m has done so far, when these reports are   *)
(* stored, at this time, and so many scans have begun.                      *)
Works(m, stored, time, begun) ==
  /\ m.pc = "idle" => m = Idle
  /\ m.pc # "idle" => m.id \in 1..begun
  /\ m.left \subseteq m.found
  /\ \A r \in m.pending : r.by = m.id /\ r.at = time
  /\ m.pc = "alerting" => m.pending \subseteq stored
  /\ \A d \in m.found \ m.left : m.pc = "considering" =>
       \E r \in stored \cup m.pending : SameKey(r, d) /\ r.at >= time - DedupWindow

(* Scans that run side by side are known to.                                *)
Beside(s, m, marked) ==
  \A t \in Scanners \ {s} : m.pc # "idle" /\ scan[t].pc # "idle" => {m.id, scan[t].id} \subseteq marked

(* A scan that ran the rule on blind approvals names whom the other screen  *)
(* marks.                                                                   *)
Named(m) ==
  m.pc # "idle" /\ "R1" \notin m.failed =>
    {d.target : d \in {e \in m.found : e.rule = "R1"}} = {a \in Admins : Suspicious(a)}

ScansInv == \A s \in Scanners : Works(scan[s], reports, now, scans) /\ Beside(s, scan[s], overlapped)

AllReports == reports \cup UNION {scan[s].pending : s \in Scanners}

FraudInv == RowsInv /\ FraudShape /\ ScansInv /\ ScreensAgree

-----------------------------------------------------------------------------
(* Rows                                                                     *)

LEMMA InitGivesFraudInv ==
  ASSUME Init
  PROVE  FraudInv
<1>1. /\ now = 0 /\ orders = {} /\ reviews = {} /\ reports = {} /\ alarms = {}
      /\ suggested \in [Jobs -> Given] /\ scan = [s \in Scanners |-> Idle]
      /\ overlapped = {} /\ broken = {} /\ renewed = {} /\ scans = 0 /\ faults = 0
  BY DEF Init
<1>2. Cardinality({}) = 0 /\ IsFiniteSet({})
  BY FS_EmptySet
<1>3. Idle \in ScanType /\ Idle.pc = "idle" /\ Idle.pending = {} /\ Idle.left = {} /\ Idle.found = {}
  BY FraudAssumption DEF Idle, ScanType
<1>4. RowsInv
  BY <1>1, <1>2, FraudAssumption DEF RowsInv
<1>5. FraudShape
  BY <1>1, <1>3, FraudAssumption DEF FraudShape
<1>6. ScansInv
  BY <1>1, <1>3 DEF ScansInv, Works, Beside
<1>7. ScreensAgree
  BY <1>1, <1>3 DEF ScreensAgree, ReportsAreSpaced, AlarmsFollowReports, TwoScreensAgree
<1>8. QED
  BY <1>4, <1>5, <1>6, <1>7 DEF FraudInv

(* While no scan is under way the rows may change and time may pass.        *)
LEMMA RestingKeeps ==
  ASSUME FraudInv, Resting, RowsInv', now' \in Nat, now <= now',
         UNCHANGED << reports, scan, alarms, overlapped, broken, scans, faults >>
  PROVE  FraudInv'
<1>1. FraudShape /\ ScansInv /\ ReportsAreSpaced /\ AlarmsFollowReports /\ now \in Nat
  BY DEF FraudInv, ScreensAgree, RowsInv
<1>2. \A s \in Scanners : scan'[s] = Idle
  BY <1>1 DEF Resting, ScansInv, Works
<1>3. Idle.pc = "idle" /\ Idle.pending = {} /\ Idle.left = {} /\ Idle.found = {}
  BY DEF Idle
<1>4. FraudShape'
  <2>1. ASSUME NEW r \in reports PROVE r.at <= now'
    <3>1. r.at <= now /\ r.at \in Nat
      BY <1>1, <2>1 DEF FraudShape, Report
    <3>2. QED
      BY <1>1, <3>1
  <2>2. QED
    BY <1>1, <2>1 DEF FraudShape, Report
<1>5. ScansInv'
  BY <1>2, <1>3 DEF ScansInv, Works, Beside
<1>6. ScreensAgree'
  BY <1>1, <1>2, <1>3
  DEF ScreensAgree, ReportsAreSpaced, AlarmsFollowReports, TwoScreensAgree, SameKey
<1>7. QED
  BY <1>4, <1>5, <1>6 DEF FraudInv

LEMMA TickKeeps ==
  ASSUME FraudInv, Tick
  PROVE  FraudInv'
<1>1. /\ Resting /\ now < MaxTime /\ now' = now + 1
      /\ UNCHANGED << orders, reviews, suggested, reports, scan, alarms, overlapped, broken, renewed, scans, faults >>
  BY DEF Tick
<1>2. RowsInv /\ now \in Nat /\ now' \in 0..MaxTime /\ now <= now'
  BY <1>1, FraudAssumption DEF FraudInv, RowsInv
<1>3. RowsInv'
  <2>1. \A o \in orders : OrderFits(o)'
    BY <1>1, <1>2 DEF RowsInv, OrderFits
  <2>2. \A r \in reviews : ReviewFits(r)' /\ Remembered(r)'
    BY <1>1, <1>2 DEF RowsInv, ReviewFits, Remembered
  <2>3. QED
    BY <1>1, <1>2, <2>1, <2>2 DEF RowsInv
<1>4. QED
  BY <1>1, <1>2, <1>3, RestingKeeps

LEMMA OneRowMore ==
  ASSUME RowsInv, NEW rows, rows = orders \/ rows = reviews, NEW row,
         Cardinality(orders) + Cardinality(reviews) < MaxRows
  PROVE  /\ IsFiniteSet(rows \cup {row}) /\ Cardinality(orders) \in Nat /\ Cardinality(reviews) \in Nat
         /\ Cardinality(rows \cup {row}) <= Cardinality(rows) + 1
         /\ Cardinality(rows) + 1 \in 1..MaxRows
<1>1. IsFiniteSet(rows) /\ Cardinality(orders) \in Nat /\ Cardinality(reviews) \in Nat
  BY FS_CardinalityType DEF RowsInv
<1>2. /\ IsFiniteSet(rows \cup {row})
      /\ Cardinality(rows \cup {row}) = Cardinality(rows) \/ Cardinality(rows \cup {row}) = Cardinality(rows) + 1
  BY <1>1, FS_AddElement
<1>3. QED
  BY <1>1, <1>2, FraudAssumption

LEMMA PlaceOrderKeeps ==
  ASSUME FraudInv, NEW c \in Customers, NEW p \in Prices, PlaceOrder(c, p)
  PROVE  FraudInv'
<1>1. /\ Resting /\ Cardinality(orders) + Cardinality(reviews) < MaxRows
      /\ UNCHANGED << now, reviews, suggested, reports, scan, alarms, overlapped, broken, renewed, scans, faults >>
  BY DEF PlaceOrder
<1>2. PICK new : new = [id |-> Cardinality(orders) + 1, customer |-> c, price |-> p, at |-> now] /\ orders' = orders \cup {new}
  BY DEF PlaceOrder
<1>3. RowsInv /\ now \in Nat
  BY DEF FraudInv, RowsInv
<1>4. /\ IsFiniteSet(orders') /\ Cardinality(orders') + Cardinality(reviews') <= MaxRows
      /\ Cardinality(orders) + 1 \in 1..MaxRows
  <2>1. /\ IsFiniteSet(orders \cup {new}) /\ Cardinality(orders) \in Nat /\ Cardinality(reviews) \in Nat
        /\ Cardinality(orders \cup {new}) <= Cardinality(orders) + 1 /\ Cardinality(orders) + 1 \in 1..MaxRows
    BY <1>1, <1>3, OneRowMore
  <2>2. Cardinality(orders \cup {new}) \in Nat
    BY <2>1, FS_CardinalityType
  <2>3. QED
    BY <1>1, <1>2, <2>1, <2>2, FraudAssumption
<1>5. RowsInv'
  <2>1. OrderFits(new)'
    BY <1>1, <1>2, <1>3, <1>4 DEF OrderFits
  <2>2. \A o \in orders' : OrderFits(o)'
    BY <1>1, <1>2, <1>3, <2>1 DEF RowsInv, OrderFits
  <2>3. \A r \in reviews' : ReviewFits(r)' /\ Remembered(r)'
    BY <1>1, <1>3 DEF RowsInv, ReviewFits, Remembered
  <2>4. QED
    BY <1>1, <1>3, <1>4, <2>2, <2>3 DEF RowsInv
<1>6. QED
  BY <1>1, <1>3, <1>5, RestingKeeps

LEMMA ReviewKeeps ==
  ASSUME FraudInv, NEW a \in Admins, NEW j \in Jobs, NEW v, Review(a, j, v)
  PROVE  FraudInv'
<1>1. /\ Resting /\ Cardinality(orders) + Cardinality(reviews) < MaxRows
      /\ UNCHANGED << now, orders, suggested, reports, scan, alarms, overlapped, broken, renewed, scans, faults >>
  BY DEF Review
<1>2. PICK new : /\ new = [id |-> Cardinality(reviews) + 1, admin |-> a, job |-> j, action |-> v.action, pace |-> v.pace,
                           grade |-> v.grade, at |-> now, held |-> suggested[j]]
                 /\ reviews' = reviews \cup {new}
  BY DEF Review
<1>3. RowsInv /\ now \in Nat
  BY DEF FraudInv, RowsInv
<1>4. IsFiniteSet(reviews') /\ Cardinality(orders') + Cardinality(reviews') <= MaxRows
  <2>1. /\ IsFiniteSet(reviews \cup {new}) /\ Cardinality(orders) \in Nat /\ Cardinality(reviews) \in Nat
        /\ Cardinality(reviews \cup {new}) <= Cardinality(reviews) + 1
    BY <1>1, <1>3, OneRowMore
  <2>2. Cardinality(reviews \cup {new}) \in Nat
    BY <2>1, FS_CardinalityType
  <2>3. QED
    BY <1>1, <1>2, <2>1, <2>2, FraudAssumption
<1>5. RowsInv'
  <2>1. ReviewFits(new)' /\ Remembered(new)'
    BY <1>1, <1>2, <1>3 DEF ReviewFits, Remembered
  <2>2. \A r \in reviews' : ReviewFits(r)' /\ Remembered(r)'
    BY <1>1, <1>2, <1>3, <2>1 DEF RowsInv, ReviewFits, Remembered
  <2>3. \A o \in orders' : OrderFits(o)'
    BY <1>1, <1>3 DEF RowsInv, OrderFits
  <2>4. QED
    BY <1>1, <1>3, <1>4, <2>2, <2>3 DEF RowsInv
<1>6. QED
  BY <1>1, <1>3, <1>5, RestingKeeps

(* The suggestion of one job is replaced, or lost with the job.             *)
LEMMA NewSuggestionKeeps ==
  ASSUME FraudInv, NEW j \in Jobs, NEW g \in Given \cup {Gone}, Resting,
         suggested' = [suggested EXCEPT ![j] = g],
         renewed' = renewed \cup {j} \/ (renewed' = renewed /\ g = Gone),
         UNCHANGED << now, orders, reviews, reports, scan, alarms, overlapped, broken, scans, faults >>
  PROVE  FraudInv'
<1>1. now' = now /\ orders' = orders /\ reviews' = reviews
  OBVIOUS
<1>2. RowsInv /\ now \in Nat
  BY DEF FraudInv, RowsInv
<1>3. RowsInv'
  <2>1. suggested' \in [Jobs -> Given \cup {Gone}] /\ suggested'[j] = g /\ \A i \in Jobs : i # j => suggested'[i] = suggested[i]
    BY <1>2 DEF RowsInv
  <2>2. ASSUME NEW r \in reviews PROVE ReviewFits(r)' /\ Remembered(r)'
    <3>1. ReviewFits(r)' /\ r.job \in Jobs /\ Remembered(r)
      BY <1>1, <1>2 DEF RowsInv, ReviewFits
    <3>2. CASE r.job = j
      BY <2>1, <3>1, <3>2 DEF Remembered
    <3>3. CASE r.job # j
      BY <2>1, <3>1, <3>3 DEF Remembered
    <3>4. QED
      BY <3>1, <3>2, <3>3 DEF Remembered
  <2>3. \A o \in orders : OrderFits(o)'
    BY <1>1, <1>2 DEF RowsInv, OrderFits
  <2>4. renewed' \subseteq Jobs
    BY <1>2 DEF RowsInv
  <2>5. QED
    BY <1>1, <1>2, <2>1, <2>2, <2>3, <2>4 DEF RowsInv
<1>4. now' \in Nat /\ now <= now'
  BY <1>1, <1>2
<1>5. QED
  BY <1>3, <1>4, RestingKeeps

LEMMA RenewKeeps ==
  ASSUME FraudInv, NEW j \in Jobs, NEW g \in Given, Renew(j, g)
  PROVE  FraudInv'
BY NewSuggestionKeeps DEF Renew

LEMMA DeleteJobKeeps ==
  ASSUME FraudInv, NEW j \in Jobs, DeleteJob(j)
  PROVE  FraudInv'
BY NewSuggestionKeeps DEF DeleteJob

-----------------------------------------------------------------------------
(* Scans                                                                    *)

(* Reports that stay apart stay so while none is added.                     *)
LEMMA SpacedStays ==
  ASSUME ReportsAreSpaced, AllReports' \subseteq AllReports, overlapped \subseteq overlapped'
  PROVE  ReportsAreSpaced'
<1>1. \A q, r \in AllReports :
        q # r /\ SameKey(q, r) /\ q.at >= r.at - DedupWindow /\ q.at <= r.at => {q.by, r.by} \subseteq overlapped
  BY DEF ReportsAreSpaced, AllReports
<1>2. \A q, r \in AllReports' :
        q # r /\ SameKey(q, r) /\ q.at >= r.at - DedupWindow /\ q.at <= r.at => {q.by, r.by} \subseteq overlapped'
  BY <1>1
<1>3. QED
  BY <1>2 DEF ReportsAreSpaced, AllReports, SameKey

(* A step of one scan.                                                      *)
LEMMA ScanStepKeeps ==
  ASSUME FraudInv, NEW s \in Scanners, NEW m \in ScanType, scan' = [scan EXCEPT ![s] = m],
         Works(m, reports', now, scans'), Beside(s, m, overlapped'), Named(m), FraudShape', scans <= scans',
         reports \subseteq reports', overlapped \subseteq overlapped', ReportsAreSpaced', AlarmsFollowReports',
         UNCHANGED << now, orders, reviews, suggested, renewed >>
  PROVE  FraudInv'
<1>1. RowsInv /\ FraudShape /\ ScansInv /\ ScreensAgree
  BY DEF FraudInv
<1>2. now' = now /\ orders' = orders /\ reviews' = reviews /\ suggested' = suggested /\ renewed' = renewed
  OBVIOUS
<1>3. \A t \in Scanners : scan'[t] = IF t = s THEN m ELSE scan[t]
  BY <1>1 DEF FraudShape
<1>4. RowsInv'
  BY <1>1, <1>2 DEF RowsInv, OrderFits, ReviewFits, Remembered
<1>5. ASSUME NEW t \in Scanners PROVE Works(scan'[t], reports', now, scans')
  <2>1. CASE t = s
    BY <1>3, <2>1
  <2>2. CASE t # s
    <3>1. Works(scan[t], reports, now, scans) /\ scan'[t] = scan[t] /\ scans \in Nat /\ scans' \in Nat
      BY <1>1, <1>3, <2>2, FraudAssumption DEF ScansInv, FraudShape
    <3>2. scan[t].pc # "idle" => scan[t].id \in 1..scans'
      BY <3>1 DEF Works
    <3>3. \A d \in scan[t].found \ scan[t].left : scan[t].pc = "considering" =>
            \E r \in reports' \cup scan[t].pending : SameKey(r, d) /\ r.at >= now - DedupWindow
      BY <3>1 DEF Works
    <3>4. QED
      BY <3>1, <3>2, <3>3 DEF Works
  <2>3. QED
    BY <2>1, <2>2
<1>6. ASSUME NEW t \in Scanners, NEW u \in Scanners \ {t}, scan'[t].pc # "idle", scan'[u].pc # "idle"
      PROVE  {scan'[t].id, scan'[u].id} \subseteq overlapped'
  <2>1. CASE t = s
    <3>1. scan'[t] = m /\ scan'[u] = scan[u] /\ u \in Scanners \ {s}
      BY <1>3, <2>1
    <3>2. QED
      BY <1>6, <3>1 DEF Beside
  <2>2. CASE u = s
    <3>1. scan'[u] = m /\ scan'[t] = scan[t] /\ t \in Scanners \ {s}
      BY <1>3, <2>2
    <3>2. {m.id, scan[t].id} \subseteq overlapped'
      BY <1>6, <3>1 DEF Beside
    <3>3. QED
      BY <3>1, <3>2
  <2>3. CASE t # s /\ u # s
    <3>1. scan'[u] = scan[u] /\ scan'[t] = scan[t] /\ Beside(t, scan[t], overlapped)
      BY <1>1, <1>3, <2>3 DEF ScansInv
    <3>2. QED
      BY <1>6, <3>1 DEF Beside
  <2>4. QED
    BY <2>1, <2>2, <2>3
<1>7. ScansInv'
  <2>1. \A t \in Scanners : Works(scan[t], reports, now, scans)'
    BY <1>2, <1>5 DEF Works, SameKey
  <2>2. \A t \in Scanners : Beside(t, scan[t], overlapped)'
    BY <1>6 DEF Beside
  <2>3. QED
    BY <2>1, <2>2 DEF ScansInv
<1>8. TwoScreensAgree'
  <2>1. \A a \in Admins : Suspicious(a)' <=> Suspicious(a)
    BY <1>2 DEF Suspicious
  <2>2. ASSUME NEW t \in Scanners, scan'[t].pc # "idle", "R1" \notin scan'[t].failed
        PROVE  {d.target : d \in {e \in scan'[t].found : e.rule = "R1"}} = {a \in Admins : Suspicious(a)}
    <3>1. CASE t = s
      BY <1>3, <2>2, <3>1 DEF Named
    <3>2. CASE t # s
      BY <1>1, <1>3, <2>2, <3>2 DEF ScreensAgree, TwoScreensAgree
    <3>3. QED
      BY <3>1, <3>2
  <2>3. QED
    BY <2>1, <2>2 DEF TwoScreensAgree
<1>9. ScreensAgree'
  BY <1>8 DEF ScreensAgree
<1>10. QED
  BY <1>4, <1>7, <1>9 DEF FraudInv

(* What a scan that is under way is known to be.                            *)
LEMMA ScanFacts ==
  ASSUME FraudInv, NEW s \in Scanners
  PROVE  /\ RowsInv /\ FraudShape /\ ReportsAreSpaced /\ AlarmsFollowReports /\ now \in Nat
         /\ scan[s] \in ScanType /\ Works(scan[s], reports, now, scans) /\ Beside(s, scan[s], overlapped) /\ Named(scan[s])
         /\ scans \in Nat /\ MaxScans \in Nat /\ scans <= MaxScans /\ faults \in Nat /\ MaxFaults \in Nat
BY FraudAssumption
DEF FraudInv, RowsInv, FraudShape, ScansInv, ScreensAgree, TwoScreensAgree, Named

LEMMA IdleFits ==
  ASSUME NEW s, NEW stored, NEW time, NEW begun, NEW marked
  PROVE  /\ Idle \in ScanType /\ Works(Idle, stored, time, begun) /\ Beside(s, Idle, marked) /\ Named(Idle)
         /\ Idle.pending = {} /\ Idle.pc = "idle"
<1>1. Idle.pc = "idle" /\ Idle.pending = {} /\ Idle.left = {} /\ Idle.found = {}
  BY DEF Idle
<1>2. Idle \in ScanType
  BY FraudAssumption DEF Idle, ScanType
<1>3. QED
  BY <1>1, <1>2 DEF Works, Beside, Named

LEMMA CommitKeeps ==
  ASSUME FraudInv, NEW s \in Scanners, Commit(s)
  PROVE  FraudInv'
<1>1. /\ scan[s].pc = "considering" /\ reports' = reports \cup scan[s].pending
      /\ scan' = [scan EXCEPT ![s] = [scan[s] EXCEPT !.pc = "alerting"]]
      /\ UNCHANGED << now, orders, reviews, suggested, alarms, overlapped, broken, renewed, scans, faults >>
  BY DEF Commit, Set
<1>2. /\ RowsInv /\ FraudShape /\ ReportsAreSpaced /\ AlarmsFollowReports /\ now \in Nat /\ scans \in Nat
      /\ scan[s] \in ScanType /\ Works(scan[s], reports, now, scans) /\ Beside(s, scan[s], overlapped) /\ Named(scan[s])
  BY ScanFacts
<1>3. PICK m \in ScanType : m = [scan[s] EXCEPT !.pc = "alerting"]
  BY <1>2 DEF ScanType
<1>4. /\ m.pc = "alerting" /\ m.id = scan[s].id /\ m.failed = scan[s].failed /\ m.found = scan[s].found
      /\ m.left = scan[s].left /\ m.pending = scan[s].pending
  BY <1>2, <1>3 DEF ScanType
<1>5. scan' = [scan EXCEPT ![s] = m] /\ \A t \in Scanners : scan'[t] = IF t = s THEN m ELSE scan[t]
  BY <1>1, <1>2, <1>3 DEF FraudShape
<1>6. Works(m, reports', now, scans') /\ Beside(s, m, overlapped') /\ Named(m)
  <2>1. Works(m, reports', now, scans')
    BY <1>1, <1>2, <1>4 DEF Works
  <2>2. Beside(s, m, overlapped')
    BY <1>1, <1>2, <1>4 DEF Beside
  <2>3. Named(m)
    BY <1>1, <1>2, <1>4 DEF Named
  <2>4. QED
    BY <2>1, <2>2, <2>3
<1>7. FraudShape'
  <2>1. scan[s].pending \subseteq Report /\ \A r \in scan[s].pending : r.at = now
    BY <1>2 DEF ScanType, Works
  <2>2. reports' \subseteq Report /\ \A r \in reports' : r.at <= now
    BY <1>1, <1>2, <2>1 DEF FraudShape
  <2>3. QED
    BY <1>1, <1>2, <1>5, <2>2 DEF FraudShape
<1>8. ReportsAreSpaced'
  <2>1. AllReports' \subseteq AllReports
    <3>1. \A t \in Scanners : scan'[t].pending = scan[t].pending
      BY <1>4, <1>5
    <3>2. QED
      BY <1>1, <3>1 DEF AllReports
  <2>2. QED
    BY <1>1, <1>2, <2>1, SpacedStays
<1>9. AlarmsFollowReports'
  <2>1. \A t \in Scanners : scan'[t].pending = scan[t].pending
    BY <1>4, <1>5
  <2>2. QED
    BY <1>1, <1>2, <2>1 DEF AlarmsFollowReports
<1>10. scans <= scans' /\ reports \subseteq reports' /\ overlapped \subseteq overlapped'
  BY <1>1, <1>2
<1>11. QED
  BY <1>1, <1>5, <1>6, <1>7, <1>8, <1>9, <1>10, ScanStepKeeps

LEMMA AlertKeeps ==
  ASSUME FraudInv, NEW s \in Scanners, NEW r \in scan[s].pending, Alert(s, r)
  PROVE  FraudInv'
<1>1. /\ scan[s].pc = "alerting" /\ scan' = [scan EXCEPT ![s] = [scan[s] EXCEPT !.pending = scan[s].pending \ {r}]]
      /\ UNCHANGED << now, orders, reviews, suggested, reports, overlapped, renewed, scans >>
  BY DEF Alert, Set
<1>2. /\ RowsInv /\ FraudShape /\ ReportsAreSpaced /\ AlarmsFollowReports /\ now \in Nat /\ scans \in Nat
      /\ scan[s] \in ScanType /\ Works(scan[s], reports, now, scans) /\ Beside(s, scan[s], overlapped) /\ Named(scan[s])
      /\ MaxScans \in Nat /\ scans <= MaxScans /\ faults \in Nat /\ MaxFaults \in Nat
  BY ScanFacts
<1>3. \/ alarms' = alarms \cup {r} /\ faults' = faults /\ broken' = broken
      \/ faults < MaxFaults /\ faults' = faults + 1 /\ broken' = broken \cup {scan[s].id} /\ alarms' = alarms
  BY DEF Alert
<1>4. PICK m \in ScanType : m = [scan[s] EXCEPT !.pending = scan[s].pending \ {r}]
  BY <1>2 DEF ScanType
<1>5. /\ m.pc = scan[s].pc /\ m.id = scan[s].id /\ m.failed = scan[s].failed /\ m.found = scan[s].found
      /\ m.left = scan[s].left /\ m.pending = scan[s].pending \ {r}
  BY <1>2, <1>4 DEF ScanType
<1>6. scan' = [scan EXCEPT ![s] = m] /\ \A t \in Scanners : scan'[t] = IF t = s THEN m ELSE scan[t]
  BY <1>1, <1>2, <1>4 DEF FraudShape
<1>7. r \in reports /\ r.by = scan[s].id /\ scan[s].id \in 1..MaxScans
  BY <1>1, <1>2 DEF Works
<1>8. Works(m, reports', now, scans') /\ Beside(s, m, overlapped') /\ Named(m)
  <2>1. Works(m, reports', now, scans')
    BY <1>1, <1>2, <1>5 DEF Works
  <2>2. Beside(s, m, overlapped')
    BY <1>1, <1>2, <1>5 DEF Beside
  <2>3. Named(m)
    BY <1>1, <1>2, <1>5 DEF Named
  <2>4. QED
    BY <2>1, <2>2, <2>3
<1>9. FraudShape'
  <2>1. broken' \subseteq 1..MaxScans /\ faults' \in 0..MaxFaults
    BY <1>2, <1>3, <1>7 DEF FraudShape
  <2>2. QED
    BY <1>1, <1>2, <1>6, <2>1 DEF FraudShape
<1>10. ReportsAreSpaced'
  <2>1. AllReports' \subseteq AllReports
    BY <1>1, <1>5, <1>6 DEF AllReports
  <2>2. QED
    BY <1>1, <1>2, <2>1, SpacedStays
<1>11. AlarmsFollowReports'
  <2>1. alarms' \subseteq reports' /\ alarms \subseteq alarms' /\ broken \subseteq broken'
    BY <1>1, <1>2, <1>3, <1>7 DEF AlarmsFollowReports
  <2>2. ASSUME NEW q \in reports', q \notin alarms'
        PROVE  q.by \in broken' \/ \E t \in Scanners : q \in scan'[t].pending
    <3>1. q \in reports /\ q \notin alarms
      BY <1>1, <2>1, <2>2
    <3>2. CASE q.by \in broken
      BY <2>1, <3>2
    <3>3. CASE \E t \in Scanners : q \in scan[t].pending
      <4>1. CASE q = r
        BY <1>3, <1>7, <2>2, <4>1
      <4>2. CASE q # r
        BY <1>5, <1>6, <3>3, <4>2
      <4>3. QED
        BY <4>1, <4>2
    <3>4. QED
      BY <1>2, <3>1, <3>2, <3>3 DEF AlarmsFollowReports
  <2>3. QED
    BY <2>1, <2>2 DEF AlarmsFollowReports
<1>12. scans <= scans' /\ reports \subseteq reports' /\ overlapped \subseteq overlapped'
  BY <1>1, <1>2
<1>13. QED
  BY <1>1, <1>6, <1>8, <1>9, <1>10, <1>11, <1>12, ScanStepKeeps

(* A scan that ends, whatever it leaves behind.                             *)
LEMMA EndKeeps ==
  ASSUME FraudInv, NEW s \in Scanners, scan' = [scan EXCEPT ![s] = Idle], broken' \subseteq 1..MaxScans,
         broken \subseteq broken', faults' \in 0..MaxFaults,
         \A r \in scan[s].pending : r.by \in broken',
         UNCHANGED << now, orders, reviews, suggested, reports, alarms, overlapped, renewed, scans >>
  PROVE  FraudInv'
<1>1. RowsInv /\ FraudShape /\ ReportsAreSpaced /\ AlarmsFollowReports /\ scans \in Nat
  BY ScanFacts
<1>2. PICK m \in ScanType :
        /\ m = Idle /\ Works(m, reports', now, scans') /\ Beside(s, m, overlapped') /\ Named(m) /\ m.pending = {}
  BY IdleFits
<1>3. scan' = [scan EXCEPT ![s] = m] /\ \A t \in Scanners : scan'[t] = IF t = s THEN m ELSE scan[t]
  BY <1>1, <1>2 DEF FraudShape
<1>4. FraudShape'
  BY <1>1, <1>3 DEF FraudShape
<1>5. ReportsAreSpaced'
  <2>1. AllReports' \subseteq AllReports
    BY <1>2, <1>3 DEF AllReports
  <2>2. QED
    BY <1>1, <2>1, SpacedStays
<1>6. AlarmsFollowReports'
  BY <1>1, <1>2, <1>3 DEF AlarmsFollowReports
<1>7. scans <= scans' /\ reports \subseteq reports' /\ overlapped \subseteq overlapped'
  BY <1>1
<1>8. QED
  BY <1>2, <1>3, <1>4, <1>5, <1>6, <1>7, ScanStepKeeps

LEMMA AnsweredKeeps ==
  ASSUME FraudInv, NEW s \in Scanners, Answered(s)
  PROVE  FraudInv'
<1>1. /\ scan[s].pending = {} /\ scan' = [scan EXCEPT ![s] = Idle]
      /\ UNCHANGED << now, orders, reviews, suggested, reports, alarms, overlapped, broken, renewed, scans, faults >>
  BY DEF Answered, Set
<1>2. FraudShape
  BY DEF FraudInv
<1>3. broken' \subseteq 1..MaxScans /\ broken \subseteq broken' /\ faults' \in 0..MaxFaults
  BY <1>1, <1>2 DEF FraudShape
<1>4. QED
  BY <1>1, <1>3, EndKeeps

LEMMA DieKeeps ==
  ASSUME FraudInv, NEW s \in Scanners, Die(s)
  PROVE  FraudInv'
<1>1. /\ scan[s].pc # "idle" /\ faults < MaxFaults /\ faults' = faults + 1 /\ broken' = broken \cup {scan[s].id}
      /\ scan' = [scan EXCEPT ![s] = Idle]
      /\ UNCHANGED << now, orders, reviews, suggested, reports, alarms, overlapped, renewed, scans >>
  BY DEF Die, Set
<1>2. /\ FraudShape /\ Works(scan[s], reports, now, scans) /\ scans \in Nat
      /\ MaxScans \in Nat /\ scans <= MaxScans /\ faults \in Nat /\ MaxFaults \in Nat
  BY ScanFacts
<1>3. scan[s].id \in 1..MaxScans
  BY <1>1, <1>2, FraudAssumption DEF Works
<1>4. broken' \subseteq 1..MaxScans /\ broken \subseteq broken' /\ faults' \in 0..MaxFaults
  BY <1>1, <1>2, <1>3 DEF FraudShape
<1>5. \A r \in scan[s].pending : r.by \in broken'
  BY <1>1, <1>2 DEF Works
<1>6. QED
  BY <1>1, <1>4, <1>5, EndKeeps
(* A report that repeats one of the last day is not added by a scan that    *)
(* sees that one; what it does not see, a scan beside it has added.         *)
LEMMA NewStaysApart ==
  ASSUME FraudInv, NEW s \in Scanners, scan[s].pc = "considering", NEW d, NEW new, new.rule = d.rule, new.target = d.target,
         new.at = now, new.by = scan[s].id, ~Known(s, d), NEW q \in AllReports, SameKey(q, new),
         q.at >= now - DedupWindow
  PROVE  {q.by, new.by} \subseteq overlapped
<1>1. /\ Beside(s, scan[s], overlapped)
      /\ \A t \in Scanners : Works(scan[t], reports, now, scans)
  BY DEF FraudInv, ScansInv
<1>2. q \notin reports /\ q \notin scan[s].pending
  BY DEF Known, Since, SameKey
<1>3. PICK t \in Scanners : q \in scan[t].pending
  BY <1>2 DEF AllReports
<1>4. t \in Scanners \ {s} /\ q.by = scan[t].id /\ scan[t].pc # "idle"
  BY <1>1, <1>2, <1>3 DEF Works, Idle
<1>5. QED
  BY <1>1, <1>4 DEF Beside

LEMMA ConsiderKeeps ==
  ASSUME FraudInv, NEW s \in Scanners, NEW d \in scan[s].left, Consider(s, d)
  PROVE  FraudInv'
<1>1. /\ scan[s].pc = "considering"
      /\ UNCHANGED << now, orders, reviews, suggested, reports, alarms, overlapped, broken, renewed, scans, faults >>
  BY DEF Consider
<1>2. /\ RowsInv /\ FraudShape /\ ReportsAreSpaced /\ AlarmsFollowReports /\ now \in Nat /\ scans \in Nat
      /\ scan[s] \in ScanType /\ Works(scan[s], reports, now, scans) /\ Beside(s, scan[s], overlapped) /\ Named(scan[s])
      /\ MaxScans \in Nat /\ scans <= MaxScans
  BY ScanFacts
<1>3. d \in Detection /\ scan[s].id \in 1..MaxScans /\ DedupWindow \in Nat /\ now \in 0..MaxTime
  BY <1>1, <1>2, FraudAssumption DEF ScanType, Works, RowsInv
<1>4. PICK new \in Report : new = [rule |-> d.rule, target |-> d.target, about |-> d.about, at |-> now, by |-> scan[s].id]
  BY <1>3 DEF Detection, Report
<1>5. new.rule = d.rule /\ new.target = d.target /\ new.at = now /\ new.by = scan[s].id
  BY <1>4
<1>6. PICK added \in SUBSET Report : added = IF Known(s, d) THEN scan[s].pending ELSE scan[s].pending \cup {new}
  BY <1>2 DEF ScanType
<1>7. PICK m \in ScanType : m = [scan[s] EXCEPT !.left = scan[s].left \ {d}, !.pending = added]
  BY <1>2 DEF ScanType
<1>8. /\ m.pc = "considering" /\ m.id = scan[s].id /\ m.failed = scan[s].failed /\ m.found = scan[s].found
      /\ m.left = scan[s].left \ {d} /\ m.pending = added
  BY <1>1, <1>2, <1>7 DEF ScanType
<1>9. scan' = [scan EXCEPT ![s] = m] /\ \A t \in Scanners : scan'[t] = IF t = s THEN m ELSE scan[t]
  <2>1. scan' = [scan EXCEPT ![s] = m]
    BY <1>4, <1>6, <1>7 DEF Consider, Set
  <2>2. QED
    BY <1>2, <2>1 DEF FraudShape
<1>10. Works(m, reports', now, scans') /\ Beside(s, m, overlapped') /\ Named(m)
  <2>1. \A r \in added : r.by = scan[s].id /\ r.at = now
    BY <1>2, <1>5, <1>6 DEF Works
  <2>2. \E r \in reports \cup added : SameKey(r, d) /\ r.at >= now - DedupWindow
    <3>1. CASE Known(s, d)
      <4>1. PICK r \in Since(reports, DedupWindow) \cup scan[s].pending : SameKey(r, d)
        BY <3>1 DEF Known
      <4>2. r \in scan[s].pending => r.at >= now - DedupWindow
        BY <1>2, <1>3 DEF Works
      <4>3. r \in reports \cup added /\ r.at >= now - DedupWindow
        BY <1>6, <3>1, <4>1, <4>2 DEF Since
      <4>4. QED
        BY <4>1, <4>3
    <3>2. CASE ~Known(s, d)
      <4>1. new \in added /\ new.at >= now - DedupWindow /\ SameKey(new, d)
        BY <1>2, <1>3, <1>5, <1>6, <3>2 DEF SameKey
      <4>2. QED
        BY <4>1
    <3>3. QED
      BY <3>1, <3>2
  <2>3. ASSUME NEW e \in m.found \ m.left
        PROVE  \E r \in reports \cup added : SameKey(r, e) /\ r.at >= now - DedupWindow
    <3>1. CASE e = d
      BY <2>2, <3>1
    <3>2. CASE e # d
      <4>1. e \in scan[s].found \ scan[s].left
        BY <1>8, <3>2
      <4>2. \E r \in reports \cup scan[s].pending : SameKey(r, e) /\ r.at >= now - DedupWindow
        BY <1>1, <1>2, <4>1 DEF Works
      <4>3. QED
        BY <1>6, <4>2
    <3>3. QED
      BY <3>1, <3>2
  <2>4. Works(m, reports', now, scans')
    BY <1>1, <1>2, <1>8, <2>1, <2>3 DEF Works
  <2>5. Beside(s, m, overlapped')
    BY <1>1, <1>2, <1>8 DEF Beside
  <2>6. Named(m)
    BY <1>1, <1>2, <1>8 DEF Named
  <2>7. QED
    BY <2>4, <2>5, <2>6
<1>11. FraudShape'
  BY <1>1, <1>2, <1>9 DEF FraudShape
<1>12. ReportsAreSpaced'
  <2>1. CASE Known(s, d)
    <3>1. AllReports' \subseteq AllReports
      BY <1>1, <1>6, <1>8, <1>9, <2>1 DEF AllReports
    <3>2. QED
      BY <1>1, <1>2, <3>1, SpacedStays
  <2>2. CASE ~Known(s, d)
    <3>1. AllReports' \subseteq AllReports \cup {new}
      BY <1>1, <1>6, <1>8, <1>9, <2>2 DEF AllReports
    <3>2. \A q \in AllReports : q.at \in Nat /\ q.at <= now
      <4>1. \A q \in reports : q.at \in Nat /\ q.at <= now
        BY <1>2, FraudAssumption DEF FraudShape, Report
      <4>2. \A t \in Scanners : \A q \in scan[t].pending : q.at = now
        BY DEF FraudInv, ScansInv, Works
      <4>3. QED
        BY <1>2, <4>1, <4>2 DEF AllReports
    <3>3. ASSUME NEW q \in AllReports, SameKey(q, new), q.at >= now - DedupWindow
          PROVE  {q.by, new.by} \subseteq overlapped
      BY <1>1, <1>5, <2>2, <3>3, NewStaysApart
    <3>4. ASSUME NEW q \in AllReports', NEW r \in AllReports', q # r, SameKey(q, r), q.at >= r.at - DedupWindow, q.at <= r.at
          PROVE  {q.by, r.by} \subseteq overlapped
      <4>1. CASE q = new
        <5>1. r \in AllReports /\ r.at = now /\ SameKey(r, new)
          BY <1>2, <1>5, <3>1, <3>2, <3>4, <4>1 DEF SameKey
        <5>2. r.at >= now - DedupWindow
          BY <1>2, <1>3, <5>1
        <5>3. QED
          BY <3>3, <4>1, <5>1, <5>2
      <4>2. CASE r = new
        <5>1. q \in AllReports /\ q.at >= now - DedupWindow /\ SameKey(q, new)
          BY <1>5, <3>1, <3>4, <4>2
        <5>2. QED
          BY <3>3, <4>2, <5>1
      <4>3. CASE q # new /\ r # new
        <5>1. q \in AllReports /\ r \in AllReports
          BY <3>1, <4>3
        <5>2. QED
          BY <1>2, <3>4, <5>1 DEF ReportsAreSpaced, AllReports
      <4>4. QED
        BY <4>1, <4>2, <4>3
    <3>5. \A q, r \in AllReports' :
            q # r /\ SameKey(q, r) /\ q.at >= r.at - DedupWindow /\ q.at <= r.at => {q.by, r.by} \subseteq overlapped'
      BY <1>1, <3>4
    <3>6. QED
      BY <3>5 DEF ReportsAreSpaced, AllReports, SameKey
  <2>3. QED
    BY <2>1, <2>2
<1>13. AlarmsFollowReports'
  <2>1. \A t \in Scanners : scan[t].pending \subseteq scan'[t].pending
    BY <1>6, <1>8, <1>9
  <2>2. QED
    BY <1>1, <1>2, <2>1 DEF AlarmsFollowReports
<1>14. scans <= scans' /\ reports \subseteq reports' /\ overlapped \subseteq overlapped'
  BY <1>1, <1>2
<1>15. QED
  BY <1>1, <1>9, <1>10, <1>11, <1>12, <1>13, <1>14, ScanStepKeeps

-----------------------------------------------------------------------------
(* What the rules find                                                      *)

(* The two ways of computing who approves blindly.                          *)
LEMMA TwoWaysAgree ==
  ASSUME RowsInv, NEW a \in Admins
  PROVE  BlindApproval(a) <=> Suspicious(a)
<1> DEFINE timed == {r \in reviews : r.admin = a /\ r.pace # "unknown" /\ now - r.at <= ReviewWindow}
           fast  == {r \in timed : r.pace = "fast"}
<1>1. now \in Nat /\ ReviewWindow \in Nat /\ MinReviews \in Nat /\ IsFiniteSet(reviews) /\ \A r \in reviews : r.at \in Int
  BY FraudAssumption DEF RowsInv, ReviewFits
<1>2. {r \in Since(reviews, ReviewWindow) : r.admin = a /\ r.pace # "unknown"} = timed
  BY <1>1 DEF Since
<1>3. IsFiniteSet(timed) /\ IsFiniteSet(fast)
  BY <1>1, FS_Subset
<1>4. Cardinality(timed) \in Nat /\ Cardinality(fast) \in Nat
  BY <1>3, FS_CardinalityType
<1>5. Suspicious(a) <=> Cardinality(timed) >= MinReviews /\ Cardinality(fast) * 100 >= Cardinality(timed) * 60
  BY DEF Suspicious
<1>6. BlindApproval(a) <=> Cardinality(timed) >= MinReviews /\ Cardinality(fast) * 10 >= Cardinality(timed) * 6
  BY <1>2 DEF BlindApproval
<1>7. QED
  <2> HIDE DEF timed, fast
  <2> QED
    BY <1>1, <1>4, <1>5, <1>6

LEMMA DetectionsAre ==
  /\ Detections("R1") = {[rule |-> "R1", target |-> a, about |-> 0] : a \in {b \in Admins : BlindApproval(b)}}
  /\ Detections("R2") = {[rule |-> "R2", target |-> a, about |-> 0] : a \in {b \in Admins : GradeOverride(b)}}
  /\ Detections("R3") = {[rule |-> "R3", target |-> o.customer, about |-> o.id] :
                           o \in {p \in Since(orders, OrderWindow) : NightBulk(p)}}
BY DEF Detections

LEMMA DetectionsFit ==
  ASSUME RowsInv, NEW rule \in Rules
  PROVE  Detections(rule) \subseteq Detection /\ \A d \in Detections(rule) : d.rule = rule
<1>1. MaxRows \in Nat /\ \A o \in Since(orders, OrderWindow) : o.customer \in Customers /\ o.id \in 1..MaxRows
  BY FraudAssumption DEF RowsInv, OrderFits, Since
<1>2. CASE rule = "R1"
  BY <1>1, <1>2, DetectionsAre DEF Detection, Rules
<1>3. CASE rule = "R2"
  BY <1>1, <1>3, DetectionsAre DEF Detection, Rules
<1>4. CASE rule = "R3"
  BY <1>1, <1>4, DetectionsAre DEF Detection, Rules
<1>5. QED
  BY <1>2, <1>3, <1>4 DEF Rules

(* What a scan finds of a rule that did not fail is what that rule finds.   *)
LEMMA FoundOfRule ==
  ASSUME RowsInv, NEW failed \in SUBSET Rules, NEW rule \in Rules \ failed,
         NEW found, found = UNION {Detections(r) : r \in Rules \ failed}
  PROVE  found \subseteq Detection /\ {d \in found : d.rule = rule} = Detections(rule)
BY DetectionsFit

LEMMA NamedByR1 ==
  ASSUME RowsInv, NEW found, {d \in found : d.rule = "R1"} = Detections("R1")
  PROVE  {d.target : d \in {e \in found : e.rule = "R1"}} = {a \in Admins : Suspicious(a)}
<1>1. {d.target : d \in Detections("R1")} = {a \in Admins : BlindApproval(a)}
  <2>1. ASSUME NEW d \in Detections("R1") PROVE d.target \in Admins /\ BlindApproval(d.target)
    <3>1. PICK a \in {b \in Admins : BlindApproval(b)} : d = [rule |-> "R1", target |-> a, about |-> 0]
      BY DetectionsAre
    <3>2. QED
      BY <3>1
  <2>2. ASSUME NEW a \in Admins, BlindApproval(a) PROVE \E d \in Detections("R1") : d.target = a
    <3>1. PICK d \in Detections("R1") : d = [rule |-> "R1", target |-> a, about |-> 0]
      BY <2>2, DetectionsAre
    <3>2. QED
      BY <3>1
  <2>3. QED
    BY <2>1, <2>2
<1>2. QED
  BY <1>1, TwoWaysAgree

LEMMA DetectKeeps ==
  ASSUME FraudInv, NEW s \in Scanners, Detect(s)
  PROVE  FraudInv'
<1> DEFINE others == {scan[t].id : t \in {u \in Scanners \ {s} : scan[u].pc # "idle"}}
<1>1. /\ scan[s].pc = "idle" /\ scans < MaxScans /\ scans' = scans + 1
      /\ overlapped' = overlapped \cup IF others = {} THEN {} ELSE others \cup {scans + 1}
      /\ UNCHANGED << now, orders, reviews, suggested, reports, alarms, broken, renewed >>
  BY DEF Detect
<1>2. /\ RowsInv /\ FraudShape /\ ReportsAreSpaced /\ AlarmsFollowReports /\ now \in Nat /\ scans \in Nat
      /\ Works(scan[s], reports, now, scans) /\ MaxScans \in Nat /\ faults \in Nat /\ MaxFaults \in Nat
  BY ScanFacts
<1> DEFINE With(failed, found) ==
             /\ found = UNION {Detections(r) : r \in Rules \ failed}
             /\ faults + Cardinality(failed) <= MaxFaults /\ faults' = faults + Cardinality(failed)
             /\ scan' = [scan EXCEPT ![s] = [pc |-> "considering", id |-> scans + 1, failed |-> failed,
                                             found |-> found, left |-> found, pending |-> {}]]
<1>3a. PICK failed \in {{}} \cup {{r} : r \in Rules} : \E found : With(failed, found)
  BY DEF Detect, Set
<1>3. PICK found : With(failed, found)
  BY <1>3a
<1>4. failed \in SUBSET Rules /\ Cardinality(failed) \in Nat
  <2>1. CASE failed = {}
    BY <2>1, FS_EmptySet
  <2>2. CASE \E r \in Rules : failed = {r}
    <3>1. PICK r \in Rules : failed = {r}
      BY <2>2
    <3>2. Cardinality({r}) = 1
      BY FS_Singleton
    <3>3. QED
      BY <3>1, <3>2
  <2>3. QED
    BY <1>3, <2>1, <2>2
<1>5. /\ found \subseteq Detection
      /\ "R1" \notin failed => {d \in found : d.rule = "R1"} = Detections("R1")
  BY <1>2, <1>3, <1>4, FoundOfRule DEF Rules
<1>6. PICK m \in ScanType :
        m = [pc |-> "considering", id |-> scans + 1, failed |-> failed, found |-> found, left |-> found, pending |-> {}]
  <2>1. scans + 1 \in 0..MaxScans /\ failed \in SUBSET Rules /\ found \in SUBSET Detection /\ {} \in SUBSET Report
    BY <1>1, <1>2, <1>4, <1>5
  <2>2. QED
    BY <2>1 DEF ScanType
<1>7. scan' = [scan EXCEPT ![s] = m] /\ \A t \in Scanners : scan'[t] = IF t = s THEN m ELSE scan[t]
  BY <1>2, <1>3, <1>6 DEF FraudShape
<1>8. scan[s].pending = {} /\ m.pending = {} /\ m.pc = "considering" /\ m.id = scans + 1 /\ m.left = m.found
  BY <1>1, <1>2, <1>6 DEF Works, Idle
<1>9. Works(m, reports', now, scans')
  BY <1>1, <1>2, <1>8 DEF Works
<1>10. Beside(s, m, overlapped')
  BY <1>1, <1>8 DEF Beside
<1>11. Named(m)
  BY <1>2, <1>5, <1>6, NamedByR1 DEF Named
<1>12. FraudShape'
  <2>1. \A t \in Scanners : scan[t].pc # "idle" => scan[t].id \in 1..scans
    BY DEF FraudInv, ScansInv, Works
  <2>2. others \subseteq 1..MaxScans /\ scans + 1 \in 1..MaxScans
    BY <1>1, <1>2, <2>1
  <2>3. overlapped' \subseteq 1..MaxScans /\ broken' \subseteq 1..MaxScans
    BY <1>1, <1>2, <2>2 DEF FraudShape
  <2>4. scans' \in 0..MaxScans /\ faults' \in 0..MaxFaults
    BY <1>1, <1>2, <1>3, <1>4
  <2>5. QED
    BY <1>1, <1>2, <1>7, <2>3, <2>4 DEF FraudShape
<1>13. \A t \in Scanners : scan'[t].pending = scan[t].pending
  BY <1>7, <1>8
<1>14. ReportsAreSpaced'
  <2>1. AllReports' \subseteq AllReports
    BY <1>1, <1>13 DEF AllReports
  <2>2. QED
    BY <1>1, <1>2, <2>1, SpacedStays
<1>15. AlarmsFollowReports'
  BY <1>1, <1>2, <1>13 DEF AlarmsFollowReports
<1>16. scans <= scans' /\ reports \subseteq reports' /\ overlapped \subseteq overlapped'
  BY <1>1, <1>2
<1>17. QED
  BY <1>1, <1>7, <1>9, <1>10, <1>11, <1>12, <1>14, <1>15, <1>16, ScanStepKeeps

LEMMA FraudNextKeeps ==
  ASSUME FraudInv, [Next]_vars
  PROVE  FraudInv'
<1>1. CASE Tick
  BY <1>1, TickKeeps
<1>2. CASE \E c \in Customers, p \in Prices : PlaceOrder(c, p)
  BY <1>2, PlaceOrderKeeps
<1>3. CASE \E a \in Admins, j \in Jobs, v \in Verdicts : Review(a, j, v)
  BY <1>3, ReviewKeeps
<1>4. CASE \E j \in Jobs : DeleteJob(j) \/ \E g \in Given : Renew(j, g)
  BY <1>4, DeleteJobKeeps, RenewKeeps
<1>5. CASE \E s \in Scanners : Scan(s)
  <2>1. PICK s \in Scanners : Scan(s)
    BY <1>5
  <2>2. CASE Detect(s)
    BY <2>2, DetectKeeps
  <2>3. CASE Commit(s)
    BY <2>3, CommitKeeps
  <2>4. CASE Answered(s) \/ Die(s)
    BY <2>4, AnsweredKeeps, DieKeeps
  <2>5. CASE \E d \in scan[s].left : Consider(s, d)
    BY <2>5, ConsiderKeeps
  <2>6. CASE \E r \in scan[s].pending : Alert(s, r)
    BY <2>6, AlertKeeps
  <2>7. QED
    BY <2>1, <2>2, <2>3, <2>4, <2>5, <2>6 DEF Scan
<1>6. CASE UNCHANGED vars
  <2>1. /\ now' = now /\ orders' = orders /\ reviews' = reviews /\ suggested' = suggested /\ reports' = reports
        /\ scan' = scan /\ alarms' = alarms /\ overlapped' = overlapped /\ broken' = broken /\ renewed' = renewed
        /\ scans' = scans /\ faults' = faults
    BY <1>6 DEF vars
  <2>2. RowsInv' /\ FraudShape'
    BY <2>1 DEF FraudInv, RowsInv, OrderFits, ReviewFits, Remembered, FraudShape
  <2>3. ScansInv'
    BY <2>1 DEF FraudInv, ScansInv, Works, Beside, SameKey
  <2>4. ReportsAreSpaced'
    <3>1. ReportsAreSpaced /\ AllReports' \subseteq AllReports /\ overlapped \subseteq overlapped'
      BY <2>1 DEF FraudInv, ScreensAgree, AllReports
    <3>2. QED
      BY <3>1, SpacedStays
  <2>5. AlarmsFollowReports'
    BY <2>1 DEF FraudInv, ScreensAgree, AlarmsFollowReports
  <2>6. TwoScreensAgree'
    <3>1. ASSUME NEW a \in Admins PROVE Suspicious(a)' = Suspicious(a)
      BY <2>1 DEF Suspicious
    <3>2. {a \in Admins : Suspicious(a)}' = {a \in Admins : Suspicious(a)}
      BY <3>1
    <3>3. QED
      BY <2>1, <3>2 DEF FraudInv, ScreensAgree, TwoScreensAgree
  <2>7. QED
    BY <2>2, <2>3, <2>4, <2>5, <2>6 DEF FraudInv, ScreensAgree
<1>7. QED
  BY <1>1, <1>2, <1>3, <1>4, <1>5, <1>6 DEF Next

(* Of a step of the desk the fraud scan sees its own steps alone.           *)
LEMMA DeskStepIsFraud ==
  ASSUME [DeskNext]_<< vars, answer, weeklyVars >>
  PROVE  [Next]_vars
BY DEF DeskNext, Ask, QuoteOrder, AskTag, AskParcel, AskBox, AskFlaws, AskPage, Answer

(* The inductive invariant of the fraud scan.                               *)
THEOREM FraudInvariant == DeskSpec => []FraudInv
<1>1. DeskInit => FraudInv
  BY InitGivesFraudInv DEF DeskInit
<1>2. FraudInv /\ [DeskNext]_<< vars, answer, weeklyVars >> => FraudInv'
  BY FraudNextKeeps, DeskStepIsFraud
<1>3. QED
  BY <1>1, <1>2, PTL DEF DeskSpec

(* The fraud screens agree with each other, with the reports and with the   *)
(* alarms, for any number of scans under way and whichever of them fail:    *)
(* run_scan, _is_duplicate, _publish_alert and generate_fds_report.         *)
THEOREM FraudScreensAgree == DeskSpec => []ScreensAgree
<1>1. FraudInv => ScreensAgree
  BY DEF FraudInv
<1>2. QED
  BY <1>1, FraudInvariant, PTL

(* A step of a scan changes that scan alone; only Detect begins one and     *)
(* only Commit goes on to the alarms.                                       *)
LEMMA ScanMovesOn ==
  ASSUME FraudInv, NEW t \in Scanners, Scan(t)
  PROVE  \E m \in ScanType :
           /\ scan' = [scan EXCEPT ![t] = m]
           /\ m.pc = "alerting" => Commit(t) \/ scan[t].pc = "alerting"
           /\ m.pc = "considering" => Detect(t) \/ scan[t].pc = "considering"
<1>1. FraudInv' /\ scan \in [Scanners -> ScanType]
  BY FraudNextKeeps DEF Next, FraudInv, FraudShape
<1>2. \E m : scan' = [scan EXCEPT ![t] = m]
  BY DEF Scan, Detect, Commit, Answered, Die, Consider, Alert, Set
<1>3. PICK m \in ScanType : scan' = [scan EXCEPT ![t] = m] /\ scan'[t] = m
  BY <1>1, <1>2 DEF FraudInv, FraudShape
<1>4. CASE Detect(t)
  BY <1>1, <1>3, <1>4 DEF Detect, Set
<1>5. CASE Commit(t)
  BY <1>1, <1>3, <1>5 DEF Commit, Set, ScanType
<1>6. CASE Answered(t) \/ Die(t)
  BY <1>1, <1>3, <1>6 DEF Answered, Die, Set, Idle
<1>7. CASE (\E d \in scan[t].left : Consider(t, d)) \/ \E r \in scan[t].pending : Alert(t, r)
  <2>1. scan[t] \in ScanType
    BY <1>1
  <2>2. ASSUME NEW d \in scan[t].left, Consider(t, d) PROVE scan'[t].pc = scan[t].pc
    <3>1. \E left, pending : scan' = [scan EXCEPT ![t] = [scan[t] EXCEPT !.left = left, !.pending = pending]]
      BY <2>2 DEF Consider, Set
    <3>2. QED
      BY <1>1, <2>1, <3>1 DEF ScanType
  <2>3. ASSUME NEW r \in scan[t].pending, Alert(t, r) PROVE scan'[t].pc = scan[t].pc
    BY <1>1, <2>1, <2>3 DEF Alert, Set, ScanType
  <2>4. QED
    BY <1>3, <1>7, <2>2, <2>3
<1>8. QED
  BY <1>4, <1>5, <1>6, <1>7 DEF Scan

(* When a scan commits, each of its detections stands in a report.          *)
LEMMA CommitReports ==
  ASSUME FraudInv, [Next]_vars, NEW s \in Scanners, scan[s].pc = "considering", scan'[s].pc = "alerting",
         NEW d \in scan[s].found
  PROVE  \E r \in reports' : SameKey(r, d) /\ r.at >= now - DedupWindow
<1>1. Commit(s)
  <2>1. scan' # scan /\ scan \in [Scanners -> ScanType]
    BY DEF FraudInv, FraudShape
  <2>2. PICK t \in Scanners : Scan(t)
    BY <2>1 DEF Next, vars, Tick, PlaceOrder, Review, DeleteJob, Renew
  <2>3. PICK m \in ScanType :
          scan' = [scan EXCEPT ![t] = m] /\ (m.pc = "alerting" => Commit(t) \/ scan[t].pc = "alerting")
    BY <2>2, ScanMovesOn
  <2>4. t = s /\ m.pc = "alerting"
    BY <2>1, <2>3
  <2>5. QED
    BY <2>3, <2>4
<1>2. scan[s].left = {} /\ reports' = reports \cup scan[s].pending
  BY <1>1 DEF Commit
<1>3. Works(scan[s], reports, now, scans)
  BY ScanFacts
<1>4. QED
  BY <1>2, <1>3 DEF Works

(* The reviews that are real overrides.                                     *)
Mine(a) == {r \in Since(reviews, GradeWindow) : r.admin = a}
Real(a) == {r \in Mine(a) : /\ r.action = "APPROVE" /\ {r.grade, r.held} \subseteq Grades
                            /\ Rank(r.grade) >= Rank(r.held) + 2}

LEMMA RankType ==
  ASSUME NEW g \in Grades
  PROVE  Rank(g) \in 1..4
<1>1. \E i \in 1..4 : Ranked[i] = g
  BY DEF Grades, Ranked
<1>2. QED
  BY <1>1 DEF Rank

(* A scan that began a moment ago found the administrators who had approved *)
(* far above the AI, if nothing they reviewed was inspected again.          *)
LEMMA DetectIsFair ==
  ASSUME FraudInv, [Next]_vars, NEW s \in Scanners, NEW a \in Admins, scan[s].pc = "idle", scan'[s].pc = "considering",
         "R2" \notin scan'[s].failed, \A r \in Mine(a) : r.job \notin renewed
  PROVE  (\E d \in scan'[s].found : d.rule = "R2" /\ d.target = a)
           <=> Cardinality({r \in Real(a) : suggested[r.job] # Gone}) >= MinOverrides
<1>1. RowsInv /\ scan \in [Scanners -> ScanType] /\ scan' # scan
  BY DEF FraudInv, FraudShape
<1>2. Detect(s)
  <2>1. PICK t \in Scanners : Scan(t)
    BY <1>1 DEF Next, vars, Tick, PlaceOrder, Review, DeleteJob, Renew
  <2>2. PICK m \in ScanType :
          scan' = [scan EXCEPT ![t] = m] /\ (m.pc = "considering" => Detect(t) \/ scan[t].pc = "considering")
    BY <2>1, ScanMovesOn
  <2>3. t = s /\ m.pc = "considering"
    BY <1>1, <2>2
  <2>4. QED
    BY <2>2, <2>3
<1> DEFINE With(failed, found) ==
             /\ found = UNION {Detections(r) : r \in Rules \ failed}
             /\ scan' = [scan EXCEPT ![s] = [pc |-> "considering", id |-> scans + 1, failed |-> failed,
                                             found |-> found, left |-> found, pending |-> {}]]
<1>3a. PICK failed \in {{}} \cup {{r} : r \in Rules} : \E found : With(failed, found)
  BY <1>2 DEF Detect, Set
<1>3. PICK found : With(failed, found)
  BY <1>3a
<1>4. scan'[s].failed = failed /\ scan'[s].found = found
  BY <1>1, <1>3
<1>5. failed \in SUBSET Rules /\ "R2" \in Rules \ failed
  BY <1>3, <1>4 DEF Rules
<1>6. {d \in found : d.rule = "R2"} = Detections("R2")
  BY <1>1, <1>3, <1>5, FoundOfRule
<1>7. (\E d \in found : d.rule = "R2" /\ d.target = a) <=> GradeOverride(a)
  <2>1. ASSUME NEW d \in found, d.rule = "R2", d.target = a PROVE GradeOverride(a)
    <3>1. PICK b \in {c \in Admins : GradeOverride(c)} : d = [rule |-> "R2", target |-> b, about |-> 0]
      BY <1>6, <2>1, DetectionsAre
    <3>2. QED
      BY <2>1, <3>1
  <2>2. ASSUME GradeOverride(a) PROVE \E d \in found : d.rule = "R2" /\ d.target = a
    <3>1. PICK d \in Detections("R2") : d = [rule |-> "R2", target |-> a, about |-> 0]
      BY <2>2, DetectionsAre
    <3>2. QED
      BY <1>6, <3>1
  <2>3. QED
    BY <2>1, <2>2
<1>8. {r \in Since(reviews, GradeWindow) : r.admin = a /\ Compared(r) /\ StepsUp(r) >= 2}
      = {r \in Real(a) : suggested[r.job] # Gone}
  <2>1. ASSUME NEW r \in Mine(a)
        PROVE  Compared(r) /\ StepsUp(r) >= 2 <=> r \in Real(a) /\ suggested[r.job] # Gone
    <3>1. r \in reviews /\ (r.held = suggested[r.job] \/ suggested[r.job] = Gone)
      BY <1>1 DEF RowsInv, Since, Mine, Remembered
    <3>2. Gone \notin Grades
      BY DEF Gone, Grades
    <3>3. CASE suggested[r.job] = Gone
      BY <3>2, <3>3 DEF Compared
    <3>4. CASE r.held = suggested[r.job] /\ suggested[r.job] # Gone
      <4>1. CASE {r.grade, r.held} \subseteq Grades
        <5>1. Rank(r.grade) \in 1..4 /\ Rank(r.held) \in 1..4
          BY <4>1, RankType
        <5>2. StepsUp(r) >= 2 <=> Rank(r.grade) >= Rank(r.held) + 2
          BY <3>4, <5>1 DEF StepsUp
        <5>3. QED
          BY <3>4, <4>1, <5>2 DEF Compared, Real
      <4>2. CASE ~({r.grade, r.held} \subseteq Grades)
        BY <3>4, <4>2 DEF Compared, Real
      <4>3. QED
        BY <4>1, <4>2
    <3>5. QED
      BY <3>1, <3>3, <3>4
  <2>2. QED
    BY <2>1 DEF Mine, Real
<1>9. QED
  BY <1>4, <1>7, <1>8 DEF GradeOverride

(* A scan reports whom it must and accuses nobody wrongly, for any number   *)
(* of scans, reviews and inspections between them: run_scan and             *)
(* _detect_grade_override.                                                  *)
THEOREM FraudScansAreFair == DeskSpec => ScansAreFair
<1> DEFINE Reported == \A s \in Scanners :
                         scan[s].pc = "considering" /\ scan'[s].pc = "alerting" =>
                           \A d \in scan[s].found : \E r \in reports' : SameKey(r, d) /\ r.at >= now - DedupWindow
           Fair == \A s \in Scanners, a \in Admins :
                     /\ scan[s].pc = "idle" /\ scan'[s].pc = "considering"
                     /\ "R2" \notin scan'[s].failed
                     /\ \A r \in Mine(a) : r.job \notin renewed
                     => ((\E d \in scan'[s].found : d.rule = "R2" /\ d.target = a)
                           <=> Cardinality({r \in Real(a) : suggested[r.job] # Gone}) >= MinOverrides)
<1>1. FraudInv /\ [DeskNext]_<< vars, answer, weeklyVars >> => [Reported]_vars
  BY DeskStepIsFraud, CommitReports
<1>2. FraudInv /\ [DeskNext]_<< vars, answer, weeklyVars >> => [Fair]_vars
  BY DeskStepIsFraud, DetectIsFair
<1> HIDE DEF Reported, Fair
<1>3. DeskSpec => [][Reported]_vars
  BY <1>1, FraudInvariant, PTL DEF DeskSpec
<1>4. DeskSpec => [][Fair]_vars
  BY <1>2, FraudInvariant, PTL DEF DeskSpec
<1>5. DeskSpec => DetectionIsReported
  BY <1>3 DEF DetectionIsReported, Reported
<1>6. DeskSpec => OverridesAreReal
  BY <1>4 DEF OverridesAreReal, Fair, Real, Mine
<1>7. QED
  BY <1>5, <1>6 DEF ScansAreFair

-----------------------------------------------------------------------------
(* The weekly report                                                        *)

Build == [pc : {"idle", "first", "before", "current", "closing", "refresh"},
          of : Days, week : Weeks, found : Nat \cup {Missing}, count : Nat]

DaysBefore(d) == { e \in Days : WeekOf(e) = WeekOf(d) /\ e < d }

WeekBefore(rows, d) == WeekOf(d) > 0 => rows[WeekOf(d) - 1] # Missing

WeeklyShape ==
  /\ received \in [Days -> 0..MaxJobs] /\ deleted \in [Days -> 0..MaxJobs]
  /\ \A d \in Days : received[d] + deleted[d] <= MaxJobs
  /\ day \in Days /\ report \in [Weeks -> Nat \cup {Missing}]
  /\ build \in [Visitors \cup Batches -> Build]
  /\ done \subseteq 0..day /\ doubled \subseteq Weeks /\ losses \in 0..MaxLosses

(* What Received is, for any figures.                                       *)
SumOf(f, S) == MapThenSumSet(LAMBDA d : f[d], S)

(* What the builder of a report knows, and the row that it found: b builds  *)
(* m while the day, the figures, the deleted, the rows and the doubled      *)
(* weeks are these.                                                         *)
BuilderKnows(b, m, today, figures, lost, rows, twice) ==
  /\ m.of <= today /\ m.count <= SumOf(figures, Window(m.week)) + SumOf(lost, Window(m.week))
  /\ m.pc \in {"before", "current", "closing", "refresh"} => b \in Batches
  /\ m.pc \in {"first", "closing"} => m.found = Missing
  /\ m.pc = "closing" => m.week = WeekOf(m.of) - 1
  /\ m.pc \in {"current", "refresh"} => WeekBefore(rows, m.of)
  /\ m.pc = "refresh" =>
       /\ m.week = WeekOf(m.of) /\ SumOf(figures, DaysBefore(m.of)) <= m.count
       /\ m.found # Missing /\ m.week \notin twice =>
            rows[m.week] = m.found /\ m.found <= m.count + SumOf(lost, Window(m.week))

(* What a batch is about to write has all that the batches before it, which *)
(* ended well on these days, had to find.                                   *)
Covers(m, figures, ended, twice) ==
  \A d \in ended : m.pc = "refresh" /\ m.week = WeekOf(d) /\ m.week \notin twice =>
    SumOf(figures, DaysBefore(d)) <= m.count

BuildFits(b) == /\ BuilderKnows(b, build[b], day, received, deleted, report, doubled)
                /\ Covers(build[b], received, done, doubled)

(* Another batch that writes the week of m is known to work on it.          *)
Told(b, m, twice) ==
  \A c \in Batches \ {b} : m.pc = "refresh" /\ build[c].pc = "refresh" /\ build[c].week = m.week => m.week \in twice

TwoWorkDoubled ==
  \A b, c \in Batches :
    b # c /\ build[b].pc = "refresh" /\ build[c].pc = "refresh" /\ build[b].week = build[c].week
      => build[b].week \in doubled

WeekHolds(w) == report[w] <= SumOf(received, Window(w)) + SumOf(deleted, Window(w))

BatchHolds(d) ==
  /\ WeekBefore(report, d)
  /\ WeekOf(d) \notin doubled => SumOf(received, DaysBefore(d)) <= report[WeekOf(d)]

WeeklyInv ==
  /\ WeeklyShape /\ \A b \in Visitors \cup Batches : BuildFits(b)
  /\ TwoWorkDoubled /\ (\A w \in Weeks : WeekHolds(w)) /\ \A d \in done : BatchHolds(d)

(* Of two sums over a set the one with the smaller summands is smaller.     *)
LEMMA SumsCompare ==
  ASSUME NEW S, IsFiniteSet(S), NEW f, NEW k, \A x \in S : f[x] \in Nat /\ k[x] \in Nat /\ f[x] <= k[x],
         NEW g, IsSum(g, f, S), NEW h, IsSum(h, k, S)
  PROVE  g[S] <= h[S]
<1> DEFINE Bad == { n \in Nat : \E s \in SUBSET S : Cardinality(s) = n /\ ~(g[s] <= h[s]) }
<1>0. \A s \in SUBSET S : Cardinality(s) \in Nat /\ g[s] \in Nat /\ h[s] \in Nat
  BY FS_Subset, FS_CardinalityType, SumIsNatural
<1>1. \A s \in SUBSET S : g[s] = Summed(g, f, s) /\ h[s] = Summed(h, k, s)
  BY DEF IsSum
<1>2. ASSUME Bad # {} PROVE FALSE
  <2>1. PICK n \in Bad : \A i \in Bad : n <= i
    BY <1>2, LeastExists
  <2>2. PICK s \in SUBSET S : Cardinality(s) = n /\ ~(g[s] <= h[s])
    BY <2>1
  <2>3. s # {}
    <3>1. s = {} => g[s] = 0 /\ h[s] = 0
      BY <1>1, <2>2 DEF Summed
    <3>2. QED
      BY <2>2, <3>1
  <2>4. /\ Rest(s) \in SUBSET S /\ First(s) \in S
        /\ n \in Nat /\ n - 1 \in Nat /\ Cardinality(Rest(s)) = n - 1
    <3>1. First(s) \in s /\ Rest(s) \in SUBSET S /\ Cardinality(Rest(s)) = Cardinality(s) - 1
      BY <2>3, RestIsSmaller
    <3>2. Cardinality(Rest(s)) \in Nat /\ Cardinality(s) \in Nat
      BY <1>0, <3>1
    <3>3. QED
      BY <2>2, <3>1, <3>2
  <2>5. g[Rest(s)] <= h[Rest(s)]
    <3>1. n - 1 \notin Bad
      <4> HIDE DEF Bad
      <4> QED
        BY <2>1, <2>4
    <3>2. QED
      BY <2>4, <3>1
  <2>6. g[s] = f[First(s)] + g[Rest(s)] /\ h[s] = k[First(s)] + h[Rest(s)]
    BY <1>1, <2>2, <2>3 DEF Summed
  <2>7. g[Rest(s)] \in Nat /\ h[Rest(s)] \in Nat /\ f[First(s)] \in Nat /\ k[First(s)] \in Nat /\ f[First(s)] <= k[First(s)]
    BY <1>0, <2>4
  <2>8. QED
    BY <2>2, <2>5, <2>6, <2>7
<1>3. QED
  BY <1>0, <1>2

(* The sum of sums.                                                         *)
LEMMA SumsAdd ==
  ASSUME NEW S, IsFiniteSet(S), NEW f, NEW k, NEW e, \A x \in S : f[x] \in Nat /\ k[x] \in Nat /\ e[x] = f[x] + k[x],
         NEW g, IsSum(g, f, S), NEW h, IsSum(h, k, S), NEW t, IsSum(t, e, S)
  PROVE  t[S] = g[S] + h[S]
<1> DEFINE Bad == { n \in Nat : \E s \in SUBSET S : Cardinality(s) = n /\ ~(t[s] = g[s] + h[s]) }
<1>0. \A s \in SUBSET S : Cardinality(s) \in Nat /\ g[s] \in Nat /\ h[s] \in Nat
  BY FS_Subset, FS_CardinalityType, SumIsNatural
<1>1. \A s \in SUBSET S : g[s] = Summed(g, f, s) /\ h[s] = Summed(h, k, s) /\ t[s] = Summed(t, e, s)
  BY DEF IsSum
<1>2. ASSUME Bad # {} PROVE FALSE
  <2>1. PICK n \in Bad : \A i \in Bad : n <= i
    BY <1>2, LeastExists
  <2>2. PICK s \in SUBSET S : Cardinality(s) = n /\ ~(t[s] = g[s] + h[s])
    BY <2>1
  <2>3. s # {}
    <3>1. s = {} => g[s] = 0 /\ h[s] = 0 /\ t[s] = 0
      BY <1>1, <2>2 DEF Summed
    <3>2. QED
      BY <2>2, <3>1
  <2>4. /\ Rest(s) \in SUBSET S /\ First(s) \in S
        /\ n \in Nat /\ n - 1 \in Nat /\ Cardinality(Rest(s)) = n - 1
    <3>1. First(s) \in s /\ Rest(s) \in SUBSET S /\ Cardinality(Rest(s)) = Cardinality(s) - 1
      BY <2>3, RestIsSmaller
    <3>2. Cardinality(Rest(s)) \in Nat /\ Cardinality(s) \in Nat
      BY <1>0, <3>1
    <3>3. QED
      BY <2>2, <3>1, <3>2
  <2>5. t[Rest(s)] = g[Rest(s)] + h[Rest(s)]
    <3>1. n - 1 \notin Bad
      <4> HIDE DEF Bad
      <4> QED
        BY <2>1, <2>4
    <3>2. QED
      BY <2>4, <3>1
  <2>6. /\ g[s] = f[First(s)] + g[Rest(s)] /\ h[s] = k[First(s)] + h[Rest(s)]
        /\ t[s] = e[First(s)] + t[Rest(s)]
    BY <1>1, <2>2, <2>3 DEF Summed
  <2>7. /\ g[Rest(s)] \in Nat /\ h[Rest(s)] \in Nat /\ f[First(s)] \in Nat /\ k[First(s)] \in Nat
        /\ e[First(s)] = f[First(s)] + k[First(s)]
    BY <1>0, <2>4
  <2>8. QED
    BY <2>2, <2>5, <2>6, <2>7
<1>3. QED
  BY <1>0, <1>2

LEMMA SumOfIsSum ==
  ASSUME NEW S, IsFiniteSet(S), NEW f
  PROVE  \E g : IsSum(g, f, S) /\ SumOf(f, S) = g[S]
<1> DEFINE Solves(g) == g = [s \in SUBSET S |-> IF s = {} THEN 0 ELSE f[First(s)] + g[s \ {First(s)}]]
<1>1. SumOf(f, S) = (CHOOSE g : Solves(g))[S]
  BY DEF SumOf, MapThenSumSet, MapThenFoldSet, First
<1>2. ASSUME NEW g PROVE Solves(g) <=> IsSum(g, f, S)
  BY DEF IsSum, Summed, Rest
<1>3. PICK g : Solves(g) /\ (CHOOSE h : Solves(h)) = g
  BY <1>2, SumExists
<1>4. IsSum(g, f, S)
  <2> HIDE DEF Solves
  <2> QED
    BY <1>2, <1>3
<1>5. QED
  BY <1>1, <1>3, <1>4

(* More days with more on each of them do not come to less.                 *)
LEMMA SumOfGrows ==
  ASSUME NEW T, IsFiniteSet(T), NEW S, S \subseteq T, NEW f, NEW k,
         \A x \in S : f[x] \in Nat /\ f[x] <= k[x], \A x \in T : k[x] \in Nat
  PROVE  SumOf(f, S) \in Nat /\ SumOf(k, T) \in Nat /\ SumOf(f, S) <= SumOf(k, T)
<1>0. IsFiniteSet(S)
  BY FS_Subset
<1>1. PICK g : IsSum(g, f, S) /\ SumOf(f, S) = g[S]
  BY <1>0, SumOfIsSum
<1>2. PICK m : IsSum(m, k, S) /\ SumOf(k, S) = m[S]
  BY <1>0, SumOfIsSum
<1>3. PICK h : IsSum(h, k, T) /\ SumOf(k, T) = h[T]
  BY SumOfIsSum
<1>4. g[S] \in Nat /\ m[S] \in Nat
  BY <1>0, <1>1, <1>2, SumIsNatural
<1>5. h[T] \in Nat
  BY <1>3, SumIsNatural
<1>6. g[S] <= m[S]
  BY <1>0, <1>1, <1>2, SumsCompare
<1>7. m[S] <= h[T]
  BY <1>2, <1>3, SumMonotone
<1>8. QED
  BY <1>1, <1>3, <1>4, <1>5, <1>6, <1>7

LEMMA WeekOfDay ==
  ASSUME NEW d \in Days
  PROVE  /\ WeekOf(d) \in Nat /\ WeekOf(d) \in Weeks /\ 0 \in Weeks /\ Weeks \subseteq Nat
         /\ WeekOf(d) # 0 => WeekOf(d) - 1 \in Weeks
<1>1. d \in Nat /\ d <= MaxDay /\ MaxDay \in Nat /\ WeekDays \in Nat \ {0}
  BY WeeklyAssumption DEF Days
<1>2. WeekOf(d) \in Nat /\ WeekOf(MaxDay) \in Nat /\ WeekOf(d) <= WeekOf(MaxDay)
  <2>1. PICK q \in Int, m \in 0..(WeekDays - 1) : d \div WeekDays = q /\ d = WeekDays * q + m
    BY <1>1
  <2>2. PICK p \in Int, n \in 0..(WeekDays - 1) : MaxDay \div WeekDays = p /\ MaxDay = WeekDays * p + n
    BY <1>1
  <2>3. q \in Nat /\ p \in Nat
    BY <1>1, <2>1, <2>2
  <2>4. ~ (p + 1 <= q)
    BY <1>1, <2>1, <2>2, <2>3
  <2>5. QED
    BY <2>1, <2>2, <2>3, <2>4 DEF WeekOf
<1>3. QED
  BY <1>2 DEF Weeks

LEMMA ReceivedIsSumOf ==
  ASSUME NEW S
  PROVE  Received(S) = SumOf(received, S) /\ Deleted(S) = SumOf(deleted, S)
BY DEF Received, Deleted, SumOf

LEMMA InvGivesWeekly ==
  ASSUME WeeklyInv
  PROVE  WeekCountsItsOwn /\ BatchIsFresh
<1>1. /\ report \in [Weeks -> Nat \cup {Missing}] /\ done \subseteq Days
      /\ \A w \in Weeks : WeekHolds(w)
      /\ \A d \in done : BatchHolds(d)
  BY WeeklyAssumption DEF WeeklyInv, WeeklyShape, Days
<1>2. WeekCountsItsOwn
  BY <1>1, ReceivedIsSumOf DEF WeekCountsItsOwn, WeekHolds, Window
<1>3. BatchIsFresh
  <2>1. ASSUME NEW d \in done, WeekOf(d) > 0 PROVE report[WeekOf(d) - 1] # Missing
    BY <1>1, <2>1 DEF BatchHolds, WeekBefore
  <2>2. ASSUME NEW d \in done, WeekOf(d) \notin doubled
        PROVE  report[WeekOf(d)] >= Received({ e \in Days : WeekOf(e) = WeekOf(d) /\ e < d })
    <3>1. SumOf(received, DaysBefore(d)) <= report[WeekOf(d)]
      BY <1>1, <2>2 DEF BatchHolds
    <3>2. QED
      BY <3>1, ReceivedIsSumOf DEF DaysBefore
  <2>3. QED
    BY <2>1, <2>2 DEF BatchIsFresh
<1>4. QED
  BY <1>2, <1>3

LEMMA DaysAreFinite ==
  ASSUME NEW S, S \subseteq Days
  PROVE  IsFiniteSet(S)
<1>1. IsFiniteSet(Days)
  BY FS_Interval, WeeklyAssumption DEF Days
<1>2. QED
  BY <1>1, FS_Subset

LEMMA SumsAreNatural ==
  ASSUME WeeklyShape, NEW S \in SUBSET Days
  PROVE  SumOf(received, S) \in Nat /\ SumOf(deleted, S) \in Nat
<1>1. /\ IsFiniteSet(S)
      /\ \A d \in S : received[d] \in Nat /\ received[d] <= received[d] /\ deleted[d] \in Nat /\ deleted[d] <= deleted[d]
  BY DaysAreFinite, WeeklyAssumption DEF WeeklyShape
<1>2. QED
  BY <1>1, SumOfGrows

LEMMA PartCountsLess ==
  ASSUME WeeklyShape, NEW S \in SUBSET Days, NEW T \in SUBSET Days, S \subseteq T
  PROVE  SumOf(received, S) <= SumOf(received, T)
<1>1. IsFiniteSet(T) /\ (\A d \in T : received[d] \in Nat) /\ \A d \in S : received[d] \in Nat /\ received[d] <= received[d]
  BY DaysAreFinite, WeeklyAssumption DEF WeeklyShape
<1>2. QED
  BY <1>1, SumOfGrows

LEMMA TomorrowKeepsWeekly ==
  ASSUME WeeklyInv, Tomorrow
  PROVE  WeeklyInv'
<1>1. WeeklyShape /\ (\A b \in Visitors \cup Batches : BuildFits(b)) /\ day \in Nat
  BY WeeklyAssumption DEF WeeklyInv, WeeklyShape, Days
<1>2. /\ day < MaxDay /\ day' = day + 1 /\ received' = received /\ deleted' = deleted /\ report' = report /\ build' = build
      /\ done' = done /\ doubled' = doubled /\ losses' = losses
  BY DEF Tomorrow
<1>3. WeeklyShape'
  BY <1>1, <1>2, WeeklyAssumption DEF WeeklyShape, Days
<1>4. ASSUME NEW b \in Visitors \cup Batches PROVE BuildFits(b)'
  <2>1. build[b].of \in Nat
    BY <1>1, WeeklyAssumption DEF WeeklyShape, Build, Days
  <2>2. QED
    BY <1>1, <1>2, <2>1 DEF BuildFits, BuilderKnows, Covers
<1>5. TwoWorkDoubled' /\ (\A w \in Weeks : WeekHolds(w)') /\ \A d \in done' : BatchHolds(d)'
  BY <1>2 DEF WeeklyInv, TwoWorkDoubled, WeekHolds, BatchHolds
<1>6. QED
  BY <1>3, <1>4, <1>5 DEF WeeklyInv

(* The figures change so that no day that is over shows more, the deleted   *)
(* only grow, and the two together never fall.                              *)
LEMMA FiguresKeepWeekly ==
  ASSUME WeeklyInv, WeeklyShape',
         \A S \in SUBSET Days : /\ SumOf(deleted, S) <= SumOf(deleted', S)
                                /\ SumOf(received, S) + SumOf(deleted, S) <= SumOf(received', S) + SumOf(deleted', S),
         \A d \in Days : d <= day => SumOf(received', DaysBefore(d)) <= SumOf(received, DaysBefore(d)),
         UNCHANGED << day, report, build, done, doubled, losses >>
  PROVE  WeeklyInv'
<1>1. /\ WeeklyShape /\ (\A b \in Visitors \cup Batches : BuildFits(b))
      /\ (\A w \in Weeks : WeekHolds(w))
      /\ \A d \in done : BatchHolds(d)
  BY DEF WeeklyInv
<1>2. day' = day /\ report' = report /\ build' = build /\ done' = done /\ doubled' = doubled
  OBVIOUS
<1>3. \A d \in done : d \in Days /\ d <= day
  BY <1>1, WeeklyAssumption DEF WeeklyShape, Days
<1>4. ASSUME NEW T \in SUBSET Days
      PROVE  /\ SumOf(received, T) \in Nat /\ SumOf(deleted, T) \in Nat
             /\ SumOf(received', T) \in Nat /\ SumOf(deleted', T) \in Nat
  <2>1. SumOf(received, T) \in Nat /\ SumOf(deleted, T) \in Nat
    BY <1>1, SumsAreNatural
  <2>2. IsFiniteSet(T) /\ \A d \in T : /\ received'[d] \in Nat /\ received'[d] <= received'[d]
                                       /\ deleted'[d] \in Nat /\ deleted'[d] <= deleted'[d]
    BY DaysAreFinite, WeeklyAssumption DEF WeeklyShape
  <2>3. QED
    BY <2>1, <2>2, SumOfGrows
<1>5. ASSUME NEW d \in Days, d <= day, NEW n \in Int, SumOf(received, DaysBefore(d)) <= n
      PROVE  SumOf(received', DaysBefore(d)) <= n
  <2>1. DaysBefore(d) \subseteq Days
    BY DEF DaysBefore
  <2>2. SumOf(received, DaysBefore(d)) \in Nat /\ SumOf(received', DaysBefore(d)) \in Nat
    BY <1>4, <2>1
  <2>3. SumOf(received', DaysBefore(d)) <= SumOf(received, DaysBefore(d))
    BY <1>5
  <2>4. QED
    BY <1>5, <2>2, <2>3
<1>6. ASSUME NEW b \in Visitors \cup Batches PROVE BuildFits(b)'
  <2>1. PICK m \in Build : m = build[b]
    BY <1>1 DEF WeeklyShape
  <2>2. BuilderKnows(b, m, day, received, deleted, report, doubled) /\ Covers(m, received, done, doubled)
    BY <1>1, <2>1 DEF BuildFits
  <2>3. m.of \in Days /\ m.of <= day /\ m.count \in Nat /\ m.found \in Int /\ Window(m.week) \subseteq Days
    BY <2>1, <2>2 DEF Build, BuilderKnows, Window, Missing
  <2>4. /\ SumOf(received, Window(m.week)) \in Nat /\ SumOf(deleted, Window(m.week)) \in Nat
        /\ SumOf(received', Window(m.week)) \in Nat /\ SumOf(deleted', Window(m.week)) \in Nat
        /\ SumOf(deleted, Window(m.week)) <= SumOf(deleted', Window(m.week))
        /\ SumOf(received, Window(m.week)) + SumOf(deleted, Window(m.week))
           <= SumOf(received', Window(m.week)) + SumOf(deleted', Window(m.week))
    BY <1>4, <2>3
  <2>5. m.count <= SumOf(received', Window(m.week)) + SumOf(deleted', Window(m.week))
    <3>1. m.count <= SumOf(received, Window(m.week)) + SumOf(deleted, Window(m.week))
      BY <2>2 DEF BuilderKnows
    <3>2. QED
      BY <2>3, <2>4, <3>1
  <2>6. m.found <= m.count + SumOf(deleted, Window(m.week)) => m.found <= m.count + SumOf(deleted', Window(m.week))
    BY <2>3, <2>4
  <2>7. SumOf(received, DaysBefore(m.of)) <= m.count => SumOf(received', DaysBefore(m.of)) <= m.count
    BY <1>5, <2>3
  <2>8. BuilderKnows(b, m, day, received', deleted', report, doubled)
    BY <2>2, <2>5, <2>6, <2>7 DEF BuilderKnows
  <2>9. Covers(m, received', done, doubled)
    <3>1. ASSUME NEW d \in done, m.pc = "refresh" /\ m.week = WeekOf(d) /\ m.week \notin doubled
          PROVE  SumOf(received', DaysBefore(d)) <= m.count
      <4>1. SumOf(received, DaysBefore(d)) <= m.count /\ m.count \in Int
        BY <2>2, <2>3, <3>1 DEF Covers
      <4>2. QED
        BY <1>3, <1>5, <4>1
    <3>2. QED
      BY <3>1 DEF Covers
  <2>10. QED
    BY <1>2, <2>1, <2>8, <2>9 DEF BuildFits
<1>7. ASSUME NEW w \in Weeks PROVE WeekHolds(w)'
  <2>1. report[w] \in Int /\ Window(w) \subseteq Days
    BY <1>1 DEF WeeklyShape, Missing, Window
  <2>2. /\ SumOf(received, Window(w)) \in Nat /\ SumOf(deleted, Window(w)) \in Nat
        /\ SumOf(received', Window(w)) \in Nat /\ SumOf(deleted', Window(w)) \in Nat
        /\ SumOf(received, Window(w)) + SumOf(deleted, Window(w))
           <= SumOf(received', Window(w)) + SumOf(deleted', Window(w))
    BY <1>4, <2>1
  <2>3. report[w] <= SumOf(received, Window(w)) + SumOf(deleted, Window(w))
    BY <1>1 DEF WeekHolds
  <2>4. QED
    BY <1>2, <2>1, <2>2, <2>3 DEF WeekHolds
<1>8. ASSUME NEW d \in done PROVE BatchHolds(d)'
  <2>1. BatchHolds(d) /\ report[WeekOf(d)] \in Int
    BY <1>1, <1>3, WeekOfDay DEF WeeklyShape, Missing
  <2>2. WeekOf(d) \notin doubled => SumOf(received', DaysBefore(d)) <= report[WeekOf(d)]
    BY <1>3, <1>5, <2>1 DEF BatchHolds
  <2>3. QED
    BY <1>2, <2>1, <2>2 DEF BatchHolds
<1>9. TwoWorkDoubled'
  BY <1>2 DEF WeeklyInv, TwoWorkDoubled
<1>10. \A d \in done' : BatchHolds(d)'
  BY <1>2, <1>8
<1>11. QED
  BY <1>6, <1>7, <1>9, <1>10 DEF WeeklyInv

LEMMA ReceiveKeepsWeekly ==
  ASSUME WeeklyInv, Receive
  PROVE  WeeklyInv'
<1>1. WeeklyShape
  BY DEF WeeklyInv
<1>2. /\ received[day] + deleted[day] < MaxJobs /\ received' = [received EXCEPT ![day] = received[day] + 1]
      /\ deleted' = deleted /\ UNCHANGED << day, report, build, done, doubled, losses >>
  BY DEF Receive
<1>3. /\ received \in [Days -> Nat] /\ deleted \in [Days -> Nat] /\ day \in Days /\ day \in Nat /\ Days \subseteq Nat
      /\ MaxJobs \in Nat
  BY <1>1, WeeklyAssumption DEF WeeklyShape, Days
<1>4. /\ received' \in [Days -> 0..MaxJobs] /\ received' \in [Days -> Nat]
      /\ \A d \in Days : received[d] <= received'[d] /\ (d # day => received'[d] = received[d])
      /\ received'[day] = received[day] + 1
  BY <1>1, <1>2, <1>3 DEF WeeklyShape
<1>5. WeeklyShape'
  <2>1. \A d \in Days : received'[d] + deleted'[d] <= MaxJobs
    BY <1>1, <1>2, <1>3, <1>4 DEF WeeklyShape
  <2>2. QED
    BY <1>1, <1>2, <1>4, <2>1 DEF WeeklyShape
<1>6. ASSUME NEW S \in SUBSET Days
      PROVE  /\ SumOf(deleted, S) <= SumOf(deleted', S)
             /\ SumOf(received, S) + SumOf(deleted, S) <= SumOf(received', S) + SumOf(deleted', S)
  <2>1. SumOf(received, S) \in Nat /\ SumOf(received', S) \in Nat /\ SumOf(received, S) <= SumOf(received', S)
    <3>1. IsFiniteSet(S)
      BY DaysAreFinite
    <3>2. (\A d \in S : received[d] \in Nat /\ received[d] <= received'[d]) /\ \A d \in S : received'[d] \in Nat
      BY <1>3, <1>4
    <3>3. QED
      BY <3>1, <3>2, SumOfGrows
  <2>2. SumOf(deleted, S) \in Nat /\ deleted' = deleted
    BY <1>1, <1>2, SumsAreNatural
  <2>3. QED
    BY <2>1, <2>2
<1>7. ASSUME NEW d \in Days, d <= day
      PROVE  SumOf(received', DaysBefore(d)) <= SumOf(received, DaysBefore(d))
  <2>1. IsFiniteSet(DaysBefore(d)) /\ DaysBefore(d) \subseteq Days /\ day \notin DaysBefore(d)
    <3>1. DaysBefore(d) \subseteq Days /\ day \notin DaysBefore(d)
      BY <1>3, <1>7 DEF DaysBefore
    <3>2. QED
      BY <3>1, DaysAreFinite
  <2>2. /\ \A e \in DaysBefore(d) : received'[e] \in Nat /\ received'[e] <= received[e]
        /\ \A e \in DaysBefore(d) : received[e] \in Nat
    BY <1>3, <1>4, <2>1
  <2>3. QED
    BY <2>1, <2>2, SumOfGrows
<1>8. QED
  BY <1>2, <1>5, <1>6, <1>7, FiguresKeepWeekly

(* What is there and what was deleted, together.                            *)
LEMMA SumOfBoth ==
  ASSUME NEW S, IsFiniteSet(S), NEW f, NEW k, \A x \in S : f[x] \in Nat /\ k[x] \in Nat
  PROVE  /\ SumOf(f, S) \in Nat /\ SumOf(k, S) \in Nat
         /\ SumOf(f, S) + SumOf(k, S) = SumOf([x \in S |-> f[x] + k[x]], S)
<1> DEFINE e == [x \in S |-> f[x] + k[x]]
<1>1. \A x \in S : f[x] \in Nat /\ k[x] \in Nat /\ e[x] = f[x] + k[x]
  OBVIOUS
<1> HIDE DEF e
<1>2. PICK g : IsSum(g, f, S) /\ SumOf(f, S) = g[S]
  BY SumOfIsSum
<1>3. PICK h : IsSum(h, k, S) /\ SumOf(k, S) = h[S]
  BY SumOfIsSum
<1>4. PICK t : IsSum(t, e, S) /\ SumOf(e, S) = t[S]
  BY SumOfIsSum
<1>5. t[S] = g[S] + h[S]
  BY <1>1, <1>2, <1>3, <1>4, SumsAdd
<1>6. g[S] \in Nat /\ h[S] \in Nat
  BY <1>1, <1>2, <1>3, SumIsNatural
<1>7. QED
  BY <1>2, <1>3, <1>4, <1>5, <1>6 DEF e

LEMMA DeleteRowKeepsWeekly ==
  ASSUME WeeklyInv, NEW d \in Days, DeleteRow(d)
  PROVE  WeeklyInv'
<1>1. WeeklyShape
  BY DEF WeeklyInv
<1>2. /\ received[d] > 0 /\ received' = [received EXCEPT ![d] = received[d] - 1]
      /\ deleted' = [deleted EXCEPT ![d] = deleted[d] + 1] /\ UNCHANGED << day, report, build, done, doubled, losses >>
  BY DEF DeleteRow
<1>3. /\ received \in [Days -> Nat] /\ deleted \in [Days -> Nat] /\ MaxJobs \in Nat
      /\ \A x \in Days : received[x] + deleted[x] <= MaxJobs
  BY <1>1, WeeklyAssumption DEF WeeklyShape
<1>4. \A x \in Days : /\ received'[x] \in Nat /\ deleted'[x] \in Nat
                      /\ received'[x] <= received[x] /\ deleted[x] <= deleted'[x]
                      /\ received'[x] + deleted'[x] = received[x] + deleted[x]
  BY <1>2, <1>3
<1>5. received' \in [Days -> 0..MaxJobs] /\ deleted' \in [Days -> 0..MaxJobs]
  <2>1. \A x \in Days : received'[x] \in 0..MaxJobs /\ deleted'[x] \in 0..MaxJobs
    BY <1>3, <1>4
  <2>2. received' = [x \in Days |-> received'[x]] /\ deleted' = [x \in Days |-> deleted'[x]]
    BY <1>2, <1>3
  <2>3. QED
    BY <2>1, <2>2
<1>6. WeeklyShape'
  BY <1>1, <1>2, <1>3, <1>4, <1>5 DEF WeeklyShape
<1>7. ASSUME NEW S \in SUBSET Days
      PROVE  /\ SumOf(received', S) <= SumOf(received, S) /\ SumOf(deleted, S) <= SumOf(deleted', S)
             /\ SumOf(received, S) + SumOf(deleted, S) = SumOf(received', S) + SumOf(deleted', S)
  <2>1. IsFiniteSet(S) /\ \A x \in S : x \in Days
    BY DaysAreFinite
  <2>2. SumOf(received', S) <= SumOf(received, S) /\ SumOf(deleted, S) <= SumOf(deleted', S)
    BY <1>3, <1>4, <2>1, SumOfGrows
  <2>3. [x \in S |-> received[x] + deleted[x]] = [x \in S |-> received'[x] + deleted'[x]]
    BY <1>4, <2>1
  <2>4. /\ SumOf(received, S) + SumOf(deleted, S) = SumOf([x \in S |-> received[x] + deleted[x]], S)
        /\ SumOf(received', S) + SumOf(deleted', S) = SumOf([x \in S |-> received'[x] + deleted'[x]], S)
    BY <1>3, <1>4, <2>1, SumOfBoth
  <2>5. QED
    BY <2>2, <2>3, <2>4
<1>8. ASSUME NEW S \in SUBSET Days
      PROVE  /\ SumOf(deleted, S) <= SumOf(deleted', S)
             /\ SumOf(received, S) + SumOf(deleted, S) <= SumOf(received', S) + SumOf(deleted', S)
  <2>1. SumOf(received, S) \in Nat /\ SumOf(deleted, S) \in Nat
    BY <1>1, SumsAreNatural
  <2>2. QED
    BY <1>7, <2>1
<1>9. ASSUME NEW x \in Days, x <= day
      PROVE  SumOf(received', DaysBefore(x)) <= SumOf(received, DaysBefore(x))
  <2>1. DaysBefore(x) \in SUBSET Days
    BY DEF DaysBefore
  <2>2. QED
    BY <1>7, <2>1
<1>10. QED
  BY <1>2, <1>6, <1>8, <1>9, FiguresKeepWeekly

LEMMA WorkStaysTold ==
  ASSUME WeeklyShape, TwoWorkDoubled, NEW b \in Visitors \cup Batches, NEW m \in Build,
         build' = [build EXCEPT ![b] = m], Told(b, m, doubled'), doubled \subseteq doubled'
  PROVE  TwoWorkDoubled'
<1>1. \A c \in Visitors \cup Batches : build'[c] = IF c = b THEN m ELSE build[c]
  BY DEF WeeklyShape
<1>2. ASSUME NEW x \in Batches, NEW y \in Batches, x # y, build'[x].pc = "refresh", build'[y].pc = "refresh",
             build'[x].week = build'[y].week
      PROVE  build'[x].week \in doubled'
  <2>1. x \in Visitors \cup Batches /\ y \in Visitors \cup Batches
    OBVIOUS
  <2>2. CASE x # b /\ y # b
    BY <1>1, <1>2, <2>1, <2>2 DEF TwoWorkDoubled
  <2>3. CASE x = b
    <3>1. build'[x] = m /\ build'[y] = build[y]
      BY <1>1, <1>2, <2>1, <2>3
    <3>2. y \in Batches \ {b} /\ m.pc = "refresh" /\ build[y].pc = "refresh" /\ build[y].week = m.week
      BY <1>2, <2>3, <3>1
    <3>3. QED
      BY <3>1, <3>2 DEF Told
  <2>4. CASE y = b
    <3>1. build'[y] = m /\ build'[x] = build[x]
      BY <1>1, <1>2, <2>1, <2>4
    <3>2. x \in Batches \ {b} /\ m.pc = "refresh" /\ build[x].pc = "refresh" /\ build[x].week = m.week
      BY <1>2, <2>4, <3>1
    <3>3. QED
      BY <1>2, <3>1, <3>2 DEF Told
  <2>5. QED
    BY <2>2, <2>3, <2>4
<1>3. QED
  BY <1>2 DEF TwoWorkDoubled

(* Only a batch that is about to write has anything to cover.               *)
LEMMA NothingToCover ==
  ASSUME NEW m, m.pc # "refresh", NEW figures, NEW ended, NEW twice
  PROVE  Covers(m, figures, ended, twice)
BY DEF Covers

(* A step of one builder that writes no row.                                *)
LEMMA BuildStepKeeps ==
  ASSUME WeeklyInv, NEW b \in Visitors \cup Batches, NEW m \in Build, build' = [build EXCEPT ![b] = m],
         BuilderKnows(b, m, day, received, deleted, report, doubled'), Covers(m, received, done, doubled'),
         Told(b, m, doubled'), doubled \subseteq doubled',
         doubled' \subseteq Weeks, losses' \in 0..MaxLosses, UNCHANGED << day, received, deleted, report, done >>
  PROVE  WeeklyInv'
<1>1. /\ WeeklyShape /\ TwoWorkDoubled
      /\ \A c \in Visitors \cup Batches : BuildFits(c)
      /\ \A w \in Weeks : WeekHolds(w)
      /\ \A d \in done : BatchHolds(d)
  BY DEF WeeklyInv
<1>2. day' = day /\ received' = received /\ deleted' = deleted /\ report' = report /\ done' = done
  OBVIOUS
<1>3. \A c \in Visitors \cup Batches : build'[c] = IF c = b THEN m ELSE build[c]
  BY <1>1 DEF WeeklyShape
<1>4. WeeklyShape'
  BY <1>1, <1>2 DEF WeeklyShape
<1>5. ASSUME NEW c \in Visitors \cup Batches PROVE BuildFits(c)'
  <2>1. CASE c = b
    BY <1>2, <1>3, <2>1 DEF BuildFits
  <2>2. CASE c # b
    <3>1. /\ BuilderKnows(c, build[c], day, received, deleted, report, doubled) /\ build'[c] = build[c]
          /\ Covers(build[c], received, done, doubled)
      BY <1>1, <1>3, <2>2 DEF BuildFits
    <3>2. /\ BuilderKnows(c, build[c], day, received, deleted, report, doubled')
          /\ Covers(build[c], received, done, doubled')
      BY <3>1 DEF BuilderKnows, Covers
    <3>3. QED
      BY <1>2, <3>1, <3>2 DEF BuildFits
  <2>3. QED
    BY <2>1, <2>2
<1>6. TwoWorkDoubled'
  BY <1>1, WorkStaysTold
<1>7. (\A w \in Weeks : WeekHolds(w)') /\ \A d \in done' : BatchHolds(d)'
  BY <1>1, <1>2 DEF WeekHolds, BatchHolds
<1>8. QED
  BY <1>4, <1>5, <1>6, <1>7 DEF WeeklyInv

LEMMA NoBuildFits ==
  ASSUME WeeklyInv, NEW b
  PROVE  /\ NoBuild \in Build /\ Told(b, NoBuild, doubled) /\ BuilderKnows(b, NoBuild, day, received, deleted, report, doubled)
         /\ SumOf(received, Window(0)) \in Nat /\ SumOf(deleted, Window(0)) \in Nat /\ NoBuild.pc = "idle"
<1>1. /\ NoBuild.pc = "idle" /\ NoBuild.of = 0 /\ NoBuild.week = 0 /\ NoBuild.found = Missing /\ NoBuild.count = 0
  BY DEF NoBuild
<1>2. WeeklyShape /\ day \in Nat /\ 0 \in Days /\ 0 \in Weeks
  BY WeekOfDay, WeeklyAssumption DEF WeeklyInv, WeeklyShape, Days
<1>3. Window(0) \subseteq Days
  BY DEF Window
<1>4. SumOf(received, Window(0)) \in Nat /\ SumOf(deleted, Window(0)) \in Nat
  BY <1>2, <1>3, SumsAreNatural
<1>5. NoBuild \in Build
  BY <1>2 DEF NoBuild, Build
<1>6. BuilderKnows(b, NoBuild, day, received, deleted, report, doubled)
  BY <1>1, <1>2, <1>4 DEF BuilderKnows
<1>7. QED
  BY <1>1, <1>4, <1>5, <1>6 DEF Told

LEMMA LoseKeepsWeekly ==
  ASSUME WeeklyInv, NEW b \in Visitors \cup Batches, Lose(b)
  PROVE  WeeklyInv'
<1>1. /\ build' = [build EXCEPT ![b] = NoBuild] /\ losses < MaxLosses /\ losses' = losses + 1
      /\ UNCHANGED << day, received, deleted, report, done, doubled >>
  BY DEF Lose
<1>2. losses' \in 0..MaxLosses /\ doubled' \subseteq Weeks
  BY <1>1, WeeklyAssumption DEF WeeklyInv, WeeklyShape
<1>3. PICK m \in Build :
        m = NoBuild /\ Told(b, m, doubled) /\ BuilderKnows(b, m, day, received, deleted, report, doubled) /\ m.pc = "idle"
  BY NoBuildFits
<1>4. doubled' = doubled /\ build' = [build EXCEPT ![b] = m]
  BY <1>1, <1>3
<1>5. /\ Told(b, m, doubled') /\ BuilderKnows(b, m, day, received, deleted, report, doubled') /\ doubled \subseteq doubled'
      /\ Covers(m, received, done, doubled')
  BY <1>3, <1>4, NothingToCover
<1>6. QED
  BY <1>1, <1>2, <1>4, <1>5, BuildStepKeeps

LEMMA StartBatchKeepsWeekly ==
  ASSUME WeeklyInv, NEW b \in Batches, StartBatch(b)
  PROVE  WeeklyInv'
<1>1. /\ build' = [build EXCEPT ![b] = [NoBuild EXCEPT !.pc = "before", !.of = day]]
      /\ UNCHANGED << day, received, deleted, report, done, doubled, losses >>
  BY DEF StartBatch
<1>2. losses' \in 0..MaxLosses /\ doubled' \subseteq Weeks /\ day \in Days /\ day <= day
  BY <1>1, WeeklyAssumption DEF WeeklyInv, WeeklyShape, Days
<1>3. PICK none \in Build : none = NoBuild /\ BuilderKnows(b, none, day, received, deleted, report, doubled) /\ none.pc = "idle"
  BY NoBuildFits
<1>4. PICK m \in Build : m = [none EXCEPT !.pc = "before", !.of = day]
  BY <1>2 DEF Build
<1>5. m.pc = "before" /\ m.of = day /\ m.week = none.week /\ m.count = none.count
  BY <1>4 DEF Build
<1>6. BuilderKnows(b, m, day, received, deleted, report, doubled)
  BY <1>2, <1>3, <1>5 DEF BuilderKnows
<1>7. Told(b, m, doubled)
  BY <1>5 DEF Told
<1>8. doubled' = doubled /\ build' = [build EXCEPT ![b] = m] /\ b \in Visitors \cup Batches
  BY <1>1, <1>3, <1>4
<1>9. /\ Told(b, m, doubled') /\ BuilderKnows(b, m, day, received, deleted, report, doubled') /\ doubled \subseteq doubled'
      /\ Covers(m, received, done, doubled')
  BY <1>5, <1>6, <1>7, <1>8, NothingToCover
<1>10. QED
  BY <1>1, <1>2, <1>8, <1>9, BuildStepKeeps

(* What a count is.                                                         *)
LEMMA CountedIs ==
  ASSUME WeeklyInv, NEW pc \in {"first", "closing", "refresh"}, NEW of \in Days, NEW w \in Weeks
  PROVE  \E m \in Build :
           /\ m = Counted(pc, of, w)
           /\ m.pc = pc /\ m.of = of /\ m.week = w /\ m.found = report[w]
           /\ m.count = SumOf(received, Window(w)) /\ m.count \in Nat
           /\ m.count <= SumOf(received, Window(w)) + SumOf(deleted, Window(w))
<1>1. WeeklyShape /\ Window(w) \subseteq Days
  BY DEF WeeklyInv, Window
<1>2. PICK n \in Nat : n = SumOf(received, Window(w)) /\ n <= SumOf(received, Window(w)) + SumOf(deleted, Window(w))
  BY <1>1, SumsAreNatural
<1>3. n = Received(Window(w))
  BY <1>2, ReceivedIsSumOf
<1>4. PICK row \in Nat \cup {Missing} : row = report[w]
  BY <1>1 DEF WeeklyShape
<1>5. PICK m \in Build : m = [pc |-> pc, of |-> of, week |-> w, found |-> row, count |-> n]
  BY DEF Build
<1>6. m = Counted(pc, of, w)
  BY <1>3, <1>4, <1>5 DEF Counted
<1>7. QED
  BY <1>2, <1>4, <1>5, <1>6

LEMMA VisitKeepsWeekly ==
  ASSUME WeeklyInv, NEW b \in Visitors, Visit(b)
  PROVE  WeeklyInv'
<1>1. /\ build' = [build EXCEPT ![b] = Counted("first", day, WeekOf(day))] /\ report[WeekOf(day)] = Missing
      /\ UNCHANGED << day, received, deleted, report, done, doubled, losses >>
  BY DEF Visit
<1>2. losses' \in 0..MaxLosses /\ doubled' \subseteq Weeks /\ day \in Days /\ day <= day /\ WeekOf(day) \in Weeks
  BY <1>1, WeekOfDay, WeeklyAssumption DEF WeeklyInv, WeeklyShape, Days
<1>3. PICK m \in Build :
        /\ m = Counted("first", day, WeekOf(day))
        /\ m.pc = "first" /\ m.of = day /\ m.week = WeekOf(day) /\ m.found = report[WeekOf(day)]
        /\ m.count <= SumOf(received, Window(WeekOf(day))) + SumOf(deleted, Window(WeekOf(day)))
  BY <1>2, CountedIs
<1>4. BuilderKnows(b, m, day, received, deleted, report, doubled)
  BY <1>1, <1>2, <1>3 DEF BuilderKnows
<1>5. Told(b, m, doubled)
  BY <1>3 DEF Told
<1>6. doubled' = doubled /\ build' = [build EXCEPT ![b] = m] /\ b \in Visitors \cup Batches
  BY <1>1, <1>3
<1>7. /\ Told(b, m, doubled') /\ BuilderKnows(b, m, day, received, deleted, report, doubled') /\ doubled \subseteq doubled'
      /\ Covers(m, received, done, doubled')
  BY <1>3, <1>4, <1>5, <1>6, NothingToCover
<1>8. QED
  BY <1>1, <1>2, <1>6, <1>7, BuildStepKeeps

LEMMA CloseWeekKeepsWeekly ==
  ASSUME WeeklyInv, NEW b \in Batches, CloseWeek(b)
  PROVE  WeeklyInv'
<1> DEFINE of == build[b].of
           w == WeekOf(of) - 1
<1>1. /\ build[b].pc = "before"
      /\ build' = [build EXCEPT ![b] = IF w < 0 \/ report[w] # Missing THEN [build[b] EXCEPT !.pc = "current"]
                                       ELSE Counted("closing", of, w)]
      /\ UNCHANGED << day, received, deleted, report, done, doubled, losses >>
  BY DEF CloseWeek
<1>2. PICK m \in Build : m = build[b] /\ BuilderKnows(b, m, day, received, deleted, report, doubled) /\ m.pc = "before" /\ m.of = of
  BY <1>1 DEF WeeklyInv, WeeklyShape, BuildFits
<1>3. losses' \in 0..MaxLosses /\ doubled' \subseteq Weeks /\ of \in Days /\ of <= day
  BY <1>1, <1>2 DEF WeeklyInv, WeeklyShape, Build, BuilderKnows
<1>4. WeekOf(of) \in Nat /\ (WeekOf(of) # 0 => w \in Weeks) /\ doubled' = doubled /\ b \in Visitors \cup Batches
  BY <1>1, <1>3, WeekOfDay
<1>5. CASE w < 0 \/ report[w] # Missing
  <2>1. PICK n \in Build : n = [m EXCEPT !.pc = "current"]
    BY DEF Build
  <2>2. n.pc = "current" /\ n.of = of /\ n.week = m.week /\ n.count = m.count
    BY <1>2, <2>1 DEF Build
  <2>3. WeekBefore(report, of)
    BY <1>4, <1>5 DEF WeekBefore
  <2>4. BuilderKnows(b, n, day, received, deleted, report, doubled)
    BY <1>2, <2>2, <2>3 DEF BuilderKnows
  <2>5. Told(b, n, doubled)
    BY <2>2 DEF Told
  <2>6. build' = [build EXCEPT ![b] = n]
    BY <1>1, <1>2, <1>5, <2>1
  <2>7. /\ Told(b, n, doubled') /\ BuilderKnows(b, n, day, received, deleted, report, doubled') /\ doubled \subseteq doubled'
        /\ Covers(n, received, done, doubled')
    BY <1>4, <2>2, <2>4, <2>5, NothingToCover
  <2>8. QED
    BY <1>1, <1>3, <1>4, <2>6, <2>7, BuildStepKeeps
<1>6. CASE ~(w < 0) /\ report[w] = Missing
  <2>1. w \in Weeks
    BY <1>4, <1>6
  <2>2. PICK n \in Build :
          /\ n = Counted("closing", of, w)
          /\ n.pc = "closing" /\ n.of = of /\ n.week = w /\ n.found = report[w]
          /\ n.count <= SumOf(received, Window(w)) + SumOf(deleted, Window(w))
    BY <1>3, <2>1, CountedIs
  <2>3. BuilderKnows(b, n, day, received, deleted, report, doubled)
    BY <1>3, <1>6, <2>2 DEF BuilderKnows
  <2>4. Told(b, n, doubled)
    BY <2>2 DEF Told
  <2>5. build' = [build EXCEPT ![b] = n]
    BY <1>1, <1>6, <2>2
  <2>6. /\ Told(b, n, doubled') /\ BuilderKnows(b, n, day, received, deleted, report, doubled') /\ doubled \subseteq doubled'
        /\ Covers(n, received, done, doubled')
    BY <1>4, <2>2, <2>3, <2>4, NothingToCover
  <2>7. QED
    BY <1>1, <1>3, <1>4, <2>5, <2>6, BuildStepKeeps
<1>7. QED
  BY <1>5, <1>6

LEMMA CountWeekKeepsWeekly ==
  ASSUME WeeklyInv, NEW b \in Batches, CountWeek(b)
  PROVE  WeeklyInv'
<1> DEFINE of == build[b].of
           w == WeekOf(of)
<1>1. /\ build[b].pc = "current" /\ build' = [build EXCEPT ![b] = Counted("refresh", of, w)]
      /\ doubled' = doubled \cup { w : c \in { c \in Batches \ {b} : build[c].pc # "idle" } }
      /\ UNCHANGED << day, received, deleted, report, done, losses >>
  BY DEF CountWeek
<1>2. PICK m \in Build : m = build[b] /\ BuilderKnows(b, m, day, received, deleted, report, doubled) /\ m.pc = "current" /\ m.of = of
  BY <1>1 DEF WeeklyInv, WeeklyShape, BuildFits
<1>3. of \in Days /\ of <= day /\ WeekBefore(report, of) /\ b \in Visitors \cup Batches
  BY <1>2 DEF Build, BuilderKnows
<1>4. w \in Weeks /\ doubled \subseteq doubled' /\ doubled' \subseteq Weeks /\ losses' \in 0..MaxLosses
  BY <1>1, <1>3, WeekOfDay DEF WeeklyInv, WeeklyShape
<1>5. PICK n \in Build :
        /\ n = Counted("refresh", of, w)
        /\ n.pc = "refresh" /\ n.of = of /\ n.week = w /\ n.found = report[w]
        /\ n.count = SumOf(received, Window(w)) /\ n.count \in Nat
        /\ n.count <= SumOf(received, Window(w)) + SumOf(deleted, Window(w))
  BY <1>3, <1>4, CountedIs
<1>6. ASSUME NEW d \in Days, WeekOf(d) = w PROVE SumOf(received, DaysBefore(d)) <= n.count
  <2>1. DaysBefore(d) \subseteq Window(w) /\ Window(w) \subseteq Days /\ WeeklyShape
    BY <1>6 DEF DaysBefore, Window, WeeklyInv
  <2>2. QED
    BY <1>5, <2>1, PartCountsLess
<1>7. n.found <= n.count + SumOf(deleted, Window(w))
  <2>1. WeekHolds(w)
    BY <1>4 DEF WeeklyInv
  <2>2. QED
    BY <1>5, <2>1 DEF WeekHolds
<1>8. BuilderKnows(b, n, day, received, deleted, report, doubled') /\ Covers(n, received, done, doubled')
  <2>1. SumOf(received, DaysBefore(of)) <= n.count
    BY <1>3, <1>6
  <2>2. BuilderKnows(b, n, day, received, deleted, report, doubled')
    BY <1>3, <1>5, <1>7, <2>1 DEF BuilderKnows
  <2>3. done \subseteq Days
    BY WeeklyAssumption DEF WeeklyInv, WeeklyShape, Days
  <2>4. Covers(n, received, done, doubled')
    BY <1>5, <1>6, <2>3 DEF Covers
  <2>5. QED
    BY <2>2, <2>4
<1>9. Told(b, n, doubled')
  BY <1>1, <1>5 DEF Told
<1>10. build' = [build EXCEPT ![b] = n]
  BY <1>1, <1>5
<1>11. QED
  BY <1>1, <1>3, <1>4, <1>8, <1>9, <1>10, BuildStepKeeps

(* What a write leaves in the row of its week, when the row that was found  *)
(* and the count that was made are m's, and in the rows of the others.      *)
LEMMA WrittenRow ==
  ASSUME WeeklyInv, NEW b \in Visitors \cup Batches, Write(b)
  PROVE  /\ report' \in [Weeks -> Nat \cup {Missing}] /\ build[b].week \in Weeks
         /\ \A v \in Weeks : v # build[b].week => report'[v] = report[v]
         /\ report'[build[b].week] \in {report[build[b].week], build[b].count}
         /\ Refused(b) => report'[build[b].week] = report[build[b].week]
         /\ ~Refused(b) /\ build[b].count # build[b].found => report'[build[b].week] = build[b].count
         /\ build[b].count = build[b].found => report'[build[b].week] = report[build[b].week]
<1>1. /\ report \in [Weeks -> Nat \cup {Missing}] /\ build[b].week \in Weeks /\ build[b].count \in Nat
  BY DEF WeeklyInv, WeeklyShape, Build
<1>2. report' = IF Refused(b) \/ build[b].count = build[b].found THEN report
                ELSE [report EXCEPT ![build[b].week] = build[b].count]
  BY DEF Write, Store
<1>3. CASE Refused(b) \/ build[b].count = build[b].found
  BY <1>1, <1>2, <1>3
<1>4. CASE ~(Refused(b) \/ build[b].count = build[b].found)
  <2>1. report' = [report EXCEPT ![build[b].week] = build[b].count]
    BY <1>2, <1>4
  <2>2. QED
    BY <1>1, <1>4, <2>1
<1>5. QED
  BY <1>3, <1>4

(* A row that is there is only replaced by a count of the same week that a  *)
(* batch made after it had found that row, or beside another batch.  What   *)
(* the count has less was deleted.                                          *)
LEMMA RowsAreKept ==
  ASSUME WeeklyInv, NEW b \in Visitors \cup Batches, Write(b), NEW v \in Weeks
  PROVE  /\ report'[v] + SumOf(deleted, Window(v)) >= report[v] \/ v \in doubled
         /\ report[v] # Missing => report'[v] # Missing
         /\ report'[v] <= SumOf(received, Window(v)) + SumOf(deleted, Window(v))
<1>0. SumOf(received, Window(v)) \in Nat /\ SumOf(deleted, Window(v)) \in Nat
  <2>1. Window(v) \subseteq Days /\ WeeklyShape
    BY DEF Window, WeeklyInv
  <2>2. QED
    BY <2>1, SumsAreNatural
<1>1. /\ WeeklyShape /\ BuildFits(b) /\ WeekHolds(v) /\ build[b].pc \in {"first", "closing", "refresh"}
      /\ build[b].count \in Nat /\ report[v] \in Nat \cup {Missing}
  BY DEF WeeklyInv, WeeklyShape, Build, Write
<1>2. /\ build[b].count <= SumOf(received, Window(build[b].week)) + SumOf(deleted, Window(build[b].week))
      /\ build[b].pc \in {"first", "closing"} => build[b].found = Missing
      /\ build[b].pc = "refresh" /\ build[b].found # Missing /\ build[b].week \notin doubled =>
           /\ report[build[b].week] = build[b].found
           /\ build[b].found <= build[b].count + SumOf(deleted, Window(build[b].week))
  BY <1>1 DEF BuildFits, BuilderKnows
<1>3. CASE report'[v] = report[v]
  BY <1>0, <1>1, <1>3 DEF WeekHolds, Missing
<1>4. CASE report'[v] # report[v]
  <2>1. v = build[b].week /\ report'[v] = build[b].count /\ ~Refused(b)
    BY <1>4, WrittenRow
  <2>2. build[b].found = Missing => report[v] = Missing
    BY <2>1 DEF Refused
  <2>3. build[b].found # Missing /\ v \notin doubled => report[v] <= build[b].count + SumOf(deleted, Window(v))
    BY <1>1, <1>2, <2>1
  <2>4. report'[v] + SumOf(deleted, Window(v)) >= report[v] \/ v \in doubled
    BY <1>0, <1>1, <2>1, <2>2, <2>3 DEF Missing
  <2>5. report'[v] # Missing
    BY <1>1, <2>1 DEF Missing
  <2>6. report'[v] <= SumOf(received, Window(v)) + SumOf(deleted, Window(v))
    BY <1>2, <2>1
  <2>7. QED
    BY <2>4, <2>5, <2>6
<1>5. QED
  BY <1>3, <1>4

LEMMA WeekBeforeStays ==
  ASSUME WeeklyInv, NEW b \in Visitors \cup Batches, Write(b), NEW d \in Days, WeekBefore(report, d)
  PROVE  WeekBefore(report', d)
<1>1. WeekOf(d) \in Nat /\ (WeekOf(d) # 0 => WeekOf(d) - 1 \in Weeks)
  BY WeekOfDay
<1>2. WeekOf(d) > 0 => report[WeekOf(d) - 1] # Missing /\ WeekOf(d) - 1 \in Weeks
  BY <1>1 DEF WeekBefore
<1>3. QED
  BY <1>2, RowsAreKept DEF WeekBefore

(* The other builders find their rows as they were, and two batches of one  *)
(* week are known to work on it.                                            *)
LEMMA OthersStillFit ==
  ASSUME WeeklyInv, NEW b \in Visitors \cup Batches, Write(b), NEW c \in Visitors \cup Batches, c # b
  PROVE  /\ BuilderKnows(c, build[c], day, received, deleted, report', doubled)
         /\ Covers(build[c], received, done', doubled)
<1>1. /\ TwoWorkDoubled /\ BuilderKnows(c, build[c], day, received, deleted, report, doubled) /\ BuildFits(b)
      /\ Covers(build[c], received, done, doubled)
      /\ build[c] \in Build /\ build[b].pc \in {"first", "closing", "refresh"}
  BY DEF WeeklyInv, WeeklyShape, BuildFits, Write
<1>2. build[c].of \in Days /\ build[c].week \in Weeks
  BY <1>1 DEF Build
<1>3. build[c].pc \in {"current", "refresh"} => WeekBefore(report', build[c].of)
  BY <1>1, <1>2, WeekBeforeStays DEF BuilderKnows
<1>4. ASSUME build[c].pc = "refresh", build[c].found # Missing, build[c].week \notin doubled
      PROVE  report'[build[c].week] = build[c].found
  <2>1. report[build[c].week] = build[c].found /\ c \in Batches
    BY <1>1, <1>4 DEF BuilderKnows
  <2>2. ASSUME report'[build[c].week] # report[build[c].week] PROVE FALSE
    <3>1. build[c].week = build[b].week /\ ~Refused(b)
      BY <1>2, <2>2, WrittenRow
    <3>2. build[b].found # Missing
      BY <1>4, <2>1, <3>1 DEF Refused
    <3>3. build[b].pc = "refresh" /\ b \in Batches
      BY <1>1, <3>2 DEF BuildFits, BuilderKnows
    <3>4. QED
      BY <1>1, <1>4, <2>1, <3>1, <3>3 DEF TwoWorkDoubled
  <2>3. QED
    BY <2>1, <2>2
<1>5. ASSUME NEW d \in done', build[c].pc = "refresh", build[c].week = WeekOf(d), build[c].week \notin doubled
      PROVE  SumOf(received, DaysBefore(d)) <= build[c].count
  <2>1. CASE d \in done
    BY <1>1, <1>5, <2>1 DEF Covers
  <2>2. CASE d \notin done
    <3>1. d = build[b].of /\ build[b].pc = "refresh"
      BY <2>2 DEF Write
    <3>2. build[b].week = WeekOf(d) /\ b \in Batches /\ c \in Batches
      BY <1>1, <1>5, <3>1 DEF BuildFits, BuilderKnows
    <3>3. QED
      BY <1>1, <1>5, <3>1, <3>2 DEF TwoWorkDoubled
  <2>3. QED
    BY <2>1, <2>2
<1>6. BuilderKnows(c, build[c], day, received, deleted, report', doubled)
  BY <1>1, <1>3, <1>4 DEF BuilderKnows
<1>7. Covers(build[c], received, done', doubled)
  BY <1>5 DEF Covers
<1>8. QED
  BY <1>6, <1>7

(* The day of a batch that has just ended well.                             *)
LEMMA EndedWell ==
  ASSUME WeeklyInv, NEW b \in Visitors \cup Batches, Write(b), build[b].pc = "refresh", ~Refused(b)
  PROVE  /\ WeekBefore(report', build[b].of) /\ build[b].of \in 0..day
         /\ WeekOf(build[b].of) \notin doubled =>
              SumOf(received, DaysBefore(build[b].of)) <= report'[WeekOf(build[b].of)]
<1>1. WeeklyShape /\ BuilderKnows(b, build[b], day, received, deleted, report, doubled) /\ build[b] \in Build /\ day \in Nat
  BY WeeklyAssumption DEF WeeklyInv, WeeklyShape, BuildFits, Days
<1>2. build[b].of \in Days /\ build[b].week \in Weeks /\ build[b].count \in Nat /\ build[b].of <= day
  BY <1>1 DEF Build, BuilderKnows
<1>3. build[b].of \in 0..day
  BY <1>1, <1>2, WeeklyAssumption DEF Days
<1>4. WeekBefore(report', build[b].of)
  BY <1>1, <1>2, WeekBeforeStays DEF BuilderKnows
<1>5. build[b].week = WeekOf(build[b].of) /\ SumOf(received, DaysBefore(build[b].of)) <= build[b].count
  BY <1>1 DEF BuilderKnows
<1>6. build[b].week \notin doubled => report'[build[b].week] = build[b].count
  <2>1. CASE build[b].count # build[b].found
    BY <2>1, WrittenRow
  <2>2. CASE build[b].count = build[b].found
    <3>1. build[b].found # Missing
      BY <1>2, <2>2 DEF Missing
    <3>2. build[b].week \notin doubled => report[build[b].week] = build[b].found
      BY <1>1, <3>1 DEF BuilderKnows
    <3>3. QED
      BY <2>2, <3>2, WrittenRow
  <2>3. QED
    BY <2>1, <2>2
<1>7. QED
  BY <1>3, <1>4, <1>5, <1>6

(* What the batches before had to find is still in the row: another batch   *)
(* that writes it has counted as much, and others find it and leave it.     *)
LEMMA OldDaysHold ==
  ASSUME WeeklyInv, NEW b \in Visitors \cup Batches, Write(b), NEW d \in done, WeekOf(d) \notin doubled
  PROVE  SumOf(received, DaysBefore(d)) <= report'[WeekOf(d)]
<1>1. /\ WeeklyShape /\ BuildFits(b) /\ build[b].pc \in {"first", "closing", "refresh"}
      /\ SumOf(received, DaysBefore(d)) <= report[WeekOf(d)]
  BY DEF WeeklyInv, BatchHolds, Write
<1>2. d \in Days /\ WeekOf(d) \in Weeks /\ DaysBefore(d) \subseteq Days
  BY <1>1, WeekOfDay, WeeklyAssumption DEF WeeklyShape, Days, DaysBefore
<1>3. SumOf(received, DaysBefore(d)) \in Nat
  BY <1>1, <1>2, SumsAreNatural
<1>4. report[WeekOf(d)] # Missing
  BY <1>1, <1>3 DEF Missing
<1>5. CASE report'[WeekOf(d)] = report[WeekOf(d)]
  BY <1>1, <1>5
<1>6. CASE report'[WeekOf(d)] # report[WeekOf(d)]
  <2>1. build[b].week = WeekOf(d) /\ report'[WeekOf(d)] = build[b].count /\ ~Refused(b)
    BY <1>2, <1>6, WrittenRow
  <2>2. build[b].found # Missing
    BY <1>4, <2>1 DEF Refused
  <2>3. build[b].pc = "refresh"
    BY <1>1, <2>2 DEF BuildFits, BuilderKnows
  <2>4. QED
    BY <1>1, <2>1, <2>3 DEF BuildFits, Covers
<1>7. QED
  BY <1>5, <1>6

LEMMA WriteKeepsWeekly ==
  ASSUME WeeklyInv, NEW b \in Visitors \cup Batches, Write(b)
  PROVE  WeeklyInv'
<1>1. /\ build[b].pc \in {"first", "closing", "refresh"}
      /\ build' = [build EXCEPT ![b] = IF build[b].pc = "closing" /\ ~Refused(b) THEN [build[b] EXCEPT !.pc = "current"]
                                       ELSE NoBuild]
      /\ done' = IF build[b].pc = "refresh" /\ ~Refused(b) THEN done \cup {build[b].of} ELSE done
      /\ day' = day /\ received' = received /\ deleted' = deleted /\ doubled' = doubled /\ losses' = losses
  BY DEF Write
<1>2. /\ WeeklyShape /\ TwoWorkDoubled /\ BuilderKnows(b, build[b], day, received, deleted, report, doubled) /\ build[b] \in Build
      /\ \A d \in done : BatchHolds(d)
  BY DEF WeeklyInv, WeeklyShape, BuildFits
<1>3. report' \in [Weeks -> Nat \cup {Missing}] /\ build[b].week \in Weeks
  BY WrittenRow
<1>4. PICK m \in Build : build' = [build EXCEPT ![b] = m] /\ m.pc # "refresh" /\ BuilderKnows(b, m, day, received, deleted, report', doubled)
  <2>1. CASE build[b].pc = "closing" /\ ~Refused(b)
    <3>1. PICK m \in Build : m = [build[b] EXCEPT !.pc = "current"]
      BY <1>2 DEF Build
    <3>2. m.pc = "current" /\ m.of = build[b].of /\ m.week = build[b].week /\ m.count = build[b].count
      BY <1>2, <3>1 DEF Build
    <3>3. /\ build[b].of \in Days /\ build[b].week = WeekOf(build[b].of) - 1 /\ build[b].found = Missing
          /\ build[b].count \in Nat
      BY <1>2, <2>1 DEF Build, BuilderKnows
    <3>4. report'[WeekOf(build[b].of) - 1] # Missing
      <4>1. build[b].count # build[b].found
        BY <3>3 DEF Missing
      <4>2. report'[build[b].week] = build[b].count
        BY <2>1, <4>1, WrittenRow
      <4>3. QED
        BY <3>3, <4>2 DEF Missing
    <3>5. BuilderKnows(b, m, day, received, deleted, report', doubled)
      BY <1>2, <2>1, <3>2, <3>4 DEF BuilderKnows, WeekBefore
    <3>6. build' = [build EXCEPT ![b] = m]
      BY <1>1, <2>1, <3>1
    <3>7. QED
      BY <3>2, <3>5, <3>6
  <2>2. CASE ~(build[b].pc = "closing" /\ ~Refused(b))
    <3>1. PICK m \in Build : m = NoBuild /\ BuilderKnows(b, m, day, received, deleted, report, doubled) /\ m.pc = "idle"
      BY NoBuildFits
    <3>2. BuilderKnows(b, m, day, received, deleted, report', doubled)
      BY <3>1 DEF BuilderKnows
    <3>3. build' = [build EXCEPT ![b] = m]
      BY <1>1, <2>2, <3>1
    <3>4. QED
      BY <3>1, <3>2, <3>3
  <2>3. QED
    BY <2>1, <2>2
<1>5. \A c \in Visitors \cup Batches : build'[c] = IF c = b THEN m ELSE build[c]
  BY <1>2, <1>4 DEF WeeklyShape
<1>6. \A d \in done' : d \in 0..day /\ (d \in done \/ (d = build[b].of /\ build[b].pc = "refresh" /\ ~Refused(b)))
  BY <1>1, <1>2, EndedWell DEF WeeklyShape
<1>7. WeeklyShape'
  BY <1>1, <1>2, <1>3, <1>4, <1>6 DEF WeeklyShape
<1>8. ASSUME NEW c \in Visitors \cup Batches PROVE BuildFits(c)'
  <2>1. /\ BuilderKnows(c, build'[c], day, received, deleted, report', doubled)
        /\ Covers(build'[c], received, done', doubled)
    <3>1. CASE c = b
      BY <1>4, <1>5, <3>1, NothingToCover
    <3>2. CASE c # b
      <4>1. build'[c] = build[c]
        BY <1>5, <3>2
      <4>2. /\ BuilderKnows(c, build[c], day, received, deleted, report', doubled)
            /\ Covers(build[c], received, done', doubled)
        BY <3>2, OthersStillFit
      <4>3. QED
        BY <4>1, <4>2
    <3>3. QED
      BY <3>1, <3>2
  <2>2. QED
    BY <1>1, <2>1 DEF BuildFits
<1>9. TwoWorkDoubled'
  <2>1. Told(b, m, doubled') /\ doubled \subseteq doubled'
    BY <1>1, <1>4 DEF Told
  <2>2. QED
    BY <1>2, <1>4, <2>1, WorkStaysTold
<1>10. ASSUME NEW w \in Weeks PROVE WeekHolds(w)'
  <2>1. report'[w] <= SumOf(received, Window(w)) + SumOf(deleted, Window(w))
    BY RowsAreKept
  <2>2. QED
    BY <1>1, <2>1 DEF WeekHolds
<1>11. ASSUME NEW d \in done' PROVE BatchHolds(d)'
  <2>1. /\ WeekBefore(report', d)
        /\ WeekOf(d) \notin doubled => SumOf(received, DaysBefore(d)) <= report'[WeekOf(d)]
    <3>1. CASE d \in done
      <4>1. d \in Days /\ BatchHolds(d)
        BY <1>2, <3>1, WeeklyAssumption DEF WeeklyShape, Days
      <4>2. WeekBefore(report', d)
        BY <4>1, WeekBeforeStays DEF BatchHolds
      <4>3. WeekOf(d) \notin doubled => SumOf(received, DaysBefore(d)) <= report'[WeekOf(d)]
        BY <3>1, OldDaysHold
      <4>4. QED
        BY <4>2, <4>3
    <3>2. CASE d \notin done
      <4>1. d = build[b].of /\ build[b].pc = "refresh" /\ ~Refused(b)
        BY <1>6, <3>2
      <4>2. QED
        BY <4>1, EndedWell
    <3>3. QED
      BY <3>1, <3>2
  <2>2. QED
    BY <1>1, <2>1 DEF BatchHolds
<1>12. QED
  BY <1>7, <1>8, <1>9, <1>10, <1>11 DEF WeeklyInv

LEMMA WeeklyInitHolds ==
  ASSUME WeeklyInit
  PROVE  WeeklyInv
<1>1. /\ day = 0 /\ received = [d \in Days |-> 0] /\ deleted = [d \in Days |-> 0] /\ report = [w \in Weeks |-> Missing]
      /\ build = [b \in Visitors \cup Batches |-> NoBuild] /\ done = {} /\ doubled = {} /\ losses = 0
  BY DEF WeeklyInit
<1>2. 0 \in Days /\ 0 \in Weeks
  BY WeekOfDay, WeeklyAssumption DEF Days
<1>3. NoBuild \in Build
  BY <1>2 DEF NoBuild, Build
<1>4. WeeklyShape
  <2>1. /\ received \in [Days -> 0..MaxJobs] /\ deleted \in [Days -> 0..MaxJobs]
        /\ \A d \in Days : received[d] + deleted[d] <= MaxJobs
    BY <1>1, WeeklyAssumption
  <2>2. QED
    BY <1>1, <1>2, <1>3, <2>1, WeeklyAssumption DEF WeeklyShape
<1>5. ASSUME NEW S \in SUBSET Days PROVE SumOf(received, S) \in Nat /\ SumOf(deleted, S) \in Nat
  BY <1>4, SumsAreNatural
<1>6. NoBuild.pc = "idle" /\ NoBuild.of = 0 /\ NoBuild.week = 0 /\ NoBuild.count = 0
  BY DEF NoBuild
<1>7. ASSUME NEW b \in Visitors \cup Batches PROVE BuildFits(b)
  <2>1. build[b] = NoBuild /\ Window(0) \subseteq Days
    BY <1>1 DEF Window
  <2>2. SumOf(received, Window(0)) \in Nat /\ SumOf(deleted, Window(0)) \in Nat
    BY <1>5, <2>1
  <2>3. BuilderKnows(b, NoBuild, day, received, deleted, report, doubled)
    BY <1>1, <1>6, <2>2 DEF BuilderKnows
  <2>4. Covers(NoBuild, received, done, doubled)
    BY <1>6, NothingToCover
  <2>5. QED
    BY <2>1, <2>3, <2>4 DEF BuildFits
<1>8. TwoWorkDoubled
  BY <1>1, <1>6 DEF TwoWorkDoubled
<1>9. ASSUME NEW w \in Weeks PROVE WeekHolds(w)
  <2>1. Window(w) \subseteq Days /\ report[w] = -1
    BY <1>1 DEF Window, Missing
  <2>2. SumOf(received, Window(w)) \in Nat /\ SumOf(deleted, Window(w)) \in Nat
    BY <1>5, <2>1
  <2>3. QED
    BY <2>1, <2>2 DEF WeekHolds
<1>10. QED
  BY <1>1, <1>4, <1>7, <1>8, <1>9 DEF WeeklyInv

LEMMA WeeklyNextKeeps ==
  ASSUME WeeklyInv, [WeeklyNext]_weeklyVars
  PROVE  WeeklyInv'
<1>1. CASE Tomorrow
  BY <1>1, TomorrowKeepsWeekly
<1>2. CASE Receive
  BY <1>2, ReceiveKeepsWeekly
<1>3. CASE \E v \in Visitors : Visit(v)
  BY <1>3, VisitKeepsWeekly
<1>4. CASE \E b \in Batches : StartBatch(b) \/ CloseWeek(b) \/ CountWeek(b)
  BY <1>4, StartBatchKeepsWeekly, CloseWeekKeepsWeekly, CountWeekKeepsWeekly
<1>5. CASE \E b \in Visitors \cup Batches : Write(b) \/ Lose(b)
  BY <1>5, WriteKeepsWeekly, LoseKeepsWeekly
<1>6. CASE UNCHANGED weeklyVars
  BY <1>6 DEF weeklyVars, WeeklyInv, WeeklyShape, BuildFits, TwoWorkDoubled, WeekHolds, BatchHolds
<1>7. CASE \E d \in Days : DeleteRow(d)
  BY <1>7, DeleteRowKeepsWeekly
<1>8. QED
  BY <1>1, <1>2, <1>3, <1>4, <1>5, <1>6, <1>7 DEF WeeklyNext

(* Of a step of the desk the weekly report sees its own steps alone.        *)
LEMMA DeskStepIsWeekly ==
  ASSUME [DeskNext]_<< vars, answer, weeklyVars >>
  PROVE  [WeeklyNext]_weeklyVars
BY DEF DeskNext

(* The report of a week is written by Write alone.                          *)
LEMMA StepKeepsRows ==
  ASSUME WeeklyInv, [WeeklyNext]_weeklyVars, NEW w \in Weeks
  PROVE  report'[w] + SumOf(deleted, Window(w)) >= report[w] \/ w \in doubled
<1>1. report[w] \in Int /\ SumOf(deleted, Window(w)) \in Nat
  <2>1. Window(w) \subseteq Days /\ WeeklyShape
    BY DEF Window, WeeklyInv
  <2>2. QED
    BY <2>1, SumsAreNatural DEF WeeklyShape, Missing
<1>2. CASE \E b \in Visitors \cup Batches : Write(b)
  BY <1>2, RowsAreKept
<1>3. CASE ~ \E b \in Visitors \cup Batches : Write(b)
  <2>1. report' = report
    BY <1>3
    DEF WeeklyNext, weeklyVars, Tomorrow, Receive, DeleteRow, Visit, StartBatch, CloseWeek, CountWeek, Lose
  <2>2. QED
    BY <1>1, <2>1
<1>4. QED
  BY <1>2, <1>3

(* The inductive invariant of the weekly report.                            *)
THEOREM WeeklyInvariant == DeskSpec => []WeeklyInv
<1>1. DeskInit => WeeklyInv
  BY WeeklyInitHolds DEF DeskInit
<1>2. WeeklyInv /\ [DeskNext]_<< vars, answer, weeklyVars >> => WeeklyInv'
  BY WeeklyNextKeeps, DeskStepIsWeekly
<1>3. QED
  BY <1>1, <1>2, PTL DEF DeskSpec

(* The weekly report counts its week, is brought up to date every night and *)
(* loses nothing that is there, for any number of visitors, batches, days,  *)
(* deletions and losses: build_weekly_insight and generate_weekly_insight.  *)
THEOREM WeeklyReportIsRight == DeskSpec => WeeklyIsRight
<1>1. WeeklyInv => WeekCountsItsOwn /\ BatchIsFresh
  BY InvGivesWeekly
<1>2. DeskSpec => []WeekCountsItsOwn /\ []BatchIsFresh
  BY <1>1, WeeklyInvariant, PTL
<1>3. DeskSpec => ReportsKeepTheirRows
  <2>1. WeeklyInv /\ [DeskNext]_<< vars, answer, weeklyVars >>
        => [\A w \in Weeks :
              report'[w] + Deleted({ d \in Days : WeekOf(d) = w }) >= report[w] \/ w \in doubled]_weeklyVars
    <3>1. \A w \in Weeks : SumOf(deleted, Window(w)) = Deleted({ d \in Days : WeekOf(d) = w })
      BY ReceivedIsSumOf DEF Window
    <3>2. QED
      BY <3>1, DeskStepIsWeekly, StepKeepsRows
  <2>2. QED
    BY <2>1, WeeklyInvariant, PTL DEF DeskSpec, ReportsKeepTheirRows
<1>4. QED
  BY <1>2, <1>3 DEF WeeklyIsRight

-----------------------------------------------------------------------------
(* Rounding: to a multiple of the unit, at most half a unit away.           *)

Rounded(x, unit, q) == RoundTo(x, unit) = unit * q /\ 2 * (unit * q) <= 2 * x + unit /\ 2 * x <= 2 * (unit * q) + unit

(* The total of an order, in won.                                           *)
LEMMA RoundedToTen ==
  ASSUME NEW x \in Nat
  PROVE  \E q \in Nat : Rounded(x, 10, q)
<1>1. PICK q \in Nat, r \in Nat : x \div 10 = q /\ x % 10 = r /\ x = 10 * q + r /\ r < 10
  OBVIOUS
<1>2. RoundTo(x, 10) = 10 * (IF 2 * r < 10 \/ (2 * r = 10 /\ q % 2 = 0) THEN q ELSE q + 1)
  BY <1>1 DEF RoundTo
<1>3. CASE 2 * r < 10 \/ (2 * r = 10 /\ q % 2 = 0)
  <2>1. RoundTo(x, 10) = 10 * q /\ 2 * r <= 10
    BY <1>1, <1>2, <1>3
  <2>2. Rounded(x, 10, q)
    BY <1>1, <2>1 DEF Rounded
  <2>3. QED
    BY <1>1, <2>2
<1>4. CASE ~(2 * r < 10 \/ (2 * r = 10 /\ q % 2 = 0))
  <2>1. q + 1 \in Nat /\ RoundTo(x, 10) = 10 * (q + 1) /\ 10 <= 2 * r
    BY <1>1, <1>2, <1>4
  <2>2. Rounded(x, 10, q + 1)
    BY <1>1, <2>1 DEF Rounded
  <2>3. QED
    BY <2>1, <2>2
<1>5. QED
  BY <1>3, <1>4

(* A price from hundredths of a won, to ten won.                            *)
LEMMA RoundedToThousand ==
  ASSUME NEW x \in Nat
  PROVE  \E q \in Nat : Rounded(x, 1000, q)
<1>1. PICK q \in Nat, r \in Nat : x \div 1000 = q /\ x % 1000 = r /\ x = 1000 * q + r /\ r < 1000
  OBVIOUS
<1>2. RoundTo(x, 1000) = 1000 * (IF 2 * r < 1000 \/ (2 * r = 1000 /\ q % 2 = 0) THEN q ELSE q + 1)
  BY <1>1 DEF RoundTo
<1>3. CASE 2 * r < 1000 \/ (2 * r = 1000 /\ q % 2 = 0)
  <2>1. RoundTo(x, 1000) = 1000 * q /\ 2 * r <= 1000
    BY <1>1, <1>2, <1>3
  <2>2. Rounded(x, 1000, q)
    BY <1>1, <2>1 DEF Rounded
  <2>3. QED
    BY <1>1, <2>2
<1>4. CASE ~(2 * r < 1000 \/ (2 * r = 1000 /\ q % 2 = 0))
  <2>1. q + 1 \in Nat /\ RoundTo(x, 1000) = 1000 * (q + 1) /\ 1000 <= 2 * r
    BY <1>1, <1>2, <1>4
  <2>2. Rounded(x, 1000, q + 1)
    BY <1>1, <2>1 DEF Rounded
  <2>3. QED
    BY <2>1, <2>2
<1>5. QED
  BY <1>3, <1>4

(* A price from hundredths of a won, to a hundred won.                      *)
LEMMA RoundedToTenThousand ==
  ASSUME NEW x \in Nat
  PROVE  \E q \in Nat : Rounded(x, 10000, q)
<1>1. PICK q \in Nat, r \in Nat : x \div 10000 = q /\ x % 10000 = r /\ x = 10000 * q + r /\ r < 10000
  OBVIOUS
<1>2. RoundTo(x, 10000) = 10000 * (IF 2 * r < 10000 \/ (2 * r = 10000 /\ q % 2 = 0) THEN q ELSE q + 1)
  BY <1>1 DEF RoundTo
<1>3. CASE 2 * r < 10000 \/ (2 * r = 10000 /\ q % 2 = 0)
  <2>1. RoundTo(x, 10000) = 10000 * q /\ 2 * r <= 10000
    BY <1>1, <1>2, <1>3
  <2>2. Rounded(x, 10000, q)
    BY <1>1, <2>1 DEF Rounded
  <2>3. QED
    BY <1>1, <2>2
<1>4. CASE ~(2 * r < 10000 \/ (2 * r = 10000 /\ q % 2 = 0))
  <2>1. q + 1 \in Nat /\ RoundTo(x, 10000) = 10000 * (q + 1) /\ 10000 <= 2 * r
    BY <1>1, <1>2, <1>4
  <2>2. Rounded(x, 10000, q + 1)
    BY <1>1, <2>1 DEF Rounded
  <2>3. QED
    BY <2>1, <2>2
<1>5. QED
  BY <1>3, <1>4

(* Rounding keeps the order of two amounts.                                 *)
LEMMA RoundingIsMonotone ==
  ASSUME NEW x \in Nat, NEW y \in Nat, x <= y
  PROVE  RoundTo(x, 1000) \div 100 <= RoundTo(y, 1000) \div 100
<1>1. PICK q \in Nat, r \in Nat : r < 1000 /\ x \div 1000 = q /\ x % 1000 = r /\ x = 1000 * q + r
  OBVIOUS
<1>2. PICK p \in Nat, n \in Nat : n < 1000 /\ y \div 1000 = p /\ y % 1000 = n /\ y = 1000 * p + n
  OBVIOUS
<1>3. q <= p /\ (q = p => r <= n)
  BY <1>1, <1>2
<1>4. PICK up \in {q, q + 1} : RoundTo(x, 1000) = 1000 * up /\ (up = q + 1 => 1000 <= 2 * r /\ (2 * r = 1000 => q % 2 # 0))
                              /\ (up = q => 2 * r <= 1000 /\ (2 * r = 1000 => q % 2 = 0))
  BY <1>1 DEF RoundTo
<1>5. PICK top \in {p, p + 1} : RoundTo(y, 1000) = 1000 * top /\ (top = p + 1 => 1000 <= 2 * n /\ (2 * n = 1000 => p % 2 # 0))
                              /\ (top = p => 2 * n <= 1000 /\ (2 * n = 1000 => p % 2 = 0))
  BY <1>2 DEF RoundTo
<1>6. up <= top
  BY <1>1, <1>2, <1>3, <1>4, <1>5
<1>7. (1000 * up) \div 100 = 10 * up /\ (1000 * top) \div 100 = 10 * top
  BY <1>1, <1>2
<1>8. QED
  BY <1>4, <1>5, <1>6, <1>7

-----------------------------------------------------------------------------
(* The price tag                                                            *)

LEMMA LesserOfTwo ==
  ASSUME NEW a \in Int, NEW b \in Int
  PROVE  Min({a, b}) = IF a <= b THEN a ELSE b
BY DEF Min

LEMMA GreaterOfTwo ==
  ASSUME NEW a \in Int, NEW b \in Int
  PROVE  Max({a, b}) = IF a <= b THEN b ELSE a
BY DEF Max

(* A share, rounded down.                                                   *)
Share(q, x, n, d) == q \in Nat /\ d * q <= x * n /\ x * n < d * q + d

LEMMA PartOfHundred ==
  ASSUME NEW x \in Nat, NEW n \in Nat
  PROVE  Part(x, n, 100) \in Nat /\ Share(Part(x, n, 100), x, n, 100)
<1>1. PICK m \in Nat : m = x * n
  OBVIOUS
<1>2. PICK q \in Nat : m \div 100 = q /\ 100 * q <= m /\ m < 100 * q + 100
  OBVIOUS
<1>3. QED
  BY <1>1, <1>2 DEF Part, Share

LEMMA PartOfTwoHundred ==
  ASSUME NEW x \in Nat, NEW n \in Nat
  PROVE  Part(x, n, 200) \in Nat /\ Share(Part(x, n, 200), x, n, 200)
<1>1. PICK m \in Nat : m = x * n
  OBVIOUS
<1>2. PICK q \in Nat : m \div 200 = q /\ 200 * q <= m /\ m < 200 * q + 200
  OBVIOUS
<1>3. QED
  BY <1>1, <1>2 DEF Part, Share

LEMMA PartOfThousand ==
  ASSUME NEW x \in Nat, NEW n \in Nat
  PROVE  Part(x, n, 1000) \in Nat /\ Share(Part(x, n, 1000), x, n, 1000)
<1>1. PICK m \in Nat : m = x * n
  OBVIOUS
<1>2. PICK q \in Nat : m \div 1000 = q /\ 1000 * q <= m /\ m < 1000 * q + 1000
  OBVIOUS
<1>3. QED
  BY <1>1, <1>2 DEF Part, Share

(* A share between two bounds.                                              *)
LEMMA SharesCompare ==
  ASSUME NEW x \in Nat, NEW n \in Nat, NEW m \in Nat, n <= m
  PROVE  x * n <= x * m
<1>1. PICK k \in Nat : m = n + k
  OBVIOUS
<1>2. x * m = x * n + x * k /\ x * k \in Nat
  BY <1>1
<1>3. x * n \in Nat /\ x * m \in Nat
  OBVIOUS
<1>4. QED
  BY <1>2, <1>3

LEMMA TaggedFacts ==
  ASSUME NEW t \in TaggedBook
  PROVE  /\ t.list \in Nat /\ t.days \in Nat /\ t.premium \in Nat /\ ScoreOf(t.score) \in 0..100
         /\ t.category \in {"IT", "Textbook", "SelfHelp", "Economy", "Novel", "Essay", "Children",
                            "Comic", "Magazine", "General"}
<1>1. t.list \in Nat /\ t.days \in Nat /\ t.premium \in Nat /\ t.score \in {Unscored} \cup 0..100 /\ t.category \in Categories
  BY DEF TaggedBook, Scores
<1>2. ScoreOf(t.score) \in 0..100
  BY <1>1 DEF ScoreOf, Unscored, DefaultScore
<1>3. Categories = {"IT", "Textbook", "SelfHelp", "Economy", "Novel", "Essay", "Children",
                    "Comic", "Magazine", "General"}
  BY DEF Categories, Supply
<1>4. QED
  BY <1>1, <1>2, <1>3

LEMMA DwellType ==
  ASSUME NEW t \in TaggedBook
  PROVE  DwellDiscount(t) \in 0..100
<1>1. t.days \in Nat
  BY TaggedFacts
<1>2. PICK m \in Nat : m = t.days * 100
  BY <1>1
<1>3. PICK q \in Nat : q = m \div 365
  BY <1>2
<1>4. Part(t.days, 100, 365) = q
  BY <1>2, <1>3 DEF Part
<1>5. Min({q, 100}) \in 0..100
  <2>1. q \in Nat
    BY <1>2, <1>3
  <2>2. Min({q, 100}) = IF q <= 100 THEN q ELSE 100
    BY <2>1, LesserOfTwo
  <2>3. QED
    BY <2>1, <2>2
<1>6. QED
  BY <1>4, <1>5 DEF DwellDiscount

(* What the factors of a retail price leave of it, one after the other.     *)
AfterWear(t)     == Part(t.list * Retail[t.category], 600 + 4 * ScoreOf(t.score), 1000)
AfterSeason(t) == Part(AfterWear(t), 200 + (Season[t.category] - 100), 200)
AfterPremium(t)   == Part(AfterSeason(t), 100 + Min({t.premium, 15}), 100)
AfterDwell(t)     == Part(AfterPremium(t), 1000 - DwellDiscount(t), 1000)

LEMMA WornFacts ==
  ASSUME NEW t \in TaggedBook, Retail[t.category] \in Nat
  PROVE  AfterWear(t) \in Nat /\ Share(AfterWear(t), t.list * Retail[t.category], 600 + 4 * ScoreOf(t.score), 1000)
<1>1. t.list * Retail[t.category] \in Nat /\ 600 + 4 * ScoreOf(t.score) \in Nat
  BY TaggedFacts
<1>2. QED
  BY <1>1, PartOfThousand DEF AfterWear

LEMMA SeasonalFacts ==
  ASSUME NEW t \in TaggedBook, AfterWear(t) \in Nat, NEW z \in 90..125, z = Season[t.category]
  PROVE  AfterSeason(t) \in Nat /\ Share(AfterSeason(t), AfterWear(t), 100 + z, 200)
<1>1. PICK n \in Nat : n = 100 + z /\ n = 200 + (z - 100)
  OBVIOUS
<1>2. PICK x \in Nat : x = AfterWear(t)
  OBVIOUS
<1>3. AfterSeason(t) = Part(x, n, 200)
  BY <1>1, <1>2 DEF AfterSeason
<1>4. Part(x, n, 200) \in Nat /\ Share(Part(x, n, 200), x, n, 200)
  BY PartOfTwoHundred
<1>5. QED
  BY <1>1, <1>2, <1>3, <1>4

LEMMA ScarceFacts ==
  ASSUME NEW t \in TaggedBook, AfterSeason(t) \in Nat
  PROVE  AfterPremium(t) \in Nat /\ AfterSeason(t) <= AfterPremium(t) /\ 100 * AfterPremium(t) <= 115 * AfterSeason(t)
<1>1. PICK x \in Nat : x = AfterSeason(t)
  OBVIOUS
<1>2. PICK m \in 0..15 : m = Min({t.premium, 15})
  <2>1. t.premium \in Nat
    BY TaggedFacts
  <2>2. Min({t.premium, 15}) = IF t.premium <= 15 THEN t.premium ELSE 15
    BY <2>1, LesserOfTwo
  <2>3. QED
    BY <2>1, <2>2
<1>3. 100 + m \in Nat /\ x * 100 <= x * (100 + m) /\ x * (100 + m) <= x * 115
  <2>1. 100 + m \in Nat /\ 100 <= 100 + m /\ 100 + m <= 115
    OBVIOUS
  <2>2. QED
    BY <2>1, SharesCompare
<1>4. Share(AfterPremium(t), x, 100 + m, 100) /\ AfterPremium(t) \in Nat
  BY <1>1, <1>2, <1>3, PartOfHundred DEF AfterPremium
<1>5. PICK y \in Nat : y = x * (100 + m)
  BY <1>3
<1>6. PICK q \in Nat : q = AfterPremium(t) /\ 100 * q <= y /\ y < 100 * q + 100
  BY <1>4, <1>5 DEF Share
<1>7. x <= q /\ 100 * q <= 115 * x
  BY <1>3, <1>5, <1>6
<1>8. QED
  BY <1>1, <1>6, <1>7

LEMMA AgedFacts ==
  ASSUME NEW t \in TaggedBook, AfterPremium(t) \in Nat
  PROVE  AfterDwell(t) \in Nat /\ AfterDwell(t) <= AfterPremium(t) /\ 900 * AfterPremium(t) < 1000 * AfterDwell(t) + 1000
<1>1. PICK x \in Nat : x = AfterPremium(t)
  OBVIOUS
<1>2. PICK d \in 0..100 : d = DwellDiscount(t)
  BY DwellType
<1>3. 1000 - d \in Nat /\ x * 900 <= x * (1000 - d) /\ x * (1000 - d) <= x * 1000
  <2>1. 1000 - d \in Nat /\ 900 <= 1000 - d /\ 1000 - d <= 1000
    OBVIOUS
  <2>2. QED
    BY <2>1, SharesCompare
<1>4. Share(AfterDwell(t), x, 1000 - d, 1000) /\ AfterDwell(t) \in Nat
  BY <1>1, <1>2, <1>3, PartOfThousand DEF AfterDwell
<1>5. PICK y \in Nat : y = x * (1000 - d)
  BY <1>3
<1>6. PICK q \in Nat : q = AfterDwell(t) /\ 1000 * q <= y /\ y < 1000 * q + 1000
  BY <1>4, <1>5 DEF Share
<1>7. q <= x /\ 900 * x < 1000 * q + 1000
  BY <1>3, <1>5, <1>6
<1>8. QED
  BY <1>1, <1>6, <1>7

LEMMA RetailIsAged ==
  ASSUME NEW t \in TaggedBook
  PROVE  RetailPrice(t) = RoundTo(Min({AfterDwell(t), 100 * t.list}), 10000) \div 100
<1>1. PICK s \in 0..100 : s = ScoreOf(t.score)
  BY TaggedFacts
<1>2. Max({0, Min({100, s})}) = s
  <2>1. Min({100, s}) = s
    BY LesserOfTwo
  <2>2. Max({0, s}) = s
    BY GreaterOfTwo
  <2>3. QED
    BY <2>1, <2>2
<1>3. AfterWear(t) = Part(t.list * Retail[t.category], 600 + 4 * Max({0, Min({100, ScoreOf(t.score)})}), 1000)
  BY <1>1, <1>2 DEF AfterWear
<1>4. QED
  BY <1>3 DEF RetailPrice, AfterSeason, AfterPremium, AfterDwell

(* The same chain in linear terms: l is the list price, p the list price    *)
(* times the score, w, n, c and a what wear, season, premium and dwell      *)
(* leave of it, u the supplier's share; all but l in hundredths of a won.   *)
Chain(l, p, r, z, w, n, c, a) ==
  /\ 1000 * w <= r * (600 * l + 4 * p) /\ r * (600 * l + 4 * p) < 1000 * w + 1000
  /\ 200 * n <= (100 + z) * w /\ (100 + z) * w < 200 * n + 200
  /\ n <= c /\ 100 * c <= 115 * n /\ a <= c /\ 900 * c < 1000 * a + 1000

SupplierShare(u, b, p) == 100 * u <= b * p

(* Enough is left between the three prices for the roundings.               *)
Margins(l, u, a) == a + 5000 < 100 * l /\ u + 500 < a - 5000

LEMMA ChainLeavesMargins ==
  ASSUME NEW l \in Nat, l >= 1100, NEW p \in Nat, p <= 100 * l, NEW w \in Nat, NEW n \in Nat,
         NEW c \in Nat, NEW a \in Nat, NEW u \in Nat,
         NEW category \in Categories, category # "Magazine",
         Chain(l, p, Retail[category], Season[category], w, n, c, a), SupplierShare(u, Supply[category], p)
  PROVE  Margins(l, u, a)
<1>1. CASE category = "IT"
  <2>1. Retail[category] = 70 /\ Season[category] = 105 /\ Supply[category] = 55
    BY <1>1 DEF Retail, Season, Supply
  <2>2. Chain(l, p, 70, 105, w, n, c, a) /\ SupplierShare(u, 55, p)
    BY <2>1
  <2>3. QED
    BY <2>2 DEF Chain, Margins, SupplierShare
<1>2. CASE category = "Textbook"
  <2>1. Retail[category] = 72 /\ Season[category] = 125 /\ Supply[category] = 55
    BY <1>2 DEF Retail, Season, Supply
  <2>2. Chain(l, p, 72, 125, w, n, c, a) /\ SupplierShare(u, 55, p)
    BY <2>1
  <2>3. QED
    BY <2>2 DEF Chain, Margins, SupplierShare
<1>3. CASE category = "SelfHelp"
  <2>1. Retail[category] = 62 /\ Season[category] = 100 /\ Supply[category] = 45
    BY <1>3 DEF Retail, Season, Supply
  <2>2. Chain(l, p, 62, 100, w, n, c, a) /\ SupplierShare(u, 45, p)
    BY <2>1
  <2>3. QED
    BY <2>2 DEF Chain, Margins, SupplierShare
<1>4. CASE category = "Economy"
  <2>1. Retail[category] = 62 /\ Season[category] = 102 /\ Supply[category] = 45
    BY <1>4 DEF Retail, Season, Supply
  <2>2. Chain(l, p, 62, 102, w, n, c, a) /\ SupplierShare(u, 45, p)
    BY <2>1
  <2>3. QED
    BY <2>2 DEF Chain, Margins, SupplierShare
<1>5. CASE category = "Novel"
  <2>1. Retail[category] = 58 /\ Season[category] = 100 /\ Supply[category] = 40
    BY <1>5 DEF Retail, Season, Supply
  <2>2. Chain(l, p, 58, 100, w, n, c, a) /\ SupplierShare(u, 40, p)
    BY <2>1
  <2>3. QED
    BY <2>2 DEF Chain, Margins, SupplierShare
<1>6. CASE category = "Essay"
  <2>1. Retail[category] = 58 /\ Season[category] = 100 /\ Supply[category] = 40
    BY <1>6 DEF Retail, Season, Supply
  <2>2. Chain(l, p, 58, 100, w, n, c, a) /\ SupplierShare(u, 40, p)
    BY <2>1
  <2>3. QED
    BY <2>2 DEF Chain, Margins, SupplierShare
<1>7. CASE category = "Children"
  <2>1. Retail[category] = 55 /\ Season[category] = 98 /\ Supply[category] = 40
    BY <1>7 DEF Retail, Season, Supply
  <2>2. Chain(l, p, 55, 98, w, n, c, a) /\ SupplierShare(u, 40, p)
    BY <2>1
  <2>3. QED
    BY <2>2 DEF Chain, Margins, SupplierShare
<1>8. CASE category = "Comic"
  <2>1. Retail[category] = 48 /\ Season[category] = 95 /\ Supply[category] = 30
    BY <1>8 DEF Retail, Season, Supply
  <2>2. Chain(l, p, 48, 95, w, n, c, a) /\ SupplierShare(u, 30, p)
    BY <2>1
  <2>3. QED
    BY <2>2 DEF Chain, Margins, SupplierShare
<1>9. CASE category = "General"
  <2>1. Retail[category] = 55 /\ Season[category] = 100 /\ Supply[category] = 35
    BY <1>9 DEF Retail, Season, Supply
  <2>2. Chain(l, p, 55, 100, w, n, c, a) /\ SupplierShare(u, 35, p)
    BY <2>1
  <2>3. QED
    BY <2>2 DEF Chain, Margins, SupplierShare
<1>10. QED
  BY <1>1, <1>2, <1>3, <1>4, <1>5, <1>6, <1>7, <1>8, <1>9 DEF Categories, Supply

(* A magazine costs little: where the roundings outweigh what is left, the  *)
(* multiples of a hundred and of ten still keep the prices apart.           *)
Apart(l, u, a) == a + 5000 < 100 * l /\ (Margins(l, u, a) \/ (35000 < a /\ u + 500 < 40000))

LEMMA MagazineMargins ==
  ASSUME NEW l \in Nat, l >= 1100, NEW p \in Nat, p <= 100 * l, NEW w \in Nat, NEW n \in Nat,
         NEW c \in Nat, NEW a \in Nat, NEW u \in Nat, Chain(l, p, 40, 90, w, n, c, a), SupplierShare(u, 30, p)
  PROVE  Apart(l, u, a)
<1>1. CASE p <= 90 * l \/ 1317 <= l
  BY <1>1 DEF Chain, Margins, SupplierShare, Apart
<1>2. CASE ~(p <= 90 * l \/ 1317 <= l)
  BY <1>2 DEF Chain, Margins, SupplierShare, Apart
<1>3. QED
  BY <1>1, <1>2

LEMMA TagsAreBetween ==
  ASSUME NEW t \in TaggedBook, t.list >= 1100
  PROVE  SupplyPrice(t) < RetailPrice(t) /\ RetailPrice(t) < t.list
<1>1. PICK l \in Nat, s \in 0..100 : l = t.list /\ s = ScoreOf(t.score)
  BY TaggedFacts
<1>2. PICK category \in Categories : category = t.category
  BY DEF TaggedBook
<1>3. PICK r \in Nat, z \in 90..125, b \in Nat :
        r = Retail[category] /\ z = Season[category] /\ b = Supply[category]
  BY DEF Categories, Supply, Retail, Season
<1>4. PICK p \in Nat : p = l * s /\ p <= 100 * l
  <2>1. l * s <= l * 100 /\ l * s \in Nat
    BY SharesCompare
  <2>2. QED
    BY <2>1
<1>5. PICK w \in Nat : w = AfterWear(t) /\ Share(w, l * r, 600 + 4 * s, 1000)
  BY <1>1, <1>2, <1>3, WornFacts
<1>6. PICK n \in Nat : n = AfterSeason(t) /\ Share(n, w, 100 + z, 200)
  BY <1>2, <1>3, <1>5, SeasonalFacts
<1>7. PICK c \in Nat : c = AfterPremium(t) /\ n <= c /\ 100 * c <= 115 * n
  BY <1>6, ScarceFacts
<1>8. PICK a \in Nat : a = AfterDwell(t) /\ a <= c /\ 900 * c < 1000 * a + 1000
  BY <1>7, AgedFacts
<1>9. Chain(l, p, r, z, w, n, c, a)
  <2>1. (l * r) * (600 + 4 * s) = r * (600 * l + 4 * p)
    BY <1>4
  <2>2. w * (100 + z) = (100 + z) * w
    OBVIOUS
  <2>3. QED
    BY <1>5, <1>6, <1>7, <1>8, <2>1, <2>2 DEF Chain, Share
<1>10. PICK u \in Nat : u = Part(l * b, s, 100) /\ SupplierShare(u, b, p)
  <2>1. PICK x \in Nat : x = l * b /\ x * s = b * p
    BY <1>4
  <2>2. Part(x, s, 100) \in Nat /\ Share(Part(x, s, 100), x, s, 100)
    <3>1. s \in Nat
      OBVIOUS
    <3>2. QED
      BY <2>1, <3>1, PartOfHundred
  <2>3. QED
    BY <2>1, <2>2 DEF Share, SupplierShare
<1>11. PICK v \in Nat : SupplyPrice(t) = 10 * v /\ 1000 * v <= u + 500
  <2>1. SupplyPrice(t) = RoundTo(u, 1000) \div 100
    BY <1>1, <1>2, <1>3, <1>10 DEF SupplyPrice
  <2>2. PICK v \in Nat : Rounded(u, 1000, v)
    BY RoundedToThousand
  <2>3. (1000 * v) \div 100 = 10 * v
    OBVIOUS
  <2>4. QED
    BY <2>1, <2>2, <2>3 DEF Rounded
<1>12. Apart(l, u, a)
  <2>1. CASE category = "Magazine"
    <3>1. r = 40 /\ z = 90 /\ b = 30
      BY <1>3, <2>1 DEF Retail, Season, Supply
    <3>2. Chain(l, p, 40, 90, w, n, c, a) /\ SupplierShare(u, 30, p)
      BY <1>9, <1>10, <3>1
    <3>3. l >= 1100 /\ p <= 100 * l
      BY <1>1, <1>4
    <3>4. QED
      BY SMTT(20), <3>2, <3>3, MagazineMargins
  <2>2. CASE category # "Magazine"
    <3>1. Margins(l, u, a)
      BY <1>1, <1>3, <1>4, <1>9, <1>10, <2>2, ChainLeavesMargins
    <3>2. QED
      BY <3>1 DEF Margins, Apart
  <2>3. QED
    BY <2>1, <2>2
<1>13. PICK q \in Nat : RetailPrice(t) = 100 * q /\ 10000 * q <= a + 5000 /\ a <= 10000 * q + 5000
  <2>1. Min({a, 100 * l}) = a
    <3>1. 100 * l \in Nat /\ a <= 100 * l
      BY <1>12 DEF Apart
    <3>2. QED
      BY <3>1, LesserOfTwo
  <2>2. RetailPrice(t) = RoundTo(a, 10000) \div 100
    BY <1>1, <1>8, <2>1, RetailIsAged
  <2>3. PICK q \in Nat : Rounded(a, 10000, q)
    BY RoundedToTenThousand
  <2>4. (10000 * q) \div 100 = 100 * q
    OBVIOUS
  <2>5. QED
    BY <2>2, <2>3, <2>4 DEF Rounded
<1>14. 10 * v < 100 * q /\ 100 * q < l
  BY <1>11, <1>12, <1>13 DEF Margins, Apart
<1>15. QED
  BY <1>1, <1>11, <1>13, <1>14

-----------------------------------------------------------------------------
(* The best discount                                                        *)

Grid == [k \in 1..17 |-> k]
Earns(chance, d) == chance[d] * (100 - d)
First5 == [discount |-> 5, revenue |-> 0]
Kept(chance, k, best) ==
  IF chance[5 * k] * (100 - 5 * k) > best.revenue
  THEN [discount |-> 5 * k, revenue |-> chance[5 * k] * (100 - 5 * k)]
  ELSE best

(* The recursion of the search over a part of the grid: its last discount   *)
(* is compared with the best of those before it.                            *)
Searched(g, chance, s) ==
  IF s = {} THEN First5 ELSE Kept(chance, Grid[Max(s)], g[s \ {Max(s)}])
IsSearch(g, chance) == g = [s \in SUBSET (1..17) |-> Searched(g, chance, s)]

LEMMA GridIsFinite == IsFiniteSet(1..17)
<1>1. PICK a \in Int, b \in Int : a = 1 /\ b = 17
  OBVIOUS
<1>2. IsFiniteSet(a..b)
  BY FS_Interval
<1>3. QED
  BY <1>1, <1>2

LEMMA LastOfPart ==
  ASSUME NEW s \in SUBSET (1..17), s # {}
  PROVE  /\ Max(s) \in s /\ s \ {Max(s)} \in SUBSET (1..17)
         /\ Cardinality(s) \in Nat /\ Cardinality(s \ {Max(s)}) = Cardinality(s) - 1
<1>1. IsFiniteSet(s)
  BY GridIsFinite, FS_Subset
<1>2. s \subseteq Nat
  OBVIOUS
<1>3. Max(s) \in s
  BY <1>1, <1>2, MaxFacts
<1>4. QED
  BY <1>1, <1>3, FS_CardinalityType, FS_RemoveElement

(* That recursion is well founded. *)
LEMMA SearchExists ==
  ASSUME NEW chance
  PROVE  \E g : IsSearch(g, chance)
<1> DEFINE Below(n) == { s \in SUBSET (1..17) : Cardinality(s) < n }
           Solves(g, n) == g = [s \in Below(n) |-> Searched(g, chance, s)]
           Unsolved == { n \in Nat : ~ \E g : Solves(g, n) }
<1>0. \A s \in SUBSET (1..17) : IsFiniteSet(s) /\ Cardinality(s) \in Nat
  BY GridIsFinite, FS_Subset, FS_CardinalityType
<1>1. ASSUME Unsolved # {} PROVE FALSE
  <2>1. PICK n \in Unsolved : \A i \in Unsolved : n <= i
    BY <1>1, LeastExists
  <2>2. CASE n = 0
    <3>1. Below(0) = {}
      BY <1>0
    <3>2. [s \in {} |-> Searched(<< >>, chance, s)] = << >>
      OBVIOUS
    <3>3. Solves(<< >>, 0)
      BY <3>1, <3>2
    <3>4. QED
      BY <2>1, <2>2, <3>3
  <2>3. CASE n # 0
    <3>1. n - 1 \in Nat /\ n - 1 \notin Unsolved
      <4>1. n \in Nat /\ ~(n <= n - 1)
        BY <2>1
      <4> HIDE DEF Unsolved
      <4>2. n - 1 \notin Unsolved
        BY <2>1, <4>1
      <4> QED
        BY <2>3, <4>1, <4>2
    <3>2. PICK g : Solves(g, n - 1)
      BY <3>1
    <3> DEFINE h == [s \in Below(n) |-> Searched(g, chance, s)]
    <3>3. ASSUME NEW s \in Below(n) PROVE Searched(h, chance, s) = Searched(g, chance, s)
      <4>1. CASE s # {}
        <5>1. s \ {Max(s)} \in Below(n - 1) /\ s \ {Max(s)} \in Below(n)
          BY <1>0, <3>1, <4>1, LastOfPart
        <5>2. h[s \ {Max(s)}] = Searched(g, chance, s \ {Max(s)}) /\ g[s \ {Max(s)}] = Searched(g, chance, s \ {Max(s)})
          BY <3>2, <5>1
        <5>3. QED
          BY <5>2 DEF Searched
      <4>2. QED
        BY <4>1 DEF Searched
    <3>4. Solves(h, n)
      <4> HIDE DEF Below
      <4>1. [s \in Below(n) |-> Searched(h, chance, s)] = h
        BY <3>3
      <4> QED
        BY <4>1
    <3>5. QED
      BY <2>1, <3>4
  <2>4. QED
    BY <2>2, <2>3
<1>2. PICK n \in Nat : Below(n) = SUBSET (1..17)
  <2>1. PICK top \in Nat : \A s \in SUBSET (1..17) : Cardinality(s) <= top
    BY GridIsFinite, FS_CardinalityType, FS_Subset
  <2>2. top + 1 \in Nat /\ Below(top + 1) = SUBSET (1..17)
    BY <1>0, <2>1
  <2> HIDE DEF Below
  <2>3. QED
    BY <2>2
<1>3. PICK g : Solves(g, n)
  BY <1>1, <1>2
<1>4. QED
  BY <1>2, <1>3 DEF IsSearch

LEMMA BestDiscountIsSearched ==
  ASSUME NEW chance
  PROVE  \E g : IsSearch(g, chance) /\ BestDiscount(chance) = g[1..17].discount
<1> DEFINE Solves(g) == g = [s \in SUBSET (1..17) |-> Searched(g, chance, s)]
<1>1. DOMAIN Grid = 1..17
  BY DEF Grid
<1>2. BestDiscount(chance) = ((CHOOSE g : Solves(g))[1..17]).discount
  BY <1>1 DEF BestDiscount, FoldLeft, MapThenFoldSet, Searched, Kept, Grid, First5
<1>3. PICK g : Solves(g) /\ (CHOOSE h : Solves(h)) = g
  BY SearchExists DEF IsSearch
<1>4. IsSearch(g, chance)
  BY <1>3 DEF IsSearch
<1>5. QED
  BY <1>2, <1>3, <1>4

(* What the search over the first n discounts of the grid has found.        *)
SoFar(best, chance, n) ==
  /\ best.discount \in Discounts /\ best.revenue \in Nat
  /\ \A k \in 1..n : Earns(chance, 5 * k) <= best.revenue
  /\ \/ best = First5
     \/ \E j \in 1..n : /\ best.discount = 5 * j /\ best.revenue = Earns(chance, 5 * j)
                        /\ \A k \in 1..(j - 1) : Earns(chance, 5 * k) < best.revenue

LEMMA EarnsType ==
  ASSUME NEW chance \in [Discounts -> Nat]
  PROVE  \A k \in 1..17 : 5 * k \in Discounts /\ Earns(chance, 5 * k) \in Nat
<1> TAKE k \in 1..17
<1>1. 5 * k \in Discounts /\ 100 - 5 * k \in Nat
  BY DEF Discounts
<1>2. PICK a \in Nat, b \in Nat : a = chance[5 * k] /\ b = 100 - 5 * k
  BY <1>1
<1>3. a * b \in Nat
  OBVIOUS
<1>4. QED
  BY <1>1, <1>2, <1>3 DEF Earns

LEMMA KeptIsBest ==
  ASSUME NEW chance \in [Discounts -> Nat], NEW n \in 1..17, NEW best, SoFar(best, chance, n - 1)
  PROVE  SoFar(Kept(chance, n, best), chance, n)
<1>1. 5 * n \in Discounts /\ \A k \in 1..n : Earns(chance, 5 * k) \in Nat
  BY EarnsType
<1>2. PICK e \in Nat : e = Earns(chance, 5 * n)
  BY <1>1
<1>3. Kept(chance, n, best) = IF e > best.revenue THEN [discount |-> 5 * n, revenue |-> e] ELSE best
  BY <1>2 DEF Kept, Earns
<1>4. best.revenue \in Nat /\ \A k \in 1..n : k # n => k \in 1..(n - 1)
  BY DEF SoFar
<1>5. CASE e > best.revenue
  <2>1. PICK new : new = [discount |-> 5 * n, revenue |-> e]
    OBVIOUS
  <2>2. new.discount = 5 * n /\ new.revenue = e
    BY <2>1
  <2>3. \A k \in 1..(n - 1) : Earns(chance, 5 * k) < e
    <3> TAKE k \in 1..(n - 1)
    <3>1. k \in 1..n /\ Earns(chance, 5 * k) <= best.revenue
      BY DEF SoFar
    <3>2. QED
      BY <1>1, <1>2, <1>4, <1>5, <3>1
  <2>4. \A k \in 1..n : Earns(chance, 5 * k) <= e
    <3> TAKE k \in 1..n
    <3>1. k = n \/ k \in 1..(n - 1)
      OBVIOUS
    <3>2. QED
      BY <1>1, <1>2, <2>3, <3>1
  <2>5. n \in 1..n
    OBVIOUS
  <2>6. SoFar(new, chance, n)
    BY <1>1, <1>2, <2>2, <2>3, <2>4, <2>5 DEF SoFar
  <2>7. QED
    BY <1>3, <1>5, <2>1, <2>6
<1>6. CASE ~(e > best.revenue)
  <2>1. \A k \in 1..n : Earns(chance, 5 * k) <= best.revenue
    BY <1>1, <1>2, <1>4, <1>6 DEF SoFar
  <2>2. ASSUME NEW j \in 1..(n - 1), best.discount = 5 * j, best.revenue = Earns(chance, 5 * j),
               \A k \in 1..(j - 1) : Earns(chance, 5 * k) < best.revenue
        PROVE  SoFar(best, chance, n)
    <3>1. j \in 1..n
      OBVIOUS
    <3>2. best.discount \in Discounts /\ best.revenue \in Nat
      BY DEF SoFar
    <3>3. QED
      BY <2>1, <2>2, <3>1, <3>2 DEF SoFar
  <2>3. CASE best = First5
    <3>1. best.discount \in Discounts /\ best.revenue \in Nat
      BY DEF SoFar
    <3>2. SoFar(best, chance, n)
      BY <2>1, <2>3, <3>1 DEF SoFar
    <3>3. QED
      BY <1>3, <1>6, <3>2
  <2>4. CASE best # First5
    <3>1. PICK j \in 1..(n - 1) : /\ best.discount = 5 * j /\ best.revenue = Earns(chance, 5 * j)
                                  /\ \A k \in 1..(j - 1) : Earns(chance, 5 * k) < best.revenue
      BY <2>4 DEF SoFar
    <3>2. SoFar(best, chance, n)
      BY <2>2, <3>1
    <3>3. QED
      BY <1>3, <1>6, <3>2
  <2>5. QED
    BY <2>3, <2>4
<1>7. QED
  BY <1>5, <1>6

LEMMA SearchFinds ==
  ASSUME NEW chance \in [Discounts -> Nat], NEW g, IsSearch(g, chance)
  PROVE  SoFar(g[1..17], chance, 17)
<1> DEFINE Bad == { n \in 0..17 : ~SoFar(g[1..n], chance, n) }
<1>1. ASSUME Bad # {} PROVE FALSE
  <2>1. PICK n \in Bad : \A i \in Bad : n <= i
    <3>1. Bad \subseteq Nat
      OBVIOUS
    <3> HIDE DEF Bad
    <3>2. QED
      BY <1>1, <3>1, LeastExists
  <2>2. n \in 0..17 /\ ~SoFar(g[1..n], chance, n)
    BY <2>1
  <2>3. 1..n \in SUBSET (1..17) /\ g[1..n] = Searched(g, chance, 1..n)
    <3>1. 1..n \in SUBSET (1..17)
      BY <2>2
    <3>2. \A s \in SUBSET (1..17) : g[s] = Searched(g, chance, s)
      BY DEF IsSearch
    <3>3. QED
      BY <3>1, <3>2
  <2>4. CASE n = 0
    <3>1. 1..n = {}
      BY <2>4
    <3>2. PICK best : best = First5
      OBVIOUS
    <3>3. 5 \in Discounts /\ best.discount = 5 /\ best.revenue = 0
      BY <3>2 DEF First5, Discounts
    <3>4. SoFar(best, chance, n)
      BY <3>1, <3>2, <3>3 DEF SoFar
    <3>5. QED
      BY <2>2, <2>3, <3>1, <3>2, <3>4 DEF Searched
  <2>5. CASE n # 0
    <3>1. n \in 1..17 /\ n - 1 \in 0..17 /\ n - 1 \notin Bad
      <4>1. n \in 1..17 /\ n - 1 \in 0..17 /\ ~(n <= n - 1)
        BY <2>2, <2>5
      <4> HIDE DEF Bad
      <4>2. QED
        BY <2>1, <4>1
    <3>2. SoFar(g[1..(n - 1)], chance, n - 1)
      BY <3>1
    <3>3. Max(1..n) = n /\ (1..n) \ {n} = 1..(n - 1) /\ 1..n # {}
      <4>1. 1..n # {} /\ 1..n \subseteq Nat /\ n \in 1..n
        BY <3>1
      <4>2. IsFiniteSet(1..n)
        BY <2>3, GridIsFinite, FS_Subset
      <4>3. PICK m \in 1..n : m = Max(1..n) /\ \A x \in 1..n : x <= m
        BY <4>1, <4>2, MaxFacts
      <4>4. m = n
        BY <3>1, <4>1, <4>3
      <4>5. QED
        BY <3>1, <4>1, <4>3, <4>4
    <3>4. g[1..n] = Kept(chance, n, g[1..(n - 1)])
      BY <2>3, <3>1, <3>3 DEF Searched, Grid
    <3>5. QED
      BY <2>2, <3>1, <3>2, <3>4, KeptIsBest
  <2>6. QED
    BY <2>4, <2>5
<1>2. 17 \in 0..17
  OBVIOUS
<1>3. QED
  BY <1>1, <1>2

(* No discount brings more than the best, and none below it as much.        *)
LEMMA BestDiscountFacts ==
  ASSUME NEW chance \in [Discounts -> Nat]
  PROVE  /\ BestDiscount(chance) \in Discounts
         /\ \A e \in Discounts : Earns(chance, e) <= Earns(chance, BestDiscount(chance))
         /\ \A e \in Discounts : e < BestDiscount(chance) => Earns(chance, e) < Earns(chance, BestDiscount(chance))
<1>1. PICK g : IsSearch(g, chance) /\ BestDiscount(chance) = g[1..17].discount
  BY BestDiscountIsSearched
<1>2. PICK best : best = g[1..17] /\ SoFar(best, chance, 17) /\ BestDiscount(chance) = best.discount
  BY <1>1, SearchFinds
<1>3. \A e \in Discounts : \E k \in 1..17 : e = 5 * k
  BY DEF Discounts
<1>4. best.discount \in Discounts /\ best.revenue \in Nat /\ \A e \in Discounts : Earns(chance, e) \in Nat /\ Earns(chance, e) <= best.revenue
  BY <1>2, <1>3, EarnsType DEF SoFar
<1>5. CASE best = First5
  <2>1. best.discount = 5 /\ best.revenue = 0
    BY <1>5 DEF First5
  <2>2. \A e \in Discounts : ~(e < 5)
    BY <1>3
  <2>3. 5 \in Discounts /\ Earns(chance, 5) \in Nat
    BY <1>4, <2>1
  <2>4. \A e \in Discounts : Earns(chance, e) <= Earns(chance, 5)
    BY <1>4, <2>1, <2>3
  <2>5. QED
    BY <1>2, <2>1, <2>2, <2>3, <2>4
<1>6. ASSUME NEW j \in 1..17, best.discount = 5 * j, best.revenue = Earns(chance, 5 * j),
             \A k \in 1..(j - 1) : Earns(chance, 5 * k) < best.revenue
      PROVE  \A e \in Discounts : e < best.discount => Earns(chance, e) < best.revenue
  <2> TAKE e \in Discounts
  <2>1. PICK k \in 1..17 : e = 5 * k
    BY <1>3
  <2>2. 5 * k < 5 * j => k \in 1..(j - 1)
    OBVIOUS
  <2>3. QED
    BY <1>6, <2>1, <2>2
<1>7. QED
  BY <1>2, <1>4, <1>5, <1>6 DEF SoFar

-----------------------------------------------------------------------------
(* The rule in place of the model                                           *)

Limited(x) == IF x < 182500 THEN 182500 ELSE IF x > 3577000 THEN 3577000 ELSE x

(* The chance of a sale at no discount, before it is limited.               *)
Appeal(l) == 1095000 - 21900 * (100 - ScoreOf(l.score)) + 14600 * (Season[l.category] - 100) - 1000 * Min({l.days, 365})
RuleChances(l) == [d \in Discounts |-> RuleChance(l, d)]

LEMMA DiscountType ==
  ASSUME NEW d \in Discounts
  PROVE  d \in Nat /\ d <= 85 /\ 5 <= d /\ 100 - d \in Nat
BY DEF Discounts

LEMMA LineFacts ==
  ASSUME NEW l \in OrderLine
  PROVE  /\ l.isNew \in BOOLEAN /\ l.list \in Nat /\ l.quantity \in Int /\ l.days \in Nat /\ l.category \in Categories
         /\ ScoreOf(l.score) \in 0..100 /\ Supply[l.category] \in Nat /\ Season[l.category] \in 90..125
         /\ Min({l.days, 365}) \in 0..365
<1>1. /\ l.isNew \in BOOLEAN /\ l.list \in Nat /\ l.quantity \in Int /\ l.days \in Nat
      /\ l.category \in Categories /\ l.score \in {Unscored} \cup 0..100
  BY DEF OrderLine, Scores
<1>2. ScoreOf(l.score) \in 0..100
  BY <1>1 DEF ScoreOf, Unscored, DefaultScore
<1>3. \A c \in Categories : Supply[c] \in Nat /\ Season[c] \in 90..125
  BY DEF Categories, Supply, Season
<1>4. Min({l.days, 365}) \in 0..365
  <2>1. Min({l.days, 365}) = IF l.days <= 365 THEN l.days ELSE 365
    BY <1>1, LesserOfTwo
  <2>2. QED
    BY <1>1, <2>1
<1>5. QED
  BY <1>1, <1>2, <1>3, <1>4

LEMMA RuleIsLimited ==
  ASSUME NEW l \in OrderLine
  PROVE  /\ Appeal(l) \in Int
         /\ \A d \in Discounts : RuleChance(l, d) = Limited(Appeal(l) + 29200 * d)
         /\ RuleChances(l) \in [Discounts -> Nat]
<1>1. PICK s \in 0..100, z \in 90..125, m \in 0..365 :
        s = ScoreOf(l.score) /\ z = Season[l.category] /\ m = Min({l.days, 365})
  <2>1. ScoreOf(l.score) \in 0..100 /\ Season[l.category] \in 90..125 /\ Min({l.days, 365}) \in 0..365
    BY LineFacts
  <2>2. QED
    BY <2>1
<1>2. PICK a \in Int : a = Appeal(l) /\ a = 1095000 - 21900 * (100 - s) + 14600 * (z - 100) - 1000 * m
  <2>1. PICK a \in Int : a = 1095000 - 21900 * (100 - s) + 14600 * (z - 100) - 1000 * m
    BY SMTT(10)
  <2>2. Appeal(l) = a
    BY SMTT(10), <1>1, <2>1 DEF Appeal
  <2>3. QED
    BY SMTT(10), <2>1, <2>2
<1>3. ASSUME NEW d \in Discounts
      PROVE  RuleChance(l, d) = Limited(a + 29200 * d) /\ Limited(a + 29200 * d) \in Nat
  <2>1. d \in Nat
    BY SMTT(10), DiscountType
  <2>2. PICK x \in Int : x = a + 29200 * d
    BY SMTT(10), <2>1
  <2>3. RuleChance(l, d) = Max({182500, Min({3577000, x})})
    <3>1. x = 1095000 + 29200 * d - 21900 * (100 - s) + 14600 * (z - 100) - 1000 * m
      BY SMTT(10), <1>2, <2>1, <2>2
    <3>2. QED
      BY SMTT(10), <1>1, <3>1 DEF RuleChance
  <2>4. Min({3577000, x}) = IF 3577000 <= x THEN 3577000 ELSE x
    BY SMTT(10), LesserOfTwo
  <2>5. PICK y \in Int : y = Min({3577000, x})
    BY SMTT(10), <2>4
  <2>6. Max({182500, y}) = IF 182500 <= y THEN y ELSE 182500
    BY SMTT(10), GreaterOfTwo
  <2>7. QED
    BY SMTT(10), <2>2, <2>3, <2>4, <2>5, <2>6 DEF Limited
<1>4. RuleChances(l) \in [Discounts -> Nat]
  BY SMTT(10), <1>3 DEF RuleChances
<1>5. QED
  BY SMTT(10), <1>2, <1>3, <1>4

(* At d the worse copy earns most, at e the better one: e is no larger, for *)
(* what the better copy gains by its score is the same at every discount    *)
(* and counts less the larger the discount, as long as the chances of the   *)
(* worse copy are not at the floor.                                         *)
LEMMA BetterNeedsNoMore ==
  ASSUME NEW t \in Int, NEW u \in Int, -1277500 <= t, t <= u,
         NEW d \in Discounts, NEW e \in Discounts, d < e,
         Limited(t + 29200 * e) * (100 - e) <= Limited(t + 29200 * d) * (100 - d),
         Limited(t + 29200 * 70) * 30 <= Limited(t + 29200 * d) * (100 - d),
         Limited(u + 29200 * d) * (100 - d) < Limited(u + 29200 * e) * (100 - e)
  PROVE  FALSE
<1>1. PICK x \in Nat, y \in Nat : x = 100 - d /\ y = 100 - e /\ y < x /\ x <= 95
  BY SMTT(10), DiscountType
<1>2. d \in Nat /\ e \in Nat
  BY SMTT(10), DiscountType
<1>3. PICK a \in Int, b \in Int, more \in Nat :
        /\ a = t + 29200 * d /\ b = t + 29200 * e /\ a < b
        /\ a + more = u + 29200 * d /\ b + more = u + 29200 * e
  <2>1. u - t \in Nat
    BY SMTT(10)
  <2>2. QED
    BY SMTT(10), <1>2, <2>1
<1>4. PICK worseD \in Nat, worseE \in Nat, betterD \in Nat, betterE \in Nat :
        /\ worseD = Limited(a) /\ worseE = Limited(b) /\ betterD = Limited(a + more) /\ betterE = Limited(b + more)
        /\ worseE * y <= worseD * x /\ betterD * x < betterE * y
  <2>1. Limited(a) \in Nat /\ Limited(b) \in Nat /\ Limited(a + more) \in Nat /\ Limited(b + more) \in Nat
    BY SMTT(10), <1>3 DEF Limited
  <2>2. Limited(b) * y <= Limited(a) * x /\ Limited(a + more) * x < Limited(b + more) * y
    BY SMTT(10), <1>1, <1>3
  <2>3. QED
    BY SMTT(10), <2>1, <2>2
<1>5. 182500 < a
  <2>1. Limited(t + 29200 * 70) * 30 >= 22995000
    BY SMTT(10) DEF Limited
  <2>2. 22995000 <= worseD * x
    <3>1. PICK p \in Nat : p = worseD * x
      BY SMTT(10)
    <3>2. PICK q \in Int : q = Limited(t + 29200 * 70) * 30 /\ q <= p
      BY SMTT(10), <1>1, <1>3, <1>4, <3>1 DEF Limited
    <3>3. QED
      BY SMTT(10), <2>1, <3>1, <3>2
  <2>3. ASSUME a <= 182500 PROVE FALSE
    <3>1. worseD = 182500
      BY SMTT(10), <1>3, <1>4, <2>3 DEF Limited
    <3>2. QED
      BY SMTT(10), <1>1, <2>2, <3>1
  <2>4. QED
    BY SMTT(10), <1>3, <2>3
<1>6. a + more <= 3577000
  <2>1. ASSUME 3577000 < a + more PROVE FALSE
    <3>1. betterD = 3577000 /\ betterE = 3577000
      BY SMTT(10), <1>3, <1>4, <2>1 DEF Limited
    <3>2. QED
      BY SMTT(10), <1>1, <1>4, <3>1
  <2>2. QED
    BY SMTT(10), <1>3, <2>1
<1>7. worseD = a /\ betterD = worseD + more /\ betterE <= worseE + more
  BY SMTT(10), <1>3, <1>4, <1>5, <1>6 DEF Limited
<1>8. betterE * y <= (worseE + more) * y
  BY SMTT(10), <1>7
<1>9. more * y <= more * x
  BY SMTT(10), <1>1, SharesCompare
<1>10. (worseE + more) * y = worseE * y + more * y /\ betterD * x = worseD * x + more * x
  BY SMTT(10), <1>7
<1>11. PICK p \in Nat, q \in Nat, m \in Nat, n \in Nat, v \in Nat, w \in Nat :
         p = worseE * y /\ q = worseD * x /\ m = more * y /\ n = more * x /\ v = betterE * y /\ w = betterD * x
  BY SMTT(10)
<1>12. QED
  BY SMTT(10), <1>4, <1>8, <1>9, <1>10, <1>11

LEMMA OldPrice ==
  ASSUME NEW l \in OrderLine, NEW d \in Discounts
  PROVE  /\ l.list * Supply[l.category] \in Nat
         /\ Part(l.list * Supply[l.category], 100 - d, 100) \in Nat
<1>1. PICK x \in Nat, b \in Nat : x = l.list /\ b = Supply[l.category]
  BY LineFacts
<1>2. x * b \in Nat /\ 100 - d \in Nat
  BY DiscountType
<1>3. QED
  BY <1>1, <1>2, PartOfHundred

LEMMA PriceFallsWithDiscount ==
  ASSUME NEW x \in Nat, NEW d \in Discounts, NEW e \in Discounts, d <= e
  PROVE  RoundTo(Part(x, 100 - e, 100), 1000) \div 100 <= RoundTo(Part(x, 100 - d, 100), 1000) \div 100
<1>1. PICK m \in Nat, n \in Nat : m = 100 - e /\ n = 100 - d /\ m <= n
  BY DiscountType
<1>2. x * m <= x * n
  BY <1>1, SharesCompare
<1>3. PICK p \in Nat, q \in Nat : p = Part(x, m, 100) /\ q = Part(x, n, 100) /\ Share(p, x, m, 100) /\ Share(q, x, n, 100)
  BY PartOfHundred
<1>4. p <= q
  <2>1. PICK v \in Nat, w \in Nat : v = x * m /\ w = x * n
    OBVIOUS
  <2>2. QED
    BY <1>2, <1>3, <2>1 DEF Share
<1>5. QED
  BY <1>1, <1>3, <1>4, RoundingIsMonotone

(* Of two copies of a book the worse is not dearer, down to a score of 15.  *)
LEMMA WorseCopyIsNotDearer ==
  ASSUME NEW l \in OrderLine, NEW worse \in OrderLine, worse.list = l.list, worse.category = l.category,
         worse.days = l.days, 15 <= ScoreOf(worse.score), ScoreOf(worse.score) < ScoreOf(l.score)
  PROVE  UsedPrice(worse, RuleChances(worse)) <= UsedPrice(l, RuleChances(l))
<1>1. PICK t \in Int, u \in Int : t = Appeal(worse) /\ u = Appeal(l)
  BY RuleIsLimited
<1>2. -1277500 <= t /\ t <= u
  <2>1. PICK s \in 0..100 : s = ScoreOf(worse.score) /\ 15 <= s
    BY LineFacts
  <2>2. PICK better \in 0..100 : better = ScoreOf(l.score) /\ s < better
    BY <2>1, LineFacts
  <2>3. PICK z \in 90..125 : z = Season[l.category]
    BY LineFacts
  <2>4. PICK m \in 0..365 : m = Min({l.days, 365})
    BY LineFacts
  <2>5. /\ t = 1095000 - 21900 * (100 - s) + 14600 * (z - 100) - 1000 * m
        /\ u = 1095000 - 21900 * (100 - better) + 14600 * (z - 100) - 1000 * m
    BY SMTT(10), <1>1, <2>1, <2>2, <2>3, <2>4 DEF Appeal
  <2>6. -1277500 <= t
    BY SMTT(10), <2>1, <2>3, <2>4, <2>5
  <2>7. t <= u
    BY SMTT(10), <2>1, <2>2, <2>5
  <2>8. QED
    BY SMTT(10), <2>6, <2>7
<1>3. PICK d \in Discounts, e \in Discounts : d = BestDiscount(RuleChances(worse)) /\ e = BestDiscount(RuleChances(l))
  BY RuleIsLimited, BestDiscountFacts
<1>4. ASSUME d < e PROVE FALSE
  <2>1. \A x \in Discounts : Earns(RuleChances(worse), x) <= Earns(RuleChances(worse), d)
    BY <1>3, RuleIsLimited, BestDiscountFacts
  <2>2. Earns(RuleChances(l), d) < Earns(RuleChances(l), e)
    BY <1>3, <1>4, RuleIsLimited, BestDiscountFacts
  <2>3. \A x \in Discounts : /\ Earns(RuleChances(worse), x) = Limited(t + 29200 * x) * (100 - x)
                             /\ Earns(RuleChances(l), x) = Limited(u + 29200 * x) * (100 - x)
    BY SMTT(10), <1>1, RuleIsLimited DEF Earns, RuleChances
  <2>4. Earns(RuleChances(worse), 70) = Limited(t + 29200 * 70) * 30 /\ 70 \in Discounts
    <3>1. 70 \in Discounts
      <4>1. 14 \in 1..17 /\ 5 * 14 = 70
        OBVIOUS
      <4>2. QED
        BY <4>1 DEF Discounts
    <3>2. QED
      BY SMTT(10), <2>3, <3>1
  <2>5. /\ Limited(t + 29200 * e) * (100 - e) <= Limited(t + 29200 * d) * (100 - d)
        /\ Limited(t + 29200 * 70) * 30 <= Limited(t + 29200 * d) * (100 - d)
        /\ Limited(u + 29200 * d) * (100 - d) < Limited(u + 29200 * e) * (100 - e)
    BY SMTT(10), <2>1, <2>2, <2>3, <2>4
  <2>6. QED
    BY SMTT(10), <1>2, <1>4, <2>5, BetterNeedsNoMore
<1>5. e <= d
  BY <1>4, DiscountType
<1>6. QED
  BY <1>3, <1>5, OldPrice, PriceFallsWithDiscount DEF UsedPrice

-----------------------------------------------------------------------------
(* The lines of an order                                                    *)

(* A unit price is a multiple of ten won.                                   *)
LEMMA UnitPriceIsRound ==
  ASSUME NEW l \in OrderLine, NEW chance \in [Discounts -> Nat]
  PROVE  \E q \in Nat : UnitPrice(l, chance) = 10 * q
<1>1. \A x \in Nat : \E q \in Nat : RoundTo(x, 1000) \div 100 = 10 * q
  <2> TAKE x \in Nat
  <2>1. PICK q \in Nat : Rounded(x, 1000, q)
    BY RoundedToThousand
  <2>2. (1000 * q) \div 100 = 10 * q
    OBVIOUS
  <2>3. QED
    BY <2>1, <2>2 DEF Rounded
<1>2. l.list * 90 \in Nat
  <2>1. PICK x \in Nat : x = l.list
    BY LineFacts
  <2>2. x * 90 \in Nat
    OBVIOUS
  <2>3. QED
    BY <2>1, <2>2
<1>3. Part(l.list * Supply[l.category], 100 - BestDiscount(chance), 100) \in Nat
  BY BestDiscountFacts, OldPrice
<1>4. QED
  BY <1>1, <1>2, <1>3 DEF UnitPrice, NewPrice, UsedPrice

LEMMA NewPriceFacts ==
  ASSUME NEW l \in OrderLine
  PROVE  10 * NewPrice(l) >= 9 * l.list - 50 /\ (l.list % 100 = 0 => 10 * NewPrice(l) = 9 * l.list)
<1>1. PICK x \in Nat : x = l.list
  BY LineFacts
<1>2. PICK q \in Nat : Rounded(x * 90, 1000, q)
  BY <1>1, RoundedToThousand
<1>3. NewPrice(l) = 10 * q
  <2>1. (1000 * q) \div 100 = 10 * q
    OBVIOUS
  <2>2. QED
    BY <1>1, <1>2, <2>1 DEF NewPrice, Rounded
<1>4. 1000 * q <= x * 90 + 500 /\ x * 90 <= 1000 * q + 500
  BY <1>2 DEF Rounded
<1>5. ASSUME x % 100 = 0 PROVE 100 * q = 9 * x
  <2>1. PICK h \in Nat : x = 100 * h
    BY <1>5
  <2>2. QED
    BY <1>4, <2>1
<1>6. QED
  BY <1>1, <1>3, <1>4, <1>5

(* Multiples of ten add up to a multiple of ten.                            *)
LEMMA TensAddUp ==
  ASSUME NEW S, IsFiniteSet(S), NEW f, \A x \in S : \E q \in Nat : f[x] = 10 * q, NEW g, IsSum(g, f, S)
  PROVE  \E q \in Nat : g[S] = 10 * q
<1> DEFINE Right(s) == \E q \in Nat : g[s] = 10 * q
           Bad == { n \in Nat : \E s \in SUBSET S : Cardinality(s) = n /\ ~Right(s) }
<1>0. \A s \in SUBSET S : g[s] = Summed(g, f, s) /\ Cardinality(s) \in Nat
  BY FS_Subset, FS_CardinalityType DEF IsSum
<1>1. ASSUME Bad # {} PROVE FALSE
  <2>1. PICK n \in Bad : \A i \in Bad : n <= i
    BY <1>1, LeastExists
  <2>2. PICK s \in SUBSET S : Cardinality(s) = n /\ ~Right(s)
    BY <2>1
  <2>3. s # {}
    <3>1. s = {} => g[s] = 10 * 0
      BY <1>0, <2>2 DEF Summed
    <3>2. QED
      BY <2>2, <3>1
  <2>4. /\ Rest(s) \in SUBSET S /\ First(s) \in S
        /\ n \in Nat /\ n - 1 \in Nat /\ Cardinality(Rest(s)) = n - 1
    <3>1. First(s) \in s /\ Rest(s) \in SUBSET S /\ Cardinality(Rest(s)) = Cardinality(s) - 1
      BY <2>3, RestIsSmaller
    <3>2. Cardinality(Rest(s)) \in Nat /\ Cardinality(s) \in Nat
      BY <1>0, <3>1
    <3>3. QED
      BY <2>2, <3>1, <3>2
  <2>5. Right(Rest(s))
    <3>1. n - 1 \notin Bad
      <4> HIDE DEF Bad
      <4> QED
        BY <2>1, <2>4
    <3>2. QED
      BY <2>4, <3>1
  <2>6. PICK p \in Nat, q \in Nat : g[Rest(s)] = 10 * p /\ f[First(s)] = 10 * q
    BY <2>4, <2>5
  <2>7. g[s] = 10 * (q + p) /\ q + p \in Nat
    BY <1>0, <2>2, <2>3, <2>6 DEF Summed
  <2>8. QED
    BY <2>2, <2>7
<1>2. QED
  BY <1>0, <1>1

LEMMA AmountIsSum ==
  ASSUME NEW lines, NEW units, IsFiniteSet(DOMAIN lines)
  PROVE  \E g : /\ IsSum(g, [i \in DOMAIN lines |-> units[i] * lines[i].quantity], DOMAIN lines)
                /\ Amount(lines, units) = g[DOMAIN lines]
<1> DEFINE S == DOMAIN lines
           f == [i \in S |-> units[i] * lines[i].quantity]
           Solves(g) == g = [s \in SUBSET S |-> IF s = {} THEN 0
                               ELSE units[First(s)] * lines[First(s)].quantity + g[s \ {First(s)}]]
<1>1. Amount(lines, units) = (CHOOSE g : Solves(g))[S]
  BY DEF Amount, MapThenSumSet, MapThenFoldSet, First
<1>2. ASSUME NEW g PROVE Solves(g) <=> IsSum(g, f, S)
  <2> DEFINE Left == [s \in SUBSET S |-> IF s = {} THEN 0
                        ELSE units[First(s)] * lines[First(s)].quantity + g[s \ {First(s)}]]
             Right == [s \in SUBSET S |-> Summed(g, f, s)]
  <2>1. \A s \in SUBSET S : s # {} => First(s) \in S
    BY RestIsSmaller
  <2>2. Left = Right
    BY <2>1 DEF Summed, Rest
  <2>3. QED
    BY <2>2 DEF IsSum
<1>3. PICK k : Solves(k) /\ (CHOOSE g : Solves(g)) = k
  BY <1>2, SumExists
<1>4. IsSum(k, f, S)
  <2> HIDE DEF Solves
  <2> QED
    BY <1>2, <1>3
<1>5. QED
  BY <1>1, <1>3, <1>4

(* Lines of the same quantities come to the same.                           *)
LEMMA SameAmount ==
  ASSUME NEW lines, IsFiniteSet(DOMAIN lines), NEW stored, DOMAIN stored = DOMAIN lines, NEW units,
         \A i \in DOMAIN lines : units[i] * lines[i].quantity \in Nat /\ stored[i].quantity = lines[i].quantity
  PROVE  Amount(stored, units) = Amount(lines, units)
<1> DEFINE S == DOMAIN lines
           f == [i \in S |-> units[i] * lines[i].quantity]
           k == [i \in S |-> units[i] * stored[i].quantity]
<1>1. PICK g : IsSum(g, f, S) /\ Amount(lines, units) = g[S]
  BY AmountIsSum
<1>2. PICK h : IsSum(h, k, S) /\ Amount(stored, units) = h[S]
  BY AmountIsSum
<1>3. \A i \in S : f[i] \in Nat /\ k[i] \in Nat /\ f[i] <= k[i] /\ k[i] <= f[i]
  <2> TAKE i \in S
  <2>1. f[i] = units[i] * lines[i].quantity /\ k[i] = f[i] /\ f[i] \in Nat
    OBVIOUS
  <2> HIDE DEF f, k
  <2>2. QED
    BY <2>1
<1> HIDE DEF f, k
<1>4. g[S] \in Nat /\ h[S] \in Nat
  BY <1>1, <1>2, <1>3, SumIsNatural
<1>5. g[S] <= h[S]
  BY <1>1, <1>2, <1>3, SumsCompare
<1>6. h[S] <= g[S]
  BY <1>1, <1>2, <1>3, SumsCompare
<1>7. QED
  BY <1>1, <1>2, <1>4, <1>5, <1>6

(* The total, rounded or not, is the sum of the lines.                      *)
LEMMA TotalIsAmount ==
  ASSUME NEW lines, IsFiniteSet(DOMAIN lines), NEW units,
         \A i \in DOMAIN lines : lines[i].quantity \in Nat /\ \E q \in Nat : units[i] = 10 * q
  PROVE  Total(lines, units) = Amount(lines, units)
<1> DEFINE S == DOMAIN lines
           f == [i \in S |-> units[i] * lines[i].quantity]
<1>1. PICK g : IsSum(g, f, S) /\ Amount(lines, units) = g[S]
  BY AmountIsSum
<1>2. \A i \in S : \E q \in Nat : f[i] = 10 * q
  <2> TAKE i \in S
  <2>1. PICK n \in Nat, q \in Nat : lines[i].quantity = n /\ units[i] = 10 * q
    OBVIOUS
  <2>2. PICK m \in Nat : m = q * n
    OBVIOUS
  <2>3. (10 * q) * n = 10 * m
    BY <2>2
  <2>4. f[i] = 10 * m
    BY <2>1, <2>3
  <2>5. QED
    BY <2>4
<1>3. PICK q \in Nat : g[S] = 10 * q
  <2> HIDE DEF f
  <2>1. QED
    BY <1>1, <1>2, TensAddUp
<1>4. RoundTo(10 * q, 10) = 10 * q
  <2>1. PICK x \in Nat : x = 10 * q
    OBVIOUS
  <2>2. PICK p \in Nat : Rounded(x, 10, p)
    BY RoundedToTen
  <2>3. p = q
    BY <2>1, <2>2 DEF Rounded
  <2>4. QED
    BY <2>1, <2>2, <2>3 DEF Rounded
<1>5. Total(lines, units) = RoundTo(Amount(lines, units), 10)
  BY DEF Total
<1>6. QED
  BY <1>1, <1>3, <1>4, <1>5

-----------------------------------------------------------------------------
(* The answers                                                              *)

(* What is predicted for a line, and what its book costs.                   *)
ChancesOf(l, predict) == IF predict = << >> THEN RuleChances(l) ELSE predict
Quoted(lines, predict) == [i \in DOMAIN lines |-> UnitPrice(lines[i], ChancesOf(lines[i], predict))]
StoredLines(asked) == [i \in DOMAIN asked |-> Resolved(asked[i])]
PricedLines(asked) == [i \in DOMAIN asked |-> Priced(StoredLines(asked)[i])]
QuoteAnswer(stored, lines, predict) ==
  [service |-> "quote", stored |-> stored, lines |-> lines, predict |-> predict, units |-> Quoted(lines, predict),
   total |-> Total(lines, Quoted(lines, predict))]

LEMMA QuoteOrderAnswers ==
  ASSUME NEW asked, NEW predict, QuoteOrder(asked, predict)
  PROVE  answer' = QuoteAnswer(StoredLines(asked), PricedLines(asked), predict)
BY DEF QuoteOrder, Answer, QuoteAnswer, Quoted, ChancesOf, RuleChances, StoredLines, PricedLines

(* The two functions that put in what is missing agree on the quantity.     *)
LEMMA PricedFacts ==
  ASSUME NEW l \in OrderLine
  PROVE  /\ Priced(Resolved(l)) \in OrderLine /\ Priced(Resolved(l)).quantity \in Nat
         /\ Resolved(l).quantity = Priced(Resolved(l)).quantity
<1>1. /\ l.isNew \in BOOLEAN /\ l.list \in Nat /\ l.quantity \in Int /\ l.days \in Nat
      /\ l.score \in Scores /\ l.category \in Categories
  BY DEF OrderLine
<1>2. PICK n \in Nat : n = (IF l.isNew THEN Max({1, l.quantity}) ELSE 1) /\ 1 <= n
  <2>1. Max({1, l.quantity}) = IF 1 <= l.quantity THEN l.quantity ELSE 1
    BY <1>1, GreaterOfTwo
  <2>2. QED
    BY <1>1, <2>1
<1>3. PICK r \in OrderLine :
        /\ r = Resolved(l) /\ r.quantity = n /\ r.isNew = l.isNew /\ r.list = l.list /\ r.days = l.days
        /\ r.score = l.score /\ r.category = l.category
  <2>1. Resolved(l) = [l EXCEPT !.quantity = n]
    BY <1>2 DEF Resolved
  <2>2. [l EXCEPT !.quantity = n] \in OrderLine
    BY DEF OrderLine
  <2>3. QED
    BY <2>1, <2>2 DEF OrderLine
<1>4. Max({1, n}) = n
  <2>1. Max({1, n}) = IF 1 <= n THEN n ELSE 1
    BY GreaterOfTwo
  <2>2. QED
    BY <1>2, <2>1
<1>5. PICK m \in Nat : m = Max({1, r.days})
  <2>1. Max({1, l.days}) = IF 1 <= l.days THEN l.days ELSE 1
    BY <1>1, GreaterOfTwo
  <2>2. QED
    BY <1>1, <1>3, <2>1
<1>6. PICK x \in Nat : x = IF r.list = 0 THEN ListDefault ELSE r.list
  BY <1>1, <1>3 DEF ListDefault
<1>7. Priced(r) = [r EXCEPT !.list = x, !.days = m, !.quantity = n]
  BY <1>3, <1>4, <1>5, <1>6 DEF Priced
<1>8. [r EXCEPT !.list = x, !.days = m, !.quantity = n] \in OrderLine
  <2>1. PICK u \in OrderLine : u = [r EXCEPT !.list = x]
    BY DEF OrderLine
  <2>2. PICK v \in OrderLine : v = [u EXCEPT !.days = m]
    BY DEF OrderLine
  <2>3. [v EXCEPT !.quantity = n] \in OrderLine
    BY DEF OrderLine
  <2>4. [r EXCEPT !.list = x, !.days = m, !.quantity = n] = [v EXCEPT !.quantity = n]
    BY <2>1, <2>2
  <2>5. QED
    BY <2>3, <2>4
<1>9. Priced(r).quantity = n
  BY <1>7, <1>3 DEF OrderLine
<1>10. QED
  BY <1>3, <1>7, <1>8, <1>9

LEMMA LinesOfOrder ==
  ASSUME NEW asked \in UpTo(Lines, MaxLines), NEW lines, lines = PricedLines(asked)
  PROVE  /\ IsFiniteSet(DOMAIN lines) /\ DOMAIN StoredLines(asked) = DOMAIN lines
         /\ \A i \in DOMAIN lines : /\ lines[i] \in OrderLine /\ lines[i].quantity \in Nat
                                    /\ StoredLines(asked)[i].quantity = lines[i].quantity
<1>1. PICK m \in 1..MaxLines : asked \in [1..m -> Lines]
  BY DEF UpTo
<1>2. DOMAIN asked = 1..m /\ \A i \in 1..m : asked[i] \in OrderLine
  BY <1>1, DeskAssumption
<1>3. IsFiniteSet(1..m)
  <2>1. m \in Int /\ 1 \in Int
    OBVIOUS
  <2>2. QED
    BY <2>1, FS_Interval
<1>4. /\ DOMAIN lines = 1..m /\ DOMAIN StoredLines(asked) = 1..m
      /\ \A i \in 1..m : StoredLines(asked)[i] = Resolved(asked[i]) /\ lines[i] = Priced(Resolved(asked[i]))
  BY <1>2 DEF PricedLines, StoredLines
<1>5. QED
  BY <1>2, <1>3, <1>4, PricedFacts

LEMMA ChancesType ==
  ASSUME NEW l \in OrderLine, NEW predict \in {<< >>} \cup Chances
  PROVE  ChancesOf(l, predict) \in [Discounts -> Nat]
BY RuleIsLimited, DeskAssumption DEF ChancesOf

(* An order as it is answered: the facts of the property.                   *)
LEMMA QuotesAreRightInOrders ==
  ASSUME NEW asked \in UpTo(Lines, MaxLines), NEW predict \in {<< >>} \cup Chances,
         NEW lines, lines = PricedLines(asked),
         NEW a, a = QuoteAnswer(StoredLines(asked), lines, predict)
  PROVE  /\ a.service = "quote" /\ a.lines = lines /\ a.predict = predict /\ a.units = Quoted(lines, predict)
         /\ a.total = Amount(a.stored, a.units)
<1>1. /\ a.service = "quote" /\ a.lines = lines /\ a.predict = predict /\ a.units = Quoted(lines, predict)
      /\ a.total = Total(lines, Quoted(lines, predict)) /\ a.stored = StoredLines(asked)
  BY DEF QuoteAnswer
<1>2. \A i \in DOMAIN lines : lines[i].quantity \in Nat /\ \E q \in Nat : Quoted(lines, predict)[i] = 10 * q
  <2> TAKE i \in DOMAIN lines
  <2>1. lines[i] \in OrderLine
    BY LinesOfOrder
  <2>2. PICK q \in Nat : UnitPrice(lines[i], ChancesOf(lines[i], predict)) = 10 * q
    BY <2>1, ChancesType, UnitPriceIsRound
  <2>3. lines[i].quantity \in Nat
    BY LinesOfOrder
  <2>4. QED
    BY <2>2, <2>3 DEF Quoted
<1>3. Total(lines, Quoted(lines, predict)) = Amount(lines, Quoted(lines, predict))
  BY <1>2, LinesOfOrder, TotalIsAmount
<1>4. \A i \in DOMAIN lines : Quoted(lines, predict)[i] * lines[i].quantity \in Nat
  <2> TAKE i \in DOMAIN lines
  <2>1. PICK n \in Nat, q \in Nat : lines[i].quantity = n /\ Quoted(lines, predict)[i] = 10 * q
    BY <1>2
  <2>2. PICK m \in Nat : m = q * n
    OBVIOUS
  <2>3. (10 * q) * n = 10 * m
    BY <2>2
  <2>4. QED
    BY <2>1, <2>3
<1>5. Amount(StoredLines(asked), Quoted(lines, predict)) = Amount(lines, Quoted(lines, predict))
  BY <1>4, LinesOfOrder, SameAmount
<1>6. QED
  BY <1>1, <1>3, <1>5

LEMMA QuoteKeeps ==
  ASSUME NEW asked \in UpTo(Lines, MaxLines), NEW predict \in {<< >>} \cup Chances, QuoteOrder(asked, predict)
  PROVE  QuotesAreRight'
<1>1. PICK a, lines : a = answer' /\ lines = PricedLines(asked)
  OBVIOUS
<1>2. /\ a.service = "quote" /\ a.lines = lines /\ a.predict = predict /\ a.units = Quoted(lines, predict)
      /\ a.total = Amount(a.stored, a.units)
  BY <1>1, QuoteOrderAnswers, QuotesAreRightInOrders
<1>3. \A i \in DOMAIN lines :
        /\ lines[i] \in OrderLine /\ lines[i].isNew \in BOOLEAN
        /\ lines[i].isNew => a.units[i] = NewPrice(lines[i])
        /\ ~lines[i].isNew => a.units[i] = UsedPrice(lines[i], ChancesOf(lines[i], predict))
  BY <1>1, <1>2, LinesOfOrder, LineFacts DEF Quoted, UnitPrice
<1>4. OrderAddsUp'
  BY <1>1, <1>2 DEF OrderAddsUp
<1>5. NewPriceIsFixed'
  <2>1. \A i \in DOMAIN lines : lines[i].isNew =>
          /\ 10 * a.units[i] >= 9 * lines[i].list - 50
          /\ lines[i].list % 100 = 0 => 10 * a.units[i] = 9 * lines[i].list
    BY <1>3, NewPriceFacts
  <2>2. QED
    BY <1>1, <1>2, <2>1 DEF NewPriceIsFixed
<1>6. WorseIsNotDearer'
  <2>1. ASSUME predict = << >>, NEW i \in DOMAIN lines, NEW s \in 15..100, ~lines[i].isNew,
               s < ScoreOf(lines[i].score),
               NEW worse, worse = [lines[i] EXCEPT !.score = s]
        PROVE  UsedPrice(worse, RuleChances(worse)) <= a.units[i]
    <3>1. worse \in OrderLine /\ worse.list = lines[i].list /\ worse.category = lines[i].category
          /\ worse.days = lines[i].days /\ worse.score = s
      <4>0. lines[i] \in OrderLine
        BY <1>1, LinesOfOrder
      <4>1. PICK l \in OrderLine : l = lines[i]
        BY <4>0
      <4>2. s \in Scores
        BY DEF Scores
      <4>3. [l EXCEPT !.score = s] \in OrderLine
        BY <4>2 DEF OrderLine
      <4>4. worse = [l EXCEPT !.score = s]
        BY <2>1, <4>1
      <4>5. QED
        BY <4>1, <4>3, <4>4 DEF OrderLine
    <3>2. ScoreOf(worse.score) = s
      <4>1. worse.score = s /\ s # Unscored
        BY <3>1 DEF Unscored
      <4>2. QED
        BY <4>1 DEF ScoreOf
    <3>3. 15 <= ScoreOf(worse.score) /\ ScoreOf(worse.score) < ScoreOf(lines[i].score)
      <4>1. 15 <= s
        OBVIOUS
      <4>2. QED
        BY <2>1, <3>2, <4>1
    <3>4. a.units[i] = UsedPrice(lines[i], RuleChances(lines[i]))
      BY <1>3, <2>1 DEF ChancesOf
    <3>5. QED
      BY <1>3, <3>1, <3>3, <3>4, WorseCopyIsNotDearer
  <2>2. QED
    BY <1>1, <1>2, <2>1 DEF WorseIsNotDearer, RuleChances
<1>7. DiscountIsBest'
  <2>1. ASSUME predict # << >>, NEW i \in DOMAIN lines, ~lines[i].isNew
        PROVE  \E d \in Discounts :
                 /\ a.units[i] = RoundTo(Part(lines[i].list * Supply[lines[i].category], 100 - d, 100), 1000) \div 100
                 /\ \A e \in Discounts : predict[e] * (100 - e) <= predict[d] * (100 - d)
    <3>1. predict \in [Discounts -> Nat] /\ a.units[i] = UsedPrice(lines[i], predict)
      BY <1>3, <2>1, DeskAssumption DEF ChancesOf
    <3>2. PICK d \in Discounts : d = BestDiscount(predict) /\ \A e \in Discounts : Earns(predict, e) <= Earns(predict, d)
      BY <3>1, BestDiscountFacts
    <3>3. QED
      BY <3>1, <3>2 DEF UsedPrice, Earns
  <2>2. QED
    BY <1>1, <1>2, <2>1 DEF DiscountIsBest
<1>8. TagIsBetween'
  BY <1>1, <1>2 DEF TagIsBetween
<1>9. QED
  BY <1>4, <1>5, <1>6, <1>7, <1>8 DEF QuotesAreRight

LEMMA TagKeeps ==
  ASSUME NEW t \in Tags, AskTag(t)
  PROVE  QuotesAreRight'
<1>1. t \in TaggedBook
  BY DeskAssumption
<1>2. PICK a : a = answer'
  OBVIOUS
<1>3. a.service = "tag" /\ a.tag = t /\ a.supply = SupplyPrice(t) /\ a.retail = RetailPrice(t)
  BY <1>2 DEF AskTag, Answer
<1>4. TagIsBetween'
  BY <1>1, <1>2, <1>3, TagsAreBetween DEF TagIsBetween
<1>5. QED
  BY <1>2, <1>3, <1>4
  DEF QuotesAreRight, OrderAddsUp, NewPriceIsFixed, WorseIsNotDearer, DiscountIsBest

LEMMA OtherAnswersKeep ==
  ASSUME answer'.service \notin {"quote", "tag"}
  PROVE  QuotesAreRight'
BY
DEF QuotesAreRight, TagIsBetween, OrderAddsUp, NewPriceIsFixed, WorseIsNotDearer, DiscountIsBest

LEMMA AskKeeps ==
  ASSUME Ask
  PROVE  QuotesAreRight'
<1>1. CASE \E lines \in UpTo(Lines, MaxLines), p \in {<< >>} \cup Chances : QuoteOrder(lines, p)
  BY <1>1, QuoteKeeps
<1>2. CASE \E t \in Tags : AskTag(t)
  BY <1>2, TagKeeps
<1>3. CASE answer'.service \in {"parcel", "box", "flaws", "page"}
  BY <1>3, OtherAnswersKeep
<1>4. ASSUME NEW books, AskParcel(books) PROVE answer'.service = "parcel"
  BY <1>4 DEF AskParcel, Answer
<1>5. ASSUME NEW books, AskBox(books) PROVE answer'.service = "box"
  BY <1>5 DEF AskBox, Answer
<1>6. ASSUME NEW seen, NEW loaded, AskFlaws(seen, loaded) PROVE answer'.service = "flaws"
  BY <1>6 DEF AskFlaws, Answer
<1>7. ASSUME NEW region, NEW size, NEW found, AskPage(region, size, found) PROVE answer'.service = "page"
  BY <1>7 DEF AskPage, Answer
<1>8. QED
  BY <1>1, <1>2, <1>3, <1>4, <1>5, <1>6, <1>7 DEF Ask

(* Whatever order is quoted and whatever book is tagged, at every list      *)
(* price, score and age and whatever the model predicts, the prices are in  *)
(* order, the total is the sum of the lines, and the discount is the best.  *)
THEOREM QuotesAreAlwaysRight == DeskSpec => []QuotesAreRight
<1>1. DeskInit => QuotesAreRight
  <2>1. DeskInit => answer.service = "none"
    BY DEF DeskInit, Nothing
  <2>2. QED
    BY <2>1
    DEF QuotesAreRight, TagIsBetween, OrderAddsUp, NewPriceIsFixed, WorseIsNotDearer,
        DiscountIsBest
<1>2. QuotesAreRight /\ [DeskNext]_<<vars, answer, weeklyVars>> => QuotesAreRight'
  <2> SUFFICES ASSUME QuotesAreRight, [DeskNext]_<<vars, answer, weeklyVars>>
               PROVE  QuotesAreRight'
    OBVIOUS
  <2>1. CASE Ask
    BY <2>1, AskKeeps
  <2>2. CASE UNCHANGED answer
    <3>1. TagIsBetween' /\ OrderAddsUp' /\ NewPriceIsFixed'
      BY <2>2 DEF QuotesAreRight, TagIsBetween, OrderAddsUp, NewPriceIsFixed
    <3>2. WorseIsNotDearer'
      BY <2>2 DEF QuotesAreRight, WorseIsNotDearer
    <3>3. DiscountIsBest'
      BY <2>2 DEF QuotesAreRight, DiscountIsBest
    <3>4. QED
      BY <3>1, <3>2, <3>3 DEF QuotesAreRight
  <2>3. QED
    BY <2>1, <2>2 DEF DeskNext
<1>3. QED
  BY <1>1, <1>2, PTL DEF DeskSpec

-----------------------------------------------------------------------------
(* What a recursion over the subsets of a finite set computes               *)

(* A set is computed from a smaller part of it.                             *)
Shrinks(part, S) ==
  \A s \in SUBSET S : s # {} => part[s] \in SUBSET S /\ Cardinality(part[s]) < Cardinality(s)

(* What holds of the empty set, and of a set when it holds of its part.     *)
LEMMA SubsetInduction ==
  ASSUME NEW S, IsFiniteSet(S), NEW part, Shrinks(part, S), NEW Good, {} \in Good,
         \A s \in SUBSET S : s # {} /\ part[s] \in Good => s \in Good
  PROVE  \A s \in SUBSET S : s \in Good
<1> DEFINE Bad == { n \in Nat : \E s \in SUBSET S : Cardinality(s) = n /\ s \notin Good }
<1>0. \A s \in SUBSET S : Cardinality(s) \in Nat
  BY FS_Subset, FS_CardinalityType
<1>1. ASSUME Bad # {} PROVE FALSE
  <2>1. PICK n \in Bad : \A i \in Bad : n <= i
    BY <1>1, LeastExists
  <2>2. PICK s \in SUBSET S : Cardinality(s) = n /\ s \notin Good
    BY <2>1
  <2>3. PICK t \in SUBSET S : t = part[s] /\ t \notin Good /\ Cardinality(t) < n
    BY <2>2 DEF Shrinks
  <2>4. PICK m \in Nat : m = Cardinality(t)
    BY <1>0
  <2>5. m \in Bad
    BY <2>3, <2>4
  <2>6. n \in Nat /\ n <= m /\ m < n
    <3> HIDE DEF Bad
    <3>1. n <= m
      BY <2>1, <2>5
    <3>2. n \in Nat
      BY <2>1 DEF Bad
    <3> QED
      BY <2>3, <2>4, <3>1, <3>2
  <2>7. QED
    BY <2>4, <2>6
<1>2. QED
  BY <1>0, <1>1

(* A recursion that goes from a set to a smaller part defines a function.   *)
Computed(g, part, base, step, s) == IF s = {} THEN base ELSE step[<< s, g[part[s]] >>]
Computes(g, S, part, base, step) == g = [s \in SUBSET S |-> Computed(g, part, base, step, s)]

LEMMA RecursionExists ==
  ASSUME NEW S, IsFiniteSet(S), NEW part, Shrinks(part, S), NEW base, NEW step
  PROVE  \E g : Computes(g, S, part, base, step)
<1> DEFINE Below(n) == { s \in SUBSET S : Cardinality(s) < n }
           Solves(g, n) == g = [s \in Below(n) |-> Computed(g, part, base, step, s)]
           Unsolved == { n \in Nat : ~ \E g : Solves(g, n) }
<1>0. \A s \in SUBSET S : Cardinality(s) \in Nat
  BY FS_Subset, FS_CardinalityType
<1>1. ASSUME Unsolved # {} PROVE FALSE
  <2>1. PICK n \in Unsolved : \A i \in Unsolved : n <= i
    BY <1>1, LeastExists
  <2>2. CASE n = 0
    <3>1. Below(0) = {}
      BY <1>0
    <3>2. [s \in {} |-> Computed(<< >>, part, base, step, s)] = << >>
      OBVIOUS
    <3>3. Solves(<< >>, 0)
      BY <3>1, <3>2
    <3>4. QED
      BY <2>1, <2>2, <3>3
  <2>3. CASE n # 0
    <3>1. n - 1 \in Nat /\ n - 1 \notin Unsolved
      <4>1. n \in Nat /\ ~(n <= n - 1)
        BY <2>1
      <4> HIDE DEF Unsolved
      <4>2. n - 1 \notin Unsolved
        BY <2>1, <4>1
      <4> QED
        BY <2>3, <4>1, <4>2
    <3>2. PICK g : Solves(g, n - 1)
      BY <3>1
    <3> DEFINE h == [s \in Below(n) |-> Computed(g, part, base, step, s)]
    <3>3. ASSUME NEW s \in Below(n) PROVE Computed(h, part, base, step, s) = Computed(g, part, base, step, s)
      <4>1. CASE s # {}
        <5>1. part[s] \in Below(n - 1) /\ part[s] \in Below(n)
          <6>1. PICK c \in Nat, d \in Nat : c = Cardinality(part[s]) /\ d = Cardinality(s) /\ c < d /\ d < n
            BY <1>0, <4>1 DEF Shrinks
          <6>2. c < n - 1 /\ c < n
            BY <2>1, <6>1
          <6>3. part[s] \in SUBSET S
            BY <4>1 DEF Shrinks
          <6>4. QED
            BY <6>1, <6>2, <6>3
        <5>2. h[part[s]] = Computed(g, part, base, step, part[s]) /\ g[part[s]] = Computed(g, part, base, step, part[s])
          BY <3>2, <5>1
        <5>3. QED
          BY <5>2 DEF Computed
      <4>2. QED
        BY <4>1 DEF Computed
    <3>4. Solves(h, n)
      <4> HIDE DEF Below
      <4>1. [s \in Below(n) |-> Computed(h, part, base, step, s)] = h
        BY <3>3
      <4> QED
        BY <4>1
    <3>5. QED
      BY <2>1, <3>4
  <2>4. QED
    BY <2>2, <2>3
<1>2. Cardinality(S) + 1 \in Nat /\ Below(Cardinality(S) + 1) = SUBSET S
  <2>1. Cardinality(S) \in Nat /\ \A s \in SUBSET S : Cardinality(s) <= Cardinality(S)
    BY FS_CardinalityType, FS_Subset
  <2>2. QED
    BY <1>0, <2>1
<1>3. PICK g : Solves(g, Cardinality(S) + 1)
  BY <1>1, <1>2
<1>4. QED
  BY <1>2, <1>3 DEF Computes

(* The elements one after the other.                                        *)
LEMMA RestShrinks ==
  ASSUME NEW S, IsFiniteSet(S), NEW pick, \A s \in SUBSET S : s # {} => pick[s] \in s
  PROVE  Shrinks([s \in SUBSET S |-> s \ {pick[s]}], S)
<1> DEFINE part == [s \in SUBSET S |-> s \ {pick[s]}]
<1>1. ASSUME NEW s \in SUBSET S, s # {}
      PROVE  part[s] \in SUBSET S /\ Cardinality(part[s]) < Cardinality(s)
  <2>1. IsFiniteSet(s) /\ pick[s] \in s
    BY <1>1, FS_Subset
  <2>2. Cardinality(s) \in Nat /\ Cardinality(s \ {pick[s]}) = Cardinality(s) - 1
    BY <2>1, FS_RemoveElement, FS_CardinalityType
  <2>3. QED
    BY <2>2
<1> HIDE DEF part
<1>2. Shrinks(part, S)
  BY <1>1 DEF Shrinks
<1>3. QED
  BY <1>2 DEF part

(* One of a finite set comes after all others, in an order of all of them.  *)
LEMMA LastOfOrder ==
  ASSUME NEW S, IsFiniteSet(S), S # {}, NEW R,
         \A x, y \in S : x = y \/ << x, y >> \in R \/ << y, x >> \in R,
         \A x, y, z \in S : << x, y >> \in R /\ << y, z >> \in R => << x, z >> \in R
  PROVE  \E m \in S : \A x \in S \ {m} : << x, m >> \in R
<1> DEFINE pick == [s \in SUBSET S |-> First(s)]
           part == [s \in SUBSET S |-> s \ {pick[s]}]
           Good == { s \in SUBSET S : s = {} \/ \E m \in s : \A x \in s \ {m} : << x, m >> \in R }
<1>1. \A s \in SUBSET S : s # {} => pick[s] \in s
  BY RestIsSmaller
<1>2. Shrinks(part, S)
  <2> HIDE DEF pick
  <2> QED
    BY <1>1, RestShrinks
<1>3. ASSUME NEW s \in SUBSET S, s # {}, part[s] \in Good PROVE s \in Good
  <2>1. PICK y \in s : y = pick[s] /\ part[s] = s \ {y}
    BY <1>1, <1>3
  <2>2. CASE part[s] = {}
    BY <2>1, <2>2
  <2>3. CASE part[s] # {}
    <3>1. PICK m \in s \ {y} : \A x \in (s \ {y}) \ {m} : << x, m >> \in R
      BY <1>3, <2>1, <2>3
    <3>2. CASE << y, m >> \in R
      BY <3>1, <3>2
    <3>3. CASE << m, y >> \in R
      <4>1. \A x \in s \ {y} : << x, y >> \in R
        BY <3>1, <3>3
      <4>2. QED
        BY <4>1
    <3>4. QED
      BY <3>1, <3>2, <3>3
  <2>4. QED
    BY <2>2, <2>3
<1>4. {} \in Good
  OBVIOUS
<1>5. S \in Good
  <2> HIDE DEF Good, part
  <2> QED
    BY <1>2, <1>3, <1>4, SubsetInduction
<1>6. QED
  BY <1>5

-----------------------------------------------------------------------------
(* The books of a parcel                                                    *)

LEMMA BookFacts ==
  ASSUME NEW b \in PrintedBook
  PROVE  Thickness(b) \in Nat \ {0} /\ Weight(b) \in Nat
<1>1. /\ b.pages \in Nat /\ b.l \in Nat /\ b.w \in Nat /\ b.colour \in BOOLEAN /\ b.hard \in BOOLEAN
  BY DEF PrintedBook
<1>2. Thickness(b) \in Nat \ {0}
  <2>1. PICK k \in {5, 8} : k = IF b.colour THEN 8 ELSE 5
    OBVIOUS
  <2>2. PICK m \in Nat : m = b.pages * k
    BY <1>1
  <2>3. PICK n \in Nat : n = m \div 10 + (IF b.hard THEN 60 ELSE 0)
    OBVIOUS
  <2>4. Thickness(b) = Max({30, n})
    BY <2>1, <2>2, <2>3 DEF Thickness
  <2>5. Max({30, n}) = IF 30 <= n THEN n ELSE 30
    BY GreaterOfTwo
  <2>6. QED
    BY <2>4, <2>5
<1>3. Weight(b) \in Nat
  <2>1. PICK k \in Nat : k = IF b.colour THEN 120 ELSE 80
    OBVIOUS
  <2>2. PICK a \in Nat : a = b.l * b.w
    BY <1>1
  <2>3. PICK s \in Nat : s = a \div 10000
    BY SMTT(10)
  <2>4. PICK m \in Nat : m = b.pages * s * k
    BY <1>1
  <2>5. PICK n \in Nat : n = m \div 20000
    BY SMTT(10)
  <2>6. Weight(b) = n + (IF b.hard THEN 150 ELSE 50)
    BY <2>1, <2>2, <2>3, <2>4, <2>5, SMTT(10) DEF Weight
  <2>7. QED
    BY <2>6
<1>4. QED
  BY <1>2, <1>3

ItemType == [key : STRING \X Nat, n : Nat, l : Nat \ {0}, w : Nat \ {0}, h : Nat \ {0}, g : Nat]

(* What is sent: every item has a key and a number of its own.              *)
Sent(items) ==
  IsFiniteSet(items) /\ items \subseteq ItemType /\ \A i, j \in items : i.key = j.key \/ i.n = j.n => i = j

LEMMA ItemsAreSent ==
  ASSUME NEW m \in Nat, NEW books \in [1..m -> PrintedBook], m > 0
  PROVE  Sent(Items(books)) /\ Items(books) # {}
<1> DEFINE item == [i \in 1..m |-> [key |-> Keys(books, i), n |-> i, l |-> books[i].l, w |-> books[i].w,
                                    h |-> Thickness(books[i]), g |-> Weight(books[i])]]
<1>1. Items(books) = {item[i] : i \in 1..m}
  BY DEF Items
<1>2. ASSUME NEW i \in 1..m
      PROVE  item[i] \in ItemType /\ item[i].n = i /\ item[i].key = << books[i].id, i >>
  <2>1. PICK b \in PrintedBook : b = books[i]
    OBVIOUS
  <2>2. PICK h \in Nat \ {0}, g \in Nat : h = Thickness(b) /\ g = Weight(b)
    BY BookFacts
  <2>3. item[i] = [key |-> << b.id, i >>, n |-> i, l |-> b.l, w |-> b.w, h |-> h, g |-> g]
    BY <2>1, <2>2 DEF Keys
  <2>4. b.id \in STRING /\ b.l \in Nat \ {0} /\ b.w \in Nat \ {0}
    BY DEF PrintedBook
  <2>5. QED
    BY <2>1, <2>3, <2>4 DEF ItemType
<1> HIDE DEF item
<1>3. IsFiniteSet(1..m)
  BY FS_Interval
<1>4. IsFiniteSet(Items(books))
  BY <1>1, <1>3, ImageIsFinite
<1>5. ASSUME NEW x \in Items(books), NEW y \in Items(books), x.key = y.key \/ x.n = y.n PROVE x = y
  <2>1. PICK i \in 1..m, j \in 1..m : x = item[i] /\ y = item[j]
    BY <1>1
  <2>2. i = j
    BY <1>2, <1>5, <2>1
  <2>3. QED
    BY <2>1, <2>2
<1>6. QED
  BY <1>1, <1>2, <1>4, <1>5 DEF Sent

(* The order in which they are laid.                                        *)
LEMMA HeavierOrders ==
  ASSUME NEW x \in ItemType, NEW y \in ItemType, NEW z \in ItemType
  PROVE  /\ x.n # y.n => Heavier(x, y) \/ Heavier(y, x)
         /\ Heavier(x, y) /\ Heavier(y, z) => Heavier(x, z)
<1>1. PICK a \in Nat, b \in Nat, c \in Nat : a = x.l * x.w /\ b = y.l * y.w /\ c = z.l * z.w
  BY DEF ItemType
<1>2. /\ x.g \in Nat /\ y.g \in Nat /\ z.g \in Nat /\ x.h \in Nat /\ y.h \in Nat /\ z.h \in Nat
      /\ x.n \in Nat /\ y.n \in Nat /\ z.n \in Nat
  BY DEF ItemType
<1>3. QED
  BY <1>1, <1>2 DEF Heavier

LEMMA LightestIsThere ==
  ASSUME NEW items, Sent(items)
  PROVE  \A s \in SUBSET items : s # {} => Lightest(s) \in s
<1> DEFINE R == { p \in ItemType \X ItemType : Heavier(p[1], p[2]) }
<1>1. ASSUME NEW s \in SUBSET items, s # {} PROVE \E i \in s : \A j \in s \ {i} : Heavier(j, i)
  <2>1. IsFiniteSet(s) /\ s \subseteq ItemType
    BY FS_Subset DEF Sent
  <2>2. \A x, y \in s : x = y \/ << x, y >> \in R \/ << y, x >> \in R
    <3> TAKE x, y \in s
    <3>1. x \in ItemType /\ y \in ItemType /\ (x = y \/ x.n # y.n)
      BY <2>1 DEF Sent
    <3>2. QED
      BY <3>1, HeavierOrders
  <2>3. \A x, y, z \in s : << x, y >> \in R /\ << y, z >> \in R => << x, z >> \in R
    BY <2>1, HeavierOrders
  <2> HIDE DEF R
  <2>4. PICK m \in s : \A x \in s \ {m} : << x, m >> \in R
    BY <1>1, <2>1, <2>2, <2>3, LastOfOrder
  <2>5. QED
    BY <2>4 DEF R
<1>2. QED
  BY <1>1 DEF Lightest

-----------------------------------------------------------------------------
(* What is laid where                                                       *)

PlacedType == [key : STRING \X Nat, x : Nat, y : Nat, z : Nat, l : Nat \ {0}, w : Nat \ {0}, h : Nat \ {0}]
Spot       == Nat \X Nat \X Nat
SpaceType  == [l : Int, w : Int, h : Int, g : Nat]

LEMMA OverlapFacts ==
  ASSUME NEW a \in Int, NEW al \in Int, NEW b \in Int, NEW bl \in Int
  PROVE  Overlapping(a, al, b, bl) \in Nat /\ Overlapping(a, al, b, bl) = Overlapping(b, bl, a, al)
<1>1. PICK to \in Int : to = Min({a + al, b + bl})
  BY LesserOfTwo
<1>2. PICK from \in Int : from = Max({a, b})
  BY GreaterOfTwo
<1>3. Max({0, to - from}) \in Nat
  <2>1. Max({0, to - from}) = IF 0 <= to - from THEN to - from ELSE 0
    BY GreaterOfTwo
  <2>2. QED
    BY <2>1
<1>4. {a + al, b + bl} = {b + bl, a + al} /\ {a, b} = {b, a}
  OBVIOUS
<1>5. QED
  BY <1>1, <1>2, <1>3, <1>4 DEF Overlapping

LEMMA SharedType ==
  ASSUME NEW p \in PlacedType, NEW q \in PlacedType
  PROVE  Shared(p, q) \in Nat
<1>1. /\ p.x \in Int /\ p.y \in Int /\ p.l \in Int /\ p.w \in Int
      /\ q.x \in Int /\ q.y \in Int /\ q.l \in Int /\ q.w \in Int
  BY DEF PlacedType
<1>2. PICK m \in Nat, n \in Nat :
        m = Overlapping(p.x, p.l, q.x, q.l) /\ n = Overlapping(p.y, p.w, q.y, q.w)
  BY <1>1, OverlapFacts
<1>3. QED
  BY <1>2 DEF Shared

(* Two books collide or do not.                                             *)
LEMMA CollisionIsMutual ==
  ASSUME NEW p \in PlacedType, NEW q \in PlacedType
  PROVE  Collides(p, {q}) <=> Collides(q, {p})
<1>1. Overlapping(p.x, p.l, q.x, q.l) = Overlapping(q.x, q.l, p.x, p.l)
  BY OverlapFacts DEF PlacedType
<1>2. Overlapping(p.y, p.w, q.y, q.w) = Overlapping(q.y, q.w, p.y, p.w)
  BY OverlapFacts DEF PlacedType
<1>3. Overlapping(p.z, p.h, q.z, q.h) = Overlapping(q.z, q.h, p.z, p.h)
  BY OverlapFacts DEF PlacedType
<1>4. QED
  BY <1>1, <1>2, <1>3 DEF Collides

LEMMA CarriedIsSum ==
  ASSUME NEW p, NEW S, IsFiniteSet(S)
  PROVE  \E g : IsSum(g, [q \in S |-> Shared(p, q)], S) /\ Carried(p, S) = g[S]
<1> DEFINE f == [q \in S |-> Shared(p, q)]
           Solves(g) == g = [s \in SUBSET S |-> IF s = {} THEN 0 ELSE Shared(p, First(s)) + g[s \ {First(s)}]]
<1>1. Carried(p, S) = (CHOOSE g : Solves(g))[S]
  BY DEF Carried, MapThenSumSet, MapThenFoldSet, First
<1>2. ASSUME NEW g PROVE Solves(g) <=> IsSum(g, f, S)
  <2> DEFINE Left == [s \in SUBSET S |-> IF s = {} THEN 0 ELSE Shared(p, First(s)) + g[s \ {First(s)}]]
             Right == [s \in SUBSET S |-> Summed(g, f, s)]
  <2>1. \A s \in SUBSET S : s # {} => First(s) \in S
    BY RestIsSmaller
  <2>2. Left = Right
    BY <2>1 DEF Summed, Rest
  <2>3. QED
    BY <2>2 DEF IsSum
<1>3. PICK k : Solves(k) /\ (CHOOSE g : Solves(g)) = k
  BY <1>2, SumExists
<1>4. IsSum(k, f, S)
  <2> HIDE DEF Solves
  <2> QED
    BY <1>2, <1>3
<1>5. QED
  BY <1>1, <1>3, <1>4

(* More books below carry no less.                                          *)
LEMMA MoreCarryMore ==
  ASSUME NEW p \in PlacedType, NEW T, IsFiniteSet(T), T \subseteq PlacedType, NEW S, S \subseteq T
  PROVE  Carried(p, S) \in Nat /\ Carried(p, T) \in Nat /\ Carried(p, S) <= Carried(p, T)
<1> DEFINE f == [q \in S |-> Shared(p, q)]
           k == [q \in T |-> Shared(p, q)]
<1>1. IsFiniteSet(S)
  BY FS_Subset
<1>2. PICK g : IsSum(g, f, S) /\ Carried(p, S) = g[S]
  BY <1>1, CarriedIsSum
<1>3. PICK h : IsSum(h, k, T) /\ Carried(p, T) = h[T]
  BY CarriedIsSum
<1>4. (\A q \in T : k[q] \in Nat) /\ \A q \in S : f[q] = k[q] /\ f[q] \in Nat
  BY SharedType
<1> HIDE DEF f, k
<1>5. g[S] <= h[T]
  BY <1>2, <1>3, <1>4, SumMonotone
<1>6. g[S] \in Nat /\ h[T] \in Nat
  BY <1>1, <1>2, <1>3, <1>4, SumIsNatural
<1>7. QED
  BY <1>2, <1>3, <1>5, <1>6

LEMMA SupportStays ==
  ASSUME NEW p \in PlacedType, NEW T, IsFiniteSet(T), T \subseteq PlacedType, NEW S, S \subseteq T, Supported(p, S)
  PROVE  Supported(p, T)
<1>1. CASE p.z = 0
  BY <1>1 DEF Supported
<1>2. CASE p.z # 0
  <2> DEFINE Below(U) == {q \in U : q.z + q.h = p.z}
  <2>1. IsFiniteSet(Below(T)) /\ Below(T) \subseteq PlacedType /\ Below(S) \subseteq Below(T)
    BY FS_Subset
  <2>2. PICK m \in Nat, n \in Nat : m = Carried(p, Below(S)) /\ n = Carried(p, Below(T)) /\ m <= n
    <3> HIDE DEF Below
    <3> QED
      BY <2>1, MoreCarryMore
  <2>3. PICK b \in Nat : b = 3 * p.l * p.w
    BY DEF PlacedType
  <2>4. 4 * m >= b
    BY <1>2, <2>2, <2>3 DEF Supported
  <2>5. 4 * n >= b
    BY <2>2, <2>4
  <2>6. QED
    BY <2>2, <2>3, <2>5 DEF Supported
<1>3. QED
  BY <1>1, <1>2

(* The order of the points.                                                 *)
LEMMA LowestIsThere ==
  ASSUME NEW points, IsFiniteSet(points), points \subseteq Spot, points # {}
  PROVE  Lowest(points) \in points
<1> DEFINE R == { p \in Spot \X Spot : Before(p[2], p[1]) }
<1>1. \A x, y \in points : x = y \/ << x, y >> \in R \/ << y, x >> \in R
  <2> TAKE x, y \in points
  <2>1. PICK a \in Nat, b \in Nat, c \in Nat : x = << a, b, c >>
    BY DEF Spot
  <2>2. PICK d \in Nat, e \in Nat, f \in Nat : y = << d, e, f >>
    BY DEF Spot
  <2>3. Before(x, y) \/ Before(y, x)
    BY <2>1, <2>2 DEF Before
  <2>4. QED
    BY <2>3
<1>2. \A x, y, z \in points : << x, y >> \in R /\ << y, z >> \in R => << x, z >> \in R
  <2> TAKE x, y, z \in points
  <2>1. PICK a \in Nat, b \in Nat, c \in Nat : x = << a, b, c >>
    BY DEF Spot
  <2>2. PICK d \in Nat, e \in Nat, f \in Nat : y = << d, e, f >>
    BY DEF Spot
  <2>3. PICK i \in Nat, j \in Nat, k \in Nat : z = << i, j, k >>
    BY DEF Spot
  <2>4. Before(y, x) /\ Before(z, y) => Before(z, x)
    BY <2>1, <2>2, <2>3 DEF Before
  <2>5. QED
    BY <2>4
<1> HIDE DEF R
<1>3. PICK m \in points : \A x \in points \ {m} : << x, m >> \in R
  BY <1>1, <1>2, LastOfOrder
<1>4. \A x \in points : Before(m, x)
  <2> TAKE x \in points
  <2>1. CASE x = m
    <3>1. PICK a \in Nat, b \in Nat, c \in Nat : m = << a, b, c >>
      BY DEF Spot
    <3>2. QED
      BY <2>1, <3>1 DEF Before
  <2>2. CASE x # m
    BY <1>3, <2>2 DEF R
  <2>3. QED
    BY <2>1, <2>2
<1>5. QED
  BY <1>4 DEF Lowest

-----------------------------------------------------------------------------
(* One book is laid                                                         *)

StateType ==
  { st \in [placed : SUBSET PlacedType, points : SUBSET Spot, g : Nat, left : SUBSET ItemType] : IsFiniteSet(st.points) }

(* A laid book is the item, turned or not.                                  *)
SameBook(p, it) == p.key = it.key /\ p.h = it.h /\ {it.l, it.w} = {p.l, p.w}

Declined(st, it, box) ==
  st.g + it.g > box.g \/ \A e \in st.points : \A r \in BOOLEAN : ~Fits(Put(it, e, r), box, st.placed)

LEMMA PutFacts ==
  ASSUME NEW it \in ItemType, NEW e \in Spot, NEW r \in BOOLEAN
  PROVE  Put(it, e, r) \in PlacedType /\ SameBook(Put(it, e, r), it)
<1>1. /\ it.key \in STRING \X Nat /\ it.l \in Nat \ {0} /\ it.w \in Nat \ {0} /\ it.h \in Nat \ {0}
      /\ e[1] \in Nat /\ e[2] \in Nat /\ e[3] \in Nat
  BY DEF ItemType, Spot
<1>2. QED
  BY <1>1 DEF Put, PlacedType, SameBook

LEMMA LayRefuses ==
  ASSUME NEW st, NEW it, NEW box, Declined(st, it, box)
  PROVE  Lay(st, it, box) = [st EXCEPT !.left = st.left \cup {it}]
<1> DEFINE spots == {e \in st.points : \E r \in BOOLEAN : Fits(Put(it, e, r), box, st.placed)}
<1>1. st.g + it.g > box.g \/ spots = {}
  BY DEF Declined
<1>2. QED
  BY <1>1 DEF Lay

LEMMA LayAccepts ==
  ASSUME NEW st \in StateType, NEW it \in ItemType, NEW box \in SpaceType, ~Declined(st, it, box)
  PROVE  \E p \in PlacedType :
           /\ SameBook(p, it) /\ Fits(p, box, st.placed)
           /\ Lay(st, it, box) \in StateType
           /\ Lay(st, it, box).placed = st.placed \cup {p}
           /\ Lay(st, it, box).g = st.g + it.g /\ st.g + it.g <= box.g
           /\ Lay(st, it, box).left = st.left
<1> DEFINE spots == {e \in st.points : \E r \in BOOLEAN : Fits(Put(it, e, r), box, st.placed)}
           e == Lowest(spots)
           p == Put(it, e, ~Fits(Put(it, e, FALSE), box, st.placed))
           all == st.placed \cup {p}
           near == {<<p.x + p.l, p.y, p.z>>, <<p.x, p.y + p.w, p.z>>, <<p.x, p.y, p.z + p.h>>}
           points == Pruned(st.points \cup near, box, all)
<1>1. /\ st.placed \subseteq PlacedType /\ st.points \subseteq Spot /\ IsFiniteSet(st.points)
      /\ st.g \in Nat /\ st.left \subseteq ItemType /\ it.g \in Nat /\ box.g \in Nat
  BY DEF StateType, ItemType, SpaceType
<1>2. st.g + it.g <= box.g /\ spots # {}
  BY <1>1 DEF Declined
<1>3. e \in spots
  <2>1. IsFiniteSet(spots) /\ spots \subseteq Spot
    BY <1>1, FS_Subset
  <2> HIDE DEF spots
  <2>2. QED
    BY <1>2, <2>1, LowestIsThere
<1>4. PICK at \in Spot, turned \in BOOLEAN :
        at = e /\ p = Put(it, at, turned) /\ Fits(Put(it, at, turned), box, st.placed)
  <2>1. PICK at \in Spot : at = e /\ \E r \in BOOLEAN : Fits(Put(it, at, r), box, st.placed)
    BY <1>1, <1>3
  <2>2. CASE Fits(Put(it, at, FALSE), box, st.placed)
    <3>1. (~Fits(Put(it, at, FALSE), box, st.placed)) = FALSE
      BY <2>2
    <3>2. p = Put(it, at, FALSE)
      BY <2>1, <3>1
    <3>3. QED
      BY <2>1, <2>2, <3>2
  <2>3. CASE ~Fits(Put(it, at, FALSE), box, st.placed)
    <3>1. (~Fits(Put(it, at, FALSE), box, st.placed)) = TRUE
      BY <2>3
    <3>2. p = Put(it, at, TRUE)
      BY <2>1, <3>1
    <3>3. Fits(Put(it, at, TRUE), box, st.placed)
      BY <2>1, <2>3
    <3>4. QED
      BY <2>1, <3>2, <3>3
  <2>4. QED
    BY <2>2, <2>3
<1>5. p \in PlacedType /\ SameBook(p, it) /\ Fits(p, box, st.placed)
  <2> HIDE DEF p, e
  <2> QED
    BY <1>4, PutFacts
<1>6. Lay(st, it, box) = [st EXCEPT !.placed = all, !.g = st.g + it.g, !.points = points]
  <2>1. ~(st.g + it.g > box.g \/ spots = {})
    BY <1>1, <1>2
  <2>2. QED
    BY <2>1 DEF Lay
<1> HIDE DEF p, e, spots
<1>7. points \subseteq Spot /\ IsFiniteSet(points)
  <2>1. near \subseteq Spot
    <3>1. /\ p.x \in Nat /\ p.y \in Nat /\ p.z \in Nat /\ p.l \in Nat /\ p.w \in Nat /\ p.h \in Nat
      BY <1>5 DEF PlacedType
    <3>2. QED
      BY <3>1 DEF Spot
  <2>2. IsFiniteSet(near)
    <3>1. ASSUME NEW a, NEW b, NEW c PROVE IsFiniteSet({a, b, c})
      <4>1. IsFiniteSet({a}) /\ IsFiniteSet({b}) /\ IsFiniteSet({c})
        BY FS_Singleton
      <4>2. IsFiniteSet({a} \cup {b})
        BY <4>1, FS_Union
      <4>3. IsFiniteSet(({a} \cup {b}) \cup {c}) /\ {a, b, c} = ({a} \cup {b}) \cup {c}
        BY <4>1, <4>2, FS_Union
      <4>4. QED
        BY <4>3
    <3>2. QED
      BY <3>1
  <2> HIDE DEF near, all
  <2>3. points \subseteq st.points \cup near
    BY DEF Pruned
  <2>4. IsFiniteSet(st.points \cup near)
    BY <1>1, <2>2, FS_Union
  <2>5. IsFiniteSet(points)
    <3> HIDE DEF points
    <3> QED
      BY <2>3, <2>4, FS_Subset
  <2>6. QED
    BY <1>1, <2>1, <2>3, <2>5
<1> HIDE DEF points
<1>8. st = [placed |-> st.placed, points |-> st.points, g |-> st.g, left |-> st.left]
  BY DEF StateType
<1>9. PICK new : new = [placed |-> all, points |-> points, g |-> st.g + it.g, left |-> st.left]
  OBVIOUS
<1>10. Lay(st, it, box) = new
  BY <1>6, <1>8, <1>9
<1>11. new \in StateType
  BY <1>1, <1>5, <1>7, <1>9 DEF StateType
<1>12. QED
  BY <1>2, <1>5, <1>9, <1>10, <1>11

-----------------------------------------------------------------------------
(* One box is filled                                                        *)

(* Each book inside the box, none in another, each carried by the others.   *)
StandWell(placed, box) ==
  \A p \in placed : Inside(p, box) /\ ~Collides(p, placed \ {p}) /\ Supported(p, placed \ {p})

(* The laid books are those of s, each once, and the others are left.       *)
AreOf(placed, left, s) ==
  /\ \A p \in placed : \E it \in s : SameBook(p, it)
  /\ \A p, q \in placed : p.key = q.key => p = q
  /\ left \subseteq s /\ \A it \in s : it \in left <=> \A p \in placed : p.key # it.key

(* Where nothing could be laid, the empty box took none of them.            *)
EmptyFor(st, s, box) ==
  st.placed = {} => st.points = {<<0, 0, 0>>} /\ st.g = 0 /\ \A it \in s : Declined(Empty, it, box)

LaidWell(st, s, box) ==
  /\ st \in StateType /\ IsFiniteSet(st.placed) /\ st.g <= box.g
  /\ StandWell(st.placed, box) /\ AreOf(st.placed, st.left, s) /\ EmptyFor(st, s, box)

LEMMA OneMoreStands ==
  ASSUME NEW placed, IsFiniteSet(placed), placed \subseteq PlacedType, NEW box, StandWell(placed, box),
         NEW p \in PlacedType, p \notin placed, Fits(p, box, placed)
  PROVE  StandWell(placed \cup {p}, box)
<1> DEFINE all == placed \cup {p}
<1>1. IsFiniteSet(all) /\ all \subseteq PlacedType
  BY FS_AddElement
<1>2. Inside(p, box) /\ ~Collides(p, all \ {p}) /\ Supported(p, all \ {p})
  <2>1. all \ {p} = placed
    OBVIOUS
  <2>2. QED
    BY <2>1 DEF Fits
<1>3. ASSUME NEW q \in placed
      PROVE  Inside(q, box) /\ ~Collides(q, all \ {q}) /\ Supported(q, all \ {q})
  <2>1. Inside(q, box) /\ ~Collides(q, placed \ {q}) /\ Supported(q, placed \ {q})
    BY DEF StandWell
  <2>2. ~Collides(q, {p})
    <3>1. ~Collides(p, {q})
      BY DEF Fits, Collides
    <3>2. QED
      BY <3>1, CollisionIsMutual
  <2>3. ~Collides(q, all \ {q})
    BY <2>1, <2>2 DEF Collides
  <2>4. Supported(q, all \ {q})
    <3>1. IsFiniteSet(all \ {q}) /\ all \ {q} \subseteq PlacedType /\ placed \ {q} \subseteq all \ {q}
      BY <1>1, FS_Subset
    <3> HIDE DEF all
    <3>2. QED
      BY <2>1, <3>1, SupportStays
  <2>5. QED
    BY <2>1, <2>3, <2>4
<1>4. QED
  BY <1>2, <1>3 DEF StandWell

LEMMA LayKeeps ==
  ASSUME NEW items, Sent(items), NEW box \in SpaceType, NEW s \in SUBSET items, NEW it \in items, it \notin s,
         NEW st, LaidWell(st, s, box)
  PROVE  LaidWell(Lay(st, it, box), s \cup {it}, box)
<1>1. /\ st \in StateType /\ st.placed \subseteq PlacedType /\ IsFiniteSet(st.placed) /\ st.g <= box.g
      /\ StandWell(st.placed, box) /\ AreOf(st.placed, st.left, s) /\ EmptyFor(st, s, box)
  BY DEF LaidWell, StateType
<1>2. it \in ItemType /\ s \subseteq ItemType /\ \A i \in s : i.key # it.key
  BY DEF Sent
<1>3. \A p \in st.placed : p.key # it.key
  BY <1>1, <1>2 DEF AreOf, SameBook
<1>4. CASE Declined(st, it, box)
  <2>1. PICK new : new = [st EXCEPT !.left = st.left \cup {it}] /\ Lay(st, it, box) = new
    BY <1>4, LayRefuses
  <2>2. new.placed = st.placed /\ new.g = st.g /\ new.points = st.points /\ new.left = st.left \cup {it}
    BY <1>1, <2>1 DEF StateType
  <2>3. new \in StateType
    BY <1>1, <1>2, <2>1 DEF StateType
  <2>4. AreOf(new.placed, new.left, s \cup {it})
    BY <1>1, <1>3, <2>2 DEF AreOf
  <2>5. EmptyFor(new, s \cup {it}, box)
    <3>1. ASSUME st.placed = {} PROVE Declined(Empty, it, box)
      <4>1. st.points = {<<0, 0, 0>>} /\ st.g = 0
        BY <1>1, <3>1 DEF EmptyFor
      <4>2. Empty.points = {<<0, 0, 0>>} /\ Empty.g = 0 /\ Empty.placed = {}
        BY DEF Empty
      <4>3. QED
        BY <1>4, <3>1, <4>1, <4>2 DEF Declined
    <3>2. QED
      BY <1>1, <2>2, <3>1 DEF EmptyFor
  <2>6. QED
    BY <1>1, <2>1, <2>2, <2>3, <2>4, <2>5 DEF LaidWell
<1>5. CASE ~Declined(st, it, box)
  <2>0. PICK p \in PlacedType :
           /\ SameBook(p, it) /\ Fits(p, box, st.placed)
           /\ Lay(st, it, box) \in StateType
           /\ Lay(st, it, box).placed = st.placed \cup {p}
           /\ Lay(st, it, box).g = st.g + it.g /\ st.g + it.g <= box.g
           /\ Lay(st, it, box).left = st.left
    BY <1>1, <1>2, <1>5, LayAccepts
  <2> DEFINE new == Lay(st, it, box)
  <2>1. /\ SameBook(p, it) /\ Fits(p, box, st.placed) /\ new \in StateType
        /\ new.placed = st.placed \cup {p} /\ new.g <= box.g /\ new.left = st.left
    BY <2>0
  <2> HIDE DEF new
  <2>2. p \notin st.placed
    BY <1>3, <2>1 DEF SameBook
  <2>3. StandWell(new.placed, box)
    BY <1>1, <2>1, <2>2, OneMoreStands
  <2>4. AreOf(new.placed, new.left, s \cup {it})
    <3>1. p.key = it.key
      BY <2>1 DEF SameBook
    <3>2. \A q \in new.placed : \E i \in s \cup {it} : SameBook(q, i)
      BY <1>1, <2>1 DEF AreOf
    <3>3. \A q, r \in new.placed : q.key = r.key => q = r
      BY <1>1, <1>3, <2>1, <3>1 DEF AreOf
    <3>4. new.left \subseteq s \cup {it}
      BY <1>1, <2>1 DEF AreOf
    <3>5. \A i \in s \cup {it} : i \in new.left <=> \A q \in new.placed : q.key # i.key
      <4>1. ASSUME NEW i \in s PROVE i \in new.left <=> \A q \in new.placed : q.key # i.key
        <5>1. i \in st.left <=> \A q \in st.placed : q.key # i.key
          BY <1>1 DEF AreOf
        <5>2. QED
          BY <1>2, <2>1, <3>1, <5>1
      <4>2. it \notin new.left /\ p \in new.placed
        BY <1>1, <2>1 DEF AreOf
      <4>3. QED
        BY <3>1, <4>1, <4>2
    <3>6. QED
      BY <3>2, <3>3, <3>4, <3>5 DEF AreOf
  <2>5. EmptyFor(new, s \cup {it}, box)
    BY <2>1 DEF EmptyFor
  <2>6. IsFiniteSet(new.placed)
    BY <1>1, <2>1, FS_AddElement
  <2>7. QED
    BY <2>1, <2>3, <2>4, <2>5, <2>6 DEF LaidWell, new
<1>6. QED
  BY <1>4, <1>5

LEMMA EmptyType == Empty \in StateType
<1>1. IsFiniteSet({<<0, 0, 0>>})
  BY FS_Singleton
<1>2. QED
  BY <1>1 DEF Empty, StateType, Spot

LEMMA LayType ==
  ASSUME NEW st \in StateType, NEW it \in ItemType, NEW box \in SpaceType
  PROVE  Lay(st, it, box) \in StateType
<1>1. CASE Declined(st, it, box)
  <2>1. Lay(st, it, box) = [st EXCEPT !.left = st.left \cup {it}]
    BY <1>1, LayRefuses
  <2>2. st = [placed |-> st.placed, points |-> st.points, g |-> st.g, left |-> st.left]
    BY DEF StateType
  <2>3. PICK new : new = [placed |-> st.placed, points |-> st.points, g |-> st.g, left |-> st.left \cup {it}]
    OBVIOUS
  <2>4. Lay(st, it, box) = new
    BY <2>1, <2>2, <2>3
  <2>5. new \in StateType
    BY <2>3 DEF StateType
  <2>6. QED
    BY <2>4, <2>5
<1>2. CASE ~Declined(st, it, box)
  BY <1>2, LayAccepts
<1>3. QED
  BY <1>1, <1>2

(* pack_into_box is a recursion over the books, from the heaviest on.       *)
Filled(g, s, box) == IF s = {} THEN Empty ELSE Lay(g[s \ {Lightest(s)}], Lightest(s), box)
Fills(g, items, box) == g = [s \in SUBSET items |-> Filled(g, s, box)]

LEMMA FillingExists ==
  ASSUME NEW items, Sent(items), NEW box \in SpaceType
  PROVE  \E g : Fills(g, items, box)
<1> DEFINE pick == [s \in SUBSET items |-> Lightest(s)]
           part == [s \in SUBSET items |-> s \ {pick[s]}]
           step == [x \in (SUBSET items) \X StateType |-> Lay(x[2], Lightest(x[1]), box)]
<1>1. IsFiniteSet(items) /\ items \subseteq ItemType
  BY DEF Sent
<1>2. \A s \in SUBSET items : s # {} => pick[s] \in s
  BY LightestIsThere
<1>3. Shrinks(part, items)
  <2> HIDE DEF pick
  <2> QED
    BY <1>1, <1>2, RestShrinks
<1>4. PICK g : Computes(g, items, part, Empty, step)
  <2> HIDE DEF part, step
  <2> QED
    BY <1>1, <1>3, RecursionExists
<1>5. ASSUME NEW s \in SUBSET items, s # {}, g[part[s]] \in StateType
      PROVE  /\ g[s] = Lay(g[s \ {Lightest(s)}], Lightest(s), box)
             /\ g[s] \in StateType
  <2>1. g[s] = step[<< s, g[part[s]] >>]
    <3> HIDE DEF part, step
    <3> QED
      BY <1>4, <1>5 DEF Computes, Computed
  <2>2. part[s] = s \ {Lightest(s)} /\ Lightest(s) \in ItemType
    BY <1>1, <1>2, <1>5
  <2> HIDE DEF part
  <2>3. << s, g[part[s]] >> \in (SUBSET items) \X StateType
    BY <1>5
  <2>4. g[s] = Lay(g[part[s]], Lightest(s), box)
    BY <2>1, <2>3
  <2>5. QED
    BY <1>5, <2>2, <2>4, LayType
<1>6. g[{}] = Empty
  <2> HIDE DEF part, step
  <2> QED
    BY <1>4 DEF Computes, Computed
<1> DEFINE Good == {s \in SUBSET items : g[s] \in StateType}
<1>7. \A s \in SUBSET items : s \in Good
  <2>1. {} \in Good
    BY <1>6, EmptyType
  <2>2. \A s \in SUBSET items : s # {} /\ part[s] \in Good => s \in Good
    BY <1>5
  <2> HIDE DEF Good, part
  <2>3. QED
    BY <1>1, <1>3, <2>1, <2>2, SubsetInduction
<1>8. ASSUME NEW s \in SUBSET items PROVE g[s] = Filled(g, s, box)
  <2>1. CASE s = {}
    BY <1>6, <2>1 DEF Filled
  <2>2. CASE s # {}
    <3>1. part[s] \in SUBSET items
      BY <1>3, <2>2 DEF Shrinks
    <3>2. g[part[s]] \in StateType
      BY <1>7, <3>1
    <3>3. QED
      BY <1>5, <2>2, <3>2 DEF Filled
  <2>3. QED
    BY <2>1, <2>2
<1>9. g = [s \in SUBSET items |-> g[s]]
  BY <1>4 DEF Computes
<1>10. g = [s \in SUBSET items |-> Filled(g, s, box)]
  <2> HIDE DEF part, step, Good
  <2> QED
    BY <1>8, <1>9
<1>11. QED
  BY <1>10 DEF Fills

(* Boxes without room for anything are not tried.                           *)
Roomy(box) == ~(box.l <= 0 \/ box.w <= 0 \/ box.h <= 0)

LEMMA PackIsFilling ==
  ASSUME NEW items, Sent(items), NEW box \in SpaceType, Roomy(box)
  PROVE  \E g : Fills(g, items, box) /\ Pack(items, box) = g[items]
<1> DEFINE Fill(g) == g = [s \in SUBSET items |-> IF s = {} THEN Empty
                                                  ELSE Lay(g[s \ {Lightest(s)}], Lightest(s), box)]
<1>1. Pack(items, box) = (CHOOSE g : Fill(g))[items]
  BY DEF Pack, Roomy
<1>2. PICK g : Fills(g, items, box) /\ g = CHOOSE h : Fill(h)
  <2>1. \E g : Fill(g)
    <3>1. PICK g : Fills(g, items, box)
      BY FillingExists
    <3>2. Fill(g)
      BY <3>1 DEF Fills, Filled
    <3> HIDE DEF Fill
    <3>3. QED
      BY <3>2
  <2>2. PICK g : g = CHOOSE h : Fill(h)
    OBVIOUS
  <2>3. Fill(g)
    <3> HIDE DEF Fill
    <3> QED
      BY <2>1, <2>2
  <2>4. QED
    BY <2>2, <2>3 DEF Fills, Filled
<1>3. QED
  BY <1>1, <1>2

LEMMA PartIsSent ==
  ASSUME NEW items, Sent(items), NEW s \in SUBSET items
  PROVE  Sent(s)
<1>1. IsFiniteSet(s)
  BY FS_Subset DEF Sent
<1>2. QED
  BY <1>1 DEF Sent

LEMMA EmptyIsLaidWell ==
  ASSUME NEW box \in SpaceType
  PROVE  LaidWell(Empty, {}, box)
<1>1. Empty.placed = {} /\ Empty.left = {} /\ Empty.g = 0 /\ Empty.points = {<<0, 0, 0>>}
  BY DEF Empty
<1>2. IsFiniteSet(Empty.placed)
  BY <1>1, FS_EmptySet
<1>3. Empty.g <= box.g
  BY <1>1 DEF SpaceType
<1>4. StandWell(Empty.placed, box)
  BY <1>1 DEF StandWell
<1>5. AreOf(Empty.placed, Empty.left, {})
  BY <1>1 DEF AreOf
<1>6. EmptyFor(Empty, {}, box)
  BY <1>1 DEF EmptyFor
<1>7. QED
  BY <1>2, <1>3, <1>4, <1>5, <1>6, EmptyType DEF LaidWell

LEMMA FillingIsLaidWell ==
  ASSUME NEW items, Sent(items), NEW box \in SpaceType, NEW g, Fills(g, items, box)
  PROVE  LaidWell(g[items], items, box)
<1> DEFINE pick == [s \in SUBSET items |-> Lightest(s)]
           part == [s \in SUBSET items |-> s \ {pick[s]}]
           Good == {s \in SUBSET items : LaidWell(g[s], s, box)}
<1>1. \A s \in SUBSET items : s # {} => pick[s] \in s
  BY LightestIsThere
<1>2. IsFiniteSet(items)
  BY DEF Sent
<1>3. Shrinks(part, items)
  <2> HIDE DEF pick
  <2> QED
    BY <1>1, <1>2, RestShrinks
<1>4. {} \in Good
  <2>1. g[{}] = Empty
    BY DEF Fills, Filled
  <2>2. QED
    BY <2>1, EmptyIsLaidWell
<1>5. ASSUME NEW s \in SUBSET items, s # {}, part[s] \in Good PROVE s \in Good
  <2>1. PICK it \in s : it = Lightest(s) /\ part[s] = s \ {it}
    BY <1>1, <1>5
  <2>2. LaidWell(g[s \ {it}], s \ {it}, box)
    BY <1>5, <2>1
  <2>3. g[s] = Lay(g[s \ {it}], it, box)
    BY <1>5, <2>1 DEF Fills, Filled
  <2>4. LaidWell(Lay(g[s \ {it}], it, box), (s \ {it}) \cup {it}, box)
    BY <2>2, LayKeeps
  <2>5. (s \ {it}) \cup {it} = s
    BY <2>1
  <2>6. QED
    BY <2>3, <2>4, <2>5
<1>6. items \in Good
  <2> HIDE DEF Good, part
  <2> QED
    BY <1>2, <1>3, <1>4, <1>5, SubsetInduction
<1>7. QED
  BY <1>6

(* What does not go into the empty box is left alone, too.                  *)
LEMMA DeclinedAlone ==
  ASSUME NEW it \in ItemType, NEW box \in SpaceType, Roomy(box), Declined(Empty, it, box)
  PROVE  Pack({it}, box).left = {it}
<1>1. Sent({it})
  <2>1. IsFiniteSet({it})
    BY FS_Singleton
  <2>2. QED
    BY <2>1 DEF Sent
<1>2. PICK g : Fills(g, {it}, box) /\ Pack({it}, box) = g[{it}]
  BY <1>1, PackIsFilling
<1>3. Lightest({it}) = it
  <2>1. Lightest({it}) \in {it}
    BY <1>1, LightestIsThere
  <2>2. QED
    BY <2>1
<1>4. g[{}] = Empty
  BY <1>2 DEF Fills, Filled
<1>5. g[{it}] = Lay(g[{it} \ {it}], it, box)
  BY <1>2, <1>3 DEF Fills, Filled
<1>6. {it} \ {it} = {}
  OBVIOUS
<1>7. g[{it}] = [Empty EXCEPT !.left = Empty.left \cup {it}]
  BY <1>4, <1>5, <1>6, LayRefuses
<1>8. g[{it}].left = {it}
  BY <1>7 DEF Empty
<1>9. QED
  BY <1>2, <1>8

PackedWell(r, s, box) ==
  /\ r.placed \subseteq PlacedType /\ IsFiniteSet(r.placed) /\ r.g \in Nat /\ r.g <= box.g
  /\ StandWell(r.placed, box) /\ AreOf(r.placed, r.left, s)
  /\ r.placed = {} => \A it \in s : Pack({it}, box).left = {it}

LEMMA PackIsRight ==
  ASSUME NEW items, Sent(items), NEW box \in SpaceType
  PROVE  PackedWell(Pack(items, box), items, box)
<1>1. CASE Roomy(box)
  <2>1. PICK g : Fills(g, items, box) /\ Pack(items, box) = g[items]
    BY <1>1, PackIsFilling
  <2>2. PICK r : r = Pack(items, box) /\ LaidWell(r, items, box)
    BY <2>1, FillingIsLaidWell
  <2>3. ASSUME r.placed = {}, NEW it \in items PROVE Pack({it}, box).left = {it}
    <3>1. Declined(Empty, it, box) /\ it \in ItemType
      BY <2>2, <2>3 DEF LaidWell, EmptyFor, Sent
    <3>2. QED
      BY <1>1, <3>1, DeclinedAlone
  <2>4. r.placed \subseteq PlacedType /\ r.g \in Nat
    BY <2>2 DEF LaidWell, StateType
  <2>5. PackedWell(r, items, box)
    BY <2>2, <2>3, <2>4 DEF LaidWell, PackedWell
  <2>6. QED
    BY <2>2, <2>5
<1>2. CASE ~Roomy(box)
  <2>1. ASSUME NEW s PROVE Pack(s, box) = [placed |-> {}, points |-> {<<0, 0, 0>>}, g |-> 0, left |-> s]
    BY <1>2 DEF Pack, Roomy, Empty
  <2>2. PICK r : r = [placed |-> {}, points |-> {<<0, 0, 0>>}, g |-> 0, left |-> items]
    OBVIOUS
  <2>3. Pack(items, box) = r
    BY <2>1, <2>2
  <2>4. r.placed = {} /\ r.left = items /\ r.g = 0 /\ IsFiniteSet(r.placed)
    BY <2>2, FS_EmptySet
  <2>5. StandWell(r.placed, box) /\ AreOf(r.placed, r.left, items)
    BY <2>4 DEF StandWell, AreOf
  <2>6. r.g \in Nat /\ r.g <= box.g
    BY <2>4 DEF SpaceType
  <2>7. \A it \in items : Pack({it}, box).left = {it}
    BY <2>1
  <2>8. PackedWell(r, items, box)
    BY <2>4, <2>5, <2>6, <2>7 DEF PackedWell
  <2>9. QED
    BY <2>3, <2>8
<1>3. QED
  BY <1>1, <1>2

-----------------------------------------------------------------------------
(* What is left goes into further master cartons                            *)

CartonType == [box : Nat, placed : SUBSET PlacedType, left : SUBSET ItemType, g : Nat]
Holds(c, it) == \E p \in c.placed : p.key = it.key

(* A carton that was filled from s.                                         *)
FilledFrom(c, s, k, box) ==
  /\ c.box = k /\ IsFiniteSet(c.placed) /\ c.g <= box.g /\ StandWell(c.placed, box)
  /\ \A p \in c.placed : \E it \in s : SameBook(p, it)
  /\ \A p, q \in c.placed : p.key = q.key => p = q

(* A book that is in no carton fits no empty one.                           *)
Accounted(it, cs, box) ==
  \/ \E k \in DOMAIN cs : Holds(cs[k], it) /\ \A j \in DOMAIN cs : Holds(cs[j], it) => j = k
  \/ (\A k \in DOMAIN cs : ~Holds(cs[k], it)) /\ it \in Last(cs).left /\ Pack({it}, box).left = {it}

SplitRight(cs, s, box) ==
  /\ cs \in Seq(CartonType)
  /\ s # {} => Len(cs) > 0
  /\ \A k \in DOMAIN cs : FilledFrom(cs[k], s, Len(Catalogue), box)
  /\ \A it \in s : Accounted(it, cs, box)

LEMMA OneBefore ==
  ASSUME NEW T, NEW c \in T, NEW cs \in Seq(T)
  PROVE  /\ << c >> \o cs \in Seq(T) /\ Len(<< c >> \o cs) = Len(cs) + 1
         /\ (<< c >> \o cs)[1] = c /\ \A k \in 1..Len(cs) : (<< c >> \o cs)[k + 1] = cs[k]
  OBVIOUS

LEMMA PackIsCarton ==
  ASSUME NEW s, Sent(s), NEW box \in SpaceType, NEW k \in Nat
  PROVE  Carton(k, Pack(s, box)) \in CartonType /\ FilledFrom(Carton(k, Pack(s, box)), s, k, box)
<1>1. PICK r : r = Pack(s, box) /\ PackedWell(r, s, box)
  BY PackIsRight
<1>2. r.left \subseteq ItemType
  BY <1>1 DEF PackedWell, AreOf, Sent
<1>3. PICK c : c = [box |-> k, placed |-> r.placed, left |-> r.left, g |-> r.g]
  OBVIOUS
<1>4. c \in CartonType
  BY <1>1, <1>2, <1>3 DEF CartonType, PackedWell
<1>5. FilledFrom(c, s, k, box)
  BY <1>1, <1>3 DEF FilledFrom, PackedWell, AreOf
<1>6. Carton(k, r) = c
  BY <1>3 DEF Carton
<1>7. QED
  BY <1>1, <1>4, <1>5, <1>6

(* A carton that took something leaves fewer books.                         *)
LEMMA RemainingIsLeft ==
  ASSUME NEW s, Sent(s), NEW box \in SpaceType
  PROVE  /\ Remaining(s, Pack(s, box).placed) = Pack(s, box).left
         /\ Pack(s, box).left \subseteq s
         /\ Pack(s, box).placed # {} => Cardinality(Pack(s, box).left) < Cardinality(s)
<1>1. PICK r : r = Pack(s, box) /\ PackedWell(r, s, box)
  BY PackIsRight
<1>2. Remaining(s, r.placed) = r.left /\ r.left \subseteq s
  BY <1>1 DEF PackedWell, AreOf, Remaining
<1>3. ASSUME r.placed # {} PROVE Cardinality(r.left) < Cardinality(s)
  <2>1. PICK it \in s : it \notin r.left
    BY <1>1, <1>3 DEF PackedWell, AreOf, SameBook
  <2>2. IsFiniteSet(s) /\ IsFiniteSet(s \ {it}) /\ r.left \subseteq s \ {it}
    BY <1>2, <2>1, FS_Subset DEF Sent
  <2>3. Cardinality(s \ {it}) = Cardinality(s) - 1 /\ Cardinality(s) \in Nat
    BY <2>1, <2>2, FS_RemoveElement, FS_CardinalityType
  <2>4. Cardinality(r.left) \in Nat /\ Cardinality(r.left) <= Cardinality(s \ {it})
    BY <2>2, FS_Subset, FS_CardinalityType
  <2>5. QED
    BY <2>3, <2>4
<1>4. QED
  BY <1>1, <1>2, <1>3

LEMMA OneCarton ==
  ASSUME NEW s, Sent(s), s # {}, NEW box \in SpaceType, Pack(s, box).placed = {}
  PROVE  SplitRight(<< Carton(Len(Catalogue), Pack(s, box)) >>, s, box)
<1>1. PICK r : r = Pack(s, box) /\ PackedWell(r, s, box)
  BY PackIsRight
<1>2. Len(Catalogue) \in Nat
  BY ParcelsAssumption
<1>3. PICK c : c = Carton(Len(Catalogue), r)
  OBVIOUS
<1>0. c.placed = r.placed /\ c.left = r.left
  BY <1>3 DEF Carton
<1>4. c \in CartonType /\ FilledFrom(c, s, Len(Catalogue), box)
  BY <1>1, <1>2, <1>3, PackIsCarton
<1>5. << c >> \in Seq(CartonType) /\ Len(<< c >>) = 1 /\ << c >>[1] = c /\ Last(<< c >>) = c
  BY <1>4 DEF Last
<1>6. ASSUME NEW it \in s PROVE Accounted(it, << c >>, box)
  <2>1. it \in r.left /\ Pack({it}, box).left = {it}
    BY <1>1 DEF PackedWell, AreOf
  <2>2. \A k \in DOMAIN << c >> : ~Holds(<< c >>[k], it)
    BY <1>0, <1>1, <1>5 DEF Holds
  <2>3. QED
    BY <1>0, <1>5, <2>1, <2>2 DEF Accounted
<1>7. \A k \in DOMAIN << c >> : FilledFrom(<< c >>[k], s, Len(Catalogue), box)
  BY <1>4, <1>5
<1>8. SplitRight(<< c >>, s, box)
  BY <1>5, <1>6, <1>7 DEF SplitRight
<1>9. QED
  BY <1>1, <1>3, <1>8

LEMMA OneMoreCarton ==
  ASSUME NEW s, Sent(s), NEW box \in SpaceType, Pack(s, box).placed # {},
         NEW cs, SplitRight(cs, Pack(s, box).left, box)
  PROVE  SplitRight(<< Carton(Len(Catalogue), Pack(s, box)) >> \o cs, s, box)
<1>1. PICK r : r = Pack(s, box) /\ PackedWell(r, s, box)
  BY PackIsRight
<1>2. Len(Catalogue) \in Nat
  BY ParcelsAssumption
<1>3. PICK c : c = Carton(Len(Catalogue), r)
  OBVIOUS
<1>0. c.placed = r.placed /\ c.left = r.left
  BY <1>3 DEF Carton
<1>4. c \in CartonType /\ FilledFrom(c, s, Len(Catalogue), box)
  BY <1>1, <1>2, <1>3, PackIsCarton
<1>5. /\ cs \in Seq(CartonType)
      /\ r.left # {} => Len(cs) > 0
      /\ \A k \in DOMAIN cs : FilledFrom(cs[k], r.left, Len(Catalogue), box)
      /\ \A it \in r.left : Accounted(it, cs, box)
  BY <1>1 DEF SplitRight
<1>6. r.left \subseteq s
  BY <1>1 DEF PackedWell, AreOf
<1>7. PICK new : new = << c >> \o cs
  OBVIOUS
<1>8. /\ new \in Seq(CartonType) /\ Len(new) = Len(cs) + 1 /\ Len(cs) \in Nat /\ new[1] = c
      /\ \A k \in 1..Len(cs) : new[k + 1] = cs[k]
  BY <1>4, <1>5, <1>7, OneBefore
<1>9. DOMAIN new = 1..Len(cs) + 1 /\ DOMAIN cs = 1..Len(cs)
  BY <1>5, <1>8
<1>10. \A k \in DOMAIN new : k = 1 \/ (k - 1 \in DOMAIN cs /\ new[k] = cs[k - 1])
  <2> TAKE k \in DOMAIN new
  <2>1. CASE k # 1
    <3>1. k - 1 \in 1..Len(cs) /\ (k - 1) + 1 = k
      BY <1>8, <1>9, <2>1
    <3>2. new[(k - 1) + 1] = cs[k - 1]
      BY <1>8, <3>1
    <3>3. QED
      BY <1>9, <3>1, <3>2
  <2>2. QED
    BY <2>1
<1>11. \A k \in DOMAIN new : FilledFrom(new[k], s, Len(Catalogue), box)
  <2>1. \A k \in DOMAIN cs : FilledFrom(cs[k], s, Len(Catalogue), box)
    BY <1>5, <1>6 DEF FilledFrom
  <2>2. QED
    BY <1>4, <1>8, <1>10, <2>1
<1>12. ASSUME NEW it \in s, Holds(c, it) PROVE Accounted(it, new, box)
  <2>1. it \notin r.left
    BY <1>0, <1>1, <1>12 DEF Holds, PackedWell, AreOf
  <2>2. ASSUME NEW k \in DOMAIN cs PROVE ~Holds(cs[k], it)
    <3>1. \A p \in cs[k].placed : \E i \in r.left : p.key = i.key
      BY <1>5 DEF FilledFrom, SameBook
    <3>2. \A i \in r.left : i.key # it.key
      BY <1>6, <2>1 DEF Sent
    <3>3. QED
      BY <3>1, <3>2 DEF Holds
  <2>3. 1 \in DOMAIN new /\ Holds(new[1], it) /\ \A j \in DOMAIN new : Holds(new[j], it) => j = 1
    BY <1>8, <1>9, <1>10, <1>12, <2>2
  <2>4. QED
    BY <2>3 DEF Accounted
<1>13. ASSUME NEW it \in s, ~Holds(c, it) PROVE Accounted(it, new, box)
  <2>1. it \in r.left
    BY <1>0, <1>1, <1>13 DEF Holds, PackedWell, AreOf
  <2>2. Accounted(it, cs, box) /\ Len(cs) > 0
    BY <1>5, <2>1
  <2>3. CASE \E k \in DOMAIN cs : Holds(cs[k], it) /\ \A j \in DOMAIN cs : Holds(cs[j], it) => j = k
    <3>1. PICK k \in DOMAIN cs : Holds(cs[k], it) /\ \A j \in DOMAIN cs : Holds(cs[j], it) => j = k
      BY <2>3
    <3>2. k + 1 \in DOMAIN new /\ Holds(new[k + 1], it)
      BY <1>8, <1>9, <3>1
    <3>3. \A j \in DOMAIN new : Holds(new[j], it) => j = k + 1
      <4> TAKE j \in DOMAIN new
      <4>1. CASE j = 1
        BY <1>8, <1>13, <4>1
      <4>2. CASE j # 1
        <5>1. j - 1 \in DOMAIN cs /\ new[j] = cs[j - 1]
          BY <1>10, <4>2
        <5>2. Holds(new[j], it) => j - 1 = k
          BY <3>1, <5>1
        <5>3. j \in Int /\ k \in Int
          BY <1>9
        <5>4. QED
          BY <5>2, <5>3
      <4>3. QED
        BY <4>1, <4>2
    <3>4. QED
      BY <3>2, <3>3 DEF Accounted
  <2>4. CASE (\A k \in DOMAIN cs : ~Holds(cs[k], it)) /\ it \in Last(cs).left /\ Pack({it}, box).left = {it}
    <3>1. \A k \in DOMAIN new : ~Holds(new[k], it)
      BY <1>8, <1>10, <1>13, <2>4
    <3>2. Last(new) = Last(cs)
      BY <1>8, <2>2 DEF Last
    <3>3. QED
      BY <2>4, <3>1, <3>2 DEF Accounted
  <2>5. QED
    BY <2>2, <2>3, <2>4 DEF Accounted
<1>14. SplitRight(new, s, box)
  BY <1>8, <1>11, <1>12, <1>13 DEF SplitRight
<1>15. QED
  BY <1>1, <1>3, <1>7, <1>14

(* recommend_and_pack is a recursion over what is left.                     *)
SplitOff(g, s, box) ==
  IF s = {} THEN << >>
  ELSE << Carton(Len(Catalogue), Pack(s, box)) >>
         \o IF Pack(s, box).placed = {} THEN << >> ELSE g[Remaining(s, Pack(s, box).placed)]
Splits(g, items, box) == g = [s \in SUBSET items |-> SplitOff(g, s, box)]

SplitPart(items, box) ==
  [s \in SUBSET items |-> IF Pack(s, box).placed = {} THEN {} ELSE Pack(s, box).left]

LEMMA SplitShrinks ==
  ASSUME NEW items, Sent(items), NEW box \in SpaceType
  PROVE  Shrinks(SplitPart(items, box), items)
<1> DEFINE part == SplitPart(items, box)
<1>1. ASSUME NEW s \in SUBSET items, s # {}
      PROVE  part[s] \in SUBSET items /\ Cardinality(part[s]) < Cardinality(s)
  <2>1. Sent(s) /\ IsFiniteSet(s)
    BY PartIsSent DEF Sent
  <2>2. PICK r : r = Pack(s, box)
    OBVIOUS
  <2>3. part[s] = IF r.placed = {} THEN {} ELSE r.left
    BY <2>2 DEF SplitPart
  <2> HIDE DEF part
  <2>4. CASE r.placed = {}
    <3>1. Cardinality({}) = 0 /\ Cardinality(s) \in Nat /\ Cardinality(s) # 0
      BY <1>1, <2>1, FS_EmptySet, FS_CardinalityType
    <3>2. QED
      BY <2>3, <2>4, <3>1
  <2>5. CASE r.placed # {}
    <3>1. r.left \subseteq s /\ Cardinality(r.left) < Cardinality(s)
      BY <2>1, <2>2, <2>5, RemainingIsLeft
    <3>2. QED
      BY <2>3, <2>5, <3>1
  <2>6. QED
    BY <2>4, <2>5
<1> HIDE DEF part
<1>2. Shrinks(part, items)
  BY <1>1 DEF Shrinks
<1>3. QED
  BY <1>2 DEF part

LEMMA SplitOffIsRight ==
  ASSUME NEW s, Sent(s), s # {}, NEW box \in SpaceType, NEW g,
         NEW rest, rest = IF Pack(s, box).placed = {} THEN {} ELSE Pack(s, box).left,
         SplitRight(g[rest], rest, box)
  PROVE  SplitRight(SplitOff(g, s, box), s, box)
<1>1. PICK r : r = Pack(s, box)
  OBVIOUS
<1>2. CASE r.placed = {}
  <2>1. SplitOff(g, s, box) = << Carton(Len(Catalogue), r) >> \o << >>
    BY <1>1, <1>2 DEF SplitOff
  <2>2. << Carton(Len(Catalogue), r) >> \o << >> = << Carton(Len(Catalogue), r) >>
    OBVIOUS
  <2>3. SplitRight(<< Carton(Len(Catalogue), r) >>, s, box)
    BY <1>1, <1>2, OneCarton
  <2>4. QED
    BY <2>1, <2>2, <2>3
<1>3. CASE r.placed # {}
  <2>1. rest = r.left /\ Remaining(s, r.placed) = r.left
    BY <1>1, <1>3, RemainingIsLeft
  <2>2. SplitOff(g, s, box) = << Carton(Len(Catalogue), r) >> \o g[rest]
    BY <1>1, <1>3, <2>1 DEF SplitOff
  <2>3. SplitRight(<< Carton(Len(Catalogue), r) >> \o g[rest], s, box)
    BY <1>1, <1>3, <2>1, OneMoreCarton
  <2>4. QED
    BY <2>2, <2>3
<1>4. QED
  BY <1>2, <1>3

LEMMA NothingIsSplitRight ==
  ASSUME NEW box
  PROVE  SplitRight(<< >>, {}, box)
<1>1. << >> \in Seq(CartonType) /\ DOMAIN << >> = {}
  OBVIOUS
<1>2. QED
  BY <1>1 DEF SplitRight

LEMMA SplittingExists ==
  ASSUME NEW items, Sent(items), NEW box \in SpaceType
  PROVE  \E g : Splits(g, items, box)
<1> DEFINE part == SplitPart(items, box)
           step == [x \in (SUBSET items) \X Seq(CartonType) |->
                      << Carton(Len(Catalogue), Pack(x[1], box)) >>
                        \o IF Pack(x[1], box).placed = {} THEN << >> ELSE x[2]]
           Good(g) == {s \in SUBSET items : SplitRight(g[s], s, box)}
<1>1. IsFiniteSet(items) /\ (\A s \in SUBSET items : Sent(s)) /\ Shrinks(part, items)
  BY PartIsSent, SplitShrinks DEF Sent
<1>2. PICK g : Computes(g, items, part, << >>, step)
  <2> HIDE DEF part, step
  <2> QED
    BY <1>1, RecursionExists
<1>3. g[{}] = << >>
  <2> HIDE DEF part, step
  <2> QED
    BY <1>2 DEF Computes, Computed
<1>4. ASSUME NEW s \in SUBSET items, s # {}, part[s] \in Good(g)
      PROVE  g[s] = SplitOff(g, s, box) /\ s \in Good(g)
  <2>1. PICK r, rest : r = Pack(s, box) /\ rest = part[s]
    OBVIOUS
  <2>2. g[s] = step[<< s, g[rest] >>]
    <3> HIDE DEF part, step
    <3> QED
      BY <1>2, <1>4, <2>1 DEF Computes, Computed
  <2>3. SplitRight(g[rest], rest, box)
    BY <1>4, <2>1
  <2>4. g[rest] \in Seq(CartonType)
    BY <2>3 DEF SplitRight
  <2>5. g[s] = << Carton(Len(Catalogue), r) >> \o IF r.placed = {} THEN << >> ELSE g[rest]
    BY <2>1, <2>2, <2>4
  <2>6. rest = IF r.placed = {} THEN {} ELSE r.left
    BY <2>1 DEF SplitPart
  <2> HIDE DEF part, step, Good
  <2>7. Sent(s)
    BY <1>1
  <2>8. Remaining(s, r.placed) = r.left
    BY <2>1, <2>7, RemainingIsLeft
  <2>9. g[s] = SplitOff(g, s, box)
    BY <1>4, <2>1, <2>5, <2>6, <2>8 DEF SplitOff
  <2>10. SplitRight(SplitOff(g, s, box), s, box)
    BY <1>4, <2>1, <2>3, <2>6, <2>7, SplitOffIsRight
  <2>11. QED
    BY <2>9, <2>10 DEF Good
<1>5. {} \in Good(g)
  BY <1>3, NothingIsSplitRight
<1>6. \A s \in SUBSET items : s \in Good(g)
  <2> HIDE DEF Good, part
  <2> QED
    BY <1>1, <1>4, <1>5, SubsetInduction
<1>7. ASSUME NEW s \in SUBSET items PROVE g[s] = SplitOff(g, s, box)
  <2> HIDE DEF Good, part, step
  <2>1. s # {} => part[s] \in SUBSET items
    BY <1>1 DEF Shrinks
  <2>2. QED
    BY <1>3, <1>4, <1>6, <2>1 DEF SplitOff
<1>8. g = [s \in SUBSET items |-> g[s]]
  BY <1>2 DEF Computes
<1>9. Splits(g, items, box)
  <2> HIDE DEF Good, part, step
  <2> QED
    BY <1>7, <1>8 DEF Splits
<1>10. QED
  BY <1>9

LEMMA SplittingIsRight ==
  ASSUME NEW items, Sent(items), NEW box \in SpaceType, NEW g, Splits(g, items, box)
  PROVE  SplitRight(g[items], items, box)
<1> DEFINE part == SplitPart(items, box)
           Good == {s \in SUBSET items : SplitRight(g[s], s, box)}
<1>1. IsFiniteSet(items) /\ (\A s \in SUBSET items : Sent(s)) /\ Shrinks(part, items)
  BY PartIsSent, SplitShrinks DEF Sent
<1>2. {} \in Good
  <2>1. g[{}] = << >>
    BY DEF Splits, SplitOff
  <2>2. QED
    BY <2>1, NothingIsSplitRight
<1>3. ASSUME NEW s \in SUBSET items, s # {}, part[s] \in Good PROVE s \in Good
  <2>1. PICK rest : rest = part[s]
    OBVIOUS
  <2>2. rest = (IF Pack(s, box).placed = {} THEN {} ELSE Pack(s, box).left) /\ SplitRight(g[rest], rest, box)
    BY <1>3, <2>1 DEF SplitPart
  <2>3. SplitRight(SplitOff(g, s, box), s, box)
    BY <1>1, <1>3, <2>2, SplitOffIsRight
  <2>4. g[s] = SplitOff(g, s, box)
    BY DEF Splits
  <2>5. QED
    BY <2>3, <2>4
<1>4. items \in Good
  <2> HIDE DEF Good, part
  <2> QED
    BY <1>1, <1>2, <1>3, SubsetInduction
<1>5. QED
  BY <1>4

LEMMA SplitIsRight ==
  ASSUME NEW items, Sent(items), NEW cushion, NEW box \in SpaceType,
         box = Inner(Catalogue[Len(Catalogue)], cushion)
  PROVE  SplitRight(Split(items, cushion), items, box)
<1> DEFINE Parts(g) == g = [s \in SUBSET items |->
              IF s = {} THEN << >>
              ELSE << Carton(Len(Catalogue), Pack(s, box)) >>
                     \o IF Pack(s, box).placed = {} THEN << >> ELSE g[Remaining(s, Pack(s, box).placed)]]
<1>1. Split(items, cushion) = (CHOOSE g : Parts(g))[items]
  BY DEF Split
<1>2. \A g : Parts(g) <=> Splits(g, items, box)
  BY DEF Splits, SplitOff
<1> HIDE DEF Parts
<1>3. PICK g : Splits(g, items, box) /\ g = CHOOSE h : Parts(h)
  BY <1>2, SplittingExists
<1>4. SplitRight(g[items], items, box)
  BY <1>3, SplittingIsRight
<1>5. QED
  BY <1>1, <1>3, <1>4

-----------------------------------------------------------------------------
(* The parcel                                                               *)

LEMMA InnerType ==
  ASSUME NEW books, NEW k \in DOMAIN Catalogue
  PROVE  /\ Inner(Catalogue[k], Cushion(books)) \in SpaceType
         /\ Inner(Catalogue[k], Cushion(books)).g = Catalogue[k].g
         /\ Inner(Catalogue[k], Cushion(books)).h = Catalogue[k].h - Cushion(books).top
         /\ Cushion(books).top \in 0..120 /\ Catalogue[k].h \in Nat /\ Catalogue[k].h >= 120
<1>1. PICK box : box = Catalogue[k] /\ box \in CatalogBox /\ box.h >= 120
  BY ParcelsAssumption
<1>2. box.l \in Nat /\ box.w \in Nat /\ box.h \in Nat /\ box.g \in Nat
  BY <1>1 DEF CatalogBox
<1>0. PICK c : c = Cushion(books)
  OBVIOUS
<1>3. c.side \in 0..120 /\ c.top \in 0..120
  <2>1. c \in {[side |-> 120, top |-> 120], [side |-> 0, top |-> 90]}
    BY <1>0, Zenon DEF Cushion
  <2>2. QED
    BY <2>1
<1>4. PICK in : in = [l |-> box.l - 2 * c.side, w |-> box.w - 2 * c.side, h |-> box.h - c.top, g |-> box.g]
  OBVIOUS
<1>5. in \in SpaceType
  <2>1. box.l - 2 * c.side \in Int /\ box.w - 2 * c.side \in Int /\ box.h - c.top \in Int
    BY <1>2, <1>3
  <2>2. QED
    BY <1>2, <1>4, <2>1 DEF SpaceType
<1>6. Inner(box, c) = in /\ in.g = box.g /\ in.h = box.h - c.top
  BY <1>4 DEF Inner
<1>7. QED
  BY <1>0, <1>1, <1>2, <1>3, <1>5, <1>6

SpaceOf(k, books) == Inner(Catalogue[k], Cushion(books))

ParcelRight(cs, books) ==
  /\ Len(cs) > 0 /\ cs \in Seq(CartonType)
  /\ \A k \in DOMAIN cs : /\ cs[k].box \in DOMAIN Catalogue
                          /\ FilledFrom(cs[k], Items(books), cs[k].box, SpaceOf(cs[k].box, books))
  /\ \A it \in Items(books) : Accounted(it, cs, SpaceOf(Len(Catalogue), books))

(* recommend_and_pack: one box for all, or master cartons.                  *)
LEMMA ParcelIsRight ==
  ASSUME NEW m \in Nat, NEW books \in [1..m -> PrintedBook], m > 0
  PROVE  ParcelRight(PackParcel(books), books)
<1> DEFINE items == Items(books)
           whole == {k \in DOMAIN Catalogue : Pack(items, SpaceOf(k, books)).left = {}}
           k == CHOOSE b \in whole : \A c \in whole : b <= c
<1>1. Sent(items) /\ items # {}
  BY ItemsAreSent
<1>2. Len(Catalogue) \in DOMAIN Catalogue /\ DOMAIN Catalogue \subseteq Nat
  BY ParcelsAssumption
<1>3. \A b \in DOMAIN Catalogue : SpaceOf(b, books) \in SpaceType
  BY InnerType DEF SpaceOf
<1>4. PackParcel(books) = IF whole = {} THEN Split(items, Cushion(books))
                          ELSE << Carton(k, Pack(items, SpaceOf(k, books))) >>
  BY DEF PackParcel, SpaceOf
<1> HIDE DEF items
<1>5. CASE whole = {}
  <2>1. PICK cs : cs = Split(items, Cushion(books)) /\ SplitRight(cs, items, SpaceOf(Len(Catalogue), books))
    BY <1>1, <1>2, <1>3, SplitIsRight DEF SpaceOf
  <2>2. PackParcel(books) = cs
    BY <1>4, <1>5, <2>1
  <2>3. ASSUME NEW i \in DOMAIN cs
        PROVE  /\ cs[i].box \in DOMAIN Catalogue
               /\ FilledFrom(cs[i], items, cs[i].box, SpaceOf(cs[i].box, books))
    <3>1. FilledFrom(cs[i], items, Len(Catalogue), SpaceOf(Len(Catalogue), books))
      BY <2>1 DEF SplitRight
    <3>2. cs[i].box = Len(Catalogue)
      BY <3>1 DEF FilledFrom
    <3>3. QED
      BY <1>2, <3>1, <3>2
  <2>4. QED
    BY <1>1, <2>1, <2>2, <2>3 DEF SplitRight, ParcelRight, items
<1>6. CASE whole # {}
  <2>1. k \in whole
    <3>1. \E b \in whole : \A c \in whole : b <= c
      BY <1>2, <1>6, LeastExists
    <3> HIDE DEF whole
    <3>2. QED
      BY <3>1
  <2> HIDE DEF k
  <2>2. PICK r : r = Pack(items, SpaceOf(k, books)) /\ r.left = {} /\ PackedWell(r, items, SpaceOf(k, books))
    BY <1>1, <1>3, <2>1, PackIsRight
  <2>3. k \in DOMAIN Catalogue /\ k \in Nat
    BY <1>2, <2>1
  <2>4. PICK c : c = Carton(k, r)
    OBVIOUS
  <2>5. c \in CartonType /\ FilledFrom(c, items, k, SpaceOf(k, books))
    BY <1>1, <1>3, <2>2, <2>3, <2>4, PackIsCarton
  <2>6. c.box = k /\ c.placed = r.placed
    BY <2>4 DEF Carton
  <2>7. << c >> \in Seq(CartonType) /\ Len(<< c >>) = 1 /\ << c >>[1] = c /\ DOMAIN << c >> = {1}
    BY <2>5
  <2>8. ASSUME NEW it \in items PROVE Accounted(it, << c >>, SpaceOf(Len(Catalogue), books))
    <3>1. Holds(c, it)
      BY <2>2, <2>6 DEF Holds, PackedWell, AreOf
    <3>2. QED
      BY <2>7, <3>1 DEF Accounted
  <2>9. ParcelRight(<< c >>, books)
    BY <2>3, <2>5, <2>6, <2>7, <2>8 DEF ParcelRight, items
  <2>10. QED
    BY <1>4, <1>6, <2>2, <2>4, <2>9
<1>7. QED
  BY <1>5, <1>6

(* The highest book of a carton.                                            *)
LEMMA HighestExists ==
  ASSUME NEW placed, IsFiniteSet(placed), placed \subseteq PlacedType, placed # {}
  PROVE  \E h \in {p.z + p.h : p \in placed} : \A p \in placed : p.z + p.h <= h
<1> DEFINE top == [p \in placed |-> p.z + p.h]
           tops == {top[p] : p \in placed}
<1>1. tops = {p.z + p.h : p \in placed}
  OBVIOUS
<1>2. \A p \in placed : top[p] \in Nat
  BY DEF PlacedType
<1> HIDE DEF top
<1>3. IsFiniteSet(tops)
  BY ImageIsFinite
<1>4. tops \subseteq Nat /\ tops # {}
  BY <1>2
<1> HIDE DEF tops
<1>5. Max(tops) \in tops /\ \A h \in tops : h <= Max(tops)
  BY <1>3, <1>4, MaxFacts
<1>6. QED
  BY <1>1, <1>5

LEMMA StackFits ==
  ASSUME NEW books, NEW c \in CartonType, NEW s, c.box \in DOMAIN Catalogue,
         FilledFrom(c, s, c.box, SpaceOf(c.box, books))
  PROVE  ~Overflows(c, Cushion(books))
<1>1. PICK box, top : box = Catalogue[c.box] /\ top = Cushion(books).top
  OBVIOUS
<1>2. /\ SpaceOf(c.box, books).h = box.h - top
      /\ top \in 0..120 /\ box.h \in Nat /\ box.h >= 120
  BY <1>1, InnerType DEF SpaceOf
<1>3. StackHeight(c) \in Nat /\ StackHeight(c) <= box.h - top
  <2>1. CASE c.placed = {}
    BY <1>2, <2>1 DEF StackHeight
  <2>2. CASE c.placed # {}
    <3> DEFINE tops == {p.z + p.h : p \in c.placed}
    <3>1. IsFiniteSet(c.placed) /\ c.placed \subseteq PlacedType
      BY DEF FilledFrom, CartonType
    <3>2. \E h \in tops : \A p \in c.placed : p.z + p.h <= h
      BY <2>2, <3>1, HighestExists
    <3>3. StackHeight(c) = CHOOSE h \in tops : \A p \in c.placed : p.z + p.h <= h
      BY <2>2 DEF StackHeight
    <3>4. \A p \in c.placed : p.z + p.h \in Nat /\ p.z + p.h <= box.h - top
      <4> TAKE p \in c.placed
      <4>1. Inside(p, SpaceOf(c.box, books))
        BY DEF FilledFrom, StandWell
      <4>2. p.z \in Nat /\ p.h \in Nat
        BY <3>1 DEF PlacedType
      <4>3. QED
        BY <1>2, <4>1, <4>2 DEF Inside
    <3>5. \A h \in tops : h \in Nat /\ h <= box.h - top
      BY <3>4
    <3> HIDE DEF tops
    <3>6. StackHeight(c) \in tops
      BY <3>2, <3>3
    <3>7. QED
      BY <3>5, <3>6
  <2>3. QED
    BY <2>1, <2>2
<1>4. ~(StackHeight(c) + top > box.h)
  BY <1>2, <1>3
<1>5. QED
  BY <1>1, <1>4 DEF Overflows

LEMMA BooksOfParcel ==
  ASSUME NEW S, S \subseteq PrintedBook, NEW n, NEW books \in UpTo(S, n)
  PROVE  \E m \in Nat : m > 0 /\ books \in [1..m -> PrintedBook]
<1>1. PICK m \in 1..n : books \in [1..m -> S]
  BY DEF UpTo
<1>2. m \in Nat /\ m > 0
  BY <1>1
<1>3. books \in [1..m -> PrintedBook]
  BY <1>1
<1>4. QED
  BY <1>2, <1>3

(* Whatever books are sent: they lie in their cartons as they should, none  *)
(* is lost, and the first stack fits its box.                               *)
LEMMA ParcelsAreRight ==
  ASSUME answer.books \in UpTo(Books, MaxBooks), answer.cartons = PackParcel(answer.books)
  PROVE  ParcelIsSound /\ NoBookIsLost /\ StackFitsBox
<1>1. PICK books, cs : books = answer.books /\ cs = answer.cartons
  OBVIOUS
<1>2. ParcelRight(cs, books)
  <2>1. PICK m \in Nat : m > 0 /\ books \in [1..m -> PrintedBook]
    BY <1>1, BooksOfParcel, DeskAssumption
  <2>2. QED
    BY <1>1, <2>1, ParcelIsRight
<1>3. /\ Len(cs) > 0 /\ cs \in Seq(CartonType) /\ DOMAIN cs = 1..Len(cs)
      /\ \A k \in DOMAIN cs : /\ cs[k].box \in DOMAIN Catalogue /\ cs[k] \in CartonType
                              /\ FilledFrom(cs[k], Items(books), cs[k].box, SpaceOf(cs[k].box, books))
  BY <1>2 DEF ParcelRight
<1>4. ParcelIsSound
  <2>1. ASSUME NEW c \in ToSet(cs)
        PROVE  /\ c.g <= Catalogue[c.box].g
               /\ \A p \in c.placed :
                    /\ Inside(p, Inner(Catalogue[c.box], Cushion(books)))
                    /\ ~Collides(p, c.placed \ {p})
                    /\ Supported(p, c.placed \ {p})
    <3>1. PICK k \in DOMAIN cs : c = cs[k]
      BY DEF ToSet
    <3>2. FilledFrom(c, Items(books), c.box, SpaceOf(c.box, books)) /\ c.box \in DOMAIN Catalogue
      BY <1>3, <3>1
    <3>3. SpaceOf(c.box, books).g = Catalogue[c.box].g
      BY <3>2, InnerType DEF SpaceOf
    <3>4. QED
      BY <3>2, <3>3 DEF FilledFrom, StandWell, SpaceOf
  <2>2. QED
    BY <1>1, <2>1 DEF ParcelIsSound
<1>5. NoBookIsLost
  <2> DEFINE items == Items(books)
             In(it, k) == \E p \in cs[k].placed : p.key = it.key
  <2>1. ASSUME NEW k \in DOMAIN cs, NEW p \in cs[k].placed
        PROVE  /\ \E it \in items : it.key = p.key /\ it.h = p.h /\ {it.l, it.w} = {p.l, p.w}
               /\ \A q \in cs[k].placed : q.key = p.key => q = p
    <3>1. PICK it \in items : SameBook(p, it)
      BY <1>3, <2>1 DEF FilledFrom
    <3>2. it.key = p.key /\ it.h = p.h /\ {it.l, it.w} = {p.l, p.w}
      BY <3>1 DEF SameBook
    <3>3. \A q \in cs[k].placed : q.key = p.key => q = p
      BY <1>3, <2>1 DEF FilledFrom
    <3>4. QED
      BY <3>2, <3>3
  <2>2. ASSUME NEW it \in items
        PROVE  \/ \E k \in DOMAIN cs : In(it, k) /\ \A j \in DOMAIN cs : In(it, j) => j = k
               \/ /\ \A k \in DOMAIN cs : ~In(it, k)
                  /\ it \in Last(cs).left
                  /\ Pack({it}, Inner(Last(Catalogue), Cushion(books))).left = {it}
    <3>1. Accounted(it, cs, SpaceOf(Len(Catalogue), books))
      BY <1>2 DEF ParcelRight
    <3>2. Catalogue[Len(Catalogue)] = Last(Catalogue)
      BY DEF Last
    <3>3. QED
      BY <3>1, <3>2 DEF Accounted, Holds, SpaceOf
  <2> HIDE DEF items
  <2>3. QED
    BY <1>1, <2>1, <2>2 DEF NoBookIsLost, items
<1>6. StackFitsBox
  <2>1. 1 \in DOMAIN cs /\ Head(cs) = cs[1]
    BY <1>3
  <2>2. ~Overflows(cs[1], Cushion(books))
    BY <1>3, <2>1, StackFits
  <2>3. QED
    BY <1>1, <2>1, <2>2 DEF StackFitsBox
<1>7. QED
  BY <1>4, <1>5, <1>6

-----------------------------------------------------------------------------
(* The estimated box                                                        *)

(* A sum over some of the terms, each taken once.                           *)
Selects(e, at, k, T, f, S) ==
  /\ IsFiniteSet(T) /\ IsSum(e, k, T)
  /\ \A j \in T : at[j] \in S /\ k[j] = f[at[j]]
  /\ \A i, j \in T : at[i] = at[j] => i = j

LEMMA SumOverFewer ==
  ASSUME NEW S, IsFiniteSet(S), NEW f, \A x \in S : f[x] \in Nat, NEW g, IsSum(g, f, S),
         NEW T, NEW k, NEW e, NEW at, Selects(e, at, k, T, f, S)
  PROVE  e[T] <= g[S]
<1> DEFINE image(t) == {at[j] : j \in t}
           part == [t \in SUBSET T |-> Rest(t)]
           Good == {t \in SUBSET T : e[t] = g[image(t)]}
<1>0. \A s \in SUBSET S : \A z \in s : g[s] = f[z] + g[s \ {z}]
  <2> HIDE DEF image, part, Good
  <2> TAKE s \in SUBSET S
  <2> TAKE z \in s
  <2> QED
    BY SumWithout
<1>1. \A t \in SUBSET T : t # {} => /\ First(t) \in t /\ Rest(t) \in SUBSET T /\ Rest(t) = t \ {First(t)}
                                    /\ Cardinality(Rest(t)) < Cardinality(t)
  <2> TAKE t \in SUBSET T
  <2> HAVE t # {}
  <2>1. /\ First(t) \in t /\ Rest(t) \in SUBSET T
        /\ Cardinality(t) \in Nat /\ Cardinality(Rest(t)) = Cardinality(t) - 1
    BY RestIsSmaller DEF Selects
  <2>2. QED
    BY <2>1 DEF Rest
<1>2. Shrinks(part, T)
  BY <1>1 DEF Shrinks
<1>3. {} \in Good
  <2>1. image({}) = {}
    OBVIOUS
  <2>2. e[{}] = 0 /\ g[{}] = 0
    BY DEF Selects, IsSum, Summed
  <2>3. QED
    BY <2>1, <2>2
<1>4. ASSUME NEW t \in SUBSET T, t # {}, part[t] \in Good PROVE t \in Good
  <2>0. PICK x, rest : x = First(t) /\ rest = Rest(t)
    OBVIOUS
  <2>1. x = First(t) /\ x \in t /\ rest = Rest(t) /\ rest \in SUBSET T /\ rest = t \ {x}
    BY <1>1, <1>4, <2>0
  <2>2. e[t] = k[x] + e[rest]
    <3> HIDE DEF image, part, Good
    <3>1. e[t] = Summed(e, k, t)
      BY DEF Selects, IsSum
    <3>2. QED
      BY <1>4, <2>1, <3>1 DEF Summed
  <2>3. e[rest] = g[image(rest)]
    BY <1>4, <2>1
  <2>4. image(t) \in SUBSET S /\ at[x] \in image(t)
    BY <2>1 DEF Selects
  <2>5. image(t) \ {at[x]} = image(rest)
    BY <2>1 DEF Selects
  <2> HIDE DEF image
  <2>6. g[image(t)] = f[at[x]] + g[image(t) \ {at[x]}]
    <3>0. PICK im, y : im = image(t) /\ y = at[x]
      OBVIOUS
    <3>1. im \in SUBSET S /\ y \in im
      BY <2>4, <3>0
    <3>2. QED
      BY <1>0, <3>0, <3>1
  <2>7. k[x] = f[at[x]]
    BY <2>1 DEF Selects
  <2>8. e[t] = g[image(t)]
    BY <2>2, <2>3, <2>5, <2>6, <2>7
  <2>9. QED
    BY <2>8
<1>5. T \in Good
  <2> HIDE DEF Good, part
  <2> QED
    BY <1>2, <1>3, <1>4, SubsetInduction DEF Selects
<1>6. e[T] = g[image(T)] /\ image(T) \in SUBSET S
  BY <1>5 DEF Selects
<1> HIDE DEF image
<1>7. g[image(T)] <= g[S]
  BY <1>6, SumOfPart
<1>8. QED
  BY <1>6, <1>7

LEMMA VolumeIsSum ==
  ASSUME NEW books, IsFiniteSet(DOMAIN books)
  PROVE  \E g : /\ IsSum(g, [i \in DOMAIN books |-> BookVolume(books[i])], DOMAIN books)
                /\ TotalVolume(books) = g[DOMAIN books]
<1> DEFINE S == DOMAIN books
           f == [i \in S |-> BookVolume(books[i])]
           Solves(g) == g = [s \in SUBSET S |-> IF s = {} THEN 0
                                                ELSE BookVolume(books[First(s)]) + g[s \ {First(s)}]]
<1>1. TotalVolume(books) = (CHOOSE g : Solves(g))[S]
  BY DEF TotalVolume, MapThenSumSet, MapThenFoldSet, First
<1>2. ASSUME NEW g PROVE Solves(g) <=> IsSum(g, f, S)
  <2> DEFINE Left == [s \in SUBSET S |-> IF s = {} THEN 0
                                         ELSE BookVolume(books[First(s)]) + g[s \ {First(s)}]]
             Right == [s \in SUBSET S |-> Summed(g, f, s)]
  <2>1. \A s \in SUBSET S : s # {} => First(s) \in S
    BY RestIsSmaller
  <2>2. Left = Right
    BY <2>1 DEF Summed, Rest
  <2>3. QED
    BY <2>2 DEF IsSum
<1>3. PICK k : Solves(k) /\ (CHOOSE g : Solves(g)) = k
  BY <1>2, SumExists
<1>4. IsSum(k, f, S)
  <2> HIDE DEF Solves
  <2> QED
    BY <1>2, <1>3
<1>5. QED
  BY <1>1, <1>3, <1>4

LEMMA WeightIsSum ==
  ASSUME NEW books, IsFiniteSet(DOMAIN books)
  PROVE  \E g : /\ IsSum(g, [i \in DOMAIN books |-> Weight(Formatted(books[i]))], DOMAIN books)
                /\ TotalWeight(books) = g[DOMAIN books]
<1> DEFINE S == DOMAIN books
           f == [i \in S |-> Weight(Formatted(books[i]))]
           Solves(g) == g = [s \in SUBSET S |-> IF s = {} THEN 0
                                                ELSE Weight(Formatted(books[First(s)])) + g[s \ {First(s)}]]
<1>1. TotalWeight(books) = (CHOOSE g : Solves(g))[S]
  BY DEF TotalWeight, MapThenSumSet, MapThenFoldSet, First
<1>2. ASSUME NEW g PROVE Solves(g) <=> IsSum(g, f, S)
  <2> DEFINE Left == [s \in SUBSET S |-> IF s = {} THEN 0
                                         ELSE Weight(Formatted(books[First(s)])) + g[s \ {First(s)}]]
             Right == [s \in SUBSET S |-> Summed(g, f, s)]
  <2>1. \A s \in SUBSET S : s # {} => First(s) \in S
    BY RestIsSmaller
  <2>2. Left = Right
    BY <2>1 DEF Summed, Rest
  <2>3. QED
    BY <2>2 DEF IsSum
<1>3. PICK k : Solves(k) /\ (CHOOSE g : Solves(g)) = k
  BY <1>2, SumExists
<1>4. IsSum(k, f, S)
  <2> HIDE DEF Solves
  <2> QED
    BY <1>2, <1>3
<1>5. QED
  BY <1>1, <1>3, <1>4

LEMMA FormatFacts ==
  ASSUME NEW b \in PrintedBook
  PROVE  Format(b)[1] \in Nat /\ Format(b)[2] \in Nat /\ BookVolume(b) \in Nat /\ Weight(Formatted(b)) \in Nat
<1>1. PICK f : f = Format(b)
  OBVIOUS
<1>2. f[1] \in Nat \ {0} /\ f[2] \in Nat \ {0}
  <2>1. <<2250, 1520>> \in Formats
    BY SMTT(10) DEF Formats
  <2>2. f \in Formats
    BY <1>1, <2>1, SMTT(10) DEF Format
  <2>3. QED
    BY <2>2, SMTT(10) DEF Formats
<1>3. BookVolume(b) \in Nat
  <2>1. PICK h \in Nat : h = Thickness(b)
    BY BookFacts
  <2>2. PICK l \in Nat, w \in Nat : l = f[1] \div 10 /\ w = f[2] \div 10
    BY <1>2
  <2>3. PICK n \in Nat : n = l * w * h
    OBVIOUS
  <2>4. BookVolume(b) = n \div 10
    BY <1>1, <2>1, <2>2, <2>3 DEF BookVolume, Volume
  <2>5. QED
    BY <2>4
<1>4. Weight(Formatted(b)) \in Nat
  <2>1. PICK c : c = [b EXCEPT !.l = f[1], !.w = f[2]]
    OBVIOUS
  <2>2. c \in PrintedBook
    BY <1>2, <2>1 DEF PrintedBook
  <2>3. Formatted(b) = c
    BY <1>1, <2>1 DEF Formatted
  <2>4. QED
    BY <2>2, <2>3, BookFacts
<1>5. QED
  BY <1>1, <1>2, <1>3, <1>4

LEMMA CatalogFacts ==
  /\ DOMAIN BoxCatalog = 1..16 /\ Len(BoxCatalog) = 16
  /\ \A k \in 1..16 : /\ BoxCatalog[k].l \in Nat /\ BoxCatalog[k].w \in Nat
                      /\ BoxCatalog[k].h \in Nat /\ BoxCatalog[k].g \in Nat
<1> DEFINE sizes == <<
     <<2500, 1500, 500, 2000>>, <<2500, 1500, 600, 3000>>, <<2200, 1900, 900, 5000>>, <<3000, 2000, 700, 4000>>,
     <<3000, 2000, 900, 5000>>, <<2700, 1800, 1500, 7000>>, <<3500, 2500, 1000, 7000>>, <<3500, 2500, 1400, 8500>>,
     <<3400, 2500, 2100, 10000>>, <<4000, 3000, 1600, 10000>>, <<4000, 3000, 2000, 12000>>, <<4100, 3100, 2800, 15000>>,
     <<4800, 3800, 3400, 20000>>, <<5300, 4100, 4000, 25000>>, <<6000, 4500, 4500, 30000>>, <<6500, 5000, 5000, 35000>> >>
<1>0. Len(sizes) = 16
  BY SMTT(20)
<1>1. sizes \in Seq(Nat \X Nat \X Nat \X Nat)
  BY SMTT(20)
<1>2. BoxCatalog = [k \in DOMAIN sizes |->
        [l |-> sizes[k][1], w |-> sizes[k][2], h |-> sizes[k][3], g |-> sizes[k][4]]]
  BY SMTT(20) DEF BoxCatalog
<1> HIDE DEF sizes
<1>3. DOMAIN sizes = 1..16
  BY <1>0, <1>1
<1>4. \A k \in 1..16 : sizes[k][1] \in Nat /\ sizes[k][2] \in Nat /\ sizes[k][3] \in Nat /\ sizes[k][4] \in Nat
  <2> TAKE k \in 1..16
  <2>1. k \in 1..Len(sizes)
    BY <1>0
  <2>2. sizes[k] \in Nat \X Nat \X Nat \X Nat
    BY <1>1, <2>1
  <2>3. QED
    BY <2>2
<1>5. Len(BoxCatalog) = 16
  BY <1>2, <1>3
<1>6. QED
  BY <1>2, <1>3, <1>4, <1>5

(* The parcel without its i-th book.                                        *)
Skips(i, j) == IF j < i THEN j ELSE j + 1

WithoutOne(less, books, m, i) ==
  /\ less \in [1..(m - 1) -> PrintedBook]
  /\ \A j \in 1..(m - 1) : Skips(i, j) \in 1..m /\ less[j] = books[Skips(i, j)]
  /\ \A j, k \in 1..(m - 1) : Skips(i, j) = Skips(i, k) => j = k

LEMMA OneFewer ==
  ASSUME NEW m \in Nat, m > 1, NEW books \in [1..m -> PrintedBook], NEW i \in 1..m
  PROVE  WithoutOne(RemoveAt(books, i), books, m, i)
<1>1. books \in Seq(PrintedBook) /\ Len(books) = m
  OBVIOUS
<1>2. PICK a, b : a = SubSeq(books, 1, i - 1) /\ b = SubSeq(books, i + 1, m)
  OBVIOUS
<1>3. a \in Seq(PrintedBook) /\ Len(a) = i - 1 /\ \A j \in 1..(i - 1) : a[j] = books[j]
  BY <1>1, <1>2
<1>4. b \in Seq(PrintedBook) /\ Len(b) = m - i /\ \A j \in 1..(m - i) : b[j] = books[i + j]
  BY <1>1, <1>2
<1>5. PICK less : less = a \o b
  OBVIOUS
<1>6. less \in Seq(PrintedBook) /\ Len(less) = m - 1
  BY <1>3, <1>4, <1>5
<1>7. less \in [1..(m - 1) -> PrintedBook]
  BY <1>6
<1>8. ASSUME NEW j \in 1..(m - 1) PROVE Skips(i, j) \in 1..m /\ less[j] = books[Skips(i, j)]
  <2>1. CASE j < i
    BY <1>3, <1>4, <1>5, <2>1 DEF Skips
  <2>2. CASE ~(j < i)
    <3>1. j - (i - 1) \in 1..(m - i) /\ i + (j - (i - 1)) = j + 1 /\ j + 1 \in 1..m
      BY <2>2
    <3>2. less[j] = b[j - (i - 1)]
      BY <1>3, <1>4, <1>5, <2>2
    <3>3. b[j - (i - 1)] = books[j + 1]
      BY <1>4, <3>1
    <3>4. QED
      BY <2>2, <3>1, <3>2, <3>3 DEF Skips
  <2>3. QED
    BY <2>1, <2>2
<1>9. \A j, k \in 1..(m - 1) : Skips(i, j) = Skips(i, k) => j = k
  BY DEF Skips
<1>10. RemoveAt(books, i) = less
  BY <1>1, <1>2, <1>5 DEF RemoveAt
<1>11. QED
  BY <1>7, <1>8, <1>9, <1>10 DEF WithoutOne

LEMMA FewerWeighLess ==
  ASSUME NEW m \in Nat, m > 1, NEW books \in [1..m -> PrintedBook], NEW i \in 1..m,
         NEW less, less = RemoveAt(books, i)
  PROVE  /\ TotalVolume(less) \in Nat /\ TotalVolume(books) \in Nat
         /\ TotalVolume(less) <= TotalVolume(books)
         /\ TotalWeight(less) \in Nat /\ TotalWeight(books) \in Nat
         /\ TotalWeight(less) <= TotalWeight(books)
<1> DEFINE at == [j \in 1..(m - 1) |-> Skips(i, j)]
           fv == [j \in 1..m |-> BookVolume(books[j])]
           kv == [j \in 1..(m - 1) |-> BookVolume(less[j])]
           fw == [j \in 1..m |-> Weight(Formatted(books[j]))]
           kw == [j \in 1..(m - 1) |-> Weight(Formatted(less[j]))]
<1>1. /\ less \in [1..(m - 1) -> PrintedBook]
      /\ \A j \in 1..(m - 1) : Skips(i, j) \in 1..m /\ less[j] = books[Skips(i, j)]
      /\ \A j, k \in 1..(m - 1) : Skips(i, j) = Skips(i, k) => j = k
  <2>1. WithoutOne(less, books, m, i)
    BY OneFewer
  <2> HIDE DEF at, fv, kv, fw, kw
  <2>2. QED
    BY <2>1 DEF WithoutOne
<1>2. IsFiniteSet(1..m) /\ IsFiniteSet(1..(m - 1)) /\ DOMAIN books = 1..m /\ DOMAIN less = 1..(m - 1)
  BY <1>1, FS_Interval
<1>3. /\ \A j \in 1..m : fv[j] \in Nat /\ fw[j] \in Nat
      /\ \A j \in 1..(m - 1) : kv[j] \in Nat /\ kw[j] \in Nat
  BY <1>1, FormatFacts
<1>4. \A j \in 1..(m - 1) : at[j] \in 1..m /\ kv[j] = fv[at[j]] /\ kw[j] = fw[at[j]]
  BY <1>1
<1>5. \A j, k \in 1..(m - 1) : at[j] = at[k] => j = k
  BY <1>1
<1>6. PICK gv : IsSum(gv, fv, 1..m) /\ TotalVolume(books) = gv[1..m]
  BY <1>2, VolumeIsSum
<1>7. PICK ev : IsSum(ev, kv, 1..(m - 1)) /\ TotalVolume(less) = ev[1..(m - 1)]
  BY <1>2, VolumeIsSum
<1>8. PICK gw : IsSum(gw, fw, 1..m) /\ TotalWeight(books) = gw[1..m]
  BY <1>2, WeightIsSum
<1>9. PICK ew : IsSum(ew, kw, 1..(m - 1)) /\ TotalWeight(less) = ew[1..(m - 1)]
  BY <1>2, WeightIsSum
<1> HIDE DEF at, fv, kv, fw, kw
<1>10. ev[1..(m - 1)] <= gv[1..m]
  <2>1. (\A j \in 1..m : fv[j] \in Nat) /\ Selects(ev, at, kv, 1..(m - 1), fv, 1..m)
    BY <1>2, <1>3, <1>4, <1>5, <1>7 DEF Selects
  <2>2. PICK S, T : S = 1..m /\ T = 1..(m - 1)
    OBVIOUS
  <2>3. QED
    BY <1>2, <1>6, <2>1, <2>2, SumOverFewer
<1>11. ew[1..(m - 1)] <= gw[1..m]
  <2>1. (\A j \in 1..m : fw[j] \in Nat) /\ Selects(ew, at, kw, 1..(m - 1), fw, 1..m)
    BY <1>2, <1>3, <1>4, <1>5, <1>9 DEF Selects
  <2>2. PICK S, T : S = 1..m /\ T = 1..(m - 1)
    OBVIOUS
  <2>3. QED
    BY <1>2, <1>8, <2>1, <2>2, SumOverFewer
<1>12. gv[1..m] \in Nat /\ gw[1..m] \in Nat
  BY <1>2, <1>3, <1>6, <1>8, SumIsNatural
<1>13. ev[1..(m - 1)] \in Nat /\ ew[1..(m - 1)] \in Nat
  BY <1>2, <1>3, <1>7, <1>9, SumIsNatural
<1>14. QED
  BY <1>6, <1>7, <1>8, <1>9, <1>10, <1>11, <1>12, <1>13

LEMMA SideFacts ==
  ASSUME NEW m \in Nat, m > 0, NEW books \in [1..m -> PrintedBook], NEW n \in {1, 2}
  PROVE  /\ Side(books, n) \in {Format(books[j])[n] : j \in 1..m}
         /\ Side(books, n) \in Nat
         /\ \A j \in 1..m : Format(books[j])[n] \in Nat /\ Format(books[j])[n] <= Side(books, n)
<1> DEFINE side == [j \in 1..m |-> Format(books[j])[n]]
           sides == {side[j] : j \in 1..m}
<1>1. sides = {Format(books[j])[n] : j \in 1..m}
  OBVIOUS
<1>2. \A j \in 1..m : side[j] = Format(books[j])[n] /\ side[j] \in Nat
  BY FormatFacts
<1>3. Side(books, n) = Max(sides)
  BY <1>1 DEF Side
<1> HIDE DEF side
<1>4. IsFiniteSet(sides)
  <2>1. IsFiniteSet(1..m)
    BY FS_Interval
  <2>2. QED
    BY <2>1, ImageIsFinite
<1>5. sides \subseteq Nat /\ sides # {}
  <2>1. 1 \in 1..m
    OBVIOUS
  <2>2. QED
    BY <1>2, <2>1
<1>6. \A j \in 1..m : side[j] \in sides
  OBVIOUS
<1> HIDE DEF sides
<1>7. Max(sides) \in sides /\ \A h \in sides : h <= Max(sides)
  BY <1>4, <1>5, MaxFacts
<1>8. QED
  BY <1>1, <1>2, <1>3, <1>5, <1>6, <1>7

LEMMA FewerSidesAreSmaller ==
  ASSUME NEW m \in Nat, m > 1, NEW books \in [1..m -> PrintedBook], NEW i \in 1..m,
         NEW less, less = RemoveAt(books, i), NEW n \in {1, 2}
  PROVE  Side(less, n) \in Nat /\ Side(books, n) \in Nat /\ Side(less, n) <= Side(books, n)
<1>1. /\ less \in [1..(m - 1) -> PrintedBook]
      /\ \A j \in 1..(m - 1) : Skips(i, j) \in 1..m /\ less[j] = books[Skips(i, j)]
  <2>1. WithoutOne(less, books, m, i)
    BY OneFewer
  <2>2. QED
    BY <2>1 DEF WithoutOne
<1>2. m - 1 \in Nat /\ m - 1 > 0 /\ m > 0
  OBVIOUS
<1>3. Side(less, n) \in {Format(less[j])[n] : j \in 1..(m - 1)} /\ Side(less, n) \in Nat
  BY <1>1, <1>2, SideFacts
<1>4. PICK j \in 1..(m - 1) : Side(less, n) = Format(less[j])[n]
  BY <1>3
<1>5. Side(books, n) \in Nat /\ \A k \in 1..m : Format(books[k])[n] <= Side(books, n)
  BY <1>2, SideFacts
<1>6. QED
  BY <1>1, <1>3, <1>4, <1>5

LEMMA MarginGrows ==
  ASSUME NEW v \in Nat, NEW u \in Nat, v <= u
  PROVE  v + (3 * v) \div 20 <= u + (3 * u) \div 20
<1>1. \A a, b \in Nat : a <= b => a \div 20 <= b \div 20
  OBVIOUS
<1>2. 3 * v \in Nat /\ 3 * u \in Nat /\ 3 * v <= 3 * u
  OBVIOUS
<1>3. (3 * v) \div 20 <= (3 * u) \div 20
  BY <1>1, <1>2
<1>4. (3 * v) \div 20 \in Nat /\ (3 * u) \div 20 \in Nat
  BY <1>2
<1>5. QED
  BY <1>3, <1>4

LEMMA FittingGrows ==
  ASSUME NEW m \in Nat, m > 1, NEW books \in [1..m -> PrintedBook], NEW i \in 1..m,
         NEW less, less = RemoveAt(books, i)
  PROVE  Fitting(books) \subseteq Fitting(less)
<1>1. PICK v \in Nat, u \in Nat : v = TotalVolume(less) /\ u = TotalVolume(books) /\ v <= u
  BY FewerWeighLess
<1>2. PICK g \in Nat, f \in Nat : g = TotalWeight(less) /\ f = TotalWeight(books) /\ g <= f
  BY FewerWeighLess
<1>3. PICK l \in Nat, h \in Nat : l = Side(less, 1) /\ h = Side(books, 1) /\ l <= h
  BY FewerSidesAreSmaller
<1>4. PICK w \in Nat, y \in Nat : w = Side(less, 2) /\ y = Side(books, 2) /\ w <= y
  BY FewerSidesAreSmaller
<1>5. v + (3 * v) \div 20 <= u + (3 * u) \div 20
  BY <1>1, MarginGrows
<1>6. ASSUME NEW k \in Fitting(books) PROVE k \in Fitting(less)
  <2>1. PICK box : box = BoxCatalog[k]
    OBVIOUS
  <2>2. /\ k \in DOMAIN BoxCatalog /\ FitsFootprint(h, y, box)
        /\ Volume(box.l, box.w, box.h) >= u + (3 * u) \div 20 /\ f <= box.g
    BY <1>1, <1>2, <1>3, <1>4, <2>1 DEF Fitting
  <2>3. box.l \in Nat /\ box.w \in Nat /\ box.h \in Nat /\ box.g \in Nat
    BY <2>1, <2>2, CatalogFacts
  <2>4. FitsFootprint(l, w, box)
    BY <1>3, <1>4, <2>2, <2>3 DEF FitsFootprint
  <2>5. Volume(box.l, box.w, box.h) >= v + (3 * v) \div 20
    <3>1. PICK a \in Int : a = Volume(box.l, box.w, box.h)
      <4>1. PICK b \in Nat, c \in Nat : b = box.l \div 10 /\ c = box.w \div 10
        BY <2>3
      <4>2. PICK d \in Nat : d = b * c * box.h
        BY <2>3
      <4>3. QED
        BY <4>1, <4>2 DEF Volume
    <3>2. PICK p \in Int, q \in Int : p = v + (3 * v) \div 20 /\ q = u + (3 * u) \div 20
      OBVIOUS
    <3>3. QED
      BY <1>5, <2>2, <3>1, <3>2
  <2>6. g <= box.g
    BY <1>2, <2>2, <2>3
  <2>7. QED
    BY <1>1, <1>2, <1>3, <1>4, <2>1, <2>2, <2>4, <2>5, <2>6 DEF Fitting
<1>7. QED
  BY <1>6

LEMMA FewerBooksSmallerBox ==
  ASSUME NEW m \in Nat, m > 1, NEW books \in [1..m -> PrintedBook], NEW i \in 1..m,
         NEW less, less = RemoveAt(books, i)
  PROVE  RecommendBox(less) <= RecommendBox(books)
<1>1. Fitting(books) \subseteq Fitting(less)
  BY FittingGrows
<1>2. \A b : Fitting(b) \subseteq 1..16
  BY CatalogFacts DEF Fitting
<1>3. \A S \in SUBSET (1..16) : S # {} => Min(S) \in S /\ \A x \in S : Min(S) <= x
  <2> TAKE S \in SUBSET (1..16)
  <2> HAVE S # {}
  <2>0. S \subseteq Nat /\ S # {}
    OBVIOUS
  <2>1. \E j \in S : \A x \in S : j <= x
    BY <2>0, LeastExists
  <2>2. QED
    BY <2>1 DEF Min
<1>4. CASE Fitting(books) = {}
  <2>1. RecommendBox(books) = 16
    BY <1>4, CatalogFacts DEF RecommendBox
  <2>2. RecommendBox(less) \in 1..16
    <3>1. CASE Fitting(less) = {}
      BY <3>1, CatalogFacts DEF RecommendBox
    <3>2. CASE Fitting(less) # {}
      BY <1>2, <1>3, <3>2 DEF RecommendBox
    <3>3. QED
      BY <3>1, <3>2
  <2>3. QED
    BY <2>1, <2>2
<1>5. CASE Fitting(books) # {}
  <2>1. Min(Fitting(books)) \in Fitting(less) /\ Fitting(less) # {}
    BY <1>1, <1>2, <1>3, <1>5
  <2>2. Min(Fitting(less)) <= Min(Fitting(books))
    BY <1>2, <1>3, <2>1
  <2>3. QED
    BY <1>5, <2>1, <2>2 DEF RecommendBox
<1>6. QED
  BY <1>4, <1>5

LEMMA EstimatesAreRight ==
  ASSUME answer.books \in UpTo(Bulky, MaxBooks), answer.box = RecommendBox(answer.books)
  PROVE  FewerBooksNoLargerBox
<1>1. PICK books : books = answer.books
  OBVIOUS
<1>2. PICK m \in Nat : m > 0 /\ books \in [1..m -> PrintedBook]
  BY <1>1, BooksOfParcel, DeskAssumption
<1>3. DOMAIN books = 1..m /\ Len(books) = m
  BY <1>2
<1>4. ASSUME NEW i \in DOMAIN books, Len(books) > 1
      PROVE  RecommendBox(RemoveAt(books, i)) <= RecommendBox(books)
  <2>1. PICK less : less = RemoveAt(books, i)
    OBVIOUS
  <2>2. RecommendBox(less) <= RecommendBox(books)
    BY <1>2, <1>3, <1>4, <2>1, FewerBooksSmallerBox
  <2>3. QED
    BY <2>1, <2>2
<1>5. QED
  BY <1>1, <1>4 DEF FewerBooksNoLargerBox

-----------------------------------------------------------------------------
(* Products and quotients                                                   *)

LEMMA Floor ==
  ASSUME NEW m \in Int, NEW d \in Nat, d > 0
  PROVE  m \div d \in Int /\ d * (m \div d) <= m /\ m < d * (m \div d) + d
  OBVIOUS

LEMMA FloorIsAtLeast ==
  ASSUME NEW m \in Int, NEW d \in Nat, d > 0, NEW x \in Int, d * x <= m
  PROVE  x <= m \div d
  OBVIOUS

LEMMA FloorIsAtMost ==
  ASSUME NEW m \in Int, NEW d \in Nat, d > 0, NEW x \in Int, m <= d * x
  PROVE  m \div d <= x
  OBVIOUS

LEMMA ProductGrows ==
  ASSUME NEW a \in Nat, NEW b \in Nat, NEW c \in Nat, NEW d \in Nat, a <= b, c <= d
  PROVE  a * c <= b * d
  OBVIOUS

LEMMA ProductCancels ==
  ASSUME NEW d \in Nat, d > 0, NEW x \in Int, NEW y \in Int, x * d <= y * d
  PROVE  x <= y
  OBVIOUS

(* Within the picture, the sides of a box of less than 78 percent are       *)
(* shorter together than those of one of more than four fifths.             *)
LEMMA SidesOfSmall ==
  ASSUME NEW w \in 0..1000, NEW h \in 0..1000, w * h <= 780000
  PROVE  w + h <= 1780
  OBVIOUS

LEMMA ShortSidesAreSmall ==
  ASSUME NEW w \in 0..1000, NEW h \in 0..1000, w + h <= 1781
  PROVE  w * h <= 800000
  OBVIOUS

-----------------------------------------------------------------------------
(* Boxes in a picture                                                       *)

LEMMA FrameFacts ==
  ASSUME NEW b \in Frame
  PROVE  /\ b[1] \in 0..1000 /\ b[2] \in 0..1000 /\ b[3] \in 0..1000 /\ b[4] \in 0..1000
         /\ b[1] \in Nat /\ b[2] \in Nat /\ b[3] \in Nat /\ b[4] \in Nat /\ b[1] < b[3] /\ b[2] < b[4]
<1>1. b[1] \in 0..1000 /\ b[2] \in 0..1000 /\ b[3] \in 0..1000 /\ b[4] \in 0..1000 /\ b[1] < b[3] /\ b[2] < b[4]
  BY DEF Frame
<1>2. ASSUME NEW k \in 1..4 PROVE b[k] \in Nat
  <2>1. b \in [1..4 -> 0..1000]
    BY DEF Frame
  <2>2. PICK n \in 0..1000 : n = b[k]
    BY <2>1
  <2>3. n \in Nat
    OBVIOUS
  <2>4. QED
    BY <2>2, <2>3
<1>3. b[1] \in Nat /\ b[2] \in Nat /\ b[3] \in Nat /\ b[4] \in Nat
  BY <1>2
<1>4. QED
  BY <1>1, <1>3

Stretch(lo1, hi1, lo2, hi2) == Max({0, Min({hi1, hi2}) - Max({lo1, lo2})})

LEMMA OverlapBounds ==
  ASSUME NEW lo1 \in Nat, NEW hi1 \in Nat, lo1 < hi1, NEW lo2 \in Nat, NEW hi2 \in Nat, lo2 < hi2
  PROVE  /\ Stretch(lo1, hi1, lo2, hi2) \in Nat
         /\ Stretch(lo1, hi1, lo2, hi2) <= hi1 - lo1 /\ Stretch(lo1, hi1, lo2, hi2) <= hi2 - lo2
         /\ Stretch(lo1, hi1, lo2, hi2) > 0 =>
              Stretch(lo1, hi1, lo2, hi2) <= hi2 - lo1 /\ Stretch(lo1, hi1, lo2, hi2) <= hi1 - lo2
<1>1. PICK hi, lo : hi = Min({hi1, hi2}) /\ lo = Max({lo1, lo2})
  OBVIOUS
<1>2. hi = IF hi1 <= hi2 THEN hi1 ELSE hi2
  BY <1>1, LesserOfTwo
<1>3. lo = IF lo1 <= lo2 THEN lo2 ELSE lo1
  BY <1>1, GreaterOfTwo
<1>4. hi - lo \in Int
  BY <1>2, <1>3
<1>5. Max({0, hi - lo}) = IF 0 <= hi - lo THEN hi - lo ELSE 0
  BY <1>4, GreaterOfTwo
<1>6. Stretch(lo1, hi1, lo2, hi2) = IF 0 <= hi - lo THEN hi - lo ELSE 0
  BY <1>1, <1>5 DEF Stretch
<1>7. QED
  BY <1>2, <1>3, <1>6

(* b holds the middle of a.                                                 *)
Centred(a, b) == /\ 2 * b[1] <= a[1] + a[3] /\ a[1] + a[3] <= 2 * b[3]
                 /\ 2 * b[2] <= a[2] + a[4] /\ a[2] + a[4] <= 2 * b[4]

(* What covers half of an area covers half of each side.                    *)
LEMMA HalfOfSides ==
  ASSUME NEW x \in Nat, NEW y \in Nat, NEW w \in Nat, NEW h \in Nat, NEW v \in Nat, NEW k \in Nat,
         x <= w, y <= h, x <= v, y <= k, x * y > 0, 3 * (x * y) >= w * h + v * k
  PROVE  w <= 2 * x /\ h <= 2 * y
<1>1. x * y \in Nat /\ x * y <= v * k
  BY ProductGrows
<1>2. w * h \in Nat /\ v * k \in Nat
  OBVIOUS
<1>3. w * h <= 2 * (x * y)
  BY <1>1, <1>2
<1>4. x > 0 /\ y > 0
  OBVIOUS
<1>5. w * y <= w * h /\ x * h <= w * h
  BY ProductGrows
<1>6. w * y \in Nat /\ x * h \in Nat /\ 2 * (x * y) = (2 * x) * y /\ 2 * (x * y) = (2 * y) * x /\ x * h = h * x
  OBVIOUS
<1>7. w * y <= (2 * x) * y /\ h * x <= (2 * y) * x
  BY <1>1, <1>2, <1>3, <1>5, <1>6
<1>8. w <= 2 * x
  BY <1>4, <1>7, ProductCancels
<1>9. h <= 2 * y
  BY <1>4, <1>7, ProductCancels
<1>10. QED
  BY <1>8, <1>9

LEMMA MeetIsCentred ==
  ASSUME NEW a \in Frame, NEW b \in Frame, Meet(a, b)
  PROVE  Centred(a, b)
<1>1. /\ a[1] \in Nat /\ a[2] \in Nat /\ a[3] \in Nat /\ a[4] \in Nat /\ a[1] < a[3] /\ a[2] < a[4]
      /\ b[1] \in Nat /\ b[2] \in Nat /\ b[3] \in Nat /\ b[4] \in Nat /\ b[1] < b[3] /\ b[2] < b[4]
  <2>1. a[1] \in Nat /\ a[2] \in Nat /\ a[3] \in Nat /\ a[4] \in Nat /\ a[1] < a[3] /\ a[2] < a[4]
    BY FrameFacts
  <2>2. b[1] \in Nat /\ b[2] \in Nat /\ b[3] \in Nat /\ b[4] \in Nat /\ b[1] < b[3] /\ b[2] < b[4]
    BY FrameFacts
  <2>3. QED
    BY <2>1, <2>2
<1>2. PICK x, y : x = Stretch(a[1], a[3], b[1], b[3]) /\ y = Stretch(a[2], a[4], b[2], b[4])
  OBVIOUS
<1>3. /\ x \in Nat /\ x <= a[3] - a[1] /\ x <= b[3] - b[1]
      /\ x > 0 => x <= b[3] - a[1] /\ x <= a[3] - b[1]
  BY <1>1, <1>2, OverlapBounds
<1>4. /\ y \in Nat /\ y <= a[4] - a[2] /\ y <= b[4] - b[2]
      /\ y > 0 => y <= b[4] - a[2] /\ y <= a[4] - b[2]
  BY <1>1, <1>2, OverlapBounds
<1>5. x * y > 0 /\ 3 * (x * y) >= (a[3] - a[1]) * (a[4] - a[2]) + (b[3] - b[1]) * (b[4] - b[2])
  BY <1>2 DEF Meet, Common, Surface, Stretch
<1>6. PICK w \in Nat, h \in Nat : w = a[3] - a[1] /\ h = a[4] - a[2]
  BY <1>1
<1>7. PICK v \in Nat, k \in Nat : v = b[3] - b[1] /\ k = b[4] - b[2]
  BY <1>1
<1>8. 3 * (x * y) >= w * h + v * k
  BY <1>5, <1>6, <1>7
<1>9. w <= 2 * x /\ h <= 2 * y
  BY <1>3, <1>4, <1>5, <1>6, <1>7, <1>8, HalfOfSides
<1>10. x > 0 /\ y > 0
  BY <1>3, <1>4, <1>5
<1>11. QED
  BY <1>1, <1>3, <1>4, <1>6, <1>9, <1>10 DEF Centred

LEMMA OwnCentre ==
  ASSUME NEW a \in Frame
  PROVE  Centred(a, a)
<1>1. /\ a[1] \in Nat /\ a[2] \in Nat /\ a[3] \in Nat /\ a[4] \in Nat /\ a[1] < a[3] /\ a[2] < a[4]
  BY FrameFacts
<1>2. QED
  BY <1>1 DEF Centred

-----------------------------------------------------------------------------
(* What the models see                                                      *)

Detectors == {"recall", "precision", "doodle"}
ShownType   == [n : Nat, model : Detectors, box : Frame, score : 0..100, label : Labels]

LEMMA ModelFacts ==
  /\ ToSet(Models) = Detectors
  /\ \A m \in Detectors : Turn(m) \in 1..3 /\ Models[Turn(m)] = m
  /\ \A m \in Detectors : Weight2[m] \in {2, 3}
<1>1. DOMAIN Models = 1..3 /\ Models[1] = "recall" /\ Models[2] = "precision" /\ Models[3] = "doodle"
  BY DEF Models
<1>2. ToSet(Models) = Detectors
  <2>1. 1..3 = {1, 2, 3}
    OBVIOUS
  <2>2. QED
    BY <1>1, <2>1 DEF ToSet, Detectors
<1>3. ASSUME NEW m \in Detectors PROVE Turn(m) \in 1..3 /\ Models[Turn(m)] = m
  <2>1. \E i \in 1..3 : Models[i] = m
    BY <1>1 DEF Detectors
  <2>2. QED
    BY <2>1 DEF Turn
<1>4. \A m \in Detectors : Weight2[m] \in {2, 3}
  BY DEF Detectors, Weight2
<1>5. QED
  BY <1>2, <1>3, <1>4

(* Every sighting is known by its model and its number there.               *)
Sighted(pool) ==
  /\ IsFiniteSet(pool) /\ pool \subseteq ShownType
  /\ \A a, b \in pool : a.n = b.n /\ a.model = b.model => a = b

LEMMA PoolIsSighted ==
  ASSUME NEW seen \in Seen, NEW loaded \in Loaded
  PROVE  Sighted(Pool(seen, loaded))
<1> DEFINE row(m, i) == [n |-> i, model |-> m, box |-> seen[m][i].box, score |-> seen[m][i].score,
                         label |-> IF m = "doodle" THEN "doodle_scribble" ELSE seen[m][i].label]
           shown(m) == { k \in DOMAIN seen[m] : seen[m][k].score >= MinScore[m] }
           part(m) == { row(m, i) : i \in shown(m) }
<1>1. seen \in [Detectors -> Seq(Sighting)] /\ loaded \subseteq Detectors
  BY ModelFacts, DeskAssumption
<1>2. Pool(seen, loaded) = UNION { part(m) : m \in loaded }
  BY DEF Pool
<1>3. ASSUME NEW m \in loaded, NEW i \in shown(m)
      PROVE  row(m, i) \in ShownType /\ row(m, i).n = i /\ row(m, i).model = m
  <2>1. seen[m] \in Seq(Sighting) /\ m \in Detectors /\ i \in DOMAIN seen[m]
    BY <1>1, <1>3
  <2>2. i \in Nat
    BY <2>1
  <2>3. PICK s \in Sighting : s = seen[m][i]
    BY <2>1
  <2>4. s.box \in Frame /\ s.score \in 0..100 /\ s.label \in Labels
    BY DEF Sighting
  <2>5. "doodle_scribble" \in Labels
    BY DEF Labels
  <2>6. QED
    BY <2>1, <2>2, <2>3, <2>4, <2>5 DEF ShownType
<1>4. ASSUME NEW m \in loaded PROVE IsFiniteSet(part(m))
  <2>1. seen[m] \in Seq(Sighting)
    BY <1>1
  <2>2. DOMAIN seen[m] = 1..Len(seen[m]) /\ Len(seen[m]) \in Nat
    BY <2>1
  <2>3. IsFiniteSet(DOMAIN seen[m])
    BY <2>2, FS_Interval
  <2>4. shown(m) \subseteq DOMAIN seen[m]
    OBVIOUS
  <2> HIDE DEF shown
  <2>5. IsFiniteSet(shown(m))
    BY <2>3, <2>4, FS_Subset
  <2> DEFINE f == [i \in shown(m) |-> row(m, i)]
  <2>6. part(m) = { f[i] : i \in shown(m) }
    OBVIOUS
  <2> HIDE DEF f, part
  <2>7. QED
    BY <2>5, <2>6, ImageIsFinite
<1> HIDE DEF row, shown
<1>5. IsFiniteSet(loaded)
  <2>1. IsFiniteSet(Detectors)
    <3>1. DOMAIN Models = 1..3
      BY DEF Models
    <3>2. IsFiniteSet(1..3)
      <4>1. 1..3 \subseteq 1..17
        OBVIOUS
      <4>2. QED
        BY <4>1, GridIsFinite, FS_Subset
    <3>3. IsFiniteSet({ Models[i] : i \in 1..3 })
      BY <3>2, ImageIsFinite
    <3>4. QED
      BY <3>1, <3>3, ModelFacts DEF ToSet
  <2>2. QED
    BY <1>1, <2>1, FS_Subset
<1>6. IsFiniteSet(Pool(seen, loaded))
  <2> DEFINE f == [m \in loaded |-> part(m)]
  <2>1. { part(m) : m \in loaded } = { f[m] : m \in loaded }
    OBVIOUS
  <2>2. \A m \in loaded : IsFiniteSet(f[m])
    BY <1>4
  <2> HIDE DEF f, part
  <2>3. IsFiniteSet({ f[m] : m \in loaded })
    BY <1>5, ImageIsFinite
  <2>4. IsFiniteSet(UNION { f[m] : m \in loaded })
    BY <2>2, <2>3, FS_UNION
  <2>5. QED
    BY <1>2, <2>1, <2>4
<1>7. Pool(seen, loaded) \subseteq ShownType
  BY <1>2, <1>3
<1>8. ASSUME NEW a \in Pool(seen, loaded), NEW b \in Pool(seen, loaded), a.n = b.n, a.model = b.model
      PROVE  a = b
  <2>1. PICK m \in loaded : a \in part(m)
    BY <1>2
  <2>2. PICK o \in loaded : b \in part(o)
    BY <1>2
  <2>3. PICK i \in shown(m), j \in shown(o) : a = row(m, i) /\ b = row(o, j)
    BY <2>1, <2>2
  <2>4. m = o /\ i = j
    BY <1>3, <1>8, <2>3
  <2>5. QED
    BY <2>3, <2>4
<1>9. QED
  BY <1>6, <1>7, <1>8 DEF Sighted

LEMMA SurerOrders ==
  ASSUME NEW x \in ShownType, NEW y \in ShownType, NEW z \in ShownType
  PROVE  /\ x.n # y.n \/ x.model # y.model => Surer(x, y) \/ Surer(y, x)
         /\ Surer(x, y) /\ Surer(y, z) => Surer(x, z)
<1>1. PICK i \in Int, j \in Int, k \in Int : i = Turn(x.model) /\ j = Turn(y.model) /\ k = Turn(z.model)
  BY ModelFacts DEF ShownType
<1>2. PICK a \in 0..100, b \in 0..100, c \in 0..100 : a = x.score /\ b = y.score /\ c = z.score
  BY DEF ShownType
<1>3. x.n \in Nat /\ y.n \in Nat /\ z.n \in Nat
  BY DEF ShownType
<1>4. (i = j => x.model = y.model) /\ (j = k => y.model = z.model) /\ (i = k => x.model = z.model)
  BY <1>1, ModelFacts DEF ShownType
<1>5. (x.model = y.model => i = j) /\ (y.model = z.model => j = k) /\ (x.model = z.model => i = k)
  BY <1>1
<1>6. QED
  BY <1>1, <1>2, <1>3, <1>4, <1>5 DEF Surer

LEMMA FaintestIsThere ==
  ASSUME NEW pool, Sighted(pool)
  PROVE  \A s \in SUBSET pool : s # {} => /\ Faintest(s) \in s
                                          /\ \A a \in s : Faintest(s).score <= a.score
<1> DEFINE R == { p \in ShownType \X ShownType : Surer(p[1], p[2]) }
<1>1. ASSUME NEW s \in SUBSET pool, s # {} PROVE \E b \in s : \A a \in s \ {b} : Surer(a, b)
  <2>1. IsFiniteSet(s) /\ s \subseteq ShownType
    BY FS_Subset DEF Sighted
  <2>2. \A x, y \in s : x = y \/ << x, y >> \in R \/ << y, x >> \in R
    <3> TAKE x, y \in s
    <3>1. x \in ShownType /\ y \in ShownType /\ (x = y \/ x.n # y.n \/ x.model # y.model)
      BY <2>1 DEF Sighted
    <3>2. QED
      BY <3>1, SurerOrders
  <2>3. \A x, y, z \in s : << x, y >> \in R /\ << y, z >> \in R => << x, z >> \in R
    BY <2>1, SurerOrders
  <2> HIDE DEF R
  <2>4. PICK m \in s : \A x \in s \ {m} : << x, m >> \in R
    BY <1>1, <2>1, <2>2, <2>3, LastOfOrder
  <2>5. QED
    BY <2>4 DEF R
<1>2. ASSUME NEW s \in SUBSET pool, s # {}
      PROVE  Faintest(s) \in s /\ \A a \in s : Faintest(s).score <= a.score
  <2>1. PICK b \in s : b = Faintest(s) /\ \A a \in s \ {b} : Surer(a, b)
    BY <1>1, <1>2 DEF Faintest
  <2>2. ASSUME NEW a \in s PROVE b.score <= a.score
    <3>1. a.score \in Int /\ b.score \in Int
      BY DEF Sighted, ShownType
    <3>2. QED
      BY <2>1, <3>1 DEF Surer
  <2>3. QED
    BY <2>1, <2>2
<1>3. QED
  BY <1>2

-----------------------------------------------------------------------------
(* Which sightings are fused                                                *)

ClustersType == Seq(Seq(ShownType))

LEMMA AssignedIs ==
  ASSUME NEW cs \in ClustersType, NEW b
  PROVE  \/ Assigned(cs, b) = Append(cs, << b >>)
         \/ \E k \in DOMAIN cs : Joins(cs[k], b) /\ Assigned(cs, b) = [cs EXCEPT ![k] = Append(@, b)]
<1> DEFINE home == { k \in DOMAIN cs : Joins(cs[k], b) }
<1>1. CASE home = {}
  BY <1>1 DEF Assigned
<1>2. CASE home # {}
  <2>1. DOMAIN cs = 1..Len(cs) /\ Len(cs) \in Nat
    BY DEF ClustersType
  <2>2. home \subseteq Nat
    BY <2>1
  <2>3. PICK k \in home : \A i \in home : k <= i
    BY <1>2, <2>2, LeastExists
  <2>4. Min(home) \in home
    BY <2>3 DEF Min
  <2>5. Assigned(cs, b) = [cs EXCEPT ![Min(home)] = Append(@, b)]
    BY <1>2 DEF Assigned
  <2>6. QED
    BY <2>4, <2>5
<1>3. QED
  BY <1>1, <1>2

LEMMA AssignedType ==
  ASSUME NEW cs \in ClustersType, NEW b \in ShownType
  PROVE  Assigned(cs, b) \in ClustersType
<1>1. CASE Assigned(cs, b) = Append(cs, << b >>)
  <2>1. << b >> \in Seq(ShownType)
    OBVIOUS
  <2>2. QED
    BY <1>1, <2>1 DEF ClustersType
<1>2. ASSUME NEW k \in DOMAIN cs, Assigned(cs, b) = [cs EXCEPT ![k] = Append(@, b)]
      PROVE  Assigned(cs, b) \in ClustersType
  <2>1. cs[k] \in Seq(ShownType)
    BY DEF ClustersType
  <2>2. PICK c : c = Append(cs[k], b) /\ c \in Seq(ShownType)
    <3>1. PICK r : r = cs[k]
      OBVIOUS
    <3>2. Append(r, b) \in Seq(ShownType)
      BY <2>1, <3>1
    <3>3. QED
      BY <3>1, <3>2
  <2>3. Assigned(cs, b) = [cs EXCEPT ![k] = c]
    BY <1>2, <2>2
  <2>4. DOMAIN cs = 1..Len(cs) /\ Len(cs) \in Nat /\ \A j \in DOMAIN cs : cs[j] \in Seq(ShownType)
    BY DEF ClustersType
  <2>5. [cs EXCEPT ![k] = c] \in [1..Len(cs) -> Seq(ShownType)]
    BY <2>2, <2>4
  <2>6. QED
    BY <2>3, <2>4, <2>5 DEF ClustersType
<1>3. QED
  BY <1>1, <1>2, AssignedIs

(* A cluster: boxes of one label, the first the surest, which all others    *)
(* meet.                                                                    *)
Member(c, b) == b.label = c[1].label /\ b.score <= c[1].score /\ (b = c[1] \/ Meet(c[1].box, b.box))
Joined(c, s) ==
  /\ c \in Seq(ShownType) /\ Len(c) > 0
  /\ \A i \in DOMAIN c : c[i] \in s /\ Member(c, c[i])
Clustered(cs, s) ==
  /\ cs \in ClustersType
  /\ \A k \in DOMAIN cs : Joined(cs[k], s)
  /\ \A b \in s : \E k \in DOMAIN cs : \E i \in DOMAIN cs[k] : cs[k][i] = b

LEMMA OneMoreJoins ==
  ASSUME NEW s, NEW c, Joined(c, s), NEW b \in ShownType, Joins(c, b), \A a \in s : b.score <= a.score
  PROVE  /\ Joined(Append(c, b), s \cup {b}) /\ Append(c, b)[Len(c) + 1] = b
         /\ Len(c) + 1 \in DOMAIN Append(c, b)
         /\ \A i \in DOMAIN c : i \in DOMAIN Append(c, b) /\ Append(c, b)[i] = c[i]
<1>1. c \in Seq(ShownType) /\ Len(c) \in Nat /\ Len(c) > 0 /\ DOMAIN c = 1..Len(c) /\ 1 \in DOMAIN c
  BY DEF Joined
<1>2. PICK d : d = Append(c, b)
  OBVIOUS
<1>3. /\ d \in Seq(ShownType) /\ Len(d) = Len(c) + 1 /\ DOMAIN d = 1..(Len(c) + 1)
      /\ d[Len(c) + 1] = b /\ \A i \in DOMAIN c : d[i] = c[i]
  BY <1>1, <1>2
<1>4. d[1] = c[1]
  BY <1>1, <1>3
<1>5. ASSUME NEW i \in DOMAIN c PROVE i \in DOMAIN d /\ d[i] = c[i] /\ d[i] \in s \cup {b} /\ Member(d, d[i])
  <2>1. c[i] \in s /\ Member(c, c[i])
    BY DEF Joined
  <2>2. i \in DOMAIN d /\ d[i] = c[i]
    BY <1>1, <1>3
  <2>3. QED
    BY <1>4, <2>1, <2>2 DEF Member
<1>6. Member(d, b)
  <2>1. c[1] \in s
    BY <1>1 DEF Joined
  <2>2. QED
    BY <1>4, <2>1 DEF Joins, Member
<1>7. \A i \in DOMAIN d : i \in DOMAIN c \/ i = Len(c) + 1
  BY <1>1, <1>3
<1>8. Joined(d, s \cup {b})
  <2>1. Len(d) > 0
    BY <1>1, <1>3
  <2>2. \A i \in DOMAIN d : d[i] \in s \cup {b} /\ Member(d, d[i])
    BY <1>3, <1>5, <1>6, <1>7
  <2>3. QED
    BY <1>3, <2>1, <2>2 DEF Joined
<1>9. Len(c) + 1 \in DOMAIN d
  BY <1>1, <1>3
<1>10. QED
  BY <1>2, <1>3, <1>5, <1>8, <1>9

LEMMA AloneJoins ==
  ASSUME NEW s, NEW b \in ShownType
  PROVE  Joined(<< b >>, s \cup {b}) /\ << b >>[1] = b /\ 1 \in DOMAIN << b >>
<1>1. << b >> \in Seq(ShownType) /\ Len(<< b >>) = 1 /\ << b >>[1] = b
  OBVIOUS
<1>2. b.score <= b.score
  <2>1. PICK n \in 0..100 : n = b.score
    BY DEF ShownType
  <2>2. QED
    BY <2>1
<1>3. \A i \in DOMAIN << b >> : << b >>[i] = b
  BY <1>1
<1>4. QED
  BY <1>1, <1>2, <1>3 DEF Joined, Member

LEMMA AssignedKeeps ==
  ASSUME NEW s, NEW cs, Clustered(cs, s), NEW b \in ShownType, \A a \in s : b.score <= a.score
  PROVE  Clustered(Assigned(cs, b), s \cup {b})
<1>0. cs \in ClustersType /\ DOMAIN cs = 1..Len(cs) /\ Len(cs) \in Nat
  BY DEF Clustered, ClustersType
<1>1. PICK ds : ds = Assigned(cs, b) /\ ds \in ClustersType
  BY <1>0, AssignedType
<1>2. \A c : Joined(c, s) => Joined(c, s \cup {b})
  BY DEF Joined
<1>3. CASE ds = Append(cs, << b >>)
  <2>1. PICK c : c = << b >>
    OBVIOUS
  <2>2. Joined(c, s \cup {b}) /\ c[1] = b /\ 1 \in DOMAIN c
    BY <2>1, AloneJoins
  <2>3. /\ DOMAIN ds = 1..(Len(cs) + 1) /\ ds[Len(cs) + 1] = c
        /\ \A k \in DOMAIN cs : ds[k] = cs[k]
    BY <1>0, <1>3, <2>1 DEF ClustersType
  <2>4. \A k \in DOMAIN ds : k \in DOMAIN cs \/ k = Len(cs) + 1
    BY <1>0, <2>3
  <2>5. \A k \in DOMAIN cs : k \in DOMAIN ds
    BY <1>0, <2>3
  <2>6. Len(cs) + 1 \in DOMAIN ds
    BY <1>0, <2>3
  <2>7. \A k \in DOMAIN ds : Joined(ds[k], s \cup {b})
    BY <1>2, <2>2, <2>3, <2>4 DEF Clustered
  <2>8. ASSUME NEW a \in s \cup {b} PROVE \E k \in DOMAIN ds : \E i \in DOMAIN ds[k] : ds[k][i] = a
    <3>1. CASE a = b
      BY <2>2, <2>3, <2>6, <3>1
    <3>2. CASE a \in s
      <4>1. PICK k \in DOMAIN cs : \E i \in DOMAIN cs[k] : cs[k][i] = a
        BY <3>2 DEF Clustered
      <4>2. QED
        BY <2>3, <2>5, <4>1
    <3>3. QED
      BY <3>1, <3>2
  <2>9. QED
    BY <1>1, <2>7, <2>8 DEF Clustered
<1>4. ASSUME NEW k \in DOMAIN cs, Joins(cs[k], b), ds = [cs EXCEPT ![k] = Append(@, b)]
      PROVE  Clustered(ds, s \cup {b})
  <2>1. PICK c, d : c = cs[k] /\ d = Append(c, b)
    OBVIOUS
  <2>2. Joined(c, s) /\ Joins(c, b)
    BY <1>4, <2>1 DEF Clustered
  <2>3. /\ Joined(d, s \cup {b}) /\ d[Len(c) + 1] = b /\ Len(c) + 1 \in DOMAIN d
        /\ \A i \in DOMAIN c : i \in DOMAIN d /\ d[i] = c[i]
    BY <2>1, <2>2, OneMoreJoins
  <2>4. ds[k] = d /\ DOMAIN ds = DOMAIN cs /\ \A j \in DOMAIN cs : j # k => ds[j] = cs[j]
    BY <1>4, <2>1
  <2>5. \A j \in DOMAIN ds : Joined(ds[j], s \cup {b})
    BY <1>2, <2>3, <2>4 DEF Clustered
  <2>6. ASSUME NEW a \in s \cup {b} PROVE \E j \in DOMAIN ds : \E i \in DOMAIN ds[j] : ds[j][i] = a
    <3>1. CASE a = b
      BY <2>3, <2>4, <3>1
    <3>2. CASE a \in s
      <4>1. PICK j \in DOMAIN cs : \E i \in DOMAIN cs[j] : cs[j][i] = a
        BY <3>2 DEF Clustered
      <4>2. CASE j = k
        BY <2>1, <2>3, <2>4, <4>1, <4>2
      <4>3. CASE j # k
        BY <2>4, <4>1, <4>3
      <4>4. QED
        BY <4>2, <4>3
    <3>3. QED
      BY <3>1, <3>2
  <2>7. QED
    BY <1>1, <2>5, <2>6 DEF Clustered
<1>5. QED
  BY <1>0, <1>1, <1>3, <1>4, AssignedIs

(* The clusters of the surest, for more and more of them.                   *)
Gathered(g, s) == IF s = {} THEN << >> ELSE Assigned(g[s \ {Faintest(s)}], Faintest(s))
Gathers(g, pool) == g = [s \in SUBSET pool |-> Gathered(g, s)]

LEMMA GatheringExists ==
  ASSUME NEW pool, Sighted(pool)
  PROVE  \E g : Gathers(g, pool)
<1> DEFINE pick == [s \in SUBSET pool |-> Faintest(s)]
           part == [s \in SUBSET pool |-> s \ {pick[s]}]
           step == [x \in (SUBSET pool) \X ClustersType |-> Assigned(x[2], Faintest(x[1]))]
<1>1. IsFiniteSet(pool) /\ pool \subseteq ShownType
  BY DEF Sighted
<1>2. \A s \in SUBSET pool : s # {} => pick[s] \in s
  BY FaintestIsThere
<1>3. Shrinks(part, pool)
  <2> HIDE DEF pick
  <2> QED
    BY <1>1, <1>2, RestShrinks
<1>4. PICK g : Computes(g, pool, part, << >>, step)
  <2> HIDE DEF part, step
  <2> QED
    BY <1>1, <1>3, RecursionExists
<1>5. ASSUME NEW s \in SUBSET pool, s # {}, g[part[s]] \in ClustersType
      PROVE  /\ g[s] = Assigned(g[s \ {Faintest(s)}], Faintest(s))
             /\ g[s] \in ClustersType
  <2>1. g[s] = step[<< s, g[part[s]] >>]
    <3> HIDE DEF part, step
    <3> QED
      BY <1>4, <1>5 DEF Computes, Computed
  <2>2. part[s] = s \ {Faintest(s)} /\ Faintest(s) \in ShownType
    BY <1>1, <1>2, <1>5
  <2> HIDE DEF part
  <2>3. << s, g[part[s]] >> \in (SUBSET pool) \X ClustersType
    BY <1>5
  <2>4. g[s] = Assigned(g[part[s]], Faintest(s))
    BY <2>1, <2>3
  <2>5. QED
    BY <1>5, <2>2, <2>4, AssignedType
<1>6. g[{}] = << >>
  <2> HIDE DEF part, step
  <2> QED
    BY <1>4 DEF Computes, Computed
<1> DEFINE Good == {s \in SUBSET pool : g[s] \in ClustersType}
<1>7. \A s \in SUBSET pool : s \in Good
  <2>1. {} \in Good
    <3>1. << >> \in ClustersType
      BY DEF ClustersType
    <3>2. QED
      BY <1>6, <3>1
  <2>2. \A s \in SUBSET pool : s # {} /\ part[s] \in Good => s \in Good
    BY <1>5
  <2> HIDE DEF Good, part
  <2>3. QED
    BY <1>1, <1>3, <2>1, <2>2, SubsetInduction
<1>8. ASSUME NEW s \in SUBSET pool PROVE g[s] = Gathered(g, s)
  <2>1. CASE s = {}
    BY <1>6, <2>1 DEF Gathered
  <2>2. CASE s # {}
    <3>1. part[s] \in SUBSET pool
      BY <1>3, <2>2 DEF Shrinks
    <3>2. g[part[s]] \in ClustersType
      BY <1>7, <3>1
    <3>3. QED
      BY <1>5, <2>2, <3>2 DEF Gathered
  <2>3. QED
    BY <2>1, <2>2
<1>9. g = [s \in SUBSET pool |-> g[s]]
  BY <1>4 DEF Computes
<1>10. g = [s \in SUBSET pool |-> Gathered(g, s)]
  <2> HIDE DEF part, step, Good
  <2> QED
    BY <1>8, <1>9
<1>11. QED
  BY <1>10 DEF Gathers

LEMMA ClustersAreGathered ==
  ASSUME NEW pool, Sighted(pool)
  PROVE  \E g : Gathers(g, pool) /\ Clusters(pool) = g[pool]
<1> DEFINE Built(g) == g = [s \in SUBSET pool |-> IF s = {} THEN << >>
                                                  ELSE Assigned(g[s \ {Faintest(s)}], Faintest(s))]
<1>1. Clusters(pool) = (CHOOSE g : Built(g))[pool]
  BY DEF Clusters
<1>2. PICK g : Gathers(g, pool) /\ g = CHOOSE h : Built(h)
  <2>1. \E g : Built(g)
    <3>1. PICK g : Gathers(g, pool)
      BY GatheringExists
    <3>2. Built(g)
      BY <3>1 DEF Gathers, Gathered
    <3> HIDE DEF Built
    <3>3. QED
      BY <3>2
  <2>2. PICK g : g = CHOOSE h : Built(h)
    OBVIOUS
  <2>3. Built(g)
    <3> HIDE DEF Built
    <3> QED
      BY <2>1, <2>2
  <2>4. QED
    BY <2>2, <2>3 DEF Gathers, Gathered
<1>3. QED
  BY <1>1, <1>2

LEMMA PoolIsClustered ==
  ASSUME NEW pool, Sighted(pool)
  PROVE  Clustered(Clusters(pool), pool)
<1>1. PICK g : Gathers(g, pool) /\ Clusters(pool) = g[pool]
  BY ClustersAreGathered
<1> DEFINE pick == [s \in SUBSET pool |-> Faintest(s)]
           part == [s \in SUBSET pool |-> s \ {pick[s]}]
           Good == {s \in SUBSET pool : Clustered(g[s], s)}
<1>2. IsFiniteSet(pool) /\ pool \subseteq ShownType
  BY DEF Sighted
<1>3. \A s \in SUBSET pool : s # {} => pick[s] \in s
  BY FaintestIsThere
<1>4. Shrinks(part, pool)
  <2> HIDE DEF pick
  <2> QED
    BY <1>2, <1>3, RestShrinks
<1>5. {} \in Good
  <2>1. g[{}] = << >>
    BY <1>1 DEF Gathers, Gathered
  <2>2. << >> \in ClustersType
    BY DEF ClustersType
  <2>3. QED
    BY <2>1, <2>2 DEF Clustered
<1>6. ASSUME NEW s \in SUBSET pool, s # {}, part[s] \in Good PROVE s \in Good
  <2>1. PICK b \in s : b = Faintest(s) /\ part[s] = s \ {b} /\ \A a \in s : b.score <= a.score
    BY <1>3, <1>6, FaintestIsThere
  <2>2. Clustered(g[s \ {b}], s \ {b}) /\ b \in ShownType
    BY <1>2, <1>6, <2>1
  <2>3. g[s] = Assigned(g[s \ {b}], b)
    BY <1>1, <1>6, <2>1 DEF Gathers, Gathered
  <2>4. \A a \in s \ {b} : b.score <= a.score
    BY <2>1
  <2>5. Clustered(Assigned(g[s \ {b}], b), (s \ {b}) \cup {b})
    BY <2>2, <2>4, AssignedKeeps
  <2>6. (s \ {b}) \cup {b} = s
    BY <2>1
  <2>7. QED
    BY <2>3, <2>5, <2>6
<1>7. pool \in Good
  <2> HIDE DEF Good, part
  <2> QED
    BY <1>2, <1>4, <1>5, <1>6, SubsetInduction
<1>8. QED
  BY <1>1, <1>7

-----------------------------------------------------------------------------
(* The fused box                                                            *)

LEMMA MoreStaysBelow ==
  ASSUME NEW w \in {2, 3}, NEW m \in Nat, NEW x \in Nat, NEW v \in Nat, NEW d \in Nat, 2 * x <= m * d, 2 * v <= d
  PROVE  2 * (w * v + x) <= (w + m) * d
<1>1. (w + m) * d = w * d + m * d
  BY SMTT(10)
<1>2. 2 * (w * v) <= w * d
  BY SMTT(10)
<1>3. PICK n \in Nat : n = m * d
  BY SMTT(10)
<1>4. QED
  BY <1>1, <1>2, <1>3, SMTT(10)

LEMMA MoreStaysAbove ==
  ASSUME NEW w \in {2, 3}, NEW m \in Nat, NEW x \in Nat, NEW v \in Nat, NEW d \in Nat, m * d <= 2 * x, d <= 2 * v
  PROVE  (w + m) * d <= 2 * (w * v + x)
<1>1. (w + m) * d = w * d + m * d
  BY SMTT(10)
<1>2. w * d <= 2 * (w * v)
  BY SMTT(10)
<1>3. PICK n \in Nat : n = m * d
  BY SMTT(10)
<1>4. QED
  BY <1>1, <1>2, <1>3, SMTT(10)

LEMMA FrameNumbers ==
  ASSUME NEW b \in Frame
  PROVE  \E b1 \in Nat, b2 \in Nat, b3 \in Nat, b4 \in Nat :
           /\ b1 = b[1] /\ b2 = b[2] /\ b3 = b[3] /\ b4 = b[4]
           /\ b1 < b3 /\ b2 < b4 /\ b3 <= 1000 /\ b4 <= 1000
<1>1. PICK b1 \in 0..1000 : b1 = b[1]
  BY FrameFacts, SMTT(10)
<1>2. PICK b2 \in 0..1000 : b2 = b[2]
  BY FrameFacts, SMTT(10)
<1>3. PICK b3 \in 0..1000 : b3 = b[3]
  BY FrameFacts, SMTT(10)
<1>4. PICK b4 \in 0..1000 : b4 = b[4]
  BY FrameFacts, SMTT(10)
<1>5. b1 < b3 /\ b2 < b4
  BY <1>1, <1>2, <1>3, <1>4, FrameFacts, SMTT(10)
<1>6. b1 \in Nat /\ b2 \in Nat /\ b3 \in Nat /\ b4 \in Nat /\ b3 <= 1000 /\ b4 <= 1000
  BY SMTT(10)
<1>7. QED
  BY <1>1, <1>2, <1>3, <1>4, <1>5, <1>6, SMTT(10)

Narrow(b) == Surface(b) <= 780000

(* Sums of weights, and of the weighted sides of boxes that hold the middle *)
(* of a and fill less than the limit.                                       *)
Balanced(a, m, x1, x2, x3, x4) ==
  /\ m \in Nat /\ x1 \in Nat /\ x2 \in Nat /\ x3 \in Nat /\ x4 \in Nat
  /\ 2 * x1 <= m * (a[1] + a[3]) /\ m * (a[1] + a[3]) <= 2 * x3
  /\ 2 * x2 <= m * (a[2] + a[4]) /\ m * (a[2] + a[4]) <= 2 * x4
  /\ x1 <= x3 /\ x2 <= x4 /\ x3 <= 1000 * m /\ x4 <= 1000 * m
  /\ (x3 + x4) - (x1 + x2) <= 1780 * m

LEMMA NothingIsBalanced ==
  ASSUME NEW a \in Frame
  PROVE  Balanced(a, 0, 0, 0, 0, 0)
<1>1. a[1] \in Nat /\ a[2] \in Nat /\ a[3] \in Nat /\ a[4] \in Nat
  BY FrameFacts, SMTT(10)
<1>2. 0 * (a[1] + a[3]) = 0 /\ 0 * (a[2] + a[4]) = 0
  BY <1>1, SMTT(10)
<1>3. QED
  BY <1>2, SMTT(10) DEF Balanced

LEMMA OneMoreBalances ==
  ASSUME NEW a \in Frame, NEW b \in Frame, Centred(a, b), Narrow(b), NEW w \in {2, 3},
         NEW m, NEW x1, NEW x2, NEW x3, NEW x4, Balanced(a, m, x1, x2, x3, x4)
  PROVE  Balanced(a, w + m, w * b[1] + x1, w * b[2] + x2, w * b[3] + x3, w * b[4] + x4)
<1>1. /\ a[1] \in Nat /\ a[2] \in Nat /\ a[3] \in Nat /\ a[4] \in Nat
  BY FrameFacts, SMTT(10)
<1>2. PICK b1 \in Nat, b2 \in Nat, b3 \in Nat, b4 \in Nat :
        /\ b1 = b[1] /\ b2 = b[2] /\ b3 = b[3] /\ b4 = b[4]
        /\ b1 < b3 /\ b2 < b4 /\ b3 <= 1000 /\ b4 <= 1000
  BY FrameNumbers
<1>3. (b3 - b1) + (b4 - b2) <= 1780
  <2>1. PICK v \in Int, h \in Int : v = b3 - b1 /\ h = b4 - b2
    BY <1>2, SMTT(10)
  <2>2. v \in 0..1000
    <3>1. 0 <= v /\ v <= 1000
      BY <1>2, <2>1, SMTT(10)
    <3>2. QED
      BY <3>1, SMTT(10)
  <2>3. h \in 0..1000
    <3>1. 0 <= h /\ h <= 1000
      BY <1>2, <2>1, SMTT(10)
    <3>2. QED
      BY <3>1, SMTT(10)
  <2>4. v * h <= 780000
    BY <1>2, <2>1, SMTT(10) DEF Narrow, Surface
  <2>5. v + h <= 1780
    BY <2>2, <2>3, <2>4, SidesOfSmall, SMTT(10)
  <2>6. QED
    BY <2>1, <2>5, SMTT(10)
<1>4. PICK d \in Nat, e \in Nat : d = a[1] + a[3] /\ e = a[2] + a[4]
  BY <1>1, SMTT(10)
<1>5. 2 * b1 <= d /\ d <= 2 * b3 /\ 2 * b2 <= e /\ e <= 2 * b4
  BY <1>2, <1>4, SMTT(10) DEF Centred
<1>7. /\ m \in Nat /\ x1 \in Nat /\ x2 \in Nat /\ x3 \in Nat /\ x4 \in Nat
      /\ 2 * x1 <= m * d /\ m * d <= 2 * x3 /\ 2 * x2 <= m * e /\ m * e <= 2 * x4
      /\ x1 <= x3 /\ x2 <= x4 /\ x3 <= 1000 * m /\ x4 <= 1000 * m
      /\ (x3 + x4) - (x1 + x2) <= 1780 * m
  BY <1>4, SMTT(10) DEF Balanced
<1>8. 2 * (w * b1 + x1) <= (w + m) * d /\ (w + m) * d <= 2 * (w * b3 + x3)
  BY <1>5, <1>7, MoreStaysBelow, MoreStaysAbove, SMTT(10)
<1>9. 2 * (w * b2 + x2) <= (w + m) * e /\ (w + m) * e <= 2 * (w * b4 + x4)
  BY <1>5, <1>7, MoreStaysBelow, MoreStaysAbove, SMTT(10)
<1>10. /\ w + m \in Nat /\ w * b1 + x1 \in Nat /\ w * b2 + x2 \in Nat
       /\ w * b3 + x3 \in Nat /\ w * b4 + x4 \in Nat
  BY <1>7, SMTT(10)
<1>11. /\ w * b1 + x1 <= w * b3 + x3 /\ w * b2 + x2 <= w * b4 + x4
       /\ w * b3 + x3 <= 1000 * (w + m) /\ w * b4 + x4 <= 1000 * (w + m)
  BY <1>2, <1>7, SMTT(10)
<1>12. ((w * b3 + x3) + (w * b4 + x4)) - ((w * b1 + x1) + (w * b2 + x2)) <= 1780 * (w + m)
  BY <1>3, <1>7, SMTT(10)
<1>13. QED
  BY <1>2, <1>4, <1>8, <1>9, <1>10, <1>11, <1>12, SMTT(10) DEF Balanced

LEMMA MeanOfBalanced ==
  ASSUME NEW a \in Frame, NEW m, NEW x1, NEW x2, NEW x3, NEW x4, Balanced(a, m, x1, x2, x3, x4), m > 0,
         NEW f1, NEW f2, NEW f3, NEW f4,
         f1 = x1 \div m, f2 = x2 \div m, f3 = x3 \div m, f4 = x4 \div m
  PROVE  /\ \A b \in Frame : Centred(a, b) => f1 <= b[3] /\ b[1] <= f3 /\ f2 <= b[4] /\ b[2] <= f4
         /\ (f3 - f1) * (f4 - f2) <= 800000
<1>1. /\ a[1] \in Nat /\ a[2] \in Nat /\ a[3] \in Nat /\ a[4] \in Nat
  BY FrameFacts, SMTT(10)
<1>2. PICK d \in Nat, e \in Nat : d = a[1] + a[3] /\ e = a[2] + a[4]
  BY <1>1, SMTT(10)
<1>3. /\ m \in Nat /\ x1 \in Nat /\ x2 \in Nat /\ x3 \in Nat /\ x4 \in Nat
      /\ 2 * x1 <= m * d /\ m * d <= 2 * x3 /\ 2 * x2 <= m * e /\ m * e <= 2 * x4
      /\ x1 <= x3 /\ x2 <= x4 /\ x3 <= 1000 * m /\ x4 <= 1000 * m
      /\ (x3 + x4) - (x1 + x2) <= 1780 * m
  BY <1>2, SMTT(10) DEF Balanced
<1>4. f1 \in Int /\ m * f1 <= x1 /\ x1 < m * f1 + m
  BY <1>3, Floor, SMTT(10)
<1>5. f2 \in Int /\ m * f2 <= x2 /\ x2 < m * f2 + m
  BY <1>3, Floor, SMTT(10)
<1>6. f3 \in Int /\ m * f3 <= x3 /\ x3 < m * f3 + m
  BY <1>3, Floor, SMTT(10)
<1>7. f4 \in Int /\ m * f4 <= x4 /\ x4 < m * f4 + m
  BY <1>3, Floor, SMTT(10)
<1>8. ASSUME NEW v \in Nat, d <= 2 * v PROVE f1 <= v
  <2>1. m * d <= m * (2 * v) /\ m * (2 * v) = 2 * (m * v) /\ m * v \in Nat /\ m * d \in Nat
    BY <1>3, <1>8, ProductGrows, SMTT(10)
  <2>2. x1 <= m * v
    BY <1>3, <2>1, SMTT(10)
  <2>3. QED
    BY <1>3, <2>2, FloorIsAtMost, SMTT(10)
<1>9. ASSUME NEW v \in Nat, e <= 2 * v PROVE f2 <= v
  <2>1. m * e <= m * (2 * v) /\ m * (2 * v) = 2 * (m * v) /\ m * v \in Nat /\ m * e \in Nat
    BY <1>3, <1>9, ProductGrows, SMTT(10)
  <2>2. x2 <= m * v
    BY <1>3, <2>1, SMTT(10)
  <2>3. QED
    BY <1>3, <2>2, FloorIsAtMost, SMTT(10)
<1>10. ASSUME NEW v \in Nat, 2 * v <= d PROVE v <= f3
  <2>1. m * (2 * v) <= m * d /\ m * (2 * v) = 2 * (m * v) /\ m * v \in Nat /\ m * d \in Nat
    BY <1>3, <1>10, ProductGrows, SMTT(10)
  <2>2. m * v <= x3
    BY <1>3, <2>1, SMTT(10)
  <2>3. QED
    BY <1>3, <2>2, FloorIsAtLeast, SMTT(10)
<1>11. ASSUME NEW v \in Nat, 2 * v <= e PROVE v <= f4
  <2>1. m * (2 * v) <= m * e /\ m * (2 * v) = 2 * (m * v) /\ m * v \in Nat /\ m * e \in Nat
    BY <1>3, <1>11, ProductGrows, SMTT(10)
  <2>2. m * v <= x4
    BY <1>3, <2>1, SMTT(10)
  <2>3. QED
    BY <1>3, <2>2, FloorIsAtLeast, SMTT(10)
<1>12. ASSUME NEW b \in Frame, Centred(a, b)
       PROVE  f1 <= b[3] /\ b[1] <= f3 /\ f2 <= b[4] /\ b[2] <= f4
  <2>1. b[1] \in Nat /\ b[2] \in Nat /\ b[3] \in Nat /\ b[4] \in Nat
    BY FrameFacts, SMTT(10)
  <2>2. 2 * b[1] <= d /\ d <= 2 * b[3] /\ 2 * b[2] <= e /\ e <= 2 * b[4]
    BY <1>2, <1>12, SMTT(10) DEF Centred
  <2>3. QED
    BY <1>8, <1>9, <1>10, <1>11, <2>1, <2>2, SMTT(10)
<1>13. 0 <= f1 /\ 0 <= f2
  <2>1. m * 0 <= x1 /\ m * 0 <= x2
    BY <1>3, SMTT(10)
  <2>2. QED
    BY <1>3, <2>1, FloorIsAtLeast, SMTT(10)
<1>14. f3 <= 1000 /\ f4 <= 1000
  <2>1. x3 <= m * 1000 /\ x4 <= m * 1000
    BY <1>3, SMTT(10)
  <2>2. QED
    BY <1>3, <2>1, FloorIsAtMost, SMTT(10)
<1>15. f1 <= f3 /\ f2 <= f4
  <2>1. m * f1 <= x3 /\ m * f2 <= x4
    <3>1. PICK p \in Int, q \in Int : p = m * f1 /\ q = m * f2
      BY <1>3, <1>4, <1>5, SMTT(10)
    <3>2. QED
      BY <1>3, <1>4, <1>5, <3>1, SMTT(10)
  <2>2. QED
    BY <1>3, <1>4, <1>5, <2>1, FloorIsAtLeast, SMTT(10)
<1>16. (f3 - f1) + (f4 - f2) <= 1781
  <2>1. PICK p1 \in Int, p2 \in Int, p3 \in Int, p4 \in Int :
          p1 = m * f1 /\ p2 = m * f2 /\ p3 = m * f3 /\ p4 = m * f4
    BY <1>3, <1>4, <1>5, <1>6, <1>7, SMTT(10)
  <2>2. (p3 - p1) + (p4 - p2) < 1782 * m
    BY <1>3, <1>4, <1>5, <1>6, <1>7, <2>1, SMTT(10)
  <2>3. PICK y \in Int : y = (f3 - f1) + (f4 - f2)
    BY <1>4, <1>5, <1>6, <1>7, SMTT(10)
  <2>4. y * m = (p3 - p1) + (p4 - p2)
    BY <1>3, <1>4, <1>5, <1>6, <1>7, <2>1, <2>3, SMTT(10)
  <2>5. ~(1782 * m <= y * m)
    BY <1>3, <2>2, <2>4, SMTT(10)
  <2>6. ~(1782 <= y)
    <3>1. ASSUME 1782 <= y PROVE 1782 * m <= y * m
      BY <1>3, <3>1, ProductGrows, SMTT(10)
    <3>2. QED
      BY <2>5, <3>1, SMTT(10)
  <2>7. QED
    BY <2>3, <2>6, SMTT(10)
<1>17. (f3 - f1) * (f4 - f2) <= 800000
  <2>1. PICK v \in Int, h \in Int : v = f3 - f1 /\ h = f4 - f2
    BY <1>4, <1>5, <1>6, <1>7, SMTT(10)
  <2>2. v \in 0..1000
    <3>1. 0 <= v /\ v <= 1000
      BY <1>4, <1>6, <1>13, <1>14, <1>15, <2>1, SMTT(10)
    <3>2. QED
      BY <3>1, SMTT(10)
  <2>3. h \in 0..1000
    <3>1. 0 <= h /\ h <= 1000
      BY <1>5, <1>7, <1>13, <1>14, <1>15, <2>1, SMTT(10)
    <3>2. QED
      BY <3>1, SMTT(10)
  <2>4. v + h <= 1781
    BY <1>16, <2>1, SMTT(10)
  <2>5. v * h <= 800000
    BY <2>2, <2>3, <2>4, ShortSidesAreSmall, SMTT(10)
  <2>6. QED
    BY <2>1, <2>5, SMTT(10)
<1>18. QED
  BY <1>12, <1>17, SMTT(10)

LEMMA MassIsSum ==
  ASSUME NEW c, IsFiniteSet(DOMAIN c)
  PROVE  \E g : /\ IsSum(g, [i \in DOMAIN c |-> Weight2[c[i].model]], DOMAIN c)
                /\ Mass(c) = g[DOMAIN c]
<1> DEFINE S == DOMAIN c
           f == [i \in S |-> Weight2[c[i].model]]
           Solves(g) == g = [s \in SUBSET S |-> IF s = {} THEN 0
                                                ELSE Weight2[c[First(s)].model] + g[s \ {First(s)}]]
<1>1. Mass(c) = (CHOOSE g : Solves(g))[S]
  BY DEF Mass, MapThenSumSet, MapThenFoldSet, First
<1>2. ASSUME NEW g PROVE Solves(g) <=> IsSum(g, f, S)
  <2> DEFINE Left == [s \in SUBSET S |-> IF s = {} THEN 0
                                         ELSE Weight2[c[First(s)].model] + g[s \ {First(s)}]]
             Right == [s \in SUBSET S |-> Summed(g, f, s)]
  <2>1. \A s \in SUBSET S : s # {} => First(s) \in S
    BY RestIsSmaller
  <2>2. Left = Right
    BY <2>1 DEF Summed, Rest
  <2>3. QED
    BY <2>2 DEF IsSum
<1>3. PICK k : Solves(k) /\ (CHOOSE g : Solves(g)) = k
  BY <1>2, SumExists
<1>4. IsSum(k, f, S)
  <2> HIDE DEF Solves
  <2> QED
    BY <1>2, <1>3
<1>5. QED
  BY <1>1, <1>3, <1>4

LEMMA MomentIsSum ==
  ASSUME NEW c, IsFiniteSet(DOMAIN c), NEW k
  PROVE  \E g : /\ IsSum(g, [i \in DOMAIN c |-> Weight2[c[i].model] * c[i].box[k]], DOMAIN c)
                /\ Moment(c, k) = g[DOMAIN c]
<1> DEFINE S == DOMAIN c
           f == [i \in S |-> Weight2[c[i].model] * c[i].box[k]]
           Solves(g) == g = [s \in SUBSET S |-> IF s = {} THEN 0
                                                ELSE Weight2[c[First(s)].model] * c[First(s)].box[k]
                                                     + g[s \ {First(s)}]]
<1>1. Moment(c, k) = (CHOOSE g : Solves(g))[S]
  BY DEF Moment, MapThenSumSet, MapThenFoldSet, First
<1>2. ASSUME NEW g PROVE Solves(g) <=> IsSum(g, f, S)
  <2> DEFINE Left == [s \in SUBSET S |-> IF s = {} THEN 0
                                         ELSE Weight2[c[First(s)].model] * c[First(s)].box[k]
                                              + g[s \ {First(s)}]]
             Right == [s \in SUBSET S |-> Summed(g, f, s)]
  <2>1. \A s \in SUBSET S : s # {} => First(s) \in S
    BY RestIsSmaller
  <2>2. Left = Right
    BY <2>1 DEF Summed, Rest
  <2>3. QED
    BY <2>2 DEF IsSum
<1>3. PICK h : Solves(h) /\ (CHOOSE g : Solves(g)) = h
  BY <1>2, SumExists
<1>4. IsSum(h, f, S)
  <2> HIDE DEF Solves
  <2> QED
    BY <1>2, <1>3
<1>5. QED
  BY <1>1, <1>3, <1>4

LEMMA MemberIsCentred ==
  ASSUME NEW s, s \subseteq ShownType, NEW c, Joined(c, s), NEW i \in DOMAIN c
  PROVE  /\ c[1].box \in Frame /\ c[i].box \in Frame /\ c[i] \in ShownType
         /\ Centred(c[1].box, c[i].box)
<1>1. c \in Seq(ShownType) /\ 1 \in DOMAIN c
  BY DEF Joined
<1>2. c[1] \in ShownType /\ c[i] \in ShownType
  BY <1>1
<1>3. c[1].box \in Frame /\ c[i].box \in Frame
  BY <1>2 DEF ShownType
<1>4. c[i] = c[1] \/ Meet(c[1].box, c[i].box)
  BY DEF Joined, Member
<1>5. CASE c[i] = c[1]
  BY <1>2, <1>3, <1>5, OwnCentre
<1>6. CASE Meet(c[1].box, c[i].box)
  BY <1>2, <1>3, <1>6, MeetIsCentred
<1>7. QED
  BY <1>2, <1>3, <1>4, <1>5, <1>6

LEMMA ClusterIsBalanced ==
  ASSUME NEW s, s \subseteq ShownType, NEW c, Joined(c, s), \A i \in DOMAIN c : Narrow(c[i].box)
  PROVE  /\ Balanced(c[1].box, Mass(c), Moment(c, 1), Moment(c, 2), Moment(c, 3), Moment(c, 4))
         /\ Mass(c) > 0
<1> DEFINE S == DOMAIN c
           w(i) == Weight2[c[i].model]
<1>1. IsFiniteSet(S) /\ S # {} /\ 1 \in S
  <2>1. DOMAIN c = 1..Len(c) /\ Len(c) \in Nat /\ Len(c) > 0
    BY DEF Joined
  <2>2. IsFiniteSet(1..Len(c))
    BY <2>1, FS_Interval
  <2>3. 1 \in 1..Len(c)
    BY <2>1
  <2>4. QED
    BY <2>1, <2>2, <2>3
<1>2. PICK g : IsSum(g, [i \in S |-> w(i)], S) /\ Mass(c) = g[S]
  BY <1>1, MassIsSum
<1>3. PICK h1 : IsSum(h1, [i \in S |-> w(i) * c[i].box[1]], S) /\ Moment(c, 1) = h1[S]
  BY <1>1, MomentIsSum
<1>4. PICK h2 : IsSum(h2, [i \in S |-> w(i) * c[i].box[2]], S) /\ Moment(c, 2) = h2[S]
  BY <1>1, MomentIsSum
<1>5. PICK h3 : IsSum(h3, [i \in S |-> w(i) * c[i].box[3]], S) /\ Moment(c, 3) = h3[S]
  BY <1>1, MomentIsSum
<1>6. PICK h4 : IsSum(h4, [i \in S |-> w(i) * c[i].box[4]], S) /\ Moment(c, 4) = h4[S]
  BY <1>1, MomentIsSum
<1> DEFINE part == [t \in SUBSET S |-> Rest(t)]
           Holds4(t) == Balanced(c[1].box, g[t], h1[t], h2[t], h3[t], h4[t]) /\ (t # {} => g[t] > 0)
           Good == {t \in SUBSET S : Holds4(t)}
<1>7. ASSUME NEW i \in S
      PROVE  /\ c[1].box \in Frame /\ c[i].box \in Frame /\ Centred(c[1].box, c[i].box)
             /\ w(i) \in {2, 3}
  <2>1. c[1].box \in Frame /\ c[i].box \in Frame /\ Centred(c[1].box, c[i].box) /\ c[i] \in ShownType
    BY MemberIsCentred
  <2>2. c[i].model \in Detectors
    BY <2>1 DEF ShownType
  <2>3. QED
    BY <2>1, <2>2, ModelFacts
<1> HIDE DEF w
<1>8. ASSUME NEW t \in SUBSET S, t # {}
      PROVE  /\ First(t) \in t /\ Rest(t) \in SUBSET S /\ Cardinality(Rest(t)) < Cardinality(t)
             /\ g[t] = w(First(t)) + g[Rest(t)]
             /\ h1[t] = w(First(t)) * c[First(t)].box[1] + h1[Rest(t)]
             /\ h2[t] = w(First(t)) * c[First(t)].box[2] + h2[Rest(t)]
             /\ h3[t] = w(First(t)) * c[First(t)].box[3] + h3[Rest(t)]
             /\ h4[t] = w(First(t)) * c[First(t)].box[4] + h4[Rest(t)]
  <2>1. /\ First(t) \in t /\ Rest(t) \in SUBSET S
        /\ Cardinality(t) \in Nat /\ Cardinality(Rest(t)) = Cardinality(t) - 1
    BY <1>1, <1>8, RestIsSmaller
  <2>2. Cardinality(Rest(t)) < Cardinality(t)
    BY <2>1
  <2>3. PICK x : x = First(t) /\ x \in S
    BY <2>1
  <2> HIDE DEF part, Good
  <2>4. g[t] = w(x) + g[Rest(t)]
    BY <1>2, <1>8, <2>3 DEF IsSum, Summed
  <2>5. h1[t] = w(x) * c[x].box[1] + h1[Rest(t)]
    BY <1>3, <1>8, <2>3 DEF IsSum, Summed
  <2>6. h2[t] = w(x) * c[x].box[2] + h2[Rest(t)]
    BY <1>4, <1>8, <2>3 DEF IsSum, Summed
  <2>7. h3[t] = w(x) * c[x].box[3] + h3[Rest(t)]
    BY <1>5, <1>8, <2>3 DEF IsSum, Summed
  <2>8. h4[t] = w(x) * c[x].box[4] + h4[Rest(t)]
    BY <1>6, <1>8, <2>3 DEF IsSum, Summed
  <2>9. QED
    BY <2>1, <2>2, <2>3, <2>4, <2>5, <2>6, <2>7, <2>8
<1>9. Shrinks(part, S)
  BY <1>8 DEF Shrinks
<1>10. {} \in Good
  <2>1. g[{}] = 0 /\ h1[{}] = 0 /\ h2[{}] = 0 /\ h3[{}] = 0 /\ h4[{}] = 0
    BY <1>2, <1>3, <1>4, <1>5, <1>6 DEF IsSum, Summed
  <2>2. QED
    BY <1>1, <1>7, <2>1, NothingIsBalanced
<1>11. ASSUME NEW t \in SUBSET S, t # {}, part[t] \in Good PROVE t \in Good
  <2>1. PICK x, r : x = First(t) /\ r = Rest(t)
    OBVIOUS
  <2>2. x \in S /\ r = part[t] /\ r \in SUBSET S
    BY <1>8, <1>11, <2>1
  <2>3. Balanced(c[1].box, g[r], h1[r], h2[r], h3[r], h4[r])
    BY <1>11, <2>2
  <2>4. Balanced(c[1].box, w(x) + g[r], w(x) * c[x].box[1] + h1[r], w(x) * c[x].box[2] + h2[r],
                 w(x) * c[x].box[3] + h3[r], w(x) * c[x].box[4] + h4[r])
    BY <1>7, <2>2, <2>3, OneMoreBalances
  <2>5. g[t] = w(x) + g[r]
    BY <1>8, <1>11, <2>1
  <2>6. Balanced(c[1].box, g[t], h1[t], h2[t], h3[t], h4[t])
    BY <1>8, <1>11, <2>1, <2>4
  <2>7. g[t] > 0
    <3>1. w(x) \in {2, 3} /\ g[r] \in Nat
      BY <1>7, <2>2, <2>3 DEF Balanced
    <3>2. QED
      BY <2>5, <3>1
  <2>8. QED
    BY <2>6, <2>7
<1>12. S \in Good
  <2> HIDE DEF Good, part
  <2> QED
    BY <1>1, <1>9, <1>10, <1>11, SubsetInduction
<1>13. QED
  BY <1>1, <1>2, <1>3, <1>4, <1>5, <1>6, <1>12

(* Where the boxes of a cluster are fused to.                               *)
LEMMA FusedFacts ==
  ASSUME NEW s, s \subseteq ShownType, NEW c, Joined(c, s), \A i \in DOMAIN c : Narrow(c[i].box)
  PROVE  /\ \A i \in DOMAIN c : Touch(Fused(c).box, c[i].box)
         /\ Surface(Fused(c).box) <= 800000
<1>1. c \in Seq(ShownType) /\ 1 \in DOMAIN c
  BY DEF Joined
<1>2. PICK a \in Frame : a = c[1].box
  BY <1>1, MemberIsCentred
<1>3. PICK m, x1, x2, x3, x4 : m = Mass(c) /\ x1 = Moment(c, 1) /\ x2 = Moment(c, 2)
                               /\ x3 = Moment(c, 3) /\ x4 = Moment(c, 4)
  OBVIOUS
<1>4. Balanced(a, m, x1, x2, x3, x4) /\ m > 0
  BY <1>2, <1>3, ClusterIsBalanced
<1>5. PICK f1, f2, f3, f4 : f1 = x1 \div m /\ f2 = x2 \div m /\ f3 = x3 \div m /\ f4 = x4 \div m
  OBVIOUS
<1>6. /\ \A b \in Frame : Centred(a, b) => f1 <= b[3] /\ b[1] <= f3 /\ f2 <= b[4] /\ b[2] <= f4
      /\ (f3 - f1) * (f4 - f2) <= 800000
  BY <1>4, <1>5, MeanOfBalanced, SMTT(10)
<1>7. PICK f : f = Fused(c).box
  OBVIOUS
<1>8. f[1] = f1 /\ f[2] = f2 /\ f[3] = f3 /\ f[4] = f4
  BY <1>3, <1>5, <1>7 DEF Fused
<1>9. Surface(f) <= 800000
  BY <1>6, <1>8, SMTT(10) DEF Surface
<1>10. ASSUME NEW i \in DOMAIN c PROVE Touch(f, c[i].box)
  <2>1. c[i].box \in Frame /\ Centred(a, c[i].box)
    BY <1>2, MemberIsCentred
  <2>2. f1 <= c[i].box[3] /\ c[i].box[1] <= f3 /\ f2 <= c[i].box[4] /\ c[i].box[2] <= f4
    BY <1>6, <2>1
  <2>3. QED
    BY <1>8, <2>2 DEF Touch
<1>11. QED
  BY <1>7, <1>9, <1>10

LEMMA WideOrNarrow ==
  ASSUME NEW b \in Frame
  PROVE  Surface(b) > 780000 \/ Narrow(b)
<1>1. PICK b1 \in Nat, b2 \in Nat, b3 \in Nat, b4 \in Nat :
        /\ b1 = b[1] /\ b2 = b[2] /\ b3 = b[3] /\ b4 = b[4]
        /\ b1 < b3 /\ b2 < b4 /\ b3 <= 1000 /\ b4 <= 1000
  BY FrameNumbers
<1>2. PICK v \in Int : v = (b3 - b1) * (b4 - b2)
  BY SMTT(10)
<1>3. Surface(b) = v
  BY <1>1, <1>2, SMTT(10) DEF Surface
<1>4. QED
  BY <1>3, SMTT(10) DEF Narrow

LEMMA SightingsAreRight ==
  ASSUME NEW seen \in Seen, NEW loaded \in Loaded,
         answer.seen = seen, answer.loaded = loaded, answer.found = Candidates(seen, loaded)
  PROVE  SightingsSurvive
<1>1. PICK pool : pool = Pool(seen, loaded)
  OBVIOUS
<1>2. Sighted(pool) /\ pool \subseteq ShownType
  BY <1>1, PoolIsSighted DEF Sighted
<1>3. PICK cs : cs = Clusters(pool) /\ Clustered(cs, pool)
  BY <1>2, PoolIsClustered
<1>4. answer.found = { f \in { Fused(c) : c \in ToSet(cs) } : f.score >= 40 /\ Surface(f.box) <= 800000 }
  BY <1>1, <1>3 DEF Candidates
<1>5. ASSUME NEW b \in pool, b.score >= 40, \A a \in pool : ~(a.label = b.label /\ Surface(a.box) > 780000)
      PROVE  \E f \in answer.found : f.label = b.label /\ f.score >= b.score /\ Touch(f.box, b.box)
  <2>1. PICK k \in DOMAIN cs : \E i \in DOMAIN cs[k] : cs[k][i] = b
    BY <1>3 DEF Clustered
  <2>2. PICK c : c = cs[k] /\ Joined(c, pool)
    BY <1>3 DEF Clustered
  <2>3. PICK i \in DOMAIN c : c[i] = b
    BY <2>1, <2>2
  <2>4. b.label = c[1].label /\ b.score <= c[1].score
    BY <2>2, <2>3 DEF Joined, Member
  <2>5. ASSUME NEW j \in DOMAIN c PROVE Narrow(c[j].box)
    <3>1. c[j] \in pool /\ c[j].label = b.label
      BY <2>2, <2>4 DEF Joined, Member
    <3>2. c[j].box \in Frame
      BY <1>2, <3>1 DEF ShownType
    <3>3. QED
      BY <1>5, <3>1, <3>2, WideOrNarrow
  <2>6. /\ \A j \in DOMAIN c : Touch(Fused(c).box, c[j].box)
        /\ Surface(Fused(c).box) <= 800000
    BY <1>2, <2>2, <2>5, FusedFacts, SMTT(10)
  <2>7. PICK f : f = Fused(c)
    OBVIOUS
  <2>8. f.label = b.label /\ f.score = c[1].score
    BY <2>4, <2>7 DEF Fused
  <2>9. f.score >= b.score /\ f.score >= 40
    <3>1. b.score \in Int /\ c[1].score \in Int
      <4>1. 1 \in DOMAIN c /\ c \in Seq(ShownType)
        BY <2>2 DEF Joined
      <4>2. c[1] \in ShownType /\ b \in ShownType
        BY <1>2, <4>1
      <4>3. QED
        BY <4>2 DEF ShownType
    <3>2. QED
      BY <1>5, <2>4, <2>8, <3>1, SMTT(10)
  <2>10. c \in ToSet(cs)
    BY <2>2 DEF ToSet
  <2>11. f \in answer.found
    BY <1>4, <2>6, <2>7, <2>9, <2>10, SMTT(10)
  <2>12. QED
    BY <2>3, <2>6, <2>7, <2>8, <2>9, <2>11, SMTT(10)
<1>6. ASSUME NEW b \in pool, b.score >= 40
      PROVE  \/ \E f \in answer.found : f.label = b.label /\ f.score >= b.score /\ Touch(f.box, b.box)
             \/ \E a \in pool : a.label = b.label /\ Surface(a.box) > 780000
  <2>1. CASE \A a \in pool : ~(a.label = b.label /\ Surface(a.box) > 780000)
    BY <1>5, <1>6, <2>1, SMTT(10)
  <2>2. QED
    BY <2>1, SMTT(10)
<1>7. QED
  BY <1>1, <1>6, SMTT(10) DEF SightingsSurvive

-----------------------------------------------------------------------------
(* Handwriting on a page                                                    *)

LEMMA CutIsWithin ==
  ASSUME NEW lo \in Int, NEW hi \in Int, NEW size \in Nat, size > 0
  PROVE  \E x \in Nat, y \in Nat : Cut(lo, hi, size) = << x, y >> /\ x < y /\ y <= size
<1>1. PICK p \in Int, q \in Int : p = (lo * size) \div 1000 /\ q = (hi * size) \div 1000
  <2>1. PICK m \in Int, n \in Int : m = lo * size /\ n = hi * size
    BY SMTT(10)
  <2>2. m \div 1000 \in Int /\ n \div 1000 \in Int
    BY SMTT(10)
  <2>3. QED
    BY <2>1, <2>2
<1>2. PICK k : k = Min({size - 1, p})
  OBVIOUS
<1>3. k = IF size - 1 <= p THEN size - 1 ELSE p
  BY <1>2, LesserOfTwo
<1>4. PICK x : x = Max({0, k})
  OBVIOUS
<1>5. k \in Int /\ k <= size - 1
  BY <1>3
<1>6. x = IF 0 <= k THEN k ELSE 0
  BY <1>4, <1>5, GreaterOfTwo
<1>7. x \in Nat /\ x <= size - 1
  BY <1>5, <1>6
<1>8. PICK j : j = Min({size, q})
  OBVIOUS
<1>9. j = IF size <= q THEN size ELSE q
  BY <1>8, LesserOfTwo
<1>10. j \in Int /\ j <= size
  BY <1>9
<1>11. PICK y : y = Max({x + 1, j})
  OBVIOUS
<1>12. y = IF x + 1 <= j THEN j ELSE x + 1
  BY <1>7, <1>10, <1>11, GreaterOfTwo
<1>13. y \in Nat /\ x < y /\ y <= size
  BY <1>7, <1>10, <1>12
<1>14. Cut(lo, hi, size) = << x, y >>
  BY <1>1, <1>2, <1>4, <1>8, <1>11 DEF Cut
<1>15. QED
  BY <1>7, <1>13, <1>14

(* Where v thousandths of the way from x to y are, of a length of n.        *)
Along(x, y, n, v) == (1000 * x + v * (y - x)) \div n

LEMMA AlongGrows ==
  ASSUME NEW x \in Nat, NEW y \in Nat, x < y, NEW n \in Nat, n > 0, NEW u \in Nat, NEW v \in Nat, u <= v
  PROVE  Along(x, y, n, u) <= Along(x, y, n, v)
<1>1. PICK d \in Nat : d = y - x
  BY SMTT(10)
<1>2. u * d <= v * d
  BY ProductGrows
<1>3. PICK p \in Nat, q \in Nat : p = u * d /\ q = v * d
  BY SMTT(10)
<1>4. PICK r \in Nat, t \in Nat : r = 1000 * x + p /\ t = 1000 * x + q /\ r <= t
  BY <1>2, <1>3, SMTT(10)
<1>5. r \div n \in Int /\ n * (r \div n) <= r
  BY Floor
<1>6. PICK f \in Int : f = r \div n /\ n * f <= r
  BY <1>5
<1>7. n * f <= t
  <2>1. PICK z \in Int : z = n * f
    BY SMTT(10)
  <2>2. QED
    BY <1>4, <1>6, <2>1, SMTT(10)
<1>8. f <= t \div n
  BY <1>7, FloorIsAtLeast
<1>9. Along(x, y, n, u) = r \div n /\ Along(x, y, n, v) = t \div n
  BY <1>1, <1>3, <1>4 DEF Along
<1>10. QED
  BY <1>6, <1>8, <1>9

LEMMA AlongIsWithin ==
  ASSUME NEW x \in Nat, NEW y \in Nat, x < y, NEW n \in Nat, n > 0, y <= n
  PROVE  0 <= Along(x, y, n, 0) /\ Along(x, y, n, 1000) <= 1000
<1>1. PICK d \in Nat : d = y - x
  BY SMTT(10)
<1>2. 1000 * x + 0 * d = 1000 * x /\ 1000 * x + 1000 * d = 1000 * y
  BY <1>1, SMTT(10)
<1>3. Along(x, y, n, 0) = (1000 * x) \div n /\ Along(x, y, n, 1000) = (1000 * y) \div n
  BY <1>1, <1>2, SMTT(10) DEF Along
<1>4. n * 0 <= 1000 * x /\ 1000 * y <= n * 1000 /\ 1000 * x \in Int /\ 1000 * y \in Int
  BY SMTT(10)
<1>5. 0 <= (1000 * x) \div n
  BY <1>4, FloorIsAtLeast, SMTT(10)
<1>6. (1000 * y) \div n <= 1000
  BY <1>4, FloorIsAtMost, SMTT(10)
<1>7. QED
  BY <1>3, <1>5, <1>6, SMTT(10)

LEMMA AlongKeepsOrder ==
  ASSUME NEW x \in Nat, NEW y \in Nat, x < y, NEW n \in Nat, n > 0, y <= n,
         NEW u \in Nat, NEW v \in Nat, u <= v, v <= 1000
  PROVE  /\ 0 <= Along(x, y, n, 0) /\ Along(x, y, n, 0) <= Along(x, y, n, u)
         /\ Along(x, y, n, u) <= Along(x, y, n, v)
         /\ Along(x, y, n, v) <= Along(x, y, n, 1000) /\ Along(x, y, n, 1000) <= 1000
<1>1. Along(x, y, n, 0) <= Along(x, y, n, u) /\ Along(x, y, n, u) <= Along(x, y, n, v)
  BY AlongGrows, SMTT(10)
<1>2. Along(x, y, n, v) <= Along(x, y, n, 1000)
  BY AlongGrows, SMTT(10)
<1>3. QED
  BY <1>1, <1>2, AlongIsWithin, SMTT(10)

LEMMA RatioIsPercent ==
  ASSUME NEW b \in Frame, Surface(b) <= 800000
  PROVE  Max({1, Surface(b) \div 10000}) \in 1..100
<1>1. PICK b1 \in Nat, b2 \in Nat, b3 \in Nat, b4 \in Nat :
        /\ b1 = b[1] /\ b2 = b[2] /\ b3 = b[3] /\ b4 = b[4]
        /\ b1 < b3 /\ b2 < b4 /\ b3 <= 1000 /\ b4 <= 1000
  BY FrameNumbers, SMTT(10)
<1>2. PICK v \in Nat, h \in Nat : v = b3 - b1 /\ h = b4 - b2
  BY <1>1, SMTT(10)
<1>3. PICK m \in Nat : m = v * h
  BY SMTT(10)
<1>4. Surface(b) = m
  BY <1>1, <1>2, <1>3, SMTT(10) DEF Surface
<1>5. PICK q : q = m \div 10000
  OBVIOUS
<1>6. q \in Nat /\ q <= 80
  BY <1>4, <1>5, SMTT(10)
<1>7. Max({1, q}) = IF 1 <= q THEN q ELSE 1
  BY <1>6, GreaterOfTwo, SMTT(10)
<1>8. PICK r \in Nat : r = Max({1, q}) /\ 1 <= r /\ r <= 100
  BY <1>6, <1>7, SMTT(10)
<1>9. r \in 1..100
  BY <1>8, SMTT(10)
<1>10. QED
  BY <1>4, <1>5, <1>8, <1>9, SMTT(10)

LEMMA CropIsWithin ==
  ASSUME NEW region \in Regions, NEW w \in Nat, w > 0, NEW h \in Nat, h > 0
  PROVE  \E x1 \in Nat, y1 \in Nat, x2 \in Nat, y2 \in Nat :
           Crop(region, w, h) = << x1, y1, x2, y2 >> /\ x1 < x2 /\ x2 <= w /\ y1 < y2 /\ y2 <= h
<1>1. region[1] \in Int /\ region[2] \in Int /\ region[3] \in Int /\ region[4] \in Int
  <2>1. region \in [1..4 -> Int]
    BY DeskAssumption
  <2>2. QED
    BY <2>1
<1>2. PICK x1 \in Nat, x2 \in Nat : Cut(region[1], region[3], w) = << x1, x2 >> /\ x1 < x2 /\ x2 <= w
  BY <1>1, CutIsWithin
<1>3. PICK y1 \in Nat, y2 \in Nat : Cut(region[2], region[4], h) = << y1, y2 >> /\ y1 < y2 /\ y2 <= h
  BY <1>1, CutIsWithin
<1>4. Crop(region, w, h) = << x1, y1, x2, y2 >>
  BY <1>2, <1>3 DEF Crop
<1>5. QED
  BY <1>2, <1>3, <1>4

LEMMA OutwardIsAlong ==
  ASSUME NEW x1, NEW y1, NEW x2, NEW y2, NEW b, NEW w, NEW h, NEW box,
         box = Outward(<< x1, y1, x2, y2 >>, b, w, h)
  PROVE  /\ box[1] = Along(x1, x2, w, b[1]) /\ box[3] = Along(x1, x2, w, b[3])
         /\ box[2] = Along(y1, y2, h, b[2]) /\ box[4] = Along(y1, y2, h, b[4])
BY DEF Outward, Along

LEMMA PagesAreRight ==
  ASSUME NEW region \in Regions, NEW size \in Sizes, NEW found \in SUBSET Found,
         answer.region = region, answer.size = size,
         answer.found = Handwriting(region, size[1], size[2], found)
  PROVE  HandwritingIsOnItsPage
<1>1. PICK w \in Nat, h \in Nat : w = size[1] /\ h = size[2] /\ w > 0 /\ h > 0
  <2>1. size \in (Nat \ {0}) \X (Nat \ {0})
    BY DeskAssumption
  <2>2. QED
    BY <2>1
<1>2. PICK x1 \in Nat, y1 \in Nat, x2 \in Nat, y2 \in Nat :
        Crop(region, w, h) = << x1, y1, x2, y2 >> /\ x1 < x2 /\ x2 <= w /\ y1 < y2 /\ y2 <= h
  BY <1>1, CropIsWithin
<1>3. PICK page : page = Outward(Crop(region, w, h), << 0, 0, 1000, 1000 >>, w, h)
  OBVIOUS
<1>4. /\ page[1] = Along(x1, x2, w, 0) /\ page[3] = Along(x1, x2, w, 1000)
      /\ page[2] = Along(y1, y2, h, 0) /\ page[4] = Along(y1, y2, h, 1000)
  <2>1. PICK z : z = << 0, 0, 1000, 1000 >>
    OBVIOUS
  <2>2. z[1] = 0 /\ z[2] = 0 /\ z[3] = 1000 /\ z[4] = 1000
    BY <2>1
  <2>3. page = Outward(<< x1, y1, x2, y2 >>, z, w, h)
    BY <1>2, <1>3, <2>1
  <2>4. QED
    BY <2>2, <2>3, OutwardIsAlong
<1>5. ASSUME NEW f \in answer.found
      PROVE  /\ 0 <= page[1] /\ page[1] <= f.box[1] /\ f.box[1] <= f.box[3]
             /\ f.box[3] <= page[3] /\ page[3] <= 1000
             /\ 0 <= page[2] /\ page[2] <= f.box[2] /\ f.box[2] <= f.box[4]
             /\ f.box[4] <= page[4] /\ page[4] <= 1000
             /\ f.ratio \in 1..100
  <2> DEFINE mark(b) == [box |-> Outward(Crop(region, w, h), b, w, h),
                         ratio |-> Max({1, Surface(b) \div 10000})]
             small == { b \in found : Surface(b) <= 800000 }
  <2>1. PICK b \in small : f = mark(b)
    <3>1. answer.found = { mark(b) : b \in small }
      BY <1>1, SMTT(10) DEF Handwriting
    <3> HIDE DEF mark, small
    <3>2. QED
      BY <3>1
  <2>2. b \in Frame
    BY DeskAssumption
  <2>3. PICK b1 \in Nat, b2 \in Nat, b3 \in Nat, b4 \in Nat :
          /\ b1 = b[1] /\ b2 = b[2] /\ b3 = b[3] /\ b4 = b[4]
          /\ b1 < b3 /\ b2 < b4 /\ b3 <= 1000 /\ b4 <= 1000
    BY <2>2, FrameNumbers, SMTT(10)
  <2>4. f.box = Outward(<< x1, y1, x2, y2 >>, b, w, h)
    BY <1>2, <2>1
  <2>5. /\ f.box[1] = Along(x1, x2, w, b1) /\ f.box[3] = Along(x1, x2, w, b3)
        /\ f.box[2] = Along(y1, y2, h, b2) /\ f.box[4] = Along(y1, y2, h, b4)
    BY <2>3, <2>4, OutwardIsAlong
  <2>6. /\ 0 <= page[1] /\ page[1] <= f.box[1] /\ f.box[1] <= f.box[3]
        /\ f.box[3] <= page[3] /\ page[3] <= 1000
    BY <1>1, <1>2, <1>4, <2>3, <2>5, AlongKeepsOrder, SMTT(10)
  <2>7. /\ 0 <= page[2] /\ page[2] <= f.box[2] /\ f.box[2] <= f.box[4]
        /\ f.box[4] <= page[4] /\ page[4] <= 1000
    BY <1>1, <1>2, <1>4, <2>3, <2>5, AlongKeepsOrder, SMTT(10)
  <2>8. f.ratio \in 1..100
    <3>1. f.ratio = Max({1, Surface(b) \div 10000})
      BY <2>1, SMTT(10)
    <3>2. Surface(b) <= 800000
      BY <2>1, SMTT(10)
    <3>3. QED
      BY <2>2, <3>1, <3>2, RatioIsPercent, SMTT(10)
  <2>9. QED
    BY <2>6, <2>7, <2>8, SMTT(10)
<1>6. QED
  BY <1>1, <1>3, <1>5, SMTT(10) DEF HandwritingIsOnItsPage

-----------------------------------------------------------------------------
(* The rows, the scans and the week have the types that the model declares  *)

LEMMA DeskIsTyped ==
  ASSUME FraudInv, WeeklyInv
  PROVE  DeskTypeOK
<1>1. RowsInv /\ FraudShape /\ ScansInv
  BY DEF FraudInv
<1>2. \A o \in orders : o.customer \in Customers /\ o.price \in Prices /\ o.at \in 0..now
  BY <1>1 DEF RowsInv, OrderFits
<1>3. \A r \in reviews : r.admin \in Admins /\ r.job \in Jobs /\ r.at \in 0..now
  BY <1>1 DEF RowsInv, ReviewFits
<1>4. \A s \in Scanners : scan[s].pending \subseteq Report /\ scan[s].left \subseteq scan[s].found
  BY <1>1 DEF FraudShape, ScansInv, Works, ScanType
<1>5. alarms \subseteq Report
  <2>1. alarms \subseteq reports
    BY DEF FraudInv, ScreensAgree, AlarmsFollowReports
  <2>2. QED
    BY <1>1, <2>1 DEF FraudShape
<1>6. TypeOK
  BY <1>1, <1>2, <1>3, <1>4, <1>5 DEF TypeOK, RowsInv, FraudShape
<1>7. WeeklyTypeOK
  <2>1. WeeklyShape
    BY DEF WeeklyInv
  <2>2. done \subseteq Days
    BY <2>1, WeeklyAssumption DEF WeeklyShape, Days
  <2>3. \A w \in Weeks : report[w] \in Nat \cup {Missing}
    BY <2>1 DEF WeeklyShape
  <2>4. QED
    BY <2>1, <2>2, <2>3 DEF WeeklyTypeOK, WeeklyShape
<1>8. QED
  BY <1>6, <1>7 DEF DeskTypeOK

-----------------------------------------------------------------------------
(* The places                                                               *)

(* A parcel, a box, the flaws of a picture or the writing on a page are     *)
(* those of what was asked about.                                           *)
AnswerIsGiven ==
  /\ answer.service = "parcel" =>
       answer.books \in UpTo(Books, MaxBooks) /\ answer.cartons = PackParcel(answer.books)
  /\ answer.service = "box" =>
       answer.books \in UpTo(Bulky, MaxBooks) /\ answer.box = RecommendBox(answer.books)
  /\ answer.service = "flaws" =>
       /\ answer.seen \in Seen /\ answer.loaded \in Loaded
       /\ answer.found = Candidates(answer.seen, answer.loaded)
  /\ answer.service = "page" =>
       /\ answer.region \in Regions /\ answer.size \in Sizes
       /\ \E found \in SUBSET Found :
            answer.found = Handwriting(answer.region, answer.size[1], answer.size[2], found)

LEMMA AskGives ==
  ASSUME Ask
  PROVE  AnswerIsGiven'
<1>0. PICK a : a = answer'
  OBVIOUS
<1>1. ASSUME NEW lines, NEW p, QuoteOrder(lines, p) PROVE AnswerIsGiven'
  <2>1. a.service = "quote"
    BY <1>0, <1>1 DEF QuoteOrder, Answer
  <2>2. QED
    BY <1>0, <2>1 DEF AnswerIsGiven
<1>2. ASSUME NEW t, AskTag(t) PROVE AnswerIsGiven'
  <2>1. a.service = "tag"
    BY <1>0, <1>2 DEF AskTag, Answer
  <2>2. QED
    BY <1>0, <2>1 DEF AnswerIsGiven
<1>3. ASSUME NEW books \in UpTo(Books, MaxBooks), AskParcel(books) PROVE AnswerIsGiven'
  <2>1. a.service = "parcel" /\ a.books = books /\ a.cartons = PackParcel(books)
    BY <1>0, <1>3 DEF AskParcel, Answer
  <2>2. QED
    BY <1>0, <2>1 DEF AnswerIsGiven
<1>4. ASSUME NEW books \in UpTo(Bulky, MaxBooks), AskBox(books) PROVE AnswerIsGiven'
  <2>1. a.service = "box" /\ a.books = books /\ a.box = RecommendBox(books)
    BY <1>0, <1>4 DEF AskBox, Answer
  <2>2. QED
    BY <1>0, <2>1 DEF AnswerIsGiven
<1>5. ASSUME NEW seen \in Seen, NEW loaded \in Loaded, AskFlaws(seen, loaded) PROVE AnswerIsGiven'
  <2>1. a.service = "flaws" /\ a.seen = seen /\ a.loaded = loaded /\ a.found = Candidates(seen, loaded)
    BY <1>0, <1>5 DEF AskFlaws, Answer
  <2>2. QED
    BY <1>0, <2>1 DEF AnswerIsGiven
<1>6. ASSUME NEW region \in Regions, NEW size \in Sizes, NEW found \in SUBSET Found,
             AskPage(region, size, found)
      PROVE  AnswerIsGiven'
  <2>1. /\ a.service = "page" /\ a.region = region /\ a.size = size
        /\ a.found = Handwriting(region, size[1], size[2], found)
    BY <1>0, <1>6 DEF AskPage, Answer
  <2>2. QED
    BY <1>0, <2>1 DEF AnswerIsGiven
<1>7. QED
  BY <1>1, <1>2, <1>3, <1>4, <1>5, <1>6 DEF Ask

LEMMA GivenIsRight ==
  ASSUME AnswerIsGiven
  PROVE  /\ ParcelIsSound /\ NoBookIsLost /\ StackFitsBox /\ FewerBooksNoLargerBox
         /\ SightingsSurvive /\ HandwritingIsOnItsPage
<1>1. ParcelIsSound /\ NoBookIsLost /\ StackFitsBox
  <2>1. CASE answer.service = "parcel"
    BY <2>1, ParcelsAreRight DEF AnswerIsGiven
  <2>2. CASE answer.service # "parcel"
    BY <2>2 DEF ParcelIsSound, NoBookIsLost, StackFitsBox
  <2>3. QED
    BY <2>1, <2>2
<1>2. FewerBooksNoLargerBox
  <2>1. CASE answer.service = "box"
    BY <2>1, EstimatesAreRight DEF AnswerIsGiven
  <2>2. CASE answer.service # "box"
    BY <2>2 DEF FewerBooksNoLargerBox
  <2>3. QED
    BY <2>1, <2>2
<1>3. SightingsSurvive
  <2>1. CASE answer.service = "flaws"
    <3>1. PICK seen \in Seen, loaded \in Loaded :
            answer.seen = seen /\ answer.loaded = loaded /\ answer.found = Candidates(seen, loaded)
      BY <2>1 DEF AnswerIsGiven
    <3>2. QED
      BY <3>1, SightingsAreRight
  <2>2. CASE answer.service # "flaws"
    BY <2>2, SMTT(10) DEF SightingsSurvive
  <2>3. QED
    BY <2>1, <2>2
<1>4. HandwritingIsOnItsPage
  <2>1. CASE answer.service = "page"
    <3>1. PICK region \in Regions, size \in Sizes, found \in SUBSET Found :
            /\ answer.region = region /\ answer.size = size
            /\ answer.found = Handwriting(region, size[1], size[2], found)
      BY <2>1 DEF AnswerIsGiven
    <3>2. QED
      BY <3>1, PagesAreRight
  <2>2. CASE answer.service # "page"
    BY <2>2, SMTT(10) DEF HandwritingIsOnItsPage
  <2>3. QED
    BY <2>1, <2>2
<1>5. QED
  BY <1>1, <1>2, <1>3, <1>4

(* Whatever books are sent, whatever the models see and wherever the reader *)
(* puts a page: the books stand in their cartons and none is lost, a book   *)
(* less needs no larger box, no sure sighting vanishes in the fusion, and   *)
(* handwriting lies on its page.                                            *)
THEOREM PlacesAreAlwaysRight == DeskSpec => []PlacesAreRight
<1>1. DeskInit => AnswerIsGiven
  <2>1. DeskInit => answer.service = "none"
    BY DEF DeskInit, Nothing
  <2>2. QED
    BY <2>1 DEF AnswerIsGiven
<1>2. AnswerIsGiven /\ [DeskNext]_<<vars, answer, weeklyVars>> => AnswerIsGiven'
  <2> SUFFICES ASSUME AnswerIsGiven, [DeskNext]_<<vars, answer, weeklyVars>>
               PROVE  AnswerIsGiven'
    OBVIOUS
  <2>1. CASE Ask
    BY <2>1, AskGives
  <2>2. CASE UNCHANGED answer
    BY <2>2 DEF AnswerIsGiven
  <2>3. QED
    BY <2>1, <2>2 DEF DeskNext
<1>3. FraudInv /\ WeeklyInv /\ AnswerIsGiven => PlacesAreRight
  BY DeskIsTyped, GivenIsRight DEF PlacesAreRight
<1>4. QED
  BY <1>1, <1>2, <1>3, FraudInvariant, WeeklyInvariant, PTL DEF DeskSpec
=============================================================================
