-------------------------- MODULE NumberingProofs --------------------------
(***************************************************************************)
(* Proofs about the LPN numbers of a day, for any number of books, jobs,   *)
(* clerks, rows and requests: what a number identifies.                    *)
(***************************************************************************)
EXTENDS Numbering, FiniteSetTheorems, WellFoundedInduction, TLAPS

-----------------------------------------------------------------------------
(* The next number *)

LEMMA LessThanIsWellFounded ==
  IsWellFoundedOn({ p \in Nat \X Nat : p[1] < p[2] }, Nat)
BY NatLessThanWellFounded DEF OpToRel

LEMMA SmallestExists ==
  ASSUME NEW S, S \subseteq Nat, S # {}
  PROVE  \E j \in S : \A i \in S : j <= i
<1> DEFINE Less == { p \in Nat \X Nat : p[1] < p[2] }
<1>1. PICK j \in S : \A i \in S : << i, j >> \notin Less
  <2>1. IsWellFoundedOn(Less, Nat)
    BY LessThanIsWellFounded
  <2> HIDE DEF Less
  <2>2. QED
    BY <2>1, WFMin
<1>2. \A i \in S : j <= i
  <2> TAKE i \in S
  <2>1. i \in Nat /\ j \in Nat /\ << i, j >> \notin Less
    BY <1>1
  <2>2. QED
    BY <2>1
<1>3. QED
  BY <1>2

(* Barcodes of one day have a highest one.                                  *)
LEMMA HighestExists ==
  ASSUME Taken # {}
  PROVE  \E n \in Taken : \A m \in Taken : Rank(m) <= Rank(n)
<1> DEFINE Gap(n) == 11 * Radix + 11 - Rank(n)
           Gaps   == { Gap(n) : n \in Taken }
<1>0. Radix \in Nat /\ Radix >= 10
  BY NumberingAssumption
<1>1. ASSUME NEW n \in Taken PROVE Rank(n) \in Nat /\ Gap(n) \in Nat
  <2>1. n \in Nat /\ 1 <= n /\ n <= Radix
    BY <1>0 DEF Taken, Numbers
  <2>2. n \div 10 \in Nat /\ n \div 10 <= n
    BY <2>1
  <2>3. QED
    BY <1>0, <2>1, <2>2 DEF Rank
<1>2. \E g \in Gaps : \A h \in Gaps : g <= h
  <2>1. Gaps \subseteq Nat /\ Gaps # {}
    BY <1>1
  <2> HIDE DEF Gaps
  <2>2. QED
    BY <2>1, SmallestExists
<1>3. PICK n \in Taken : \A m \in Taken : Gap(n) <= Gap(m)
  BY <1>2
<1>4. \A m \in Taken : Rank(m) <= Rank(n)
  BY <1>0, <1>1, <1>3
<1>5. QED
  BY <1>4

Highest == CHOOSE n \in Taken : \A m \in Taken : Rank(m) <= Rank(n)

LEMMA HighestIsTaken ==
  ASSUME Taken # {}
  PROVE  Highest \in Taken /\ \A m \in Taken : Rank(m) <= Rank(Highest)
BY HighestExists DEF Highest

(* What a request takes for the next number is a number of the day ...      *)
LEMMA NextIsNumber == NextNumber \in Numbers
<1>0. Radix \in Nat /\ Radix >= 10
  BY NumberingAssumption
<1>1. CASE Taken = {}
  BY <1>0, <1>1 DEF NextNumber, Numbers
<1>2. CASE Taken # {}
  <2>1. NextNumber = (Highest % Radix) + 1
    BY <1>2 DEF NextNumber, Highest
  <2>2. Highest \in Nat
    BY <1>0, <1>2, HighestIsTaken DEF Taken, Numbers
  <2>3. Highest % Radix \in 0..(Radix - 1)
    BY <1>0, <2>2
  <2>4. QED
    BY <1>0, <2>1, <2>3 DEF Numbers
<1>3. QED
  BY <1>1, <1>2

(* ... and a free one, until the number with one digit more is given out.   *)
LEMMA NextIsFree ==
  ASSUME Radix \notin Taken
  PROVE  NextNumber \notin Taken
<1>0. Radix \in Nat /\ Radix >= 10
  BY NumberingAssumption
<1>1. CASE Taken = {}
  BY <1>1
<1>2. CASE Taken # {}
  <2>1. NextNumber = (Highest % Radix) + 1
    BY <1>2 DEF NextNumber, Highest
  <2>2. \A m \in Taken : m \in Nat /\ m < Radix
    BY <1>0 DEF Taken, Numbers
  <2>3. Highest \in Nat /\ Highest < Radix /\ \A m \in Taken : 11 * m <= 11 * Highest
    BY <1>2, <2>2, HighestIsTaken DEF Rank
  <2>4. Highest % Radix = Highest
    BY <1>0, <2>3
  <2>5. QED
    BY <2>1, <2>2, <2>3, <2>4
<1>3. QED
  BY <1>1, <1>2

-----------------------------------------------------------------------------
(* Types *)

(* The requests by what they do. *)
LEMMA RequestKinds ==
  ASSUME TypeOK, NEW c \in Clerks
  PROVE  /\ req[c].op \in {"read", "insert"} => req[c] \in Issuing
         /\ req[c].op = "cancel" => req[c] \in Cancelling
         /\ req[c].op \in {"lock", "find", "assign"} => req[c] \in Overriding
BY DEF TypeOK, Idle, Issuing, Cancelling, Overriding

(* A step of one clerk. *)
LEMMA RequestSet ==
  ASSUME TypeOK, NEW c \in Clerks, NEW r, req' = [req EXCEPT ![c] = r]
  PROVE  DOMAIN req' = Clerks /\ req'[c] = r /\ \A d \in Clerks \ {c} : req'[d] = req[d]
BY DEF TypeOK

RequestsOK ==
  /\ DOMAIN req = Clerks
  /\ \A c \in Clerks : \/ req[c] = Idle
                       \/ req[c] \in Issuing \/ req[c] \in Cancelling \/ req[c] \in Overriding

LEMMA RequestType ==
  ASSUME TypeOK, NEW c \in Clerks,
         NEW r \in {Idle} \cup Issuing \cup Cancelling \cup Overriding,
         req' = [req EXCEPT ![c] = r]
  PROVE  RequestsOK'
BY RequestSet DEF TypeOK, RequestsOK

RowsOK ==
  /\ DOMAIN row = Numbers /\ \A n \in Numbers : row[n] = NoRow \/ row[n] \in Row
  /\ rows \in 0..MaxRows

LEMMA NewRowType ==
  ASSUME TypeOK, NEW n \in Numbers, NEW x \in AnyCopy,
         NEW s \in {"PENDING_INSPECTION", "INSPECTED"}, NEW j \in Jobs \cup {NoJob},
         NewRow(n, x, s, j)
  PROVE  RowsOK'
BY NumberingAssumption DEF TypeOK, NewRow, RowsOK, Row

(* The row of a number, assigned to a job. *)
LEMMA AssignType ==
  ASSUME TypeOK, NEW n \in Numbers, NEW j \in Jobs, NEW found \in BOOLEAN,
         found => row[n] # NoRow, Assign(n, j, found)
  PROVE  RowsOK'
<1>1. CASE found
  <2>1. row[n] \in Row
    BY <1>1 DEF TypeOK
  <2>2. [row[n] EXCEPT !.status = "INSPECTED", !.job = j] \in Row
    BY <2>1 DEF Row
  <2>3. row' = [row EXCEPT ![n] = [row[n] EXCEPT !.status = "INSPECTED", !.job = j]] /\ UNCHANGED rows
    BY <1>1 DEF Assign, TypeOK
  <2>4. QED
    BY <2>2, <2>3 DEF TypeOK, RowsOK
<1>2. CASE ~found
  <2>1. job[j].copy \in AnyCopy
    BY DEF TypeOK, JobRow
  <2>2. QED
    BY <1>2, <2>1, NewRowType DEF Assign
<1>3. QED
  BY <1>1, <1>2
(* A job opened with a book and the number its device knows.                *)
LEMMA OpenType ==
  ASSUME TypeOK, NEW j \in Jobs, NEW x \in Copies, Open(j, x)
  PROVE  job' \in [Jobs -> JobRow]
BY DEF TypeOK, Open, JobRow, AnyCopy

LEMMA TypeInit == Init => TypeOK
<1> SUFFICES ASSUME Init PROVE TypeOK
  OBVIOUS
<1> USE NumberingAssumption DEF Init
<1>1. DOMAIN row = Numbers /\ \A n \in Numbers : row[n] = NoRow \/ row[n] \in Row
  BY DEF Row, AnyCopy
<1>2. job \in [Jobs -> JobRow] /\ known \in [Copies -> 0..Radix]
  BY DEF JobRow, AnyCopy
<1>3. DOMAIN req = Clerks /\ \A c \in Clerks : req[c] = Idle
  OBVIOUS
<1>4. QED
  BY <1>1, <1>2, <1>3 DEF TypeOK

LEMMA ForgetType ==
  ASSUME TypeOK, NEW n, DeviceForgets(n)
  PROVE  known' \in [Copies -> 0..Radix]
<1>1. 0 \in 0..Radix /\ known \in [Copies -> 0..Radix]
  BY NumberingAssumption DEF TypeOK
<1>2. UNCHANGED known \/ \E x \in Copies : known' = [known EXCEPT ![x] = 0]
  BY DEF DeviceForgets
<1>3. QED
  BY <1>1, <1>2

(* A request that has found its next number.                                *)
LEMMA InsertType ==
  ASSUME NEW r \in Issuing, NEW n \in 0..Radix, NEW b, b \in BOOLEAN
  PROVE  [r EXCEPT !.op = "insert", !.next = n, !.full = b] \in Issuing
BY DEF Issuing

LEMMA TypeStep == TypeOK /\ [Next]_vars => TypeOK'
<1> SUFFICES ASSUME TypeOK, [Next]_vars PROVE TypeOK'
  OBVIOUS
<1>0. /\ Radix \in Nat /\ rows \in Nat /\ MaxRequests \in Nat /\ MaxRows \in Nat
      /\ RowsOK /\ RequestsOK
  BY NumberingAssumption DEF TypeOK, RowsOK, RequestsOK
<1> DEFINE RestOK == /\ requests \in 0..MaxRequests
                     /\ labels \subseteq Numbers \X Copies
                     /\ incidents \in [Numbers -> SUBSET Incidents]
                     /\ twice \subseteq Jobs
<1>r. RestOK
  BY DEF TypeOK
<1>t. ASSUME RowsOK', RequestsOK', RestOK', (job \in [Jobs -> JobRow])',
             (known \in [Copies -> 0..Radix])'
      PROVE  TypeOK'
  BY <1>t DEF TypeOK, RowsOK, RequestsOK
<1> USE <1>0, <1>r
<1> DEFINE JobKnownOK == job \in [Jobs -> JobRow] /\ known \in [Copies -> 0..Radix]
<1>k. JobKnownOK
  BY DEF TypeOK
<1>1. ASSUME NEW c \in Clerks, NEW x \in Copies, BeginIssue(c, x) PROVE TypeOK'
  <2>1. [op |-> "read", copy |-> x, next |-> 0, tries |-> 0, since |-> rows, full |-> FALSE] \in Issuing
    BY DEF Issuing
  <2>2. RequestsOK'
    BY <1>1, <2>1, RequestType DEF BeginIssue
  <2>3. RestOK' /\ RowsOK' /\ JobKnownOK'
    BY <1>1, <1>k DEF BeginIssue, Arrive, RowsOK
  <2>4. QED
    BY <1>t, <2>2, <2>3
<1>2. ASSUME NEW c \in Clerks, ReadNext(c) PROVE TypeOK'
  <2>1. req[c] \in Issuing
    BY <1>2, RequestKinds DEF ReadNext
  <2>2. Reread(c) \in 0..Radix
    BY NextIsNumber DEF Reread, Numbers
  <2>3. PICK n \in 0..Radix, b \in BOOLEAN : n = Reread(c) /\ b = (req[c].full \/ Radix \in Taken)
    BY <2>2
  <2> DEFINE r == [req[c] EXCEPT !.op = "insert", !.next = n, !.full = b]
  <2>6. r \in Issuing
    BY <2>1, InsertType
  <2>7. req' = [req EXCEPT ![c] = r]
    BY <1>2, <2>3 DEF ReadNext, TypeOK
  <2>8. RequestsOK'
    BY <2>6, <2>7, RequestType
  <2>9. RestOK' /\ RowsOK' /\ JobKnownOK'
    BY <1>2, <1>k DEF ReadNext, RowsOK
  <2>10. QED
    BY <1>t, <2>8, <2>9
<1>3. ASSUME NEW c \in Clerks, Insert(c) PROVE TypeOK'
  <2>1. req[c] \in Issuing
    BY <1>3, RequestKinds DEF Insert
  <2>2. PICK n \in 0..Radix, x \in Copies : n = req[c].next /\ x = req[c].copy
    BY <2>1 DEF Issuing
  <2>3. RowsOK'
    <3>1. CASE n \in Numbers
      BY <1>3, <2>2, <3>1, NewRowType, NumberingAssumption DEF Insert, AnyCopy
    <3>2. CASE n \notin Numbers
      BY <1>3, <2>2, <3>2, NumberingAssumption DEF Insert, NewRow, RowsOK
    <3>3. QED
      BY <3>1, <3>2
  <2>4. RequestsOK'
    BY <1>3, RequestType DEF Insert, Answer
  <2>5. RestOK' /\ JobKnownOK'
    BY <1>3, <1>k, <2>2 DEF Insert
  <2>6. QED
    BY <1>t, <2>3, <2>4, <2>5
<1>4. ASSUME NEW c \in Clerks, Collide(c) PROVE TypeOK'
  <2>1. req[c] \in Issuing
    BY <1>4, RequestKinds DEF Collide
  <2>t. PICK t \in Nat : t = req[c].tries + 1
    BY <2>1 DEF Issuing
  <2> DEFINE r == [req[c] EXCEPT !.op = "read", !.tries = t]
  <2>2. r \in Issuing
    BY <2>1 DEF Issuing
  <2>3. req' = [req EXCEPT ![c] = r] \/ req' = [req EXCEPT ![c] = Idle]
    BY <1>4, <2>t DEF Collide, Answer, TypeOK
  <2>4. RequestsOK'
    BY <2>2, <2>3, RequestType
  <2>5. RestOK' /\ RowsOK' /\ JobKnownOK'
    BY <1>4, <1>k DEF Collide, RowsOK
  <2>6. QED
    BY <1>t, <2>4, <2>5
<1>5. ASSUME NEW c \in Clerks, NEW n \in Numbers, BeginCancel(c, n) PROVE TypeOK'
  <2>1. [op |-> "cancel", lpn |-> n, id |-> row[n].id, jobs |-> Opened] \in Cancelling
    <3>1. row[n] \in Row
      BY <1>5 DEF BeginCancel, Pending, RowsOK
    <3>2. QED
      BY <3>1 DEF Cancelling, Row, Opened
  <2>2. RequestsOK'
    BY <1>5, <2>1, RequestType DEF BeginCancel
  <2>3. RestOK' /\ RowsOK' /\ JobKnownOK'
    BY <1>5, <1>k DEF BeginCancel, Arrive, RowsOK
  <2>4. QED
    BY <1>t, <2>2, <2>3
<1>6. ASSUME NEW c \in Clerks, CommitCancel(c) PROVE TypeOK'
  <2>1. RequestsOK'
    BY <1>6, RequestType DEF CommitCancel, Answer
  <2>2. RowsOK' /\ RestOK'
    BY <1>6 DEF CommitCancel, RowsOK, Incidents
  <2>3. JobKnownOK'
    BY <1>6, <1>k, ForgetType DEF CommitCancel
  <2>4. QED
    BY <1>t, <2>1, <2>2, <2>3
<1>7. ASSUME NEW c \in Clerks, NEW j \in Jobs, BeginOverride(c, j) PROVE TypeOK'
  <2>1. [op |-> "lock", job |-> j, lpn |-> job[j].lpn, new |-> job[j].lpn = 0, found |-> FALSE] \in Overriding
    BY <1>k DEF Overriding, JobRow
  <2>2. RequestsOK'
    BY <1>7, <2>1, RequestType DEF BeginOverride
  <2>3. RestOK' /\ RowsOK' /\ JobKnownOK'
    BY <1>7, <1>k DEF BeginOverride, Arrive, RowsOK
  <2>4. QED
    BY <1>t, <2>2, <2>3
<1>8. ASSUME NEW c \in Clerks, LockJob(c) PROVE TypeOK'
  <2>1. req[c] \in Overriding
    BY <1>8, RequestKinds DEF LockJob
  <2> DEFINE r == [req[c] EXCEPT !.op = "find", !.lpn = NumberFor(c)]
  <2>2. NumberFor(c) \in 0..Radix
    BY <2>1, NextIsNumber DEF NumberFor, Numbers, Overriding
  <2>3. r \in Overriding
    BY <2>1, <2>2 DEF Overriding
  <2>4. req' = [req EXCEPT ![c] = r] \/ req' = [req EXCEPT ![c] = Idle]
    BY <1>8 DEF LockJob, Answer, TypeOK
  <2>5. RequestsOK'
    BY <2>3, <2>4, RequestType
  <2>6. RestOK' /\ RowsOK' /\ JobKnownOK'
    BY <1>8, <1>k, <2>1 DEF LockJob, RowsOK, Overriding
  <2>7. QED
    BY <1>t, <2>5, <2>6
<1>9. ASSUME NEW c \in Clerks, FindRow(c) PROVE TypeOK'
  <2>1. req[c] \in Overriding
    BY <1>9, RequestKinds DEF FindRow
  <2> DEFINE r == [req[c] EXCEPT !.op = "assign", !.found = row[req[c].lpn] # NoRow]
  <2>2. r \in Overriding
    BY <2>1 DEF Overriding
  <2>3. req' = [req EXCEPT ![c] = r]
    BY <1>9 DEF FindRow, TypeOK
  <2>4. RequestsOK'
    BY <2>2, <2>3, RequestType
  <2>5. RestOK' /\ RowsOK' /\ JobKnownOK'
    BY <1>9, <1>k DEF FindRow, RowsOK
  <2>6. QED
    BY <1>t, <2>4, <2>5
<1>10. ASSUME NEW c \in Clerks, CommitOverride(c) PROVE TypeOK'
  <2>1. req[c] \in Overriding
    BY <1>10, RequestKinds DEF CommitOverride
  <2>2. PICK j \in Jobs, n \in 0..Radix, found \in BOOLEAN :
          j = req[c].job /\ n = req[c].lpn /\ found = req[c].found
    BY <2>1 DEF Overriding
  <2>3. RowsOK'
    <3>1. CASE n \in Numbers
      BY <1>10, <2>2, <3>1, AssignType DEF CommitOverride
    <3>2. CASE n \notin Numbers
      BY <1>10, <2>2, <3>2, NumberingAssumption DEF CommitOverride, Assign, NewRow, RowsOK
    <3>3. QED
      BY <3>1, <3>2
  <2>4. RequestsOK'
    BY <1>10, RequestType DEF CommitOverride, Answer
  <2>5. job' = [job EXCEPT ![j] = [job[j] EXCEPT !.status = "DECIDED", !.lpn = n]]
    BY <1>10, <2>2, <1>k DEF CommitOverride
  <2>6. [job[j] EXCEPT !.status = "DECIDED", !.lpn = n] \in JobRow
    <3>1. PICK old \in JobRow : old = job[j]
      BY <1>k, <2>2
    <3>2. [old EXCEPT !.status = "DECIDED", !.lpn = n] \in JobRow
      BY DEF JobRow
    <3>3. QED
      BY <3>1, <3>2
  <2>7. JobKnownOK'
    <3>1. PICK new \in JobRow : job' = [job EXCEPT ![j] = new]
      BY <2>5, <2>6
    <3>2. job' \in [Jobs -> JobRow]
      BY <1>k, <3>1
    <3>3. known' = known
      BY <1>10 DEF CommitOverride
    <3>4. QED
      BY <1>k, <3>2, <3>3
  <2>8. incidents' \in [Numbers -> SUBSET Incidents]
    <3>1. PICK s \in SUBSET Incidents : incidents' = [incidents EXCEPT ![n] = @ \cup s]
      BY <1>10, <2>2 DEF CommitOverride, Incidents
    <3>2. QED
      BY <1>k, <3>1
  <2>9. RestOK'
    BY <1>10, <2>8 DEF CommitOverride
  <2>10. QED
    BY <1>t, <2>3, <2>4, <2>7, <2>9
<1>11. ASSUME NEW c \in Clerks, OverrideFails(c) PROVE TypeOK'
  <2>1. RequestsOK'
    BY <1>11, RequestType DEF OverrideFails, Answer
  <2>2. RestOK' /\ RowsOK' /\ JobKnownOK'
    BY <1>11, <1>k DEF OverrideFails, RowsOK
  <2>3. QED
    BY <1>t, <2>1, <2>2
<1>12. ASSUME NEW x \in Copies, StickLabel(x) PROVE TypeOK'
  <2>1. labels' \subseteq Numbers \X Copies
    BY <1>12, <1>k DEF StickLabel, Numbers
  <2>2. QED
    BY <1>12, <1>k, <1>t, <2>1 DEF StickLabel, RowsOK, RequestsOK
<1>13. ASSUME NEW x \in Copies, NEW j \in Jobs, StartEvaluation(j, x) \/ TriggerInspection(j, x)
       PROVE  TypeOK'
  <2>1. job' \in [Jobs -> JobRow]
    BY <1>13, OpenType DEF StartEvaluation, TriggerInspection
  <2>2. QED
    BY <1>13, <1>k, <1>t, <2>1 DEF StartEvaluation, TriggerInspection, RowsOK, RequestsOK
<1>14. ASSUME NEW n \in Numbers, HardDelete(n) PROVE TypeOK'
  <2>1. \A m \in Numbers : row[m] \in Row => [row[m] EXCEPT !.job = NoJob] \in Row
    BY DEF Row
  <2>2. RowsOK'
    BY <1>14, <2>1 DEF HardDelete, RowsOK
  <2>3. \A j \in Jobs : [job[j] EXCEPT !.status = "DELETED"] \in JobRow
    BY <1>k DEF JobRow
  <2>4. JobKnownOK'
    BY <1>14, <1>k, <2>3 DEF HardDelete
  <2>5. RestOK' /\ RequestsOK'
    BY <1>14 DEF HardDelete, Incidents, RequestsOK
  <2>6. QED
    BY <1>t, <2>2, <2>4, <2>5
<1>15. ASSUME NEW j \in Jobs, Decide(j) PROVE TypeOK'
  <2>1. job[j].lpn \in Numbers
    BY <1>15, <1>k DEF Decide, JobRow, Numbers
  <2>2. RowsOK'
    BY <1>15, <2>1, AssignType DEF Decide
  <2>3. [job[j] EXCEPT !.status = "DECIDED"] \in JobRow
    BY <1>k DEF JobRow
  <2>4. JobKnownOK'
    BY <1>15, <1>k, <2>3 DEF Decide
  <2>5. RestOK' /\ RequestsOK'
    BY <1>15 DEF Decide, RequestsOK
  <2>6. QED
    BY <1>t, <2>2, <2>4, <2>5
<1>16. CASE UNCHANGED vars
  BY <1>16, <1>k, <1>t DEF vars, RowsOK, RequestsOK
<1>17. QED
  BY <1>1, <1>2, <1>3, <1>4, <1>5, <1>6, <1>7, <1>8, <1>9, <1>10, <1>11, <1>12, <1>13, <1>14,
     <1>15, <1>16 DEF Next

-----------------------------------------------------------------------------
(* The inductive invariant *)

Live(j)      == job[j].status \in {"OPEN", "DECIDED"}
Asking(c)    == req[c].op \in {"read", "insert"}
Overrides(c) == req[c].op \in {"lock", "find", "assign"}
Holder(c)    == req[c].op \in {"find", "assign"}

(* A request goes by numbers that exist, by jobs that were opened, and by   *)
(* rows that had been made when it looked; an override that holds a job     *)
(* keeps it from being deleted, and holds it alone.                         *)
RequestOf(c) ==
  /\ Asking(c) => req[c].since <= rows
  /\ req[c].op = "insert" => req[c].next \in Numbers
  /\ req[c].op = "cancel" => req[c].id <= rows /\ req[c].jobs \subseteq Opened
  /\ req[c].op = "lock" => (req[c].new <=> req[c].lpn = 0)
  /\ Overrides(c) => req[c].job \in Opened
  /\ Holder(c) => req[c].lpn \in Numbers /\ Live(req[c].job)

RequestInv ==
  /\ \A c \in Clerks : RequestOf(c)
  /\ \A c, d \in Clerks : Holder(c) /\ Holder(d) /\ req[c].job = req[d].job => c = d
  /\ \A n \in Numbers : row[n] # NoRow => row[n].id <= rows

(* The number on a label or a device leads to the row of its book, unless   *)
(* that row was taken away while one of them carried it.                    *)
LabelInv ==
  \A n \in Numbers, x \in Copies :
    known[x] = n \/ << n, x >> \in labels =>
      "carried" \in incidents[n] \/ (row[n] # NoRow /\ row[n].copy = x)

(* A book that a number is being allotted to has no number and no job yet;  *)
(* what a device knows of a book that has a job is the number of the job.   *)
HandInv ==
  /\ \A c \in Clerks : Asking(c) =>
       /\ known[req[c].copy] = 0 /\ \A j \in Jobs : job[j].copy # req[c].copy
       /\ \A d \in Clerks : Asking(d) /\ req[d].copy = req[c].copy => d = c
  /\ \A j \in Jobs : IF job[j].status = "ABSENT" THEN job[j].copy = OldCopy
                     ELSE job[j].copy \in Copies /\ known[job[j].copy] \in {0, job[j].lpn}

(* A job opened without a number is the only one of its book, and stays so; *)
(* it changes its number only through overlapping overrides.                *)
Sole(j) == known[job[j].copy] = 0 /\ \A k \in Jobs \ {j} : job[k].copy # job[j].copy

SoleInv ==
  /\ twice \subseteq Opened
  /\ \A j \in Opened : job[j].lpn = 0 \/ j \in twice => Sole(j)
  /\ \A c \in Clerks : Overrides(c) =>
       /\ req[c].new => Sole(req[c].job)
       /\ req[c].new /\ Holder(c) => job[req[c].job].lpn = 0 \/ req[c].job \in twice
       /\ ~req[c].new => job[req[c].job].lpn = req[c].lpn \/ req[c].job \in twice

(* The numbers a job goes by: its own, and those read by overrides of it.   *)
Carries(j, n) ==
  \/ job[j].lpn = n
  \/ \E c \in Clerks : Overrides(c) /\ ~req[c].new /\ req[c].job = j /\ req[c].lpn = n

(* They lead to a row of its book.                                          *)
CarryInv ==
  \A j \in Jobs, n \in Numbers : Live(j) /\ Carries(j, n) /\ incidents[n] = {} =>
    /\ row[n] # NoRow /\ row[n].copy = job[j].copy
    /\ Sole(j) => row[n].job = j

(* A row that a cancel is going to delete is of no job it looked at, and of *)
(* no job that was opened without a number.                                 *)
CancelInv ==
  \A c \in Clerks, n \in Numbers :
    /\ req[c].op = "cancel" /\ req[c].lpn = n
    /\ row[n] # NoRow /\ row[n].id = req[c].id /\ incidents[n] = {}
    => \A j \in Jobs : Live(j) /\ Carries(j, n) => j \notin req[c].jobs /\ ~Sole(j)

(* The row of a job lies under its number, and is of its book.              *)
RowInv ==
  \A n \in Numbers : row[n] # NoRow /\ row[n].job # NoJob =>
    /\ job[row[n].job].status = "DECIDED"
    /\ row[n].job \notin twice => job[row[n].job].lpn = n
    /\ incidents[n] = {} => row[n].copy = job[row[n].job].copy

(* A try that failed, or is going to, was overtaken by a new row.           *)
TryInv ==
  \A c \in Clerks : Asking(c) /\ ~req[c].full =>
    /\ rows - req[c].since >= req[c].tries
    /\ req[c].op = "insert" /\ row[req[c].next] # NoRow => rows - req[c].since > req[c].tries

NumberInv == /\ RequestInv /\ LabelInv /\ HandInv /\ SoleInv /\ CarryInv /\ CancelInv
             /\ RowInv /\ TryInv

-----------------------------------------------------------------------------
(* What the actions do *)

RowNew(n, x, j) ==
  /\ row[n] = NoRow /\ row'[n] # NoRow /\ rows' = rows + 1
  /\ row'[n].id = rows + 1 /\ row'[n].copy = x /\ row'[n].job = j
  /\ \A m \in Numbers \ {n} : row'[m] = row[m]

RowTaken(n, j) ==
  /\ row[n] # NoRow /\ row'[n] # NoRow /\ rows' = rows
  /\ row'[n].id = row[n].id /\ row'[n].copy = row[n].copy /\ row'[n].job = j
  /\ \A m \in Numbers \ {n} : row'[m] = row[m]

LEMMA NewRowFacts ==
  ASSUME TypeOK, NEW n \in Numbers, NEW x, NEW s, NEW j, row[n] = NoRow, NewRow(n, x, s, j)
  PROVE  RowNew(n, x, j)
<1>1. row'[n] = [id |-> rows + 1, copy |-> x, status |-> s, job |-> j]
  BY DEF NewRow, TypeOK
<1>2. row'[n].id = rows + 1 /\ rows + 1 # -1 /\ NoRow.id = -1
  BY <1>1 DEF TypeOK, NoRow
<1>3. QED
  BY <1>1, <1>2 DEF RowNew, NewRow, TypeOK

LEMMA AssignFacts ==
  ASSUME TypeOK, NEW n \in Numbers, NEW j \in Jobs, NEW found \in BOOLEAN,
         found <=> row[n] # NoRow, Assign(n, j, found)
  PROVE  (found /\ RowTaken(n, j)) \/ (~found /\ RowNew(n, job[j].copy, j))
<1>1. CASE found
  <2>1. row[n] \in Row
    BY <1>1 DEF TypeOK
  <2>2. row'[n] = [row[n] EXCEPT !.status = "INSPECTED", !.job = j]
    BY <1>1 DEF Assign, TypeOK
  <2>3. /\ row'[n].id = row[n].id /\ row'[n].copy = row[n].copy /\ row'[n].job = j
        /\ row[n].id \in Nat /\ NoRow.id = -1
    BY <2>1, <2>2 DEF Row, NoRow
  <2>4. QED
    BY <1>1, <2>3 DEF RowTaken, Assign, TypeOK
<1>2. CASE ~found
  BY <1>2, NewRowFacts DEF Assign
<1>3. QED
  BY <1>1, <1>2

(* The steps that only read. *)
Thinks(c) ==
  \/ \E x \in Copies : BeginIssue(c, x)
  \/ ReadNext(c) \/ Collide(c) \/ LockJob(c) \/ FindRow(c) \/ OverrideFails(c)
  \/ \E n \in Numbers : BeginCancel(c, n)
  \/ \E j \in Jobs : BeginOverride(c, j)

LEMMA ThinkFacts ==
  ASSUME TypeOK, NEW c \in Clerks, Thinks(c)
  PROVE  /\ UNCHANGED << row, job, known, rows, labels, incidents >>
         /\ \A d \in Clerks \ {c} : req'[d] = req[d]
BY DEF Thinks, BeginIssue, ReadNext, Collide, LockJob, FindRow, OverrideFails, BeginCancel,
       BeginOverride, Answer, TypeOK

LEMMA InsertFacts ==
  ASSUME TypeOK, RequestInv, NEW c \in Clerks, Insert(c)
  PROVE  /\ req[c] \in Issuing /\ req[c].next \in Numbers /\ req[c].copy \in Copies /\ Asking(c)
         /\ RowNew(req[c].next, req[c].copy, NoJob)
         /\ known' = [known EXCEPT ![req[c].copy] = req[c].next]
         /\ req'[c] = Idle /\ \A d \in Clerks \ {c} : req'[d] = req[d]
         /\ UNCHANGED << job, labels, incidents, twice >>
<1>1. req[c] \in Issuing /\ req[c].next \in Numbers /\ req[c].copy \in Copies /\ Asking(c)
  BY RequestKinds DEF Insert, RequestInv, RequestOf, Issuing, Asking
<1>2. RowNew(req[c].next, req[c].copy, NoJob)
  BY <1>1, NewRowFacts DEF Insert, Unique
<1>3. QED
  BY <1>1, <1>2 DEF Insert, Answer, TypeOK

LEMMA CancelFacts ==
  ASSUME TypeOK, NEW c \in Clerks, CommitCancel(c), ~UNCHANGED << row, known, incidents >>
  PROVE  /\ req[c].lpn \in Numbers /\ row[req[c].lpn] # NoRow
         /\ row[req[c].lpn].id = req[c].id
         /\ row' = [row EXCEPT ![req[c].lpn] = NoRow]
         /\ DeviceForgets(req[c].lpn)
         /\ incidents' = [incidents EXCEPT ![req[c].lpn] =
              @ \cup (IF Carried(req[c].lpn, known') THEN {"carried"} ELSE {})
                \cup (IF \E j \in Opened \ req[c].jobs : job[j].lpn = req[c].lpn
                      THEN {"linked"} ELSE {})]
BY RequestKinds DEF CommitCancel, Cancelling

LEMMA OverrideFacts ==
  ASSUME TypeOK, RequestInv, NEW c \in Clerks, CommitOverride(c)
  PROVE  LET j == req[c].job
             n == req[c].lpn
         IN
         /\ Holder(c) /\ Overrides(c) /\ j \in Jobs /\ n \in Numbers /\ Live(j) /\ j \in Opened
         /\ req[c].new \in BOOLEAN
         /\ RowTaken(n, j) \/ RowNew(n, job[j].copy, j)
         /\ RowTaken(n, j) /\ req[c].new => incidents'[n] # {}
         /\ incidents' \in [Numbers -> SUBSET Incidents]
         /\ \A m \in Numbers : incidents[m] \subseteq incidents'[m]
         /\ \A m \in Numbers : incidents'[m] = {} => incidents[m] = {}
         /\ job'[j].status = "DECIDED" /\ job'[j].lpn = n /\ job'[j].copy = job[j].copy
         /\ \A k \in Jobs \ {j} : job'[k] = job[k]
         /\ req'[c] = Idle /\ \A d \in Clerks \ {c} : req'[d] = req[d]
         /\ UNCHANGED << known, labels, twice >>
<1> DEFINE j == req[c].job
           n == req[c].lpn
<1>1. req[c] \in Overriding /\ Holder(c) /\ Overrides(c)
  BY RequestKinds DEF CommitOverride, Holder, Overrides
<1>2. /\ j \in Jobs /\ n \in Numbers /\ Live(j) /\ j \in Opened
      /\ req[c].new \in BOOLEAN /\ req[c].found \in BOOLEAN
  BY <1>1 DEF RequestInv, RequestOf, Overriding
<1>3. (req[c].found /\ RowTaken(n, j)) \/ (~req[c].found /\ RowNew(n, job[j].copy, j))
  BY <1>2, AssignFacts DEF CommitOverride
<1>4. /\ incidents'[n] = incidents[n] \cup IF req[c].new /\ req[c].found THEN {"overtaken"} ELSE {}
      /\ \A m \in Numbers \ {n} : incidents'[m] = incidents[m]
  BY <1>2 DEF CommitOverride, TypeOK
<1>5. RowTaken(n, j) /\ req[c].new => incidents'[n] # {}
  BY <1>3, <1>4 DEF RowTaken, RowNew
<1>6. job[j] \in JobRow
  BY <1>2 DEF TypeOK
<1>7. job'[j] = [job[j] EXCEPT !.status = "DECIDED", !.lpn = n]
  BY <1>2 DEF CommitOverride, TypeOK
<1>8. job'[j].status = "DECIDED" /\ job'[j].lpn = n /\ job'[j].copy = job[j].copy
  BY <1>6, <1>7 DEF JobRow
<1>9. \A k \in Jobs \ {j} : job'[k] = job[k]
  BY <1>2 DEF CommitOverride, TypeOK
<1>10. \A m \in Numbers : incidents[m] \subseteq incidents'[m]
  BY <1>4
<1>11. incidents' \in [Numbers -> SUBSET Incidents]
  BY TypeStep DEF TypeOK, CommitOverride, Next
<1>12. req'[c] = Idle /\ \A d \in Clerks \ {c} : req'[d] = req[d]
  BY DEF CommitOverride, Answer, TypeOK
<1>13. QED
  BY <1>1, <1>2, <1>3, <1>5, <1>8, <1>9, <1>10, <1>11, <1>12 DEF CommitOverride

LEMMA DecideFacts ==
  ASSUME TypeOK, NEW j \in Jobs, Decide(j)
  PROVE  /\ job[j].lpn \in Numbers /\ job[j].status = "OPEN" /\ j \in Opened
         /\ RowTaken(job[j].lpn, j) \/ RowNew(job[j].lpn, job[j].copy, j)
         /\ job'[j].status = "DECIDED" /\ job'[j].lpn = job[j].lpn /\ job'[j].copy = job[j].copy
         /\ \A k \in Jobs \ {j} : job'[k] = job[k]
         /\ UNCHANGED << known, req, labels, incidents, twice >>
<1>1. job[j] \in JobRow /\ job[j].lpn \in Numbers
  BY NumberingAssumption DEF Decide, TypeOK, JobRow, Numbers
<1>2. RowTaken(job[j].lpn, j) \/ RowNew(job[j].lpn, job[j].copy, j)
  BY <1>1, AssignFacts DEF Decide
<1>3. /\ job'[j] = [job[j] EXCEPT !.status = "DECIDED"]
      /\ \A k \in Jobs \ {j} : job'[k] = job[k]
  BY DEF Decide, TypeOK
<1>4. job'[j].status = "DECIDED" /\ job'[j].lpn = job[j].lpn /\ job'[j].copy = job[j].copy
  BY <1>1, <1>3 DEF JobRow
<1>5. QED
  BY <1>1, <1>2, <1>3, <1>4 DEF Decide, Opened

LEMMA DeleteFacts ==
  ASSUME TypeOK, NEW n \in Numbers, HardDelete(n)
  PROVE  /\ row[n] # NoRow /\ row'[n] = NoRow
         /\ \A m \in Numbers \ {n} :
              /\ row'[m] = NoRow <=> row[m] = NoRow
              /\ row[m] # NoRow =>
                   /\ row'[m].id = row[m].id /\ row'[m].copy = row[m].copy
                   /\ row'[m].job = IF row[m].job \in JobsOf(n) THEN NoJob ELSE row[m].job
         /\ \A j \in Jobs : /\ job'[j].lpn = job[j].lpn /\ job'[j].copy = job[j].copy
                            /\ job'[j].status = IF j \in JobsOf(n) THEN "DELETED" ELSE job[j].status
         /\ \A j \in JobsOf(n) : ~Locked(j)
         /\ incidents' = [incidents EXCEPT ![n] = @ \cup IF Carried(n, known) THEN {"carried"} ELSE {}]
         /\ UNCHANGED << known, req, rows, labels, twice >>
<1>1. row[n] # NoRow /\ row'[n] = NoRow
  BY DEF HardDelete
<1>2. ASSUME NEW m \in Numbers \ {n}
      PROVE  /\ row'[m] = NoRow <=> row[m] = NoRow
             /\ row[m] # NoRow =>
                  /\ row'[m].id = row[m].id /\ row'[m].copy = row[m].copy
                  /\ row'[m].job = IF row[m].job \in JobsOf(n) THEN NoJob ELSE row[m].job
  <2>1. CASE row[m] = NoRow \/ row[m].job \notin JobsOf(n)
    BY <2>1 DEF HardDelete
  <2>2. CASE row[m] # NoRow /\ row[m].job \in JobsOf(n)
    <3>1. row[m] \in Row
      BY <2>2 DEF TypeOK
    <3>2. row'[m] = [row[m] EXCEPT !.job = NoJob]
      BY <2>2 DEF HardDelete
    <3>3. /\ row'[m].id = row[m].id /\ row'[m].copy = row[m].copy /\ row'[m].job = NoJob
          /\ row[m].id \in Nat /\ NoRow.id = -1
      BY <3>1, <3>2 DEF Row, NoRow
    <3>4. QED
      BY <2>2, <3>3
  <2>3. QED
    BY <2>1, <2>2
<1>3. ASSUME NEW j \in Jobs
      PROVE  /\ job'[j].lpn = job[j].lpn /\ job'[j].copy = job[j].copy
             /\ job'[j].status = IF j \in JobsOf(n) THEN "DELETED" ELSE job[j].status
  <2>1. job[j] \in JobRow
    BY DEF TypeOK
  <2>2. job'[j] = IF j \in JobsOf(n) THEN [job[j] EXCEPT !.status = "DELETED"] ELSE job[j]
    BY DEF HardDelete
  <2>3. QED
    BY <2>1, <2>2 DEF JobRow
<1>4. QED
  BY <1>1, <1>2, <1>3 DEF HardDelete

LEMMA OpenFacts ==
  ASSUME TypeOK, NEW j \in Jobs, NEW x \in Copies, StartEvaluation(j, x) \/ TriggerInspection(j, x)
  PROVE  /\ job[j].status = "ABSENT"
         /\ job'[j].status = "OPEN" /\ job'[j].copy = x /\ job'[j].lpn = known[x]
         /\ \A k \in Jobs \ {j} : job'[k] = job[k]
         /\ UNCHANGED << row, known, req, rows, labels, incidents, twice >>
BY DEF StartEvaluation, TriggerInspection, Open, TypeOK

LEMMA ForgetFacts ==
  ASSUME TypeOK, NEW n \in Numbers, DeviceForgets(n), NEW x \in Copies
  PROVE  known'[x] \in {0, known[x]}
BY DEF DeviceForgets, TypeOK

-----------------------------------------------------------------------------
(* The invariant is kept *)

(* Every step is one of these. *)
LEMMA StepKinds ==
  ASSUME [Next]_vars
  PROVE  \/ \E c \in Clerks : Thinks(c) \/ Insert(c) \/ CommitCancel(c) \/ CommitOverride(c)
         \/ \E x \in Copies : StickLabel(x)
         \/ \E x \in Copies, j \in Jobs : StartEvaluation(j, x) \/ TriggerInspection(j, x)
         \/ \E n \in Numbers : HardDelete(n)
         \/ \E j \in Jobs : Decide(j)
         \/ UNCHANGED vars
BY DEF Next, Thinks

(* Rows and jobs are only added, and a locked job is not deleted.           *)
LEMMA Growth ==
  ASSUME TypeOK, RequestInv, [Next]_vars
  PROVE  /\ rows \in Nat /\ rows' \in Nat /\ rows <= rows' /\ Opened \subseteq Opened'
         /\ \A j \in Jobs : Live(j) /\ Locked(j) => Live(j)'
<1>0. rows \in Nat /\ rows' \in Nat
  BY TypeStep, NumberingAssumption DEF TypeOK
<1> USE <1>0 DEF Live, Opened
<1>1. ASSUME NEW c \in Clerks, Thinks(c) PROVE rows' = rows /\ job' = job
  BY <1>1, ThinkFacts
<1>2. ASSUME NEW c \in Clerks, Insert(c) PROVE rows' = rows + 1 /\ job' = job
  BY <1>2, InsertFacts DEF RowNew
<1>3. ASSUME NEW c \in Clerks, CommitCancel(c) PROVE rows' = rows /\ job' = job
  BY <1>3 DEF CommitCancel
<1>4. ASSUME NEW c \in Clerks, CommitOverride(c)
      PROVE  /\ rows' \in {rows, rows + 1} /\ \A j \in Opened : j \in Opened'
             /\ \A j \in Jobs : Live(j) => Live(j)'
  BY <1>4, OverrideFacts DEF RowNew, RowTaken
<1>5. ASSUME NEW x \in Copies, StickLabel(x) PROVE rows' = rows /\ job' = job
  BY <1>5 DEF StickLabel
<1>6. ASSUME NEW x \in Copies, NEW j \in Jobs, StartEvaluation(j, x) \/ TriggerInspection(j, x)
      PROVE  /\ rows' = rows /\ \A k \in Opened : k \in Opened'
             /\ \A k \in Jobs : Live(k) => Live(k)'
  BY <1>6, OpenFacts
<1>7. ASSUME NEW n \in Numbers, HardDelete(n)
      PROVE  /\ rows' = rows /\ \A k \in Opened : k \in Opened'
             /\ \A k \in Jobs : Live(k) /\ Locked(k) => Live(k)'
  BY <1>7, DeleteFacts
<1>8. ASSUME NEW j \in Jobs, Decide(j)
      PROVE  /\ rows' \in {rows, rows + 1} /\ \A k \in Opened : k \in Opened'
             /\ \A k \in Jobs : Live(k) => Live(k)'
  BY <1>8, DecideFacts DEF RowNew, RowTaken
<1>9. CASE UNCHANGED vars
  BY <1>9 DEF vars
<1>10. QED
  BY <1>1, <1>2, <1>3, <1>4, <1>5, <1>6, <1>7, <1>8, <1>9, StepKinds

(* A request that is not served in a step stays sound.                      *)
LEMMA RequestKept ==
  ASSUME TypeOK, RequestInv, [Next]_vars, NEW d \in Clerks, req'[d] = req[d]
  PROVE  RequestOf(d)'
<1>1. RequestOf(d)
  BY DEF RequestInv
<1>2. Asking(d) => req[d].since \in Nat
  BY RequestKinds DEF Asking, Issuing
<1>3. req[d].op = "cancel" => req[d].id \in Nat
  BY RequestKinds DEF Cancelling
<1>4. Holder(d) => Locked(req[d].job) /\ req[d].job \in Jobs
  BY RequestKinds DEF Holder, Locked, Overriding
<1>5. QED
  BY <1>1, <1>2, <1>3, <1>4, Growth DEF RequestOf, Asking, Overrides, Holder

(* A request that is served. *)
LEMMA RequestServed ==
  ASSUME TypeOK, RequestInv, NEW c \in Clerks, Thinks(c)
  PROVE  /\ RequestOf(c)'
         /\ Holder(c)' => \/ Holder(c) /\ req'[c].job = req[c].job
                          \/ ~Locked(req'[c].job)
<1>0. UNCHANGED << row, job, rows >> /\ rows \in Nat /\ RequestOf(c)
  BY ThinkFacts, NumberingAssumption DEF TypeOK, RequestInv
<1> USE <1>0 DEF RequestOf, Asking, Overrides, Holder
<1>1. ASSUME NEW x \in Copies, BeginIssue(c, x) PROVE RequestOf(c)' /\ ~Holder(c)'
  <2>1. req'[c] = [op |-> "read", copy |-> x, next |-> 0, tries |-> 0, since |-> rows, full |-> FALSE]
    BY <1>1 DEF BeginIssue, TypeOK
  <2>2. QED
    BY <2>1
<1>2. CASE ReadNext(c)
  <2>1. req[c] \in Issuing
    BY <1>2, RequestKinds DEF ReadNext
  <2>2. /\ req'[c].op = "insert" /\ req'[c].next = NextNumber
        /\ req'[c].since = req[c].since
    BY <1>2, <2>1 DEF ReadNext, Reread, TypeOK, Issuing
  <2>3. QED
    BY <1>2, <2>2, NextIsNumber DEF ReadNext
<1>3. CASE Collide(c)
  <2>1. req[c] \in Issuing
    BY <1>3, RequestKinds DEF Collide
  <2>2. req'[c] = Idle \/ (req'[c].op = "read" /\ req'[c].since = req[c].since)
    BY <1>3, <2>1 DEF Collide, Answer, TypeOK, Issuing
  <2>3. QED
    BY <1>3, <2>2 DEF Collide, Idle
<1>4. CASE LockJob(c)
  <2>1. req[c] \in Overriding
    BY <1>4, RequestKinds DEF LockJob
  <2>2. CASE job[req[c].job].status = "DELETED"
    BY <1>4, <2>2 DEF LockJob, Answer, Idle, TypeOK
  <2>3. CASE job[req[c].job].status # "DELETED"
    <3>1. /\ req'[c].op = "find" /\ req'[c].job = req[c].job /\ req'[c].lpn = NumberFor(c)
      BY <1>4, <2>1, <2>3 DEF LockJob, TypeOK, Overriding
    <3>2. NumberFor(c) \in Numbers
      BY <1>4, <2>1, NextIsNumber, NumberingAssumption DEF LockJob, NumberFor, Overriding, Numbers
    <3>3. Live(req[c].job)
      BY <1>4, <2>1, <2>3 DEF LockJob, Live, Opened, TypeOK, JobRow
    <3>4. Opened' = Opened /\ Live(req[c].job)'
      BY <3>1, <3>3 DEF Opened, Live
    <3>5. QED
      BY <1>4, <3>1, <3>2, <3>4 DEF LockJob
  <2>4. QED
    BY <2>2, <2>3
<1>5. CASE FindRow(c)
  <2>1. req[c] \in Overriding
    BY <1>5, RequestKinds DEF FindRow
  <2>2. req'[c].op = "assign" /\ req'[c].job = req[c].job /\ req'[c].lpn = req[c].lpn
    BY <1>5, <2>1 DEF FindRow, TypeOK, Overriding
  <2>3. QED
    BY <1>5, <2>2 DEF FindRow, Opened, Live
<1>6. CASE OverrideFails(c)
  BY <1>6 DEF OverrideFails, Answer, Idle, TypeOK
<1>7. ASSUME NEW n \in Numbers, BeginCancel(c, n) PROVE RequestOf(c)' /\ ~Holder(c)'
  <2>1. req'[c] = [op |-> "cancel", lpn |-> n, id |-> row[n].id, jobs |-> Opened]
    BY <1>7 DEF BeginCancel, TypeOK
  <2>2. row[n].id <= rows /\ Opened' = Opened
    BY <1>7 DEF BeginCancel, Pending, RequestInv, Opened
  <2>3. QED
    BY <2>1, <2>2
<1>8. ASSUME NEW j \in Jobs, BeginOverride(c, j) PROVE RequestOf(c)' /\ ~Holder(c)'
  <2>0. PICK new \in BOOLEAN : new <=> job[j].lpn = 0
    OBVIOUS
  <2>1. req'[c] = [op |-> "lock", job |-> j, lpn |-> job[j].lpn, new |-> new, found |-> FALSE]
    BY <1>8, <2>0 DEF BeginOverride, TypeOK
  <2>2. j \in Opened'
    BY <1>8 DEF BeginOverride, Opened
  <2>3. QED
    BY <2>0, <2>1, <2>2
<1>9. QED
  BY <1>1, <1>2, <1>3, <1>4, <1>5, <1>6, <1>7, <1>8 DEF Thinks

LEMMA RequestStep == TypeOK /\ RequestInv /\ [Next]_vars => RequestInv'
<1> SUFFICES ASSUME TypeOK, RequestInv, [Next]_vars PROVE RequestInv'
  OBVIOUS
<1> DEFINE Alone == \A c, d \in Clerks : Holder(c) /\ Holder(d) /\ req[c].job = req[d].job => c = d
           IdsOK == \A n \in Numbers : row[n] # NoRow => row[n].id <= rows
           OthersKept(c) == \A d \in Clerks \ {c} : req'[d] = req[d]
<1>0. Alone /\ IdsOK /\ \A c \in Clerks : RequestOf(c)
  BY DEF RequestInv
<1>i. /\ Idle.op = "idle" /\ rows \in Nat
      /\ \A n \in Numbers : row[n] # NoRow => row[n].id \in Nat
  BY NumberingAssumption DEF Idle, TypeOK, Row
<1>q. ASSUME Alone', IdsOK', \A c \in Clerks : RequestOf(c)' PROVE RequestInv'
  BY <1>q DEF RequestInv
<1>a. ASSUME NEW c \in Clerks, OthersKept(c), req'[c] = Idle
      PROVE  Alone' /\ \A d \in Clerks : RequestOf(d)'
  <2>1. RequestOf(c)' /\ ~Holder(c)'
    BY <1>a, <1>i DEF RequestOf, Asking, Overrides, Holder
  <2>2. QED
    BY <1>a, <1>0, <2>1, RequestKept DEF Holder
<1>b. ASSUME UNCHANGED req PROVE Alone' /\ \A d \in Clerks : RequestOf(d)'
  BY <1>b, <1>0, RequestKept DEF Holder
<1>c. ASSUME NEW n \in Numbers, NEW x, NEW j, RowNew(n, x, j) \/ RowTaken(n, j) PROVE IdsOK'
  BY <1>c, <1>0, <1>i DEF RowNew, RowTaken
<1>1. ASSUME NEW c \in Clerks, Thinks(c) PROVE RequestInv'
  <2>1. Alone'
    BY <1>1, <1>0, ThinkFacts, RequestServed DEF Holder, Locked
  <2>2. \A d \in Clerks : RequestOf(d)'
    BY <1>1, RequestServed, RequestKept, ThinkFacts
  <2>3. IdsOK'
    BY <1>1, <1>0, ThinkFacts
  <2>4. QED
    BY <1>q, <2>1, <2>2, <2>3
<1>2. ASSUME NEW c \in Clerks, Insert(c) PROVE RequestInv'
  BY <1>2, <1>a, <1>c, <1>q, InsertFacts
<1>3. ASSUME NEW c \in Clerks, CommitCancel(c) PROVE RequestInv'
  <2>1. OthersKept(c) /\ req'[c] = Idle
    BY <1>3 DEF CommitCancel, Answer, TypeOK
  <2>2. IdsOK'
    <3>1. CASE UNCHANGED << row, known, incidents >>
      BY <1>3, <1>0, <3>1 DEF CommitCancel
    <3>2. CASE ~UNCHANGED << row, known, incidents >>
      BY <1>3, <1>0, <3>2, CancelFacts DEF CommitCancel, TypeOK
    <3>3. QED
      BY <3>1, <3>2
  <2>3. QED
    BY <1>a, <1>q, <2>1, <2>2
<1>4. ASSUME NEW c \in Clerks, CommitOverride(c) PROVE RequestInv'
  BY <1>4, <1>a, <1>c, <1>q, OverrideFacts
<1>5. ASSUME NEW x \in Copies, StickLabel(x) PROVE RequestInv'
  BY <1>5, <1>0, <1>b, <1>q DEF StickLabel
<1>6. ASSUME NEW x \in Copies, NEW j \in Jobs, StartEvaluation(j, x) \/ TriggerInspection(j, x)
      PROVE  RequestInv'
  BY <1>6, <1>0, <1>b, <1>q, OpenFacts
<1>7. ASSUME NEW n \in Numbers, HardDelete(n) PROVE RequestInv'
  <2>1. IdsOK'
    BY <1>7, <1>0, DeleteFacts
  <2>2. QED
    BY <1>7, <1>b, <1>q, <2>1, DeleteFacts
<1>8. ASSUME NEW j \in Jobs, Decide(j) PROVE RequestInv'
  BY <1>8, <1>b, <1>c, <1>q, DecideFacts
<1>9. CASE UNCHANGED vars
  BY <1>9, <1>0, <1>b, <1>q DEF vars
<1>10. QED
  BY <1>1, <1>2, <1>3, <1>4, <1>5, <1>6, <1>7, <1>8, <1>9, StepKinds

LEMMA CancelKeeps ==
  ASSUME TypeOK, NEW c \in Clerks, CommitCancel(c)
  PROVE  /\ req'[c] = Idle /\ \A d \in Clerks \ {c} : req'[d] = req[d]
         /\ UNCHANGED << job, rows, labels, twice >>
BY DEF CommitCancel, Answer, TypeOK

(* What a row that goes leaves behind is remembered. *)
LEMMA CarriedRemembered ==
  ASSUME TypeOK, LabelInv, NEW n \in Numbers, UNCHANGED labels,
         \A x \in Copies : known'[x] \in {0, known[x]},
         Carried(n, known') => "carried" \in incidents'[n],
         \A m \in Numbers : incidents[m] \subseteq incidents'[m],
         \A m \in Numbers \ {n} :
           /\ row'[m] = NoRow <=> row[m] = NoRow
           /\ row[m] # NoRow => row'[m].copy = row[m].copy
  PROVE  LabelInv'
<1> SUFFICES ASSUME NEW m \in Numbers, NEW x \in Copies, known'[x] = m \/ << m, x >> \in labels
             PROVE  "carried" \in incidents'[m] \/ (row'[m] # NoRow /\ row'[m].copy = x)
  BY DEF LabelInv
<1>1. m # 0
  BY DEF Numbers
<1>2. CASE m = n
  BY <1>2 DEF Carried, TypeOK
<1>3. CASE m # n
  <2>1. known[x] = m \/ << m, x >> \in labels
    BY <1>1
  <2>2. QED
    BY <1>3, <2>1 DEF LabelInv, TypeOK
<1>4. QED
  BY <1>2, <1>3

LEMMA LabelStep == TypeOK /\ RequestInv /\ LabelInv /\ [Next]_vars => LabelInv'
<1> SUFFICES ASSUME TypeOK, RequestInv, LabelInv, [Next]_vars PROVE LabelInv'
  OBVIOUS
<1>0. \A n \in Numbers : n # 0
  BY DEF Numbers
<1>a. ASSUME NEW n \in Numbers, NEW x, NEW j, RowNew(n, x, j) \/ RowTaken(n, j),
             UNCHANGED << known, labels >>, \A m \in Numbers : incidents[m] \subseteq incidents'[m]
      PROVE  LabelInv'
  BY <1>a DEF LabelInv, RowNew, RowTaken
<1>1. ASSUME NEW c \in Clerks, Thinks(c) PROVE LabelInv'
  BY <1>1, ThinkFacts DEF LabelInv
<1>2. ASSUME NEW c \in Clerks, Insert(c) PROVE LabelInv'
  <2> SUFFICES ASSUME NEW m \in Numbers, NEW y \in Copies, known'[y] = m \/ << m, y >> \in labels
               PROVE  "carried" \in incidents[m] \/ (row'[m] # NoRow /\ row'[m].copy = y)
    BY <1>2, InsertFacts DEF LabelInv
  <2>1. CASE known'[y] = known[y] \/ << m, y >> \in labels
    BY <1>2, <2>1, InsertFacts DEF LabelInv, RowNew
  <2>2. CASE known'[y] # known[y] /\ << m, y >> \notin labels
    BY <1>2, <2>2, InsertFacts DEF RowNew, TypeOK
  <2>3. QED
    BY <2>1, <2>2
<1>3. ASSUME NEW c \in Clerks, CommitCancel(c) PROVE LabelInv'
  <2>1. CASE UNCHANGED << row, known, incidents >>
    BY <1>3, <2>1, CancelKeeps DEF LabelInv
  <2>2. CASE ~UNCHANGED << row, known, incidents >>
    <3> DEFINE n == req[c].lpn
    <3>1. n \in Numbers /\ row' = [row EXCEPT ![n] = NoRow]
          /\ \A x \in Copies : known'[x] \in {0, known[x]}
      BY <1>3, <2>2, CancelFacts, ForgetFacts
    <3>2. /\ Carried(n, known') => "carried" \in incidents'[n]
          /\ \A m \in Numbers : incidents[m] \subseteq incidents'[m]
      BY <1>3, <2>2, <3>1, CancelFacts DEF TypeOK
    <3>3. QED
      BY <1>3, <3>1, <3>2, CancelKeeps, CarriedRemembered DEF TypeOK
  <2>3. QED
    BY <2>1, <2>2
<1>4. ASSUME NEW c \in Clerks, CommitOverride(c) PROVE LabelInv'
  BY <1>4, <1>a, OverrideFacts
<1>5. ASSUME NEW x \in Copies, StickLabel(x) PROVE LabelInv'
  BY <1>5 DEF StickLabel, LabelInv
<1>6. ASSUME NEW x \in Copies, NEW j \in Jobs, StartEvaluation(j, x) \/ TriggerInspection(j, x)
      PROVE  LabelInv'
  BY <1>6, OpenFacts DEF LabelInv
<1>7. ASSUME NEW n \in Numbers, HardDelete(n) PROVE LabelInv'
  <2>1. /\ Carried(n, known') => "carried" \in incidents'[n]
        /\ \A m \in Numbers : incidents[m] \subseteq incidents'[m]
    BY <1>7, DeleteFacts DEF TypeOK
  <2>2. QED
    BY <1>7, <2>1, DeleteFacts, CarriedRemembered
<1>8. ASSUME NEW j \in Jobs, Decide(j) PROVE LabelInv'
  BY <1>8, <1>a, DecideFacts
<1>9. CASE UNCHANGED vars
  BY <1>9 DEF vars, LabelInv
<1>10. QED
  BY <1>1, <1>2, <1>3, <1>4, <1>5, <1>6, <1>7, <1>8, <1>9, StepKinds

(* Devices only forget, but for the answer to a request for a number.       *)
LEMMA KnownKept ==
  ASSUME TypeOK, RequestInv, [Next]_vars, NEW x \in Copies,
         \A c \in Clerks : Insert(c) => req[c].copy # x
  PROVE  known'[x] \in {0, known[x]}
<1>1. ASSUME NEW c \in Clerks, Thinks(c) PROVE known' = known
  BY <1>1, ThinkFacts
<1>2. ASSUME NEW c \in Clerks, Insert(c) PROVE known'[x] = known[x]
  BY <1>2, InsertFacts DEF TypeOK
<1>3. ASSUME NEW c \in Clerks, CommitCancel(c) PROVE known'[x] \in {0, known[x]}
  BY <1>3, CancelFacts, ForgetFacts
<1>4. ASSUME NEW c \in Clerks, CommitOverride(c) PROVE known' = known
  BY <1>4, OverrideFacts
<1>5. ASSUME NEW y \in Copies, StickLabel(y) PROVE known' = known
  BY <1>5 DEF StickLabel
<1>6. ASSUME NEW y \in Copies, NEW j \in Jobs, StartEvaluation(j, y) \/ TriggerInspection(j, y)
      PROVE  known' = known
  BY <1>6, OpenFacts
<1>7. ASSUME NEW n \in Numbers, HardDelete(n) PROVE known' = known
  BY <1>7, DeleteFacts
<1>8. ASSUME NEW j \in Jobs, Decide(j) PROVE known' = known
  BY <1>8, DecideFacts
<1>9. CASE UNCHANGED vars
  BY <1>9 DEF vars
<1>10. QED
  BY <1>1, <1>2, <1>3, <1>4, <1>5, <1>6, <1>7, <1>8, <1>9, StepKinds

(* The book of a job is the one it was opened with.                         *)
LEMMA CopyKept ==
  ASSUME TypeOK, RequestInv, [Next]_vars, NEW j \in Opened
  PROVE  job'[j].copy = job[j].copy
<1>0. j \in Jobs /\ job[j].status # "ABSENT"
  BY DEF Opened
<1>1. ASSUME NEW c \in Clerks, Thinks(c) \/ Insert(c) \/ CommitCancel(c) PROVE job' = job
  BY <1>1, ThinkFacts, InsertFacts, CancelKeeps
<1>2. ASSUME NEW x \in Copies, StickLabel(x) PROVE job' = job
  BY <1>2 DEF StickLabel
<1>3. CASE UNCHANGED vars
  BY <1>3 DEF vars
<1>4. QED
  BY <1>0, <1>1, <1>2, <1>3, StepKinds, OverrideFacts, OpenFacts, DeleteFacts, DecideFacts

(* A job gets another number by an override only ...                        *)
LEMMA LpnKept ==
  ASSUME TypeOK, RequestInv, [Next]_vars, NEW j \in Opened
  PROVE  \/ job'[j].lpn = job[j].lpn
         \/ \E c \in Clerks : CommitOverride(c) /\ req[c].job = j
<1>0. j \in Jobs /\ job[j].status # "ABSENT"
  BY DEF Opened
<1>1. ASSUME NEW c \in Clerks, Thinks(c) \/ Insert(c) \/ CommitCancel(c) PROVE job' = job
  BY <1>1, ThinkFacts, InsertFacts, CancelKeeps
<1>2. ASSUME NEW x \in Copies, StickLabel(x) PROVE job' = job
  BY <1>2 DEF StickLabel
<1>3. CASE UNCHANGED vars
  BY <1>3 DEF vars
<1>4. QED
  BY <1>0, <1>1, <1>2, <1>3, StepKinds, OverrideFacts, OpenFacts, DeleteFacts, DecideFacts

(* ... and is new by being opened only. *)
LEMMA NotOpened ==
  ASSUME TypeOK, RequestInv, [Next]_vars, NEW j \in Jobs \ Opened
  PROVE  \/ job'[j] = job[j]
         \/ \E x \in Copies : StartEvaluation(j, x) \/ TriggerInspection(j, x)
<1>1. ASSUME NEW c \in Clerks, Thinks(c) \/ Insert(c) \/ CommitCancel(c) PROVE job' = job
  BY <1>1, ThinkFacts, InsertFacts, CancelKeeps
<1>2. ASSUME NEW c \in Clerks, CommitOverride(c) PROVE job'[j] = job[j]
  BY <1>2, OverrideFacts
<1>3. ASSUME NEW x \in Copies, StickLabel(x) PROVE job' = job
  BY <1>3 DEF StickLabel
<1>4. ASSUME NEW x \in Copies, NEW k \in Jobs, k # j, StartEvaluation(k, x) \/ TriggerInspection(k, x)
      PROVE  job'[j] = job[j]
  BY <1>4, OpenFacts
<1>5. ASSUME NEW n \in Numbers, HardDelete(n) PROVE job'[j] = job[j]
  BY <1>5 DEF HardDelete, JobsOf, Opened
<1>6. ASSUME NEW k \in Jobs, Decide(k) PROVE job'[j] = job[j]
  BY <1>6, DecideFacts
<1>7. CASE UNCHANGED vars
  BY <1>7 DEF vars
<1>8. QED
  BY <1>1, <1>2, <1>3, <1>4, <1>5, <1>6, <1>7, StepKinds

(* A request for a number is about the book it was made for.                *)
LEMMA AskKept ==
  ASSUME TypeOK, RequestInv, [Next]_vars, NEW d \in Clerks, Asking(d)'
  PROVE  \/ Asking(d) /\ req'[d].copy = req[d].copy /\ ~Insert(d)
         \/ \E x \in Copies : BeginIssue(d, x) /\ req'[d].copy = x
<1>0. Idle.op = "idle"
  BY DEF Idle
<1> USE <1>0 DEF Asking
<1>1. ASSUME Asking(d), req'[d] = req[d] PROVE req'[d].copy = req[d].copy /\ ~Insert(d)
  BY <1>1, InsertFacts
<1>2. ASSUME NEW c \in Clerks, Insert(c) \/ CommitCancel(c) \/ CommitOverride(c)
      PROVE  c # d /\ req'[d] = req[d]
  BY <1>2, InsertFacts, CancelKeeps, OverrideFacts
<1>3. ASSUME NEW c \in Clerks, Thinks(c), c # d PROVE req'[d] = req[d]
  BY <1>3, ThinkFacts
<1>4. ASSUME Thinks(d)
      PROVE  \/ Asking(d) /\ req'[d].copy = req[d].copy /\ ~Insert(d)
             \/ \E x \in Copies : BeginIssue(d, x) /\ req'[d].copy = x
  <2>1. CASE ReadNext(d) \/ Collide(d)
    <3>1. req[d] \in Issuing
      BY <2>1, RequestKinds DEF ReadNext, Collide
    <3>2. Asking(d) /\ req'[d].copy = req[d].copy
      BY <2>1, <3>1 DEF ReadNext, Collide, Answer, TypeOK, Issuing
    <3>3. ~Insert(d)
      BY <2>1 DEF ReadNext, Collide, Insert
    <3>4. QED
      BY <3>2, <3>3
  <2>2. ASSUME NEW x \in Copies, BeginIssue(d, x) PROVE req'[d].copy = x
    BY <2>2 DEF BeginIssue, TypeOK
  <2>3. CASE LockJob(d) \/ FindRow(d)
    <3>1. req[d] \in Overriding
      BY <2>3, RequestKinds DEF LockJob, FindRow
    <3>2. QED
      BY <2>3, <3>1 DEF LockJob, FindRow, Answer, TypeOK, Overriding
  <2>4. CASE OverrideFails(d)
    BY <2>4 DEF OverrideFails, Answer, TypeOK
  <2>5. ASSUME NEW n \in Numbers, BeginCancel(d, n) PROVE req'[d].op = "cancel"
    BY <2>5 DEF BeginCancel, TypeOK
  <2>6. ASSUME NEW j \in Jobs, BeginOverride(d, j) PROVE req'[d].op = "lock"
    BY <2>6 DEF BeginOverride, TypeOK
  <2>7. QED
    BY <1>4, <2>1, <2>2, <2>3, <2>4, <2>5, <2>6 DEF Thinks
<1>5. CASE UNCHANGED req
  BY <1>1, <1>5
<1>6. ASSUME NEW x \in Copies, StickLabel(x) PROVE UNCHANGED req
  BY <1>6 DEF StickLabel
<1>7. QED
  BY <1>1, <1>2, <1>3, <1>4, <1>5, <1>6, StepKinds, OpenFacts, DeleteFacts, DecideFacts DEF vars

(* An override is about the job it was made for, and by the number it read. *)
LEMMA OverrideKept ==
  ASSUME TypeOK, RequestInv, [Next]_vars, NEW d \in Clerks, Overrides(d)'
  PROVE  \/ /\ Overrides(d) /\ ~CommitOverride(d)
            /\ req'[d].job = req[d].job /\ req'[d].new = req[d].new
            /\ ~req[d].new => req'[d].lpn = req[d].lpn
            /\ Holder(d)' /\ ~Holder(d) => LockJob(d)
         \/ \E j \in Jobs : /\ BeginOverride(d, j)
                            /\ req'[d].job = j /\ req'[d].lpn = job[j].lpn
                            /\ req'[d].new <=> job[j].lpn = 0
                            /\ ~Holder(d)'
<1>0. Idle.op = "idle"
  BY DEF Idle
<1> USE <1>0 DEF Overrides, Holder
<1> DEFINE Kept == /\ Overrides(d) /\ ~CommitOverride(d)
                   /\ req'[d].job = req[d].job /\ req'[d].new = req[d].new
                   /\ ~req[d].new => req'[d].lpn = req[d].lpn
                   /\ Holder(d)' /\ ~Holder(d) => LockJob(d)
           Begun(j) == /\ req'[d].job = j /\ req'[d].lpn = job[j].lpn
                       /\ req'[d].new <=> job[j].lpn = 0
                       /\ ~Holder(d)'
<1>1. ASSUME req'[d] = req[d] PROVE Kept
  BY <1>1, OverrideFacts
<1>2. ASSUME NEW c \in Clerks, Insert(c) \/ CommitCancel(c) \/ CommitOverride(c)
      PROVE  req'[d] = req[d]
  BY <1>2, InsertFacts, CancelKeeps, OverrideFacts
<1>3. ASSUME NEW c \in Clerks, Thinks(c), c # d PROVE req'[d] = req[d]
  BY <1>3, ThinkFacts
<1>4. ASSUME Thinks(d) PROVE Kept \/ \E j \in Jobs : BeginOverride(d, j) /\ Begun(j)
  <2>1. CASE ReadNext(d) \/ Collide(d)
    <3>1. req[d] \in Issuing
      BY <2>1, RequestKinds DEF ReadNext, Collide
    <3>2. QED
      BY <2>1, <3>1 DEF ReadNext, Collide, Answer, TypeOK, Issuing
  <2>2. ASSUME NEW x \in Copies, BeginIssue(d, x) PROVE FALSE
    BY <2>2 DEF BeginIssue, TypeOK
  <2>3. CASE LockJob(d) \/ FindRow(d)
    <3>1. req[d] \in Overriding
      BY <2>3, RequestKinds DEF LockJob, FindRow
    <3>2. /\ req'[d].job = req[d].job /\ req'[d].new = req[d].new
          /\ ~req[d].new => req'[d].lpn = req[d].lpn
      BY <2>3, <3>1 DEF LockJob, FindRow, NumberFor, Answer, TypeOK, Overriding
    <3>3. QED
      BY <2>3, <3>2 DEF LockJob, FindRow, CommitOverride
  <2>4. CASE OverrideFails(d)
    BY <2>4 DEF OverrideFails, Answer, TypeOK
  <2>5. ASSUME NEW n \in Numbers, BeginCancel(d, n) PROVE req'[d].op = "cancel"
    BY <2>5 DEF BeginCancel, TypeOK
  <2>6. ASSUME NEW j \in Jobs, BeginOverride(d, j) PROVE Begun(j)
    <3>1. PICK new \in BOOLEAN : new <=> job[j].lpn = 0
      OBVIOUS
    <3>2. req'[d] = [op |-> "lock", job |-> j, lpn |-> job[j].lpn, new |-> new, found |-> FALSE]
      BY <2>6, <3>1 DEF BeginOverride, TypeOK
    <3>3. QED
      BY <3>1, <3>2
  <2>7. QED
    BY <1>4, <2>1, <2>2, <2>3, <2>4, <2>5, <2>6 DEF Thinks
<1>5. ASSUME NEW x \in Copies, StickLabel(x) PROVE UNCHANGED req
  BY <1>5 DEF StickLabel
<1>6. UNCHANGED vars => UNCHANGED req
  BY DEF vars
<1>7. req'[d] = req[d] \/ Thinks(d)
  BY <1>2, <1>3, <1>5, <1>6, StepKinds, OpenFacts, DeleteFacts, DecideFacts
<1>8. QED
  BY <1>1, <1>4, <1>7

(* Nobody else opens a job of a book that has one opened without a number.  *)
LEMMA SoleKept ==
  ASSUME TypeOK, RequestInv, HandInv, [Next]_vars, NEW j \in Opened, Sole(j)
  PROVE  Sole(j)'
<1>0. j \in Jobs /\ job'[j].copy = job[j].copy /\ job[j].copy \in Copies
  BY CopyKept DEF Opened, HandInv
<1>1. known'[job[j].copy] = 0
  <2>1. \A c \in Clerks : Insert(c) => req[c].copy # job[j].copy
    BY <1>0, InsertFacts DEF HandInv
  <2>2. QED
    BY <1>0, <2>1, KnownKept DEF Sole
<1>2. ASSUME NEW k \in Jobs \ {j} PROVE job'[k].copy # job[j].copy
  <2>1. CASE k \in Opened
    BY <2>1, CopyKept DEF Sole
  <2>2. CASE k \notin Opened /\ job'[k] = job[k]
    BY <2>2 DEF Sole
  <2>3. ASSUME NEW x \in Copies, StartEvaluation(k, x) \/ TriggerInspection(k, x)
        PROVE  job'[k].copy # job[j].copy
    <3>1. job'[k].copy = x
      BY <2>3, OpenFacts
    <3>2. x # job[j].copy
      BY <1>0, <2>3 DEF StartEvaluation, TriggerInspection, Sole
    <3>3. QED
      BY <3>1, <3>2
  <2>4. QED
    BY <2>1, <2>2, <2>3, NotOpened
<1>3. QED
  BY <1>0, <1>1, <1>2 DEF Sole

LEMMA HandStep == TypeOK /\ RequestInv /\ HandInv /\ SoleInv /\ [Next]_vars => HandInv'
<1> SUFFICES ASSUME TypeOK, RequestInv, HandInv, SoleInv, [Next]_vars PROVE HandInv'
  OBVIOUS
<1>1. ASSUME NEW d \in Clerks, Asking(d)', NEW x \in Copies, BeginIssue(d, x), req'[d].copy = x
      PROVE  /\ known'[req'[d].copy] = 0 /\ \A j \in Jobs : job'[j].copy # req'[d].copy
             /\ \A e \in Clerks : Asking(e)' /\ req'[e].copy = req'[d].copy => e = d
  <2>1. \A e \in Clerks \ {d} : req'[e] = req[e]
    BY <1>1, ThinkFacts DEF Thinks
  <2>2. InHand(x) /\ (\A j \in Jobs : job[j].copy # x) /\ UNCHANGED << job, known >>
    BY <1>1 DEF BeginIssue
  <2>3. QED
    BY <1>1, <2>1, <2>2 DEF InHand, Asking
<1>2. ASSUME NEW d \in Clerks, Asking(d)', Asking(d), req'[d].copy = req[d].copy, ~Insert(d)
      PROVE  /\ known'[req'[d].copy] = 0 /\ \A j \in Jobs : job'[j].copy # req'[d].copy
             /\ \A e \in Clerks : Asking(e)' /\ req'[e].copy = req'[d].copy => e = d
  <2> DEFINE y == req[d].copy
  <2>1. /\ known[y] = 0 /\ (\A j \in Jobs : job[j].copy # y)
        /\ \A e \in Clerks : Asking(e) /\ req[e].copy = y => e = d
    BY <1>2 DEF HandInv
  <2>2. y \in Copies
    BY <1>2, RequestKinds DEF Asking, Issuing
  <2>3. known'[y] = 0
    <3>1. \A c \in Clerks : Insert(c) => req[c].copy # y
      BY <1>2, <2>1, InsertFacts
    <3>2. QED
      BY <2>1, <2>2, <3>1, KnownKept
  <2>4. ASSUME NEW j \in Jobs PROVE job'[j].copy # y
    <3>1. CASE j \in Opened
      BY <2>1, <3>1, CopyKept
    <3>2. ASSUME NEW x \in Copies, StartEvaluation(j, x) \/ TriggerInspection(j, x)
          PROVE  job'[j].copy # y
      <4>1. job'[j].copy = x
        BY <3>2, OpenFacts
      <4>2. x # y
        BY <1>2, <2>1, <3>2 DEF StartEvaluation, TriggerInspection, InHand, Asking
      <4>3. QED
        BY <4>1, <4>2
    <3>3. QED
      BY <2>1, <3>1, <3>2, NotOpened
  <2>5. ASSUME NEW e \in Clerks, Asking(e)', req'[e].copy = y PROVE e = d
    <3>1. CASE Asking(e) /\ req'[e].copy = req[e].copy
      BY <2>1, <2>5, <3>1
    <3>2. ASSUME NEW x \in Copies, BeginIssue(e, x), req'[e].copy = x PROVE FALSE
      BY <1>2, <2>5, <3>2 DEF BeginIssue, InHand, Asking
    <3>3. QED
      BY <2>5, <3>1, <3>2, AskKept
  <2>6. QED
    BY <1>2, <2>3, <2>4, <2>5
<1>3. ASSUME NEW j \in Jobs
      PROVE  IF job'[j].status = "ABSENT" THEN job'[j].copy = OldCopy
             ELSE job'[j].copy \in Copies /\ known'[job'[j].copy] \in {0, job'[j].lpn}
  <2>1. CASE j \in Opened
    <3> DEFINE y == job[j].copy
    <3>1. /\ job'[j].copy = y /\ y \in Copies /\ known[y] \in {0, job[j].lpn}
          /\ job'[j].status # "ABSENT"
      BY <2>1, CopyKept, Growth DEF HandInv, Opened
    <3>2. known'[y] \in {0, known[y]}
      <4>1. \A c \in Clerks : Insert(c) => req[c].copy # y
        BY InsertFacts DEF HandInv
      <4>2. QED
        BY <3>1, <4>1, KnownKept
    <3>3. ASSUME NEW c \in Clerks, CommitOverride(c), req[c].job = j
          PROVE  known'[y] \in {0, job'[j].lpn}
      <4>1. /\ Overrides(c) /\ req[c].new \in BOOLEAN /\ job'[j].lpn = req[c].lpn
        BY <3>3, OverrideFacts
      <4>2. Sole(j) \/ job[j].lpn = req[c].lpn
        BY <2>1, <3>3, <4>1 DEF SoleInv
      <4>3. QED
        BY <3>1, <3>2, <4>1, <4>2 DEF Sole
    <3>4. QED
      BY <2>1, <3>1, <3>2, <3>3, LpnKept
  <2>2. CASE j \notin Opened /\ job'[j] = job[j]
    BY <2>2 DEF Opened, HandInv
  <2>3. ASSUME NEW x \in Copies, StartEvaluation(j, x) \/ TriggerInspection(j, x)
        PROVE  job'[j].copy \in Copies /\ known'[job'[j].copy] \in {0, job'[j].lpn}
    BY <2>3, OpenFacts
  <2>4. ASSUME NEW x \in Copies, StartEvaluation(j, x) \/ TriggerInspection(j, x)
        PROVE  job'[j].status = "OPEN"
    BY <2>4, OpenFacts
  <2>5. QED
    BY <2>1, <2>2, <2>3, <2>4, NotOpened
<1>4. QED
  BY <1>1, <1>2, <1>3, AskKept DEF HandInv

LEMMA SoleStep == TypeOK /\ RequestInv /\ HandInv /\ SoleInv /\ [Next]_vars => SoleInv'
<1> SUFFICES ASSUME TypeOK, RequestInv, HandInv, SoleInv, [Next]_vars PROVE SoleInv'
  OBVIOUS
<1>1. ASSUME NEW j \in twice'
      PROVE  j \in twice \/ \E c \in Clerks : LockJob(c) /\ req[c].job = j /\ req[c].new
  <2>1. ASSUME NEW c \in Clerks, Thinks(c), ~LockJob(c) PROVE twice' = twice
    BY <2>1 DEF Thinks, BeginIssue, ReadNext, Collide, FindRow, OverrideFails, BeginCancel,
                BeginOverride
  <2>2. ASSUME NEW c \in Clerks, LockJob(c), j \notin twice PROVE req[c].job = j /\ req[c].new
    BY <1>1, <2>2 DEF LockJob
  <2>3. ASSUME NEW x \in Copies, StickLabel(x) PROVE twice' = twice
    BY <2>3 DEF StickLabel
  <2>4. UNCHANGED vars => twice' = twice
    BY DEF vars
  <2>5. QED
    BY <1>1, <2>1, <2>2, <2>3, <2>4, StepKinds, InsertFacts, CancelKeeps, OverrideFacts,
       OpenFacts, DeleteFacts, DecideFacts
<1>2. ASSUME NEW c \in Clerks, LockJob(c)
      PROVE  /\ Overrides(c) /\ req[c].job \in Opened
             /\ UNCHANGED << row, job, known >>
    BY <1>2 DEF LockJob, Overrides, RequestInv, RequestOf
<1>3. twice' \subseteq Opened /\ twice \subseteq twice'
  <2>1. twice' \subseteq Opened
    BY <1>1, <1>2 DEF SoleInv
  <2>2. twice \subseteq twice'
    <3>1. ASSUME NEW c \in Clerks, Thinks(c) PROVE twice \subseteq twice'
      BY <3>1 DEF Thinks, BeginIssue, ReadNext, Collide, LockJob, FindRow, OverrideFails,
                  BeginCancel, BeginOverride
    <3>2. ASSUME NEW x \in Copies, StickLabel(x) PROVE twice' = twice
      BY <3>2 DEF StickLabel
    <3>3. UNCHANGED vars => twice' = twice
      BY DEF vars
    <3>4. QED
      BY <3>1, <3>2, <3>3, StepKinds, InsertFacts, CancelKeeps, OverrideFacts, OpenFacts,
         DeleteFacts, DecideFacts
  <2>3. QED
    BY <2>1, <2>2
<1>4. ASSUME NEW j \in Opened, job'[j].lpn = 0 \/ j \in twice' PROVE Sole(j)'
  <2>1. job'[j].lpn = 0 => job[j].lpn = 0
    BY LpnKept, OverrideFacts DEF Numbers
  <2>2. j \in twice' => Sole(j)
    BY <1>1, <1>2 DEF SoleInv
  <2>3. QED
    BY <1>4, <2>1, <2>2, SoleKept DEF SoleInv
<1>5. ASSUME NEW j \in Opened', j \notin Opened, job'[j].lpn = 0 PROVE Sole(j)'
  <2>1. j \in Jobs /\ job'[j] # job[j]
    BY <1>5 DEF Opened
  <2>2. PICK x \in Copies : StartEvaluation(j, x) \/ TriggerInspection(j, x)
    BY <1>5, <2>1, NotOpened
  <2>3. /\ job'[j].copy = x /\ known' = known /\ known[x] = 0
        /\ \A k \in Jobs \ {j} : job'[k] = job[k]
    BY <1>5, <2>1, <2>2, OpenFacts
  <2>4. \A k \in Jobs : job[k].copy # x
    BY <2>2, <2>3 DEF StartEvaluation, TriggerInspection
  <2>5. QED
    BY <2>3, <2>4 DEF Sole
<1>6. ASSUME NEW d \in Clerks, NEW j \in Jobs, BeginOverride(d, j),
             req'[d].job = j, req'[d].lpn = job[j].lpn, req'[d].new <=> job[j].lpn = 0, ~Holder(d)'
      PROVE  /\ req'[d].new => (\A k \in Jobs : k = j => Sole(k)')
             /\ ~req'[d].new => job'[j].lpn = req'[d].lpn
  <2>1. j \in Opened /\ job' = job
    BY <1>6 DEF BeginOverride, Opened
  <2>2. QED
    BY <1>6, <2>1, SoleKept DEF SoleInv
<1>7. ASSUME NEW d \in Clerks, Overrides(d), ~CommitOverride(d), req'[d].job = req[d].job,
             req'[d].new = req[d].new, ~req[d].new => req'[d].lpn = req[d].lpn,
             Holder(d)' /\ ~Holder(d) => LockJob(d), Overrides(d)'
      PROVE  /\ req'[d].new => (\A k \in Jobs : k = req[d].job => Sole(k)')
             /\ req'[d].new /\ Holder(d)' => job'[req[d].job].lpn = 0 \/ req[d].job \in twice'
             /\ ~req'[d].new => job'[req[d].job].lpn = req'[d].lpn \/ req[d].job \in twice'
  <2> DEFINE j == req[d].job
  <2>1. j \in Opened /\ j \in Jobs
    BY <1>7 DEF RequestInv, RequestOf, Opened
  <2>2. /\ req[d].new => Sole(j)
        /\ req[d].new /\ Holder(d) => job[j].lpn = 0 \/ j \in twice
        /\ ~req[d].new => job[j].lpn = req[d].lpn \/ j \in twice
    BY <1>7 DEF SoleInv
  <2>3. req'[d].new => \A k \in Jobs : k = j => Sole(k)'
    BY <1>7, <2>1, <2>2, SoleKept
  <2>4. CASE job'[j].lpn = job[j].lpn
    <3>1. LockJob(d) /\ req[d].new => job[j].lpn = 0 \/ j \in twice' \/ req'[d] = Idle
      BY DEF LockJob, Answer, TypeOK
    <3>2. req'[d] # Idle
      BY <1>7 DEF Overrides, Idle
    <3>3. QED
      BY <1>3, <1>7, <2>2, <2>3, <2>4, <3>1, <3>2
  <2>5. ASSUME NEW c \in Clerks, CommitOverride(c), req[c].job = j
        PROVE  /\ req'[d].new /\ Holder(d)' => j \in twice'
               /\ ~req'[d].new => job'[j].lpn = req'[d].lpn \/ j \in twice'
    <3>1. /\ c # d /\ Holder(c) /\ Overrides(c) /\ req[c].new \in BOOLEAN
          /\ job'[j].lpn = req[c].lpn /\ req'[d] = req[d]
      BY <1>7, <2>5, OverrideFacts
    <3>2. ~Holder(d)'
      BY <2>5, <3>1 DEF RequestInv, Holder
    <3>3. ~req[d].new => req[d].lpn # 0
      BY <1>7, <3>1 DEF RequestInv, RequestOf, Overrides, Holder, Numbers
    <3>4. \/ req[c].new /\ (job[j].lpn = 0 \/ j \in twice)
          \/ job[j].lpn = req[c].lpn \/ j \in twice
      BY <2>5, <3>1 DEF SoleInv
    <3>5. QED
      BY <1>3, <2>2, <3>1, <3>2, <3>3, <3>4
  <2>6. QED
    BY <2>1, <2>3, <2>4, <2>5, LpnKept
<1>8. ASSUME NEW d \in Clerks, Overrides(d)'
      PROVE  /\ req'[d].new => Sole(req[d].job)'
             /\ req'[d].new /\ Holder(d)' => job'[req'[d].job].lpn = 0 \/ req'[d].job \in twice'
             /\ ~req'[d].new => job'[req'[d].job].lpn = req'[d].lpn \/ req'[d].job \in twice'
  <2>1. req'[d].job \in Jobs
    <3>1. Overrides(d) => req[d].job \in Jobs
      BY RequestKinds DEF Overrides, Overriding
    <3>2. QED
      BY <1>8, <3>1, OverrideKept
  <2>2. QED
    BY <1>6, <1>7, <1>8, <2>1, OverrideKept
<1>9. QED
  BY <1>3, <1>4, <1>5, <1>8, Growth DEF SoleInv

(* What happened to a number is not forgotten. *)
LEMMA IncidentsGrow ==
  ASSUME TypeOK, RequestInv, [Next]_vars, NEW n \in Numbers, incidents'[n] = {}
  PROVE  incidents[n] = {}
<1>1. ASSUME NEW c \in Clerks, Thinks(c) PROVE incidents' = incidents
  BY <1>1, ThinkFacts
<1>2. ASSUME NEW c \in Clerks, CommitCancel(c) PROVE incidents[n] = {}
  BY <1>2 DEF CommitCancel, TypeOK
<1>3. ASSUME NEW x \in Copies, StickLabel(x) PROVE incidents' = incidents
  BY <1>3 DEF StickLabel
<1>4. ASSUME NEW m \in Numbers, HardDelete(m) PROVE incidents[n] = {}
  BY <1>4 DEF HardDelete, TypeOK
<1>5. UNCHANGED vars => incidents' = incidents
  BY DEF vars
<1>6. QED
  BY <1>1, <1>2, <1>3, <1>4, <1>5, StepKinds, InsertFacts, OverrideFacts, OpenFacts, DecideFacts

(* A job that goes by a number it does not have was opened without one.     *)
LEMMA CarriedNumber ==
  ASSUME SoleInv, RequestInv, NEW j \in Jobs, NEW n, Carries(j, n)
  PROVE  job[j].lpn = n \/ Sole(j)
BY DEF SoleInv, Carries

(* The only job of a book is another's no more when the device forgets the  *)
(* number, which goes with its row.                                         *)
LEMMA SoleBack ==
  ASSUME TypeOK, RequestInv, HandInv, [Next]_vars, NEW j \in Opened, Sole(j)', ~Sole(j)
  PROVE  job[j].lpn \in Numbers /\ row'[job[j].lpn] = NoRow
<1> DEFINE y == job[j].copy
<1>0. j \in Jobs /\ job'[j].copy = y /\ y \in Copies /\ known[y] \in {0, job[j].lpn}
  BY CopyKept DEF Opened, HandInv
<1>1. \A k \in Jobs \ {j} : job[k].copy # y
  <2>1. ASSUME NEW k \in Jobs \ {j} PROVE job[k].copy # y
    <3>1. CASE k \in Opened
      BY <1>0, <3>1, CopyKept DEF Sole
    <3>2. CASE k \notin Opened
      BY <1>0, <3>2, NumberingAssumption DEF HandInv, Opened
    <3>3. QED
      BY <3>1, <3>2
  <2>2. QED
    BY <2>1
<1>2. known[y] # 0 /\ known'[y] = 0
  BY <1>0, <1>1 DEF Sole
<1>3. known[y] = job[j].lpn /\ job[j].lpn \in Numbers
  BY <1>0, <1>2, NumberingAssumption DEF TypeOK, JobRow, Numbers
<1>4. ASSUME NEW c \in Clerks, CommitCancel(c) PROVE row'[known[y]] = NoRow
  <2>1. ~UNCHANGED << row, known, incidents >>
    BY <1>2
  <2>2. row' = [row EXCEPT ![req[c].lpn] = NoRow] /\ DeviceForgets(req[c].lpn) /\ req[c].lpn \in Numbers
    BY <1>4, <2>1, CancelFacts
  <2>3. known[y] = req[c].lpn
    BY <1>0, <1>2, <2>2 DEF DeviceForgets, TypeOK
  <2>4. QED
    BY <2>2, <2>3 DEF TypeOK
<1>5. ASSUME NEW n \in Numbers, HardDelete(n) PROVE FALSE
  BY <1>2, <1>5, DeleteFacts
<1>6. ASSUME NEW c \in Clerks, Thinks(c) \/ Insert(c) \/ CommitOverride(c) PROVE FALSE
  <2>1. Insert(c) => req[c].copy # y
    BY <1>0, InsertFacts DEF HandInv
  <2>2. QED
    BY <1>0, <1>2, <1>6, <2>1, ThinkFacts, InsertFacts, OverrideFacts DEF TypeOK
<1>7. ASSUME NEW x \in Copies, StickLabel(x) PROVE FALSE
  BY <1>2, <1>7 DEF StickLabel
<1>8. UNCHANGED vars => FALSE
  BY <1>2 DEF vars
<1>9. QED
  BY <1>2, <1>3, <1>4, <1>5, <1>6, <1>7, <1>8, StepKinds, OpenFacts, DecideFacts

(* A job comes to go by a number when it is opened with the number of its   *)
(* book, or gets one from an override.                                      *)
LEMMA CarryKept ==
  ASSUME TypeOK, RequestInv, [Next]_vars, NEW j \in Jobs, NEW n \in Numbers,
         Live(j)', Carries(j, n)'
  PROVE  \/ Live(j) /\ Carries(j, n)
         \/ \E c \in Clerks : CommitOverride(c) /\ req[c].job = j /\ req[c].lpn = n /\ req[c].new
         \/ j \notin Opened /\ \E x \in Copies : StartEvaluation(j, x) /\ known[x] = n
<1>0. n # 0 /\ job[j].status \in {"ABSENT", "OPEN", "DECIDED", "DELETED"}
  BY DEF Numbers, TypeOK, JobRow
<1>1. CASE j \in Opened
  <2>1. Live(j)
    <3>1. ASSUME NEW c \in Clerks, Thinks(c) \/ Insert(c) \/ CommitCancel(c) PROVE job' = job
      BY <3>1, ThinkFacts, InsertFacts, CancelKeeps
    <3>2. ASSUME NEW x \in Copies, StickLabel(x) PROVE job' = job
      BY <3>2 DEF StickLabel
    <3>3. UNCHANGED vars => job' = job
      BY DEF vars
    <3>4. ASSUME NEW c \in Clerks, CommitOverride(c) PROVE Live(j)
      BY <3>4, OverrideFacts DEF Live
    <3>5. ASSUME NEW k \in Jobs, Decide(k) PROVE Live(j)
      BY <3>5, DecideFacts DEF Live
    <3>6. ASSUME NEW m \in Numbers, HardDelete(m) PROVE Live(j)
      BY <3>6, DeleteFacts DEF Live
    <3>7. ASSUME NEW x \in Copies, NEW k \in Jobs, StartEvaluation(k, x) \/ TriggerInspection(k, x)
          PROVE  Live(j)
      BY <1>1, <3>7, OpenFacts DEF Live, Opened
    <3>8. QED
      BY <3>1, <3>2, <3>3, <3>4, <3>5, <3>6, <3>7, StepKinds DEF Live
  <2>2. CASE job'[j].lpn = n
    <3>1. CASE job'[j].lpn = job[j].lpn
      BY <2>1, <2>2, <3>1 DEF Carries
    <3>2. ASSUME NEW c \in Clerks, CommitOverride(c), req[c].job = j
          PROVE  Carries(j, n) \/ (req[c].lpn = n /\ req[c].new)
      BY <2>2, <3>2, OverrideFacts DEF Carries
    <3>3. QED
      BY <1>1, <2>1, <3>1, <3>2, LpnKept
  <2>3. ASSUME NEW d \in Clerks, Overrides(d)', ~req'[d].new, req'[d].job = j, req'[d].lpn = n
        PROVE  Carries(j, n)
    BY <2>3, OverrideKept DEF Carries
  <2>4. QED
    BY <2>1, <2>2, <2>3 DEF Carries
<1>2. CASE j \notin Opened
  <2>1. PICK x \in Copies : StartEvaluation(j, x) \/ TriggerInspection(j, x)
    BY <1>0, <1>2, NotOpened DEF Live, Opened
  <2>2. job'[j].lpn = known[x] /\ UNCHANGED req
    BY <2>1, OpenFacts
  <2>3. \A d \in Clerks : Overrides(d)' => req'[d].job # j
    BY <1>2, <2>2 DEF Overrides, RequestInv, RequestOf
  <2>4. known[x] = n
    BY <2>2, <2>3 DEF Carries
  <2>5. QED
    BY <1>0, <1>2, <2>1, <2>4 DEF TriggerInspection, InHand
<1>3. QED
  BY <1>1, <1>2

(* The row a job goes by stays while nothing happens to its number, and     *)
(* while the job is alone, it stays its row.                                *)
LEMMA CarriedRowStays ==
  ASSUME TypeOK, RequestInv, HandInv, SoleInv, CarryInv, CancelInv, [Next]_vars,
         NEW j \in Jobs, NEW n \in Numbers, Live(j), Carries(j, n), Live(j)', incidents'[n] = {}
  PROVE  /\ row[n] # NoRow /\ row'[n] # NoRow
         /\ row'[n].copy = row[n].copy /\ row[n].copy = job[j].copy
         /\ Sole(j) => row'[n].job = j
<1>0. /\ incidents[n] = {} /\ row[n] # NoRow /\ row[n].copy = job[j].copy
      /\ Sole(j) => row[n].job = j
      /\ j \in Opened
  BY IncidentsGrow DEF CarryInv, Live, Opened
<1> DEFINE Stays == /\ row'[n] # NoRow /\ row'[n].copy = row[n].copy
                    /\ Sole(j) => row'[n].job = j
<1>a. row'[n] = row[n] => Stays
  BY <1>0
<1>b. ASSUME NEW k \in Jobs, Live(k), Carries(k, n), RowTaken(n, k) PROVE Stays
  <2>1. row[n].copy = job[k].copy
    BY <1>0, <1>b DEF CarryInv
  <2>2. k = j \/ ~Sole(j)
    BY <1>0, <2>1 DEF Sole
  <2>3. QED
    BY <1>b, <2>2 DEF RowTaken
<1>c. ASSUME NEW m \in Numbers, m # n, NEW x, NEW k, RowTaken(m, k) \/ RowNew(m, x, k)
      PROVE  row'[n] = row[n]
  BY <1>c DEF RowTaken, RowNew
<1>1. ASSUME NEW c \in Clerks, Thinks(c) PROVE Stays
  BY <1>1, <1>a, ThinkFacts
<1>2. ASSUME NEW c \in Clerks, Insert(c) PROVE Stays
  BY <1>0, <1>2, <1>a, InsertFacts DEF RowNew
<1>3. ASSUME NEW c \in Clerks, CommitCancel(c) PROVE Stays
  <2>1. CASE UNCHANGED << row, known, incidents >>
    BY <2>1, <1>a
  <2>2. CASE ~UNCHANGED << row, known, incidents >> /\ req[c].lpn # n
    <3>1. row' = [row EXCEPT ![req[c].lpn] = NoRow]
      BY <1>3, <2>2, CancelFacts
    <3>2. row'[n] = row[n]
      BY <2>2, <3>1 DEF TypeOK
    <3>3. QED
      BY <1>a, <3>2
  <2>3. CASE ~UNCHANGED << row, known, incidents >> /\ req[c].lpn = n
    <3>1. row[n].id = req[c].id /\ req[c].op = "cancel"
      BY <1>3, <2>3, CancelFacts DEF CommitCancel
    <3>2. j \notin req[c].jobs /\ ~Sole(j)
      BY <1>0, <2>3, <3>1 DEF CancelInv
    <3>3. job[j].lpn = n /\ j \in Opened \ req[c].jobs
      BY <1>0, <3>2, CarriedNumber
    <3>4. "linked" \in incidents'[n]
      BY <1>3, <2>3, <3>3, CancelFacts DEF TypeOK
    <3>5. QED
      BY <3>4
  <2>4. QED
    BY <2>1, <2>2, <2>3
<1>4. ASSUME NEW c \in Clerks, CommitOverride(c) PROVE Stays
  <2>1. CASE req[c].lpn # n
    BY <1>4, <2>1, <1>a, <1>c, OverrideFacts
  <2>2. CASE req[c].lpn = n
    <3>1. RowTaken(n, req[c].job) /\ ~req[c].new
      BY <1>0, <1>4, <2>2, OverrideFacts DEF RowNew
    <3>2. Live(req[c].job) /\ Carries(req[c].job, n) /\ req[c].job \in Jobs
      BY <1>4, <2>2, <3>1, OverrideFacts DEF Carries
    <3>3. QED
      BY <1>b, <3>1, <3>2
  <2>3. QED
    BY <2>1, <2>2
<1>5. ASSUME NEW x \in Copies, StickLabel(x) PROVE Stays
  BY <1>5, <1>a DEF StickLabel
<1>6. ASSUME NEW x \in Copies, NEW k \in Jobs, StartEvaluation(k, x) \/ TriggerInspection(k, x)
      PROVE  Stays
  BY <1>6, <1>a, OpenFacts
<1>7. ASSUME NEW m \in Numbers, HardDelete(m) PROVE Stays
  <2>1. j \notin JobsOf(m) /\ UNCHANGED << req, twice >>
    BY <1>7, DeleteFacts DEF Live
  <2>2. n # m
    BY <1>0, <2>1, CarriedNumber DEF JobsOf
  <2>3. QED
    BY <1>0, <1>7, <2>1, <2>2, DeleteFacts
<1>8. ASSUME NEW k \in Jobs, Decide(k) PROVE Stays
  <2>1. CASE job[k].lpn # n
    BY <1>8, <2>1, <1>a, <1>c, DecideFacts
  <2>2. CASE job[k].lpn = n
    BY <1>0, <1>8, <2>2, <1>b, DecideFacts DEF RowNew, Live, Carries
  <2>3. QED
    BY <2>1, <2>2
<1>9. UNCHANGED vars => Stays
  BY <1>a DEF vars
<1>10. QED
  BY <1>0, <1>1, <1>2, <1>3, <1>4, <1>5, <1>6, <1>7, <1>8, <1>9, StepKinds

LEMMA CarryStep ==
  TypeOK /\ RequestInv /\ LabelInv /\ HandInv /\ SoleInv /\ CarryInv /\ CancelInv /\ [Next]_vars
  => CarryInv'
<1> SUFFICES ASSUME TypeOK, RequestInv, LabelInv, HandInv, SoleInv, CarryInv, CancelInv, [Next]_vars,
                    NEW j \in Jobs, NEW n \in Numbers, Live(j)', Carries(j, n)', incidents'[n] = {}
             PROVE  /\ row'[n] # NoRow /\ row'[n].copy = job'[j].copy
                    /\ Sole(j)' => row'[n].job = j
  BY DEF CarryInv
<1>0. incidents[n] = {} /\ n # 0
  BY IncidentsGrow DEF Numbers
<1>1. CASE Live(j) /\ Carries(j, n)
  <2>1. j \in Opened
    BY <1>1 DEF Live, Opened
  <2>2. Sole(j)' => Sole(j)
    <3>1. Sole(j)' /\ ~Sole(j) => row'[n] = NoRow
      BY <1>1, <2>1, SoleBack, CarriedNumber
    <3>2. QED
      BY <1>1, <3>1, CarriedRowStays
  <2>3. QED
    BY <1>1, <2>1, <2>2, CarriedRowStays, CopyKept
<1>2. ASSUME NEW c \in Clerks, CommitOverride(c), req[c].job = j, req[c].lpn = n, req[c].new
      PROVE  row'[n] # NoRow /\ row'[n].copy = job'[j].copy /\ row'[n].job = j
  BY <1>2, OverrideFacts DEF RowNew
<1>3. ASSUME j \notin Opened, NEW x \in Copies, StartEvaluation(j, x), known[x] = n
      PROVE  row'[n] # NoRow /\ row'[n].copy = job'[j].copy /\ ~Sole(j)'
  <2>1. row' = row /\ known' = known /\ job'[j].copy = x
    BY <1>3, OpenFacts
  <2>2. row[n] # NoRow /\ row[n].copy = x
    BY <1>0, <1>3 DEF LabelInv
  <2>3. QED
    BY <1>0, <1>3, <2>1, <2>2 DEF Sole
<1>4. QED
  BY <1>1, <1>2, <1>3, CarryKept

(* A cancel goes by what it looked at. *)
LEMMA CancelKept ==
  ASSUME TypeOK, RequestInv, [Next]_vars, NEW c \in Clerks, req'[c].op = "cancel"
  PROVE  \/ req'[c] = req[c]
         \/ \E n \in Numbers : /\ BeginCancel(c, n) /\ req'[c].lpn = n
                               /\ UNCHANGED << row, job, known, twice >>
                               /\ \A d \in Clerks \ {c} : req'[d] = req[d]
<1>0. Idle.op = "idle"
  BY DEF Idle
<1> USE <1>0
<1>1. ASSUME NEW d \in Clerks, Insert(d) \/ CommitCancel(d) \/ CommitOverride(d)
      PROVE  req'[c] = req[c]
  BY <1>1, InsertFacts, CancelKeeps, OverrideFacts
<1>2. ASSUME NEW d \in Clerks, Thinks(d), c # d PROVE req'[c] = req[c]
  BY <1>2, ThinkFacts
<1>3. ASSUME Thinks(c)
      PROVE  \E n \in Numbers : /\ BeginCancel(c, n) /\ req'[c].lpn = n
                                /\ UNCHANGED << row, job, known, twice >>
                                /\ \A d \in Clerks \ {c} : req'[d] = req[d]
  <2>1. CASE ReadNext(c) \/ Collide(c)
    <3>1. req[c] \in Issuing
      BY <2>1, RequestKinds DEF ReadNext, Collide
    <3>2. QED
      BY <2>1, <3>1 DEF ReadNext, Collide, Answer, TypeOK, Issuing
  <2>2. ASSUME NEW x \in Copies, BeginIssue(c, x) PROVE FALSE
    BY <2>2 DEF BeginIssue, TypeOK
  <2>3. CASE LockJob(c) \/ FindRow(c)
    <3>1. req[c] \in Overriding
      BY <2>3, RequestKinds DEF LockJob, FindRow
    <3>2. QED
      BY <2>3, <3>1 DEF LockJob, FindRow, Answer, TypeOK, Overriding
  <2>4. CASE OverrideFails(c)
    BY <2>4 DEF OverrideFails, Answer, TypeOK
  <2>5. ASSUME NEW n \in Numbers, BeginCancel(c, n)
        PROVE  req'[c].lpn = n /\ UNCHANGED << row, job, known, twice >>
    BY <2>5 DEF BeginCancel, TypeOK
  <2>6. ASSUME NEW j \in Jobs, BeginOverride(c, j) PROVE FALSE
    BY <2>6 DEF BeginOverride, TypeOK
  <2>7. QED
    BY <1>3, <2>1, <2>2, <2>3, <2>4, <2>5, <2>6, ThinkFacts DEF Thinks
<1>4. ASSUME NEW x \in Copies, StickLabel(x) PROVE req' = req
  BY <1>4 DEF StickLabel
<1>5. UNCHANGED vars => req' = req
  BY DEF vars
<1>6. QED
  BY <1>1, <1>2, <1>3, <1>4, <1>5, StepKinds, OpenFacts, DeleteFacts, DecideFacts

(* A row that is read again is the same, or a new one.                      *)
LEMMA RowKept ==
  ASSUME TypeOK, RequestInv, [Next]_vars, NEW n \in Numbers, row'[n] # NoRow
  PROVE  \/ row[n] # NoRow /\ row'[n].id = row[n].id
         \/ row[n] = NoRow /\ row'[n].id = rows + 1
<1>a. ASSUME NEW m \in Numbers, NEW x, NEW k, RowTaken(m, k) \/ RowNew(m, x, k)
      PROVE  \/ row[n] # NoRow /\ row'[n].id = row[n].id
             \/ row[n] = NoRow /\ row'[n].id = rows + 1
  BY <1>a DEF RowTaken, RowNew
<1>1. ASSUME NEW c \in Clerks, Thinks(c) PROVE row' = row
  BY <1>1, ThinkFacts
<1>2. ASSUME NEW c \in Clerks, CommitCancel(c) PROVE row'[n] = row[n]
  BY <1>2 DEF CommitCancel, TypeOK
<1>3. ASSUME NEW c \in Clerks, Insert(c) \/ CommitOverride(c)
      PROVE  \E m \in Numbers : \E x, k : RowTaken(m, k) \/ RowNew(m, x, k)
  BY <1>3, InsertFacts, OverrideFacts
<1>4. ASSUME NEW x \in Copies, StickLabel(x) PROVE row' = row
  BY <1>4 DEF StickLabel
<1>5. UNCHANGED vars => row' = row
  BY DEF vars
<1>6. ASSUME NEW j \in Jobs, Decide(j)
      PROVE  \E m \in Numbers : \E x, k : RowTaken(m, k) \/ RowNew(m, x, k)
  BY <1>6, DecideFacts
<1>7. QED
  BY <1>a, <1>1, <1>2, <1>3, <1>4, <1>5, <1>6, StepKinds, OpenFacts, DeleteFacts

LEMMA CancelStep ==
  TypeOK /\ RequestInv /\ HandInv /\ SoleInv /\ CarryInv /\ CancelInv /\ [Next]_vars => CancelInv'
<1> SUFFICES ASSUME TypeOK, RequestInv, HandInv, SoleInv, CarryInv, CancelInv, [Next]_vars,
                    NEW c \in Clerks, NEW n \in Numbers, req'[c].op = "cancel", req'[c].lpn = n,
                    row'[n] # NoRow, row'[n].id = req'[c].id, incidents'[n] = {},
                    NEW j \in Jobs, Live(j)', Carries(j, n)'
             PROVE  j \notin req'[c].jobs /\ ~Sole(j)'
  BY DEF CancelInv
<1>0. incidents[n] = {} /\ n # 0 /\ rows \in Nat
  <2>1. incidents[n] = {} /\ n # 0
    BY IncidentsGrow DEF Numbers
  <2>2. QED
    BY <2>1, Growth
<1>1. CASE BeginCancel(c, n) /\ UNCHANGED << row, job, known, twice >>
           /\ \A d \in Clerks \ {c} : req'[d] = req[d]
  <2>1. Live(j) /\ job[j].lpn # n
    BY <1>1 DEF BeginCancel, Linked, Live
  <2>2. PICK d \in Clerks : Overrides(d)' /\ ~req'[d].new /\ req'[d].job = j /\ req'[d].lpn = n
    BY <1>1, <2>1 DEF Carries
  <2>3. d # c
    BY <2>2 DEF Overrides
  <2>4. Carries(j, n)
    BY <1>1, <2>2, <2>3 DEF Carries, Overrides
  <2>5. Sole(j) /\ row[n].job = j
    BY <1>0, <2>1, <2>4, CarriedNumber DEF CarryInv
  <2>6. QED
    BY <1>1, <2>5, NumberingAssumption DEF BeginCancel, Pending
<1>2. CASE req'[c] = req[c]
  <2>1. row[n] # NoRow /\ row[n].id = req[c].id
    <3>1. req[c].id <= rows /\ req[c].id \in Nat
      BY <1>2, RequestKinds DEF RequestInv, RequestOf, Cancelling
    <3>2. QED
      BY <1>0, <1>2, <3>1, RowKept
  <2>2. CASE Live(j) /\ Carries(j, n)
    <3>1. j \notin req[c].jobs /\ ~Sole(j) /\ j \in Opened
      BY <1>0, <1>2, <2>1, <2>2 DEF CancelInv, Live, Opened
    <3>2. job[j].lpn = n
      BY <2>2, <3>1, CarriedNumber
    <3>3. QED
      BY <1>2, <3>1, <3>2, SoleBack
  <2>3. ASSUME NEW d \in Clerks, CommitOverride(d), req[d].job = j, req[d].lpn = n, req[d].new
        PROVE  FALSE
    BY <2>1, <2>3, OverrideFacts DEF RowNew
  <2>4. ASSUME j \notin Opened, NEW x \in Copies, StartEvaluation(j, x), known[x] = n
        PROVE  j \notin req[c].jobs /\ ~Sole(j)'
    <3>1. known' = known /\ job'[j].copy = x
      BY <2>4, OpenFacts
    <3>2. j \notin req[c].jobs
      BY <1>2, <2>4 DEF RequestInv, RequestOf
    <3>3. QED
      BY <1>0, <2>4, <3>1, <3>2 DEF Sole
  <2>5. QED
    BY <1>2, <2>2, <2>3, <2>4, CarryKept
<1>3. QED
  BY <1>1, <1>2, CancelKept

LEMMA RowStep ==
  TypeOK /\ RequestInv /\ SoleInv /\ CarryInv /\ RowInv /\ [Next]_vars => RowInv'
<1> SUFFICES ASSUME TypeOK, RequestInv, SoleInv, CarryInv, RowInv, [Next]_vars,
                    NEW n \in Numbers, row'[n] # NoRow, row'[n].job # NoJob
             PROVE  /\ job'[row'[n].job].status = "DECIDED"
                    /\ row'[n].job \notin twice' => job'[row'[n].job].lpn = n
                    /\ incidents'[n] = {} => row'[n].copy = job'[row'[n].job].copy
  BY DEF RowInv
<1> DEFINE Sound(k) == /\ job'[k].status = "DECIDED"
                       /\ k \notin twice' => job'[k].lpn = n
                       /\ incidents'[n] = {} => row'[n].copy = job'[k].copy
<1>n. incidents'[n] = {} => incidents[n] = {}
  BY IncidentsGrow
<1>t. twice \subseteq twice'
  <2>1. ASSUME NEW c \in Clerks, Thinks(c) PROVE twice \subseteq twice'
    BY <2>1 DEF Thinks, BeginIssue, ReadNext, Collide, LockJob, FindRow, OverrideFails,
                BeginCancel, BeginOverride
  <2>2. ASSUME NEW x \in Copies, StickLabel(x) PROVE twice' = twice
    BY <2>2 DEF StickLabel
  <2>3. UNCHANGED vars => twice' = twice
    BY DEF vars
  <2>4. QED
    BY <2>1, <2>2, <2>3, StepKinds, InsertFacts, CancelKeeps, OverrideFacts, OpenFacts,
       DeleteFacts, DecideFacts
<1>j. row[n] # NoRow => row[n].job \in Jobs \cup {NoJob}
  BY DEF TypeOK, Row
<1>a. ASSUME row[n] # NoRow, row'[n].job = row[n].job, row'[n].copy = row[n].copy,
             job'[row[n].job] = job[row[n].job]
      PROVE  Sound(row'[n].job)
  BY <1>a, <1>n, <1>t DEF RowInv
<1>b. ASSUME NEW k \in Jobs, RowTaken(n, k) \/ RowNew(n, job[k].copy, k),
             job'[k].copy = job[k].copy, job'[k].status = "DECIDED", job'[k].lpn = n,
             RowTaken(n, k) /\ incidents'[n] = {} => Live(k) /\ Carries(k, n)
      PROVE  Sound(row'[n].job)
  BY <1>b, <1>n DEF RowTaken, RowNew, CarryInv
<1>c. ASSUME NEW m \in Numbers, m # n, NEW x, NEW k, RowTaken(m, k) \/ RowNew(m, x, k)
      PROVE  row'[n] = row[n]
  BY <1>c DEF RowTaken, RowNew
<1>1. ASSUME NEW c \in Clerks, Thinks(c) PROVE Sound(row'[n].job)
  BY <1>1, <1>a, ThinkFacts
<1>2. ASSUME NEW c \in Clerks, Insert(c) PROVE Sound(row'[n].job)
  BY <1>2, <1>a, InsertFacts DEF RowNew
<1>3. ASSUME NEW c \in Clerks, CommitCancel(c) PROVE Sound(row'[n].job)
  <2>1. row'[n] = row[n] /\ job' = job
    BY <1>3 DEF CommitCancel, TypeOK
  <2>2. QED
    BY <1>a, <2>1
<1>4. ASSUME NEW c \in Clerks, CommitOverride(c) PROVE Sound(row'[n].job)
  <2> DEFINE k == req[c].job
             m == req[c].lpn
  <2>1. /\ k \in Jobs /\ m \in Numbers /\ Live(k) /\ Holder(c) /\ Overrides(c)
        /\ req[c].new \in BOOLEAN /\ k \in Opened
        /\ RowTaken(m, k) \/ RowNew(m, job[k].copy, k)
        /\ job'[k].status = "DECIDED" /\ job'[k].lpn = m /\ job'[k].copy = job[k].copy
        /\ \A i \in Jobs \ {k} : job'[i] = job[i]
    BY <1>4, OverrideFacts
  <2>2. CASE m = n
    <3>1. RowTaken(n, k) /\ incidents'[n] = {} => Carries(k, n)
      BY <1>4, <2>1, <2>2, OverrideFacts DEF Carries
    <3>2. QED
      BY <1>b, <2>1, <2>2, <3>1
  <2>3. CASE m # n /\ row[n].job # k
    <3>1. row'[n] = row[n]
      BY <1>c, <2>1, <2>3
    <3>2. job'[row[n].job] = job[row[n].job]
      BY <1>j, <2>1, <2>3, <3>1
    <3>3. QED
      BY <1>a, <3>1, <3>2
  <2>4. CASE m # n /\ row[n].job = k
    <3>1. row'[n] = row[n] /\ row[n] # NoRow /\ row[n].job # NoJob
      BY <1>c, <2>1, <2>4
    <3>2. k \in twice
      <4>1. k \notin twice => job[k].lpn = n
        BY <2>4, <3>1 DEF RowInv
      <4>2. k \notin twice => job[k].lpn = 0 \/ job[k].lpn = m
        BY <2>1 DEF SoleInv
      <4>3. n # 0
        BY DEF Numbers
      <4>4. QED
        BY <2>4, <4>1, <4>2, <4>3
    <3>3. QED
      BY <1>n, <1>t, <2>1, <2>4, <3>1, <3>2 DEF RowInv
  <2>5. QED
    BY <2>2, <2>3, <2>4
<1>5. ASSUME NEW x \in Copies, StickLabel(x) PROVE Sound(row'[n].job)
  BY <1>5, <1>a DEF StickLabel
<1>6. ASSUME NEW x \in Copies, NEW j \in Jobs, StartEvaluation(j, x) \/ TriggerInspection(j, x)
      PROVE  Sound(row'[n].job)
  <2>1. row' = row /\ job[j].status = "ABSENT" /\ \A k \in Jobs \ {j} : job'[k] = job[k]
    BY <1>6, OpenFacts
  <2>2. row[n].job \in Jobs \ {j}
    BY <1>j, <2>1 DEF RowInv
  <2>3. QED
    BY <1>a, <2>1, <2>2
<1>7. ASSUME NEW m \in Numbers, HardDelete(m) PROVE Sound(row'[n].job)
  <2>1. /\ row[n] # NoRow /\ row'[n].copy = row[n].copy
        /\ row[n].job \notin JobsOf(m) /\ row'[n].job = row[n].job
    BY <1>7, DeleteFacts
  <2>2. row[n].job \in Jobs
    BY <1>j, <2>1
  <2>3. job'[row[n].job] = job[row[n].job]
    BY <1>7, <2>1, <2>2 DEF HardDelete
  <2>4. QED
    BY <1>a, <2>1, <2>3
<1>8. ASSUME NEW j \in Jobs, Decide(j) PROVE Sound(row'[n].job)
  <2>1. /\ job[j].lpn \in Numbers /\ job[j].status = "OPEN"
        /\ RowTaken(job[j].lpn, j) \/ RowNew(job[j].lpn, job[j].copy, j)
        /\ job'[j].status = "DECIDED" /\ job'[j].lpn = job[j].lpn /\ job'[j].copy = job[j].copy
        /\ \A k \in Jobs \ {j} : job'[k] = job[k]
    BY <1>8, DecideFacts
  <2>2. CASE job[j].lpn = n
    BY <1>b, <2>1, <2>2 DEF Live, Carries
  <2>3. CASE job[j].lpn # n
    <3>1. row'[n] = row[n]
      BY <1>c, <2>1, <2>3
    <3>2. row[n].job \in Jobs \ {j}
      BY <1>j, <2>1, <3>1 DEF RowInv
    <3>3. QED
      BY <1>a, <2>1, <3>1, <3>2
  <2>4. QED
    BY <2>2, <2>3
<1>9. UNCHANGED vars => Sound(row'[n].job)
  BY <1>a DEF vars
<1>10. QED
  BY <1>1, <1>2, <1>3, <1>4, <1>5, <1>6, <1>7, <1>8, <1>9, StepKinds

(* A number that is taken in a step is the number of a new row.             *)
LEMMA RowCounted ==
  ASSUME TypeOK, RequestInv, [Next]_vars, NEW n \in Numbers, row[n] = NoRow, row'[n] # NoRow
  PROVE  rows' = rows + 1
<1>a. ASSUME NEW m \in Numbers, NEW x, NEW k, RowTaken(m, k) \/ RowNew(m, x, k)
      PROVE  rows' = rows + 1
  BY <1>a DEF RowTaken, RowNew
<1>1. ASSUME NEW c \in Clerks, Thinks(c) PROVE row' = row
  BY <1>1, ThinkFacts
<1>2. ASSUME NEW c \in Clerks, CommitCancel(c) PROVE row'[n] = row[n]
  BY <1>2 DEF CommitCancel, TypeOK
<1>3. ASSUME NEW c \in Clerks, Insert(c) \/ CommitOverride(c)
      PROVE  \E m \in Numbers : \E x, k : RowTaken(m, k) \/ RowNew(m, x, k)
  BY <1>3, InsertFacts, OverrideFacts
<1>4. ASSUME NEW x \in Copies, StickLabel(x) PROVE row' = row
  BY <1>4 DEF StickLabel
<1>5. UNCHANGED vars => row' = row
  BY DEF vars
<1>6. ASSUME NEW j \in Jobs, Decide(j)
      PROVE  \E m \in Numbers : \E x, k : RowTaken(m, k) \/ RowNew(m, x, k)
  BY <1>6, DecideFacts
<1>7. QED
  BY <1>a, <1>1, <1>2, <1>3, <1>4, <1>5, <1>6, StepKinds, OpenFacts, DeleteFacts

(* A request for a number reads, inserts, or waits.                         *)
LEMMA AskServed ==
  ASSUME TypeOK, RequestInv, [Next]_vars, NEW c \in Clerks, Asking(c)
  PROVE  ReadNext(c) \/ Insert(c) \/ Collide(c) \/ req'[c] = req[c]
<1>1. ASSUME NEW d \in Clerks, Thinks(d) PROVE d # c \/ ReadNext(c) \/ Collide(c)
  BY <1>1 DEF Asking, Thinks, BeginIssue, LockJob, FindRow, OverrideFails, BeginCancel,
              BeginOverride, Arrive, Idle
<1>2. ASSUME NEW d \in Clerks, CommitCancel(d) \/ CommitOverride(d) PROVE req'[c] = req[c]
  <2>1. d # c
    BY <1>2 DEF Asking, CommitCancel, CommitOverride
  <2>2. CASE CommitCancel(d)
    BY <2>1, <2>2, CancelKeeps
  <2>3. CASE CommitOverride(d)
    BY <2>1, <2>3, OverrideFacts
  <2>4. QED
    BY <1>2, <2>2, <2>3
<1>3. ASSUME NEW x \in Copies, StickLabel(x) PROVE req' = req
  BY <1>3 DEF StickLabel
<1>4. UNCHANGED vars => req' = req
  BY DEF vars
<1>5. QED
  BY <1>1, <1>2, <1>3, <1>4, StepKinds, ThinkFacts, InsertFacts, OpenFacts, DeleteFacts, DecideFacts

LEMMA TryStep == TypeOK /\ RequestInv /\ TryInv /\ [Next]_vars => TryInv'
<1> SUFFICES ASSUME TypeOK, RequestInv, TryInv, [Next]_vars,
                    NEW c \in Clerks, Asking(c)', ~req'[c].full
             PROVE  /\ rows' - req'[c].since >= req'[c].tries
                    /\ req'[c].op = "insert" /\ row'[req'[c].next] # NoRow
                         => rows' - req'[c].since > req'[c].tries
  BY DEF TryInv
<1>0. rows \in Nat /\ rows' \in Nat /\ rows <= rows'
  BY Growth
<1>1. ASSUME NEW x \in Copies, BeginIssue(c, x)
      PROVE  rows' - req'[c].since >= req'[c].tries /\ req'[c].op # "insert"
  BY <1>0, <1>1 DEF BeginIssue, TypeOK
<1>2. CASE Asking(c) /\ req'[c].copy = req[c].copy /\ ~Insert(c)
  <2>0. /\ req[c] \in Issuing /\ req[c].since \in Nat /\ req[c].tries \in Nat
        /\ req[c].full \in BOOLEAN /\ req[c].next \in 0..Radix
    BY <1>2, RequestKinds DEF Asking, Issuing
  <2>1. CASE ReadNext(c)
    <3>1. /\ req'[c].since = req[c].since /\ req'[c].tries = req[c].tries
          /\ req'[c].next = NextNumber
          /\ ~(req[c].full \/ Radix \in Taken)
          /\ row' = row /\ rows' = rows
      <4>0. PICK m \in 0..Radix : m = NextNumber
        BY NextIsNumber DEF Numbers
      <4>1. PICK b : b = (req[c].full \/ Radix \in Taken)
        OBVIOUS
      <4>2. req'[c] = [req[c] EXCEPT !.op = "insert", !.next = m, !.full = b]
        BY <2>1, <4>0, <4>1 DEF ReadNext, Reread, TypeOK
      <4>3. /\ req'[c].since = req[c].since /\ req'[c].tries = req[c].tries
            /\ req'[c].next = m /\ ~b
        BY <2>0, <4>2 DEF Issuing
      <4>4. QED
        BY <2>1, <4>0, <4>1, <4>3 DEF ReadNext
    <3>2. row[NextNumber] = NoRow
      BY <3>1, NextIsFree, NextIsNumber DEF Taken
    <3>3. QED
      BY <1>2, <3>1, <3>2 DEF TryInv
  <2>2. CASE Collide(c)
    <3>1. req[c].op = "insert" /\ row[req[c].next] # NoRow /\ row' = row /\ rows' = rows
      BY <2>2 DEF Collide, Unique
    <3>2. PICK t \in Nat : t = req[c].tries + 1
      BY <2>0
    <3>3. req'[c] = [req[c] EXCEPT !.op = "read", !.tries = t] \/ req'[c] = Idle
      BY <2>2, <3>2 DEF Collide, Answer, TypeOK
    <3>4. req'[c] = [req[c] EXCEPT !.op = "read", !.tries = t]
      BY <3>3 DEF Asking, Idle
    <3>5. /\ req'[c].op = "read" /\ req'[c].tries = t /\ req'[c].since = req[c].since
          /\ req'[c].full = req[c].full
      BY <2>0, <3>4 DEF Issuing
    <3>6. rows - req[c].since > req[c].tries
      BY <1>2, <3>1, <3>5 DEF TryInv
    <3>7. QED
      BY <1>0, <2>0, <3>1, <3>2, <3>5, <3>6
  <2>3. CASE req'[c] = req[c]
    <3>1. rows - req[c].since >= req[c].tries
      BY <1>2, <2>3 DEF TryInv
    <3>2. ASSUME req[c].op = "insert", row'[req[c].next] # NoRow
          PROVE  rows' - req[c].since > req[c].tries
      <4>1. req[c].next \in Numbers
        BY <3>2 DEF RequestInv, RequestOf
      <4>2. CASE row[req[c].next] # NoRow
        BY <1>0, <1>2, <2>0, <2>3, <3>2, <4>2 DEF TryInv
      <4>3. CASE row[req[c].next] = NoRow
        <5>1. rows' = rows + 1
          BY <3>2, <4>1, <4>3, RowCounted
        <5>2. QED
          BY <1>0, <2>0, <3>1, <5>1
      <4>4. QED
        BY <4>2, <4>3
    <3>3. QED
      BY <1>0, <2>0, <2>3, <3>1, <3>2
  <2>4. ReadNext(c) \/ Collide(c) \/ req'[c] = req[c]
    BY <1>2, AskServed
  <2>5. QED
    BY <2>1, <2>2, <2>3, <2>4
<1>3. QED
  BY <1>1, <1>2, AskKept

-----------------------------------------------------------------------------
(* Theorems *)

LEMMA NumberInit == Init => NumberInv
<1> SUFFICES ASSUME Init PROVE NumberInv
  OBVIOUS
<1>1. \A c \in Clerks : req[c].op = "idle"
  BY DEF Init, Idle
<1>2. /\ \A j \in Jobs : job[j].status = "ABSENT" /\ job[j].copy = OldCopy /\ job[j].lpn = 0
      /\ \A n \in Numbers : row[n] # NoRow => row[n].id = 0 /\ row[n].job = NoJob
      /\ \A x \in Copies : known[x] = 0
      /\ rows = 0 /\ labels = {} /\ twice = {}
  BY DEF Init
<1>3. \A n \in Numbers : n # 0
  BY DEF Numbers
<1> USE <1>1, <1>2, <1>3 DEF Asking, Overrides, Holder, Live
<1>4. RequestInv
  BY DEF RequestInv, RequestOf
<1>5. LabelInv /\ RowInv /\ TryInv /\ CancelInv
  BY DEF LabelInv, RowInv, TryInv, CancelInv
<1>6. HandInv /\ SoleInv
  BY DEF HandInv, SoleInv, Opened
<1>7. CarryInv
  BY DEF CarryInv, Carries
<1>8. QED
  BY <1>4, <1>5, <1>6, <1>7 DEF NumberInv

(* What labels, devices, jobs and requests go by, and what numbers and rows *)
(* then stand for, in every state.                                          *)
THEOREM NumberInvariant == Spec => [](TypeOK /\ NumberInv)
<1>1. Init => TypeOK /\ NumberInv
  BY TypeInit, NumberInit
<1>2. TypeOK /\ NumberInv /\ [Next]_vars => (TypeOK /\ NumberInv)'
  BY TypeStep, RequestStep, LabelStep, HandStep, SoleStep, CarryStep, CancelStep, RowStep,
     TryStep DEF NumberInv
<1>3. QED
  BY <1>1, <1>2, PTL DEF Spec

(* Two books carry labels with one number only if its row was cancelled or  *)
(* deleted while a label or a device carried it (generate_lpn, cancel_lpn). *)
THEOREM LabelsAreUnique == Spec => []LabelsIdentify
<1>1. TypeOK /\ NumberInv => LabelsIdentify
  <2> SUFFICES ASSUME TypeOK, NumberInv, NEW n \in Numbers, "carried" \notin incidents[n]
               PROVE  ~(Cardinality({ x \in Copies : << n, x >> \in labels }) > 1)
    BY DEF LabelsIdentify
  <2> DEFINE S == { x \in Copies : << n, x >> \in labels }
  <2>1. S \subseteq {row[n].copy}
    BY DEF NumberInv, LabelInv
  <2>2. IsFiniteSet({row[n].copy}) /\ Cardinality({row[n].copy}) = 1
    BY FS_Singleton
  <2>3. Cardinality(S) <= 1 /\ Cardinality(S) \in Nat
    BY <2>1, <2>2, FS_Subset, FS_CardinalityType
  <2>4. QED
    BY <2>3
<1>2. QED
  BY <1>1, NumberInvariant, PTL

(* The stock row of a job is that of its book, and a job has one, but for   *)
(* the incidents and the overlapping overrides that the rows remember       *)
(* (assign_rack_location_after_inspection).                                 *)
THEOREM RowsAreTrue == Spec => []RowsIdentify
<1>1. TypeOK /\ NumberInv => RowsDescribeTheirBook
  BY DEF NumberInv, RowInv, RowsDescribeTheirBook
<1>2. TypeOK /\ NumberInv => OneRowPerJob
  <2> SUFFICES ASSUME TypeOK, NumberInv, NEW j \in Jobs \ twice
               PROVE  Cardinality({ n \in Taken : row[n].job = j }) <= 1
    BY DEF OneRowPerJob
  <2> DEFINE S == { n \in Taken : row[n].job = j }
  <2>1. S \subseteq {job[j].lpn}
    BY NumberingAssumption DEF NumberInv, RowInv, Taken
  <2>2. IsFiniteSet({job[j].lpn}) /\ Cardinality({job[j].lpn}) = 1
    BY FS_Singleton
  <2>3. QED
    BY <2>1, <2>2, FS_Subset
<1>3. TypeOK /\ NumberInv => RowsIdentify
  BY <1>1, <1>2 DEF RowsIdentify
<1>4. QED
  BY <1>3, NumberInvariant, PTL

(* A request for a number is refused only after as many rows of others as   *)
(* it had tries, or when the numbers of the day were used up under it       *)
(* (generate_lpn's loop over IntegrityError).                               *)
THEOREM RefusalsAreFair == Spec => RefusedUnderContention
<1> DEFINE Fair == \A c \in Clerks :
                     req[c].op = "insert" /\ req'[c] = Idle /\ rows' = rows
                     => rows - req[c].since >= MaxRetry \/ req[c].full
<1>1. TypeOK /\ NumberInv /\ [Next]_vars => Fair
  <2> SUFFICES ASSUME TypeOK, NumberInv, [Next]_vars, NEW c \in Clerks, req[c].op = "insert",
                      req'[c] = Idle, rows' = rows, ~req[c].full
               PROVE  rows - req[c].since >= MaxRetry
    OBVIOUS
  <2>0. RequestInv /\ TryInv /\ Asking(c) /\ rows \in Nat
    BY NumberingAssumption DEF NumberInv, Asking, TypeOK
  <2>1. req[c].since \in Nat /\ req[c].tries \in Nat
    BY RequestKinds DEF Issuing
  <2>2. ~Insert(c) /\ ~ReadNext(c) /\ req'[c] # req[c]
    BY <2>0 DEF Insert, NewRow, ReadNext, Idle
  <2>3. Collide(c)
    BY <2>0, <2>2, AskServed
  <2>4. row[req[c].next] # NoRow
    BY <2>3 DEF Collide, Unique
  <2>5. rows - req[c].since > req[c].tries
    BY <2>0, <2>4 DEF TryInv
  <2>6. req[c].tries + 1 >= MaxRetry
    <3>1. CASE req[c].tries + 1 < MaxRetry
      <4>1. req'[c].op = "read"
        BY <2>0, <2>3, <3>1, RequestKinds DEF Collide, TypeOK, Issuing, Asking
      <4>2. QED
        BY <4>1 DEF Idle
    <3>2. QED
      BY <2>1, <3>1, NumberingAssumption
  <2>7. QED
    BY <2>0, <2>1, <2>5, <2>6, NumberingAssumption
<1> HIDE DEF Fair
<1>2. Spec => [][Fair]_vars
  BY <1>1, NumberInvariant, PTL DEF Spec
<1>3. QED
  BY <1>2 DEF RefusedUnderContention, Fair
=============================================================================
