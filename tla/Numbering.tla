------------------------------ MODULE Numbering -----------------------------
(***************************************************************************)
(* LPN numbers of one day and one zone: the rows of inventory_used_items   *)
(* by number, the requests that allot, cancel and delete them, the jobs    *)
(* that carry them, and the labels that are stuck on physical books.       *)
(*                                                                         *)
(* The next number is read from the highest barcode; the UNIQUE constraint *)
(* decides between requests that read the same one.  An override, though,  *)
(* goes through assign_rack_location_after_inspection, which updates the   *)
(* row it finds under the number.                                          *)
(***************************************************************************)
EXTENDS Integers, FiniteSets

CONSTANTS
  Copies, OldCopy,  \* physical books; the one that stands for earlier books
  Jobs, NoJob,      \* return jobs
  Clerks,           \* requests that can be in flight at once
  Radix,            \* 1000: the numbers below it have three digits
  Before,           \* numbers given out earlier in the day: 1 .. Before
  MaxRetry,         \* MAX_RETRY
  Ops,              \* requests that are made
  MaxRows,          \* bound: rows created
  MaxRequests       \* bound: requests

OpKinds == { "issue", "cancel", "delete", "evaluate", "unnumbered", "override", "label" }

ASSUME NumberingAssumption ==
  /\ NoJob \notin Jobs /\ OldCopy \notin Copies
  /\ Radix \in Nat /\ Radix >= 10 /\ Radix % 10 = 0 /\ Before \in 0..Radix
  /\ MaxRetry \in Nat \ {0} /\ Ops \subseteq OpKinds
  /\ MaxRows \in Nat /\ MaxRequests \in Nat

Numbers    == 1..Radix
AnyCopy    == Copies \cup {OldCopy}
Row        == [id : Nat, copy : AnyCopy, status : {"PENDING_INSPECTION", "INSPECTED"},
               job : Jobs \cup {NoJob}]
NoRow      == [id |-> -1]
JobRow     == [status : {"ABSENT", "OPEN", "DECIDED", "DELETED"}, copy : AnyCopy, lpn : 0..Radix]
Issuing    == [op : {"read", "insert"}, copy : Copies, next : 0..Radix, tries : Nat,
               since : Nat, full : BOOLEAN]
Cancelling == [op : {"cancel"}, lpn : Numbers, id : Nat, jobs : SUBSET Jobs]
Overriding == [op : {"lock", "find", "assign"}, job : Jobs, lpn : 0..Radix, new : BOOLEAN, found : BOOLEAN]
Idle       == [op |-> "idle"]
Incidents  == { "carried", "linked", "overtaken" }

VARIABLES
  row,       \* inventory_used_items by number
  job,       \* return_jobs: the physical copy and agent_logs.lpn_barcode (0: none)
  known,     \* the number on the label or the device of the worker with a copy
  req,       \* the request each clerk is serving
  rows, requests,
  \* history
  labels,    \* labels stuck on books: number and copy
  incidents, \* what happened to a number besides its ordinary use
  twice      \* jobs that overlapping overrides gave two numbers

vars == << row, job, known, req, rows, requests, labels, incidents, twice >>

TypeOK ==
  /\ DOMAIN row = Numbers /\ \A n \in Numbers : row[n] = NoRow \/ row[n] \in Row
  /\ job \in [Jobs -> JobRow]
  /\ known \in [Copies -> 0..Radix]
  /\ DOMAIN req = Clerks
  /\ \A c \in Clerks : \/ req[c] = Idle
                       \/ req[c] \in Issuing \/ req[c] \in Cancelling \/ req[c] \in Overriding
  /\ rows \in 0..MaxRows /\ requests \in 0..MaxRequests
  /\ labels \subseteq Numbers \X Copies
  /\ incidents \in [Numbers -> SUBSET Incidents]
  /\ twice \subseteq Jobs

Init ==
  /\ row = [n \in Numbers |->
              IF n > Before THEN NoRow
              ELSE [id |-> 0, copy |-> OldCopy, status |-> "INSPECTED", job |-> NoJob]]
  /\ job = [j \in Jobs |-> [status |-> "ABSENT", copy |-> OldCopy, lpn |-> 0]]
  /\ known = [x \in Copies |-> 0]
  /\ req = [c \in Clerks |-> Idle]
  /\ rows = 0 /\ requests = 0
  /\ labels = {} /\ incidents = [n \in Numbers |-> {}] /\ twice = {}

-----------------------------------------------------------------------------
(* Numbers *)

Taken == { n \in Numbers : row[n] # NoRow }

(* ORDER BY lpn_barcode compares text: the number with one digit more comes *)
(* right after the number its first digits make.                            *)
Rank(n) == IF n < Radix THEN 11 * n ELSE 11 * (n \div 10) + 1

(* Mutant of NextNumber: a counter that does not know the last number.      *)
Counter == Before + rows + 1

(* The last three characters of the highest barcode, plus one.              *)
NextNumber ==
  IF Taken = {} THEN 1
  ELSE LET last == CHOOSE n \in Taken : \A m \in Taken : Rank(m) <= Rank(n)
       IN (last % Radix) + 1

(* Mutant of Unique: the UNIQUE constraint of lpn_barcode is dropped.       *)
NotUnique(n) == TRUE

Unique(n) == row[n] = NoRow

NewRow(n, x, status, j) ==
  /\ rows < MaxRows
  /\ rows' = rows + 1
  /\ row' = [row EXCEPT ![n] = [id |-> rows + 1, copy |-> x, status |-> status, job |-> j]]

Arrive(c, op) == /\ req[c] = Idle /\ op \in Ops /\ requests < MaxRequests
                 /\ requests' = requests + 1
Answer(c) == req' = [req EXCEPT ![c] = Idle]

-----------------------------------------------------------------------------
(* generate_lpn *)

InHand(x) == known[x] = 0 /\ \A d \in Clerks : req[d].op \in {"read", "insert"} => req[d].copy # x

(* POST /inventory/lpn for a book at hand.                                  *)
BeginIssue(c, x) ==
  /\ Arrive(c, "issue")
  /\ InHand(x) /\ \A j \in Jobs : job[j].copy # x
  /\ req' = [req EXCEPT ![c] = [op |-> "read", copy |-> x, next |-> 0, tries |-> 0,
                                since |-> rows, full |-> FALSE]]
  /\ UNCHANGED << row, job, known, rows, labels, incidents, twice >>

(* Mutant of Reread: a retry keeps the number it had.                       *)
KeepNumber(c) == IF req[c].next = 0 THEN NextNumber ELSE req[c].next

Reread(c) == NextNumber

ReadNext(c) ==
  /\ req[c].op = "read"
  /\ req' = [req EXCEPT ![c].op = "insert", ![c].next = Reread(c),
                         ![c].full = @ \/ Radix \in Taken]
  /\ UNCHANGED << row, job, known, rows, requests, labels, incidents, twice >>

Insert(c) ==
  /\ req[c].op = "insert" /\ Unique(req[c].next)
  /\ NewRow(req[c].next, req[c].copy, "PENDING_INSPECTION", NoJob)
  /\ known' = [known EXCEPT ![req[c].copy] = req[c].next]
  /\ Answer(c)
  /\ UNCHANGED << job, requests, labels, incidents, twice >>

(* IntegrityError: another try, or 409 after the last one.                  *)
Collide(c) ==
  /\ req[c].op = "insert" /\ ~Unique(req[c].next)
  /\ IF req[c].tries + 1 < MaxRetry
     THEN req' = [req EXCEPT ![c].op = "read", ![c].tries = @ + 1]
     ELSE Answer(c)
  /\ UNCHANGED << row, job, known, rows, requests, labels, incidents, twice >>

(* The label of a registered book is printed and stuck on it.               *)
StickLabel(x) ==
  /\ "label" \in Ops
  /\ known[x] # 0 /\ << known[x], x >> \notin labels
  /\ labels' = labels \cup { << known[x], x >> }
  /\ UNCHANGED << row, job, known, req, rows, requests, incidents, twice >>

-----------------------------------------------------------------------------
(* cancel_lpn and hard_delete_inventory_row *)

(* The number is on a label, or on a device that may still print it.        *)
Carried(n, devices) == \E x \in Copies : devices[x] = n \/ << n, x >> \in labels

(* The device that asked for the cancel forgets the number; a label does    *)
(* not, nor the device of a worker on whose behalf nobody asked: the server *)
(* tells no device anything.                                                *)
DeviceForgets(n) ==
  \/ UNCHANGED known
  \/ \E x \in Copies : /\ known[x] = n /\ << n, x >> \notin labels
                       /\ known' = [known EXCEPT ![x] = 0]

Opened == { j \in Jobs : job[j].status # "ABSENT" }

(* Mutant of Linked: the jobs are not looked at.                            *)
NeverLinked(n) == FALSE

(* A return job was opened with this number.                                *)
Linked(n) == \E j \in Jobs : job[j].status \in {"OPEN", "DECIDED"} /\ job[j].lpn = n

Pending(n) == row[n] # NoRow /\ row[n].status = "PENDING_INSPECTION" /\ row[n].job = NoJob

(* The worker goes back: the row is looked at, and the jobs.                *)
BeginCancel(c, n) ==
  /\ Arrive(c, "cancel")
  /\ Pending(n) /\ ~Linked(n)
  /\ req' = [req EXCEPT ![c] = [op |-> "cancel", lpn |-> n, id |-> row[n].id, jobs |-> Opened]]
  /\ UNCHANGED << row, job, known, rows, labels, incidents, twice >>

(* ... and the row that was read is deleted: its number can be given out    *)
(* again although a label or a device carries it, or a job opened meanwhile.*)
CommitCancel(c) ==
  LET n == req[c].lpn IN
  /\ req[c].op = "cancel"
  /\ IF row[n] # NoRow /\ row[n].id = req[c].id
     THEN /\ row' = [row EXCEPT ![n] = NoRow]
          /\ DeviceForgets(n)
          /\ incidents' = [incidents EXCEPT ![n] = @ \cup (IF Carried(n, known') THEN {"carried"} ELSE {})
                             \cup (IF \E j \in Opened \ req[c].jobs : job[j].lpn = n
                                   THEN {"linked"} ELSE {})]
     ELSE UNCHANGED << row, known, incidents >>
  /\ Answer(c)
  /\ UNCHANGED << job, rows, requests, labels, twice >>

(* An override holds the lock of the job row it has updated.                *)
Locked(j) == \E d \in Clerks : req[d].op \in {"find", "assign"} /\ req[d].job = j

JobsOf(n) == { j \in Opened : job[j].lpn = n \/ row[n].job = j }

(* The row goes, and the jobs of its number; other rows of these jobs stay, *)
(* without a job (ON DELETE SET NULL).                                      *)
HardDelete(n) ==
  /\ "delete" \in Ops /\ requests < MaxRequests /\ requests' = requests + 1
  /\ row[n] # NoRow /\ row[n].id > 0
  /\ \A j \in JobsOf(n) : ~Locked(j)
  /\ row' = [m \in Numbers |->
                IF m = n THEN NoRow
                ELSE IF row[m] # NoRow /\ row[m].job \in JobsOf(n) THEN [row[m] EXCEPT !.job = NoJob]
                ELSE row[m]]
  /\ job' = [j \in Jobs |-> IF j \in JobsOf(n) THEN [job[j] EXCEPT !.status = "DELETED"] ELSE job[j]]
  /\ incidents' = [incidents EXCEPT ![n] = @ \cup IF Carried(n, known) THEN {"carried"} ELSE {}]
  /\ UNCHANGED << known, req, rows, labels, twice >>

-----------------------------------------------------------------------------
(* Jobs *)

Open(j, x) == job' = [job EXCEPT ![j] = [status |-> "OPEN", copy |-> x, lpn |-> known[x]]]

(* POST /inbound/evaluate takes the number the device sends, whether or not *)
(* a row of it is left.                                                     *)
StartEvaluation(j, x) ==
  /\ "evaluate" \in Ops
  /\ job[j].status = "ABSENT" /\ known[x] # 0
  /\ Open(j, x)
  /\ UNCHANGED << row, known, req, rows, requests, labels, incidents, twice >>

(* POST /returns opens a job without a number.                              *)
TriggerInspection(j, x) ==
  /\ "unnumbered" \in Ops
  /\ job[j].status = "ABSENT" /\ InHand(x) /\ \A k \in Jobs : job[k].copy # x
  /\ Open(j, x)
  /\ UNCHANGED << row, known, req, rows, requests, labels, incidents, twice >>

(* assign_rack_location_after_inspection: the row under the number becomes  *)
(* the job's, whatever book it was made for, or is created.                 *)
Assign(n, j, found) ==
  IF found
  THEN row' = [row EXCEPT ![n].status = "INSPECTED", ![n].job = j] /\ UNCHANGED rows
  ELSE NewRow(n, job[j].copy, "INSPECTED", j)

(* The worker decides the job of a numbered book.                           *)
Decide(j) ==
  /\ job[j].status = "OPEN" /\ job[j].lpn # 0
  /\ Assign(job[j].lpn, j, row[job[j].lpn] # NoRow)
  /\ job' = [job EXCEPT ![j].status = "DECIDED"]
  /\ UNCHANGED << known, req, requests, labels, incidents, twice >>

(* submit_hitl_override reads the job and its number ...                    *)
BeginOverride(c, j) ==
  /\ Arrive(c, "override")
  /\ job[j].status \in {"OPEN", "DECIDED"}
  /\ req' = [req EXCEPT ![c] = [op |-> "lock", job |-> j, lpn |-> job[j].lpn,
                                new |-> job[j].lpn = 0, found |-> FALSE]]
  /\ UNCHANGED << row, job, known, rows, labels, incidents, twice >>

(* Mutant of NumberFor: every override allots a number.                     *)
AlwaysNew(c) == NextNumber

NumberFor(c) == IF req[c].new THEN NextNumber ELSE req[c].lpn

(* ... and updates its row, which waits for another override of it; a job   *)
(* it read without a number gets one, though the other gave it one.         *)
LockJob(c) ==
  LET r == req[c] IN
  /\ r.op = "lock" /\ ~Locked(r.job)
  /\ IF job[r.job].status = "DELETED"
     THEN Answer(c) /\ UNCHANGED twice
     ELSE /\ req' = [req EXCEPT ![c].op = "find", ![c].lpn = NumberFor(c)]
          /\ twice' = twice \cup IF r.new /\ job[r.job].lpn # 0 THEN {r.job} ELSE {}
  /\ UNCHANGED << row, job, known, rows, requests, labels, incidents >>

FindRow(c) ==
  /\ req[c].op = "find"
  /\ req' = [req EXCEPT ![c].op = "assign", ![c].found = row[req[c].lpn] # NoRow]
  /\ UNCHANGED << row, job, known, rows, requests, labels, incidents, twice >>

CommitOverride(c) ==
  LET r == req[c] IN
  /\ r.op = "assign"
  /\ r.found <=> row[r.lpn] # NoRow
  /\ Assign(r.lpn, r.job, r.found)
  /\ job' = [job EXCEPT ![r.job].status = "DECIDED", ![r.job].lpn = r.lpn]
  /\ incidents' = [incidents EXCEPT ![r.lpn] = @ \cup IF r.new /\ r.found THEN {"overtaken"} ELSE {}]
  /\ Answer(c)
  /\ UNCHANGED << known, requests, labels, twice >>

(* The row is gone, or the number was inserted meanwhile: the error is      *)
(* logged, but the session can only be rolled back after it.                *)
OverrideFails(c) ==
  /\ req[c].op = "assign"
  /\ req[c].found <=> row[req[c].lpn] = NoRow
  /\ Answer(c)
  /\ UNCHANGED << row, job, known, rows, requests, labels, incidents, twice >>

-----------------------------------------------------------------------------
Next ==
  \/ \E c \in Clerks :
       \/ \E x \in Copies : BeginIssue(c, x)
       \/ ReadNext(c) \/ Insert(c) \/ Collide(c)
       \/ \E n \in Numbers : BeginCancel(c, n)
       \/ CommitCancel(c)
       \/ \E j \in Jobs : BeginOverride(c, j)
       \/ LockJob(c) \/ FindRow(c) \/ CommitOverride(c) \/ OverrideFails(c)
  \/ \E x \in Copies : StickLabel(x) \/ \E j \in Jobs : StartEvaluation(j, x) \/ TriggerInspection(j, x)
  \/ \E n \in Numbers : HardDelete(n)
  \/ \E j \in Jobs : Decide(j)

Spec == Init /\ [][Next]_vars

-----------------------------------------------------------------------------
(* Properties *)

(* A label identifies a book: two books carry one number only if its row    *)
(* was cancelled or deleted while a label or a device still carried it.     *)
LabelsIdentify ==
  \A n \in Numbers : Cardinality({ x \in Copies : << n, x >> \in labels }) > 1
                     => "carried" \in incidents[n]

(* The stock row of a job is that of its book: another book's row is        *)
(* overwritten only after a number was freed under a label, a device or a   *)
(* job, or by an override that found a row under the number it had read as  *)
(* the next.                                                                *)
RowsDescribeTheirBook ==
  \A n \in Numbers : row[n] # NoRow /\ row[n].job # NoJob /\ incidents[n] = {}
                     => row[n].copy = job[row[n].job].copy

(* A book is in stock once: a job has two rows only after two overrides,    *)
(* both of which read it without a number.                                  *)
OneRowPerJob ==
  \A j \in Jobs \ twice : Cardinality({ n \in Taken : row[n].job = j }) <= 1

(* 409 is answered under contention only, after as many rows of others as   *)
(* there were tries, unless the numbers of the day were used up when the    *)
(* request looked for the next one.                                         *)
RefusedUnderContention ==
  [][\A c \in Clerks :
       req[c].op = "insert" /\ req'[c] = Idle /\ rows' = rows
       => rows - req[c].since >= MaxRetry \/ req[c].full]_vars

(* The stock rows of a day stand for the books they were made for.          *)
RowsIdentify == TypeOK /\ RowsDescribeTheirBook /\ OneRowPerJob
=============================================================================
