# Nexus WMS: a verification development in TLA+

Nexus WMS is the backend of a second-hand book warehouse: FastAPI over PostgreSQL (SQLModel, READ COMMITTED, no
`SELECT ... FOR UPDATE`), Celery workers over Redis, and an AI graph (LangGraph) that grades photographed books. A book is
received, gets a licence-plate barcode (LPN), is photographed, judged by the graph, put into stock, rejected, or handed to
a human (HITL); orders take it out again.

The parts that are hard to get right are not the endpoints but what happens between their transactions: a task queue that
delivers twice or not at all, a lease shorter than the task it protects, two sessions committed one after the other, a
column of JSON that is read whole and written whole seconds later, a graph that starts from what its last run left behind,
and endpoints that read a row, decide, and write it back without a lock. That is what is modelled here.

Paths below are relative to `src/app/` unless they start with `src/`.

## The system

| Component | State | Operations | Talks to | Module |
|---|---|---|---|---|
| Inspection worker `worker/tasks.py`, `domains/returns/job_service.py` | `return_jobs.status`, `inventory_used_items.item_status`, Redlock key, DLQ | lock, terminal guard, prepare, run the graph, execute the WMS action, save, announce, retry, fail | broker, Redis, PostgreSQL, graph, restock agent | `Inspection` |
| Broker, leases, sweeper `core/celery_app.py`, `tasks.py` 455-521 | queue, unacknowledged messages | deliver, redeliver after the visibility timeout, requeue stale jobs every 60 s | workers | `Inspection` |
| Intake `domains/inbound`, `domains/returns` | `return_jobs` | open a job, retry, query | broker, uploads | `Inspection`, `Numbering`, `Streams` |
| HITL administration `domains/admin` | `return_jobs.agent_logs`, stock rows, audit log | edit the reports, preview the score, override, re-inspect, recall | broker, inventory, policy agent | `Inspection`, `Numbering`, `Review`, `Outbound` |
| Judgement graph `ai/agents`, `ai/supervisor.py`, `ai/langgraph_wrapper.py`, `core/ubci_matrix.py` | the checkpointed state of a job | detector, vision, policy, critic, supervisor, report | LLMs, detectors, knowledge base | `Grading`, `Judgement`, `Boxes` |
| Outbound `domains/orders` | orders, picking instructions, stock, inventory log | order, allocate, accept, scan, pack, revert, complete, delete | inventory, restock | `Outbound` |
| LPN numbers and stock rows `domains/inventory` | `inventory_used_items` | issue, cancel, hard delete, assign | inspection, outbound | `Numbering` |
| Restock and purchase orders `ai/agents/restock.py`, `domains/po` | `order_proposals`, `inventory` | propose, approve, dismiss, delete, scan safety stock | inventory, LLM | `Restock` |
| Labels `domains/labels`, `src/scripts/print_bridge_agent.py` | `label_print_jobs`, the bridge process | enqueue, poll, print, acknowledge | the printer of a PC | `Labels` |
| Pricing `orders/pricing.py`, `orders/service.py` | - | price tag, order quote | outbound | `Pricing` |
| Parcels `inventory/packing3d.py`, `bin_packing.py`, `ai/bin_packing_agent.py` | - | place books in cartons, recommend a box | outbound | `Parcels` |
| Uploads `domains/uploads`, `core/file_security.py` | quarantine and clean prefixes of S3 | presign, scan, promote | board | `Scan`, `Uploads` |
| Accounts `domains/auth`, `domains/users`, `core/security.py` | `users`, Redis counters | log in, throttle, passwords, roles, numbers | all | `Accounts` |
| Board `domains/board` | posts, comments | write, move between categories, comment, delete | accounts | `Board` |
| Streams, notifications `core/redis_pubsub.py`, `sse_ticket_service.py`, `domains/notifications` | Redis pub/sub, tickets, alarm rows | publish, subscribe, redeem a ticket, raise and clear alarms | inspection | `Streams` |
| Fraud detection `domains/fds`, `domains/research` | `fds_reports` | scan, suppress, report, alarm; the screen of hasty reviewers | orders, reviews, LLM | `Fraud` |
| Weekly report `domains/dashboard/weekly_insight_service.py` | `weekly_insights` | nightly batch, first visitor | inspection, LLM | `Weekly` |
| Policy retrieval `core/rag_*`, other dashboards, deployment | - | queries, text for prompts, configuration | - | not modelled |

What makes each correct, in the words of its own code and comments:

* **Inspection**: at most one task works on a job; a decided job is not decided again by the queue; ledger and stock agree
  whatever dies between their two commits; a failure is quarantined before it is recorded; an accepted job always reaches an
  outcome; what a human owns is not approved by the AI alone.
* **Judgement**: no verdict without a reading; "could not be inspected" is not "has no flaw"; nothing of an earlier
  inspection of the same job decides; the loop between reader and critic ends.
* **HITL**: job, stock, audit log and certificate tell the same decision; a reviewer rules out the report he saw.
* **Inventory**: an LPN identifies one book; a deleted row does not return.
* **Outbound**: one physical book is promised to one order; the log explains the stock; undoing a packing undoes what it did.
* **Restock**: one open proposal per title; a proposal is bought once; the quantity stays within 1..ceil(1.5 * baseline).
* **Labels**: every label is printed or reported, seldom twice. **Uploads**: only scanned files are served.
* **Accounts, board**: the throttle bounds guesses and never locks; rights are those the caller has now.
* **Streams**: a screen that waits is told the end, and of this round. **Fraud**: a detection is reported once a day.

## The modules

| Module | What it is |
|---|---|
| `Inspection` | The inspection pipeline: intake, broker, workers, leases, sweeper, operators |
| `JobContract`, `InspectionRefinement` | What the pipeline promises about one job (accepted, settled, perhaps reopened, left alone once decided), and the mapping of its state onto that |
| `Grading`, `Judgement` | The score, the grade and the checks on evidence as operators; the graph as a state machine over them |
| `Review` | Reviewers, the AI and the certificate worker on the `agent_logs` of one job. Uses `Grading` |
| `Scan`, `Uploads` | What a scan accepts, as operators; attachments from the form to the served file |
| `Pipeline`, `Evidence`, `Screens` | Two modules side by side, each explored while nothing has happened in the other: `Inspection` and `Judgement`; `Uploads` and `Review`; `Board` and `Streams` |
| `Outbound` | Orders, allocation, picking instructions, packing, shipping, and the stock they use |
| `Restock` | The purchasing board of one title |
| `Numbering` | LPN numbers of one day and zone, the stock rows under them, and the labels on physical books |
| `Labels` | The label queue and the bridges that print it |
| `Accounts`, `Board` | Logins, passwords, administration; the notice board, composed with it over one table of accounts |
| `Streams` | The progress stream of a job and its alarms, beside a cut-down worker |
| `Fraud`, `Weekly` | The fraud scan; the weekly report |
| `Pricing`, `Parcels`, `Boxes` | Prices, parcels and the fusion of detected boxes, as operators with their promises |
| `Desk` | The composition of `Fraud`, `Weekly` and the three services that answer from their arguments alone |
| `MC*` and `*.cfg` | Instances for TLC |
| `InspectionProofs` | Theorems about the pipeline, its contract and the streams, for any jobs, workers, viewers, rounds and faults |
| `WarehouseProofs` | Theorems about the purchasing board and the label queue, for any cards, clerks, requests, bridges, labels and faults |
| `NumberingProofs`, `OutboundProofs` | Theorems about the LPN numbers and the warehouse for any number of books, orders, instructions, clerks and requests |
| `GradingProofs` | Lemmas on the matrix of deductions: what its sums are, between what bounds a score lies, and that fewer reports cost no more |
| `VerdictProofs` | Theorems about the graph, attachments and reviews, for any pictures, reports, rulings, restarts, users, files and reviewers. Uses `GradingProofs` |
| `BoardProofs` | Theorems about accounts and the notice board, for any people, requests, posts and faults. Uses `GradingProofs` for its sets |
| `DeskProofs` | Theorems about the fraud scan, the weekly report, prices, parcels and boxes in pictures, for any scanners, rows, batches, days, baskets, predictions, books and sightings. Uses the sums of `GradingProofs` |

### How state and actions correspond to the code

One database transaction is one action, except where a handler commits, publishes, calls an LLM or waits half-way: then it is one
action per such part. What a worker or a request has read and still uses is kept in its own state (`pc`, `held`, `verdict`;
`req`; `batch`, `calls`; `sheet`; `scan`; `build`), because nothing in the code locks it and PostgreSQL runs READ COMMITTED. Variables
marked *history* are not in the program: they remember which of the known causes of an exception occurred, so that a property
can name the only causes there are instead of being false or vague.

**Inspection.** `status` is `return_jobs.status` (`FLUSHED` is a row not yet committed, whose task is already published),
`item` the status of the stock row of the job's LPN, `queue` the copies of each message, `lock` the Redlock, and `pc` where
each worker stands in `process_inspection`: `Start`, `CheckTerminal`, `Prepare`, `Judge`, `Execute` (stock, first session),
`Save` (ledger, second session), `Announce`, `SaveFailed`. Faults: `Crash`, `TimeLimit`, `Redeliver`, `LoseMessage`,
`LeaseOverrun`, `ApiError`, `UnexpectedError`, `AnnounceFails`, and a Redis that refuses a DLQ push or a publish, or a rack that
cannot be assigned. Operators: `Override`, `Reinspect`, `RetryEvaluation`, `Recall`, `HardDelete`. Left out: one job has one
LPN and jobs meet only at the workers and the queue; the graph is a choice of verdict; the DLQ's retention; the read and the
commit inside one save or override are one action; the publish of a retry and the release of the lock are one action; the
in-process thread that replaces a refused publish counts as a delivery; the sweeper's age limits (8 minutes against a hard time
limit of 6) are a guard; a row that is ALLOCATED or SHIPPED belongs to `Outbound`.

**Grading, Judgement.** A report of the reader is a record of its type, its box in thousandths of its picture, area, confidence and
the marks the evidence check puts on it; `Score` is the UBCI matrix with its fatal defects, stacking, workbook cap and clamp, `Ungrounded`
and `Copied` the checks on boxes. `st` is the state LangGraph merges and checkpoints, `node` the node that runs next, `run` the inspection it
belongs to, `up` whether the process has its LLM clients; `looked` and `scored` are history: whether this inspection's reader
answered, and what it charged. A node returns the keys it sets and no others: what it leaves alone survives from an earlier run unless the
initial state resets it. Choices: what the reader reports (`Defects`, `Hits`), what the detector proposes, which pictures are
unreadable, what the policy LLM rules. Left out: `executed_agents` and timings, prompts, crops on disk, the flags of automatic adoption;
the retry of an LLM inside a client; one process is one `MemorySaver`.

**Review.** `task` is the job row with `agent_logs`, `row` the stock row, `audit` the newest audit log, `sheet` what each reviewer sees
and has in flight, `ai` a re-inspection under way. A decision is `Submit`, `Settle` (the policy agent rescored the list, with other arguments than at
the inspection; first commit: job and stock), `Finish` (second commit: audit) or `Abandon`, then `DrawUp` and `Certify` in the worker, which
writes the whole `agent_logs` it read before the LLM. A reviewer names any grade, as `targetGrade` is any text: `Upper` is what it is in capitals,
`Known` whether that is one of the four bands, to which `Clamped` moves the score, and `Discarded` the grades that put the book aside.
Left out: the loop over several jobs (one job that may be abandoned between its commits), stage-A issues and deduction
marks, the history of escalations, the briefing, texts too long for their column; a reviewer's slot stays busy until his certificate is written.

**Uploads.** `form` is a presigned form, `held` and `clean` the two prefixes, `call` where a verification stands: `Get` (head and body), `Copy`,
`Clear`, `Drop`, each a call to S3 that may `Break`. `Scan` decides from the traits of a file what `file_security.py` decides from its
bytes. `swapped` is history: the keys whose file was sent again while a verification stood between its scan and its copy.

**Pipeline, Evidence, Screens.** The two halves of each share no data, so that no interleaving of their steps can matter: a step of one is explored only
while nothing has happened in the other.

**Outbound.** `order`, `slip` (picking instructions with their lines), `item` (LPNs), `stock` and `ledger` (the counter of
new copies and the sum of its log), and per clerk the request in flight. A handler is `Begin` (the checks, and what it
reads) and a commit that writes from that reading and only the columns it changes (`Written`). Issuing allocates line by
line; the restock proposal of a short line may commit half of it. Left out: one title with one inventory row, the FIFO order
among unpinned LPNs, AUTO lines, an order that fails half-way, conflicts of instruction numbers (as `AbortIssue`), an issue
that commits while the instruction it has just missed is being deleted, narratives and addresses. An administrator touches an
allocated LPN only through `Recall` and `Reapprove`.

**Restock.** `card` is `order_proposals` of one title, `orders` and `received` what its approval made. A run of the graph is
`Collect` inside a trigger (`ProposeReject`, `ProposeShortage`, `BeginScan`/`ScanTitle`), an LLM that answers anything in
`Answers`, and a write (`StoreNew`, `StoreExisting`, `StoreFails`). Left out: urgency, cost and wording, the scan's limit and
order of titles, used stock as a constant, redelivery of the task.

**Numbering.** `row` is `inventory_used_items` by number, with the physical book it was made for; `job` the jobs with the book
they photographed; `labels` what is stuck on which book. `ReadNext`, `Insert`, `Collide` are the loop of `generate_lpn`;
`BeginCancel`/`CommitCancel`, `HardDelete`; `BeginOverride`, `LockJob`, `FindRow`, `CommitOverride` are the override of a job
without a number, whose UPDATE of the job row makes a second override wait. The text order of barcodes (`Rank`) and the
three digits that are parsed (`NextNumber`) are modelled by what they do. The server tells no device that a row is gone: `known`
survives a hard delete, and at most the device that asked for a cancel forgets (`DeviceForgets`). Left out: `/inbound/evaluate` takes any text as
a number, the devices of the model send the one they hold; a request gets a number in the zone of the
overrides only if its device asks for zone B; a hard delete is one step; deciding a job without a number leaves no row.

**Labels.** `status` is `label_print_jobs.status`, `calls` the reports the server has accepted and not stored, `at` and `batch`
where a bridge is in `run_once`, `papers` the labels that came out. The answer to a report precedes the commit of it (`db/session.py:25`
runs after the response), so that a bridge may go on, and poll, while its report is still among `calls`. Left out: DIRECT mode (keeps no state), dry
run, ZPL; two equal reports of one bridge that are under way at once count as one.

**Accounts, Board.** `account` is `users` by employee number with the person it was made for, `fails` and `ttl` the throttle's key in
Redis and whether it expires (INCR and EXPIRE are two calls), `tokens` what people hold, `req` the requests under way with the
rows they decided on. `Board` adds `post`; its requests use the same slots, and a deleted account takes its posts and comments along
(`Cascade`, in every step of `Accounts`). Left out: the limiter by address, the profile, the privacy consent, resetting all passwords
and creating the first MASTER, numbers past 999 of a month. The id of a deleted post is never used again, as the code draws it at random
(`GonePost`); the number of a deleted account is, when it was the last one (`Released`: `issue` computes it from the numbers that are left).

**Streams.** `row`, `messages` and `task` are the worker cut down to what it commits and publishes; `stream` what each viewer has
opened and heard, `ticket` a one-time ticket, `alarms` the rows and pushes. A worker that dies (`WorkerDies`) leaves its message to be delivered again
*and* its lease (`task.pc = "dead"`), under which that message is dropped (`Skip`) until it runs out (`LeaseExpires`); one that hits the hard time limit
leaves neither. `unheard` is history: nobody is left who would tell the outcome the row has. Only alarms about jobs; the other kinds are raised alike.

**Fraud, Weekly.** `scan` is a running scan with its detections and pending reports: one action reads, one considers each detection
(the analyst LLM is called in between), one commits, one raises alarms. Time advances in half days. A review keeps its action, its pace and its grade;
its job may be inspected again (`Renew`) or go with its book (`DeleteJob`), which R2 then passes over while R1 still counts the review. The rule on
returned orders is left out: it counts a status nobody sets. `report` is `weekly_insights` by
week, `build` a count under way with the row it found; of the figures, which are all counted alike, the inspections are kept. `received` are the rows
there are, by the day they were created; a hard delete takes one of any day away (`DeleteRow`; `deleted` is history).

**Pricing, Parcels, Boxes.** Integers: won, tenths of a millimetre, grams, thousandths of a picture, rounded where the code keeps a decimal. The
defaults of an order line are put in where the code does: quantity and price in `Resolved` (the order as it is stored) and once more in `Priced` (the
calculation, to which a price of 0 is a missing one). The model that predicts the chance of a sale is any function of `Chances`. `Desk` asks such a service once, before anything else has happened,
since it keeps nothing; so each question is one state.

## The runs

Every run but two passes, explores its whole state space and takes less than four minutes with two workers. *Deadlock is not checked*: all these
systems may stop - every job settled, or the bound on requests used up - and where something must not stop, it is a liveness property.

A run checks a few properties; where several invariants describe one promise, the run checks their conjunction, whose parts are named
and commented on in the module. Each part has a mutant of the code of its own (`PROJECT.json`) that the run refutes.

| Run | Instance | Distinct states | Shows |
|---|---|---|---|
| `inspection_operators` | 1 job of `/inbound`, 2 workers, any 2 faults, any 2 operator calls | 1.54 million | `TypeOK`, `StockFollowsDecision`, `LeaseExclusive`, `FailedIsQuarantined`, `RejectionAsksRestock`, `DeletionIsFinal`, `DecisionIsFinal` |
| `inspection_contract` | 1 job of `/inbound` and 1 of `/returns`, 2 workers, no retry, any delivery fault, fairness | 272,098 | `ImplementsContract`: safety and liveness of `JobContract` |
| `pipeline_settles` | 1 job of `/returns`, 2 workers, any fault, any operator call; 2 pictures, readings of up to 2 of 4 defects that cannot be placed, are fatal or copied; 2 inspections, restarts of the process; fairness | 255,766 | `EveryJobSettles`, `VerdictIsFounded`, `PromisesAreFounded`, `RunEnds` |
| `evidence_reviews` | 1 attachment, 5 files under 5 names, 2 verifications; 2 reviewers, 2 readings, 2 decisions on a workbook written in twice, with a grade in small letters and one that puts the book aside | 1.77 million | `FilesAreSafe`, `DecisionIsTold`, `EditsMeanWhatTheyShow` |
| `outbound_warehouse` | 2 orders for 1 LPN and for 3 of 2 copies, 2 clerks, 5 requests of any kind | 212,799 | `WarehouseIsSound`, `PromisedOnce`, `OffersAreFree`, `LedgerExplainsStock` |
| `restock_board` | 2 cards, 2 clerks, 4 requests, an LLM that answers too few or too many | 485,239 | `BoardIsSound`, `OneOpenCard`, `BoughtOnce`, `PendingIsDecided` |
| `numbering_lpn` | 3 books, 2 jobs, 2 clerks, 4 rows, 5 requests, ten numbers of which 7 are used | 419,498 | `RowsIdentify`, `LabelsIdentify`, `RefusedUnderContention` |
| `labels_bridge` | 2 labels, 2 bridges, 2 faults, fairness | 604,531 | `QueueTellsPaper`, `FirstReportStands`, `EveryLabelSettles` |
| `screens_board` | any 3 requests, 2 at a time, 1 post, 1 fault, fairness of Redis; 2 screens, 2 rounds of one job, 1 fault, fairness | 557,238 | `RightsHold`, `OwnersGetIn`, `ScreensTellTruth`, `NewsArrives` |
| `desk_scan` | 2 overlapping scans, 3 half days, 1 fault; 1 visitor and 2 batches over 3 days in weeks of 2, 1 deleted row; the services over the inputs of `MCDesk` | 1.33 million | `ScreensAgree`, `ScansAreFair`, `WeeklyIsRight`, `QuotesAreRight`, `PlacesAreRight` |
| `inspection_lock` | 1 job, 1 worker, no fault, no operator | violated | that `EscalatedNeverConfirmed` is **not** kept |
| `evidence_scan` | 1 attachment, 1 verification | violated | that `NothingUnscannedServed` is **not** kept |

The last two state what a comment of the code says and the code does not do; see *Where the code and its words disagree*.

What the conjunctions say:

* `VerdictIsFounded` (`Judgement`): `ApprovalIsRead` (a process with its LLM clients approves only what its reader read in this
  inspection), `InventedNeverSettled` (boxes that cannot have been seen settle nothing), `DismissalIsNoVerdict` (100 points that are left because
  every flaw was dismissed are no verdict), `VerdictOfLastReading`. `PromisesAreFounded`: `GradeFollowsScore`, `NoticeIsBinding`, `RefundIsOfThisRun`.
* `FilesAreSafe` (`Uploads`): `ServedWasScanned` (all that holds of `NothingUnscannedServed`: but for a file sent between a scan and its copy),
  `ToldIsServed`, `PromotionLosesNothing`.
* `DecisionIsTold` (`Review`): `StockTellsDecision` (one score, in the band of its grade when the grade is one that has a band), `UndecidedIsScored`
  (until a human decides, the stock row has a score), `DecisionIsAudited`, `CertificateTellsDecision`, unless requests overlapped or one died between
  its commits. `EditsMeanWhatTheyShow`: `ExcludesWhatWasSeen` (indices still mean the reports the reviewer saw), `ExcludedIsNotTaught` (the
  training data), `RulingOutNeverCosts` (the score is computed by the same agent from other arguments, and does not
  fall; for a workbook the cap that the preview loses is taken out of the comparison).
* `WarehouseIsSound` (`Outbound`): `OrderNeverFloats`, `AllocationIsHeld`, `WaybillsIdentify`, `ScansComplete`.
* `BoardIsSound` (`Restock`): `QuantityIsCapped`, `CardRecordsReceipt`, `RejectionsAccumulate`.
* `RowsIdentify` (`Numbering`): `RowsDescribeTheirBook`, `OneRowPerJob`. `QueueTellsPaper` (`Labels`): `StatusTellsPaper`, `OneLabel`.
* `RightsHold` (`Board`): `GuessesAreBounded`, `TokenNamesItsHolder`, `RightsAreFresh`, `NoticeByAdmin`, `CommentsAreAdmitted`. `OwnersGetIn`:
  `ChosenStands`, `RefusedIsFreed`.
* `ScreensTellTruth` (`Streams`): `EndShowsResult`, `EndIsOfTheRound`, `TicketOpensOne`, `PushedIsKept`. `NewsArrives`: `StreamsEnd`, `WaitingIsAnnounced`.
* `ScreensAgree` (`Fraud`): `ReportsAreSpaced`, `AlarmsFollowReports`, `TwoScreensAgree`. `ScansAreFair`: `DetectionIsReported`, `OverridesAreReal`
  (R2 names whoever did override the AI in jobs that are still there, unless one was inspected again).
  `WeeklyIsRight` (`Weekly`): `WeekCountsItsOwn`, `BatchIsFresh`, `ReportsKeepTheirRows` (a report shrinks by deleted rows only).
* `QuotesAreRight` (`Desk`): `TagIsBetween`, `OrderAddsUp` (the total is the sum over the lines as stored), `NewPriceIsFixed`, `WorseIsNotDearer`, `DiscountIsBest`. `PlacesAreRight`: `ParcelIsSound`,
  `NoBookIsLost`, `StackFitsBox`, `FewerBooksNoLargerBox`, `SightingsSurvive`, `HandwritingIsOnItsPage`.

### Bounds

* `Inspection`: `MaxRetries = 1` for the code's 3: one retry and its exhaustion are the two cases of the guard. `QueueCap` limits the copies
  the sweeper may add: two copies are the least that race. `MaxFaults` and `MaxOps` count injected events; two of each let a fault
  hit the recovery from another one. An action of one job reads nothing of another but the idle worker: two jobs, one of each
  kind, share the workers in `inspection_contract`, which gives up the retry for it (retries under fairness are in `pipeline_settles`,
  without it in `inspection_operators`). A job of `/returns` has no stock row, which is why the run about stock has one of `/inbound`;
  in the proofs there are any number of either.
* In `Outbound`, `Restock`, `Numbering`, `Accounts` and `Board`, two requests at a time are the least that overlap, and the bound on all of them
  lets two orders be issued and packed, and one of them be undone. In `Outbound` a sixth request lets a packing be reverted and
  confirmed again, which repeats a waybill; that instance (1.36 million states) was checked too and is left out of the runs for its time.
* `Numbering`: `Radix = 10` stands for 1000, so that the number after the last one, which needs a digit more, is reached; the code looks only at
  the last digits and at text order, which are the same for both. `MaxRetry = 2` stands for 5. `Labels`: `Limit = 2` stands for 20 jobs of a
  poll: a batch of more than one job is what a failed report gives up.
* `Judgement`: two pictures are the least in which a box can be copied; the four defects are one each of those the matrix and the checks tell
  apart (flipped, weighted, copied, fatal without a box); two inspections let the second find the checkpoint of the first. The retry limits of critic and supervisor are the code's own.
* `Review`: a reviewer does nothing, or excludes, adopts, moves and draws at once. A preview stores nothing, so that nothing else happens while one
  is shown. `Streams`: viewers and the clearing of alarms share no data and are explored one at a time. Two reviewers with the same rights are interchangeable (symmetry).
* `Accounts`: one permitted wrong password for the code's 5; three requests put a login between the check and the count of another.
* `Fraud`, `Weekly`: windows of one or two half days for hours and months, thresholds of 2 for 10 and 3, weeks of two days: what
  matters is what lies inside, at the border of and outside a window. A job a day, one of them deleted, and one batch lost.
* The services are asked for every combination of the inputs in `MCDesk`: scores at the borders of the bands, list prices that no discount
  divides, parcels of up to four books among three of the sixteen cartons, so that a second carton is needed, and boxes in a picture that overlap by
  two thirds and by a quarter or nearly fill it, two of them exactly to the limit of four fifths, one wide and one high.

### Fairness

`Inspection`: a worker goes on with the task it runs (weak); a job whose messages keep being available is started (strong: workers
come and go, and the broker keeps order per queue); orphaned leases run out (Redis expires keys), beat calls the sweeper every 60 s,
and a request that published its task commits or rolls back. Nothing makes an operator act, and faults are finite. `Judgement`: the loop of the
graph goes on while its process lives. `Labels`: a report the server accepted is stored, and the loop of a bridge runs on; a bridge that went
down is started again, which a person or the service manager of the PC does. `Streams`: deliveries, the worker, the sweeper and the end of a dead worker's lease, as in
`Inspection`. `Board`: Redis expires keys that have an expiry. The compositions state the fairness of both halves, for the steps of
each while nothing has happened in the other. The other modules are driven by people and state no liveness.

## What is proved

Every theorem is about the specification of its module or of the composition its run checks, for every value of the constants, from the
assumptions its modules name and nothing else.

### The pipeline and its streams: `InspectionProofs`

The pipeline is proved for every number of jobs, workers, retries, faults and operator calls, from `InspectionAssumption` and
`NoMessageAssumption`.

* `TypeCorrect`: the type invariant, needed by all the others.
* `InvariantsHold`: the inductive invariant. None of the safety properties is inductive: that two tasks do not meet
  depends on who holds the lock, and what a crash leaves behind depends on how far the task had come. Its parts:
  `LeaseHeld` (a working task holds the lock unless a lease was overrun), `HitlFromOperator` (a message with `was_hitl` comes
  from an operator, or from the retry of one that does), `StageInv` (which statuses a job can have at each stage), `StockInv` (what the stock row is at each
  stage and status: the intermediate states between the two commits), `QuarantineInv` (a task that is going to record a
  failure has pushed it), `RestockInv` (a task past its execution of a REJECT has asked), `DeletionInv` (what a task can still write for a
  deleted job).
* `LeaseExcludes`, `StockIsConsistent`, `FailuresAreQuarantined`, `RejectionsAskRestock`, `DeletionsAreFinal`: the
  invariants of `inspection_operators`, from those parts. `DecisionsAreFinal`: the action property, from the same.
* `PipelineImplementsContract`: every behaviour of `Spec` without operators (`Ops = {}`), overrun leases and lost final events maps to
  a behaviour of `JobContract!Safety`.

The streams, for any viewers, rounds and failures, from `StreamsAssumption`.

* `StreamsInvariant`: the inductive invariant. What a screen was told is judged by the row of the job, which the worker changes before and
  after it publishes: `TaskKnows` says at each of its steps what the row is if nobody has asked for another round meanwhile (a dead worker knows nothing any more), and
  `TicketIsSpent` that nobody has come in by a ticket that can still be redeemed. Alarms and the worker do not disturb what a screen has heard
  (`ScreensStay`).
* `ScreensAreTrue` (`ScreensTellTruth`).

### The purchasing board and the labels: `WarehouseProofs`

The label queue is proved for every number of bridges, labels and faults, from `LabelsAssumption`.

* `LabelInvariant`: the inductive invariant. `StatusTellsPaper` says nothing of a report that is on its way, and `OneLabel` nothing of a
  label that is out and still listed as PENDING; both are what the next step stores or prints. Its parts: `BatchInv` (what a bridge is
  going to report is true), `CallsInv` (so is what the server has accepted, and two accepted reports of one job are an overlap),
  `RecordInv` (so is what is stored), `PaperInv` (a label that is out and still listed is held by one bridge,
  past its printing, or its report has been accepted).
* `QueueIsTrue`: `QueueTellsPaper`, with the type invariant. `ReportsStand`: the action property `FirstReportStands`.

The board, for every number of cards, clerks and requests and whatever the LLM answers, from `RestockAssumption`.

* `BoardInvariant`: the inductive invariant. `BoughtOnce` counts orders, which are committed before the card: `BuyInv` says which requests are between
  the two, and what the card shows then. `TogetherInv` says that a graph that runs alone still finds the board as it read it, and
  `RequestInv` that what a request counted goes by a card it has seen. `ValidatedIsCapped`: any answer ends up in 1..ceil(1.5 * baseline).
* `BoardCanBeTrusted` (`BoardIsSound`), `OneCardIsOpen` (`OneOpenCard`), `CardsAreBoughtOnce` (`BoughtOnce`), `CardsAreDecided` (the action property
  `PendingIsDecided`).

### LPN numbers: `NumberingProofs`

For every number of books, jobs, clerks, rows and requests, every size of the range of numbers and every
bound on the tries of a request, from `NumberingAssumption` (that size is a multiple of ten, as the powers are that the code uses).

* `NumberInvariant`: the inductive invariant. `RowsIdentify` and `LabelsIdentify` look at rows and labels; what endangers them is a request that
  still holds a number it read earlier. Its parts: `RequestInv` (a request goes by numbers, jobs and rows that existed when it looked, and one override
  at a time holds a job), `LabelInv` (a label or a device leads to the row of its book unless the row was taken away while one carried its number), `HandInv`
  (a book that is being given a number has none), `SoleInv` (a job without a number is the only one of its book), `CarryInv` (every number a job
  or an override of it goes by leads to a row of its book), `CancelInv` (the row a cancel is about to delete is of no job), `RowInv`, and
  `TryInv` (every failed try was overtaken by a new row). That the next number is not in use is `NextIsFree`.
* `LabelsAreUnique` (`LabelsIdentify`), `RowsAreTrue` (`RowsIdentify`), `RefusalsAreFair` (the action property `RefusedUnderContention`).

### Orders and stock: `OutboundProofs`

For every basket of every number of orders, any instructions, LPNs, clerks and requests, from
`OutboundAssumption` (a pinned line is of one copy, and baskets and the set of instructions are finite).

* `WarehouseInvariant`: the inductive invariant. Its parts: `RequestInv` (the instruction a request has read is still the same order's with the same LPNs,
  or deleted), `AllocInv` (an allocated LPN has a holder that cannot close its instruction and leave the LPN behind: `AllocationIsHeld` alone forgets
  the request that read the LPN before it was allocated), `OwnerInv` (one owner among instructions *and* requests that are still
  issuing), `WaybillInv` (waybills are below the count they are numbered by), `PickInv` (the header of an instruction counts its lines; this
  takes lemmas on sums over a set of lines, and a scan that changes one of them), `OrderNeverFloats`, `LedgerExplainsStock`.
* `WarehouseStaysSound` (`WarehouseIsSound`), `BooksArePromisedOnce` (`PromisedOnce`), `OffersStayFree` (`OffersAreFree`), `LedgerAlwaysExplains`
  (`LedgerExplainsStock`).

### Verdicts, reviews and files: `GradingProofs`, `VerdictProofs`

`GradingProofs` has the lemmas on the matrix that `VerdictProofs` cites: the sums over reports are determined by what each report
costs (`SumWithout`, `SumsAgree`), leaving reports out makes no sum, tier, ratio or deduction larger (`SumMonotone`, `WearDeductionMonotone`,
`DoodleDeductionMonotone`), so that **a score does not fall when reports are ruled out** (`ScoreMonotone`), without the cap of a workbook; with it
as long as the writing stays below the cap (`CapCosts`).

The graph is proved for every number of pictures and runs, every set of reports, proposals, rulings and unreadable pictures, from
`JudgementAssumption`.

* `JudgementInvariant`: the inductive invariant. `VerdictIsFounded` speaks of the end of the graph; what it rests on is decided by four nodes before it.
  Its parts: `UnreadNeverPasses` (at each node, what tells an inspection whose reader gave nothing), `TwinsAreMarked` (two equal
  boxes in two pictures are marked as soon as they are reported), `PassedIsCharged` (what passed the critic is scored as it stands, up to the
  report), `RulingIsCorrected`, and `CertificateIsDated` (a certificate in the checkpoint is of an earlier run until this one passes).
* `VerdictsAreFounded` (`VerdictIsFounded`), `PromisesStand` (`PromisesAreFounded`).

Attachments and reviews, for every number of users, keys, files and verifications, and of reviewers, decisions, readings,
proposals and edits, from `UploadsAssumption` and `ReviewAssumption`.

* `UploadsInvariant`: `FilesAreSafe` says nothing of a verification that has decided and not yet copied, or copied and not yet cleared; `VerdictsHold` says
  what each has read and decided, unless the form was used again meanwhile, and `QuarantineIsLast` what the quarantine holds.
* `ReviewInvariant`: the decision is written by two commits of the request and two of the worker. Its parts: `SettledStands` (between the commits
  the settled request is the one that stands), `LoggedIsDecided`, `TargetIsSold` (`SoldAs`: a named grade is the one of the row, if the book is on sale), `CertificateIsCurrent` (unless
  a certificate is under way), `AiKeepsOff` and `AiScores` (what the AI has put into stock and not yet saved), and `SeenIsThere` (the reports a reviewer saw are still at their places, by index).
* `FilesStaySafe` (`FilesAreSafe`), `DecisionStaysTold` (`DecisionIsTold`). `EditsAreMeant`: the action property `EditsMeanWhatTheyShow`, whose last
  part needs `ReadIsScored` (the score of an untouched job is that of its reports) and `ScoreMonotone`.

### Accounts and the board: `BoardProofs`

For any people, roles, passwords, numbers, posts, requests and faults, from `AccountsAssumption`.

* `BoardInvariant`: the inductive invariant. `RightsHold` is about requests that have decided and not yet written. Its parts: `RequestsShape` (what
  each kind of request has read), `ThrottleInv` (wrong passwords are bounded by the counter *and* the logins that are past its check, each counted
  by the step it is at; this takes the cardinality of a set of requests when one of them moves), `NumbersInv` (a number that somebody holds a token
  for is his, or cannot be computed again: a larger one is in use and nobody has computed this one), `PostsArePlanned` (a post
  is written once under its id and was there for whoever is about to change it).
* `RightsAreHeld` (`RightsHold`). `ChosenPasswordsStand`: the action property `ChosenStands`.

The invariant was first not inductive: the model let a deleted post's id be drawn again, which the code's UUIDs never are, and the
history of numbers missed one that was computed before a deletion and inserted after it. Both are as in the code now.

### Fraud, the weekly report and the services: `DeskProofs`

For any scanners, rules, thresholds, orders, reviews and faults (`FraudAssumption`); any visitors, batches, days, losses and lengths of a week
(`WeeklyAssumption`); any order lines, books to be tagged, predictions, books to be packed, pictures of any size, sightings and pages (`DeskAssumption`:
sizes of books and pictures are positive, a sighting lies in its picture and has a surface; where the reader puts a page is any four integers), and any
catalogue of boxes, none of them lower than the cushion (`ParcelsAssumption`).

* `FraudInvariant`: the inductive invariant. `Works` says what a scan has still to do: each detection it has considered is reported, or is about
  to be, within the window; `Beside` that scans which run side by side are known to, the only way to a report too many.
  `Remembered` that the suggestion of a job nobody inspected again is the one that was overridden, or gone with the job.
* `FraudScreensAgree` (`ScreensAgree`), `FraudScansAreFair` (the action property `ScansAreFair`).
* `WeeklyInvariant`: the inductive invariant. Rows that are deleted make a later count smaller than an earlier one, so that no count is compared with
  the rows alone: `BuilderKnows` bounds the count a builder holds by the rows of its week that are there or were deleted, from below by those still there,
  and by the row it will replace; `Covers` says that a batch about to write has all that the batches before it had to find, `BatchHolds` the same of what is
  stored. All compare sums over windows of days (`SumsCompare`).
* `WeeklyReportIsRight` (the action property `WeeklyIsRight`).
* `QuotesAreAlwaysRight` (`QuotesAreRight`): for every list price, score, age and season the price of a tag lies between its bounds (each factor
  leaves a share, `Share`, with its rounding error), an order adds up line by line, a worse copy is not dearer - the search for the best discount is a
  fold over seventeen discounts, of which `BestDiscountFacts` says that what it keeps earns most (`KeptIsBest`, `SearchFinds`) - and no discount exceeds
  what the law allows.
* `PlacesAreAlwaysRight` (`PlacesAreRight`). `AnswerIsGiven`, the inductive invariant, says that an answer is the service's for what was
  asked; the rest is about the services. What is laid in a box is a recursive function of the set of its books, taken in laying order:
  `LayKeeps` and `FillingIsLaidWell` prove by induction on that set (`SubsetInduction`; that such a function exists is `RecursionExists`) that
  the books in the box lie inside, apart and supported within its weight, each once and as large as it is, and that none is dropped; one more
  takes away no support (`SupportStays`). Cartons are a function of what is left, which gets smaller with every carton that takes something; a
  book that no carton takes fits no empty one, because the carton in which nothing was placed was empty for it. The estimate is monotone as
  its three sums and largest sides are (`FewerWeighLess`, `FewerSidesAreSmaller`). In the fusion every member of a cluster holds the middle of
  the cluster's first (half of their union is common to both, `MeetIsCentred`), so that the weighted mean touches it (`MeanOfBalanced`), and
  boxes below 78 percent fuse to one below the limit of 80. The crop and the way back to the picture are monotone roundings.

Each inductive invariant was checked by TLC on the instance of its run before it was proved. `PipelineImplementsContract` names its hypotheses.
Every safety property of the passing runs, invariant or action property, is a theorem.

Only model-checked: liveness (`EveryJobSettles`, the fairness part of `ImplementsContract`, `RunEnds`, `EveryLabelSettles`, `NewsArrives`, `RefusedIsFreed`),
which is out of the prover's reach as is everything about ENABLED.

## Where the code and its words disagree

The properties above hold because they name these cases as exceptions, or because the model has the code's behaviour and not the
comment's. Each was seen in a model; two are checked by runs of their own, which TLC refutes:

* `inspection_lock`: "a case already handed over to a human is not confirmed automatically, whatever the re-inspection finds"
  (`worker/tasks.py:688-689`). It is: the sweeper requeues without `was_hitl` (`:493`), and while an earlier message is still waiting the second of the two
  inspects again what the first one handed over.
* `evidence_scan`: "there is no window in which an unverified file is exposed" (`uploads/service.py:177`; also `:300`). There is one: `copy_object` copies what
  is under the key by then (`:337-347`), and the form its owner holds is good for another upload until it expires.

Inspection and outbound

* A REJECT of a job that waits for a human is confirmed by the AI alone: the lock asks for APPROVE only (`tasks.py:690`).
* A decision an administrator makes while the task runs is overwritten (`returns/job_service.py:147`; `admin/service.py:31` says that the human has the last word).
* The lease (300 s) is shorter than the hard limit of the task (360 s): two tasks may inspect one job.
* Two overrides can find the same "next" number (`admin/service.py:515`): the row is looked up and overwritten, so that the UNIQUE
  constraint the comment of `inventory/service.py:250-252` relies on never refuses it.
* Reverting a packing sets its LPNs IN_STOCK (`orders/routers/picking_instructions.py:314`), not ALLOCATED, as the instruction it returns to would
  have it (`:283`), and after a short packing it creates stock; waybill numbers repeat after a revert.
* Two overlapping issues allocate one LPN (`orders/picking.py:226`), which the filters of `orders_crud.py:391` and `orders/service.py:257-259` are to prevent.
* A number is free again once its row was cancelled or deleted (`inventory/router.py:140-258`), but the device that holds it is not told: it can still print
  or send it after it was given to another book. `LabelsIdentify` and `RowsIdentify` except the numbers whose row was taken away under a label or a device.
* A second deletion of an instruction that is gone already runs to its end, and puts the LPNs it read back on sale.
* The list of books on offer adds an instruction's new copies even before its packing has deducted them.

The judgement

* A worker without LLM clients approves a book nobody has looked at.
* A reader that says "mint" and lists flaws has the book approved as MINT whatever the score; a score of 67 to 69 is a REJECT with grade NORMAL.
* A second rejection in stage B clears the defects before the escalation, so that the human sees none.
* A job that has no pictures is not read by the reader and yet approved: nothing failed, so that it is MINT with 100 points. `ApprovalIsRead` is therefore
  about jobs with pictures.
* What a run leaves unset survives in the checkpoint: a record handed to a human may carry the certificate or refund of an earlier run.
* Missing weights are an error of `ai/wbf_detector.py` (`:245-272`); `detector_node` swallows it and goes on without candidates.

Review

* `targetGrade` is any text (`admin/schemas.py:15`). A grade that is none of the four leaves the score as it is (`models/wms.py:51-53`), though
  `admin/service.py:529` says that it is always clamped to a band; with no score to begin with, the stock row has none and the certificate says 100. A grade
  in small letters is clamped and stored as it was written. "POOR" and "DISCARD" put an approved book aside, the job being APPROVED all the same.
* `agent_logs.book_title` is read (`admin/service.py:211`, `:451`; `worker/tasks.py:390`) and never written: the cap on deductions of a workbook is lost
  in every preview and override.
* The cap lost there makes the score of a workbook fall by ruling out a report, when its writing alone would cost more than the cap: the reader's score had
  the cap, the preview has not. One long handwriting that overlaps the text costs more than the cap.
* The preview is said to make no API call (`admin/service.py:189`), but the policy agent asks the LLM when the defects are of stage B.
* APPROVE without a grade on a job the AI would reject leaves the job APPROVED and the row REJECTED in zone E.
* A RE_CHECK writes unverified boxes to the audit log and the training data, and earlier audit rows go on exporting what is excluded later.
* A job without a score gives its stock row 85, or the top of the band.
* A bad item in a bulk payload leaves the earlier ones committed without audit, certificate or restock request.
* A recall during a re-inspection can leave the job HITL and the row REJECTED.
* The certificate after a human decision lists reports the reviewer excluded (`tasks.py:388`: the report filters other marks only), notes NORMAL when no
  grade was named (`tasks.py:370`), and writes back the whole of `agent_logs` as it was before the LLM, over later decisions or readings; it
  is lost if the worker fails. Two of them may finish in the wrong order, and then the older one stands.
* Two decisions that overlap each write the list of reports they read: a report one of them adopted or drew is lost to the other.

Other parts

* Late acknowledgement is to keep the task of a dead worker (`core/celery_app.py:26-28`), and the lease to free itself (`tasks.py:578`). Together they lose it:
  the message comes back within the 300 s of the lease, is skipped and acknowledged (`:583-588`), and the sweeper looks at PENDING and PROCESSING only
  (`:482-489`). A worker that dies between saving an outcome and telling it so leaves a stream that never ends, or a HITL_REQUIRED job without alarm;
  so does the hard time limit.
* `/returns/inspections/<job>/stream` subscribes a channel nobody publishes to.
* The task that builds the weekly report says that Monday's run finalises the week before with a forced recount (`worker/tasks.py:848-849`); it
  calls the service without `force`, so that a row opened during the week keeps the counts of its last nightly run. Two overlapping
  batches can write an older count over a newer one, although duplicate runs are called safe.
* R2 of the fraud scan compares with the grade the AI suggests now, not the one at the time of the review, and passes over a review whose job was
  deleted with its book: whoever approved it far above the AI is no longer named for it. R4 counts a status that is never set.
* A weekly report counts rows again every night: what is deleted from inventory (`inventory/router.py:250-252`) leaves the reports of its week too, until the week
  is over, and stays in them from then on.
* A list price of 0 is 15,000 won to the calculation (`orders/service.py:137`).
* `round(10050 * 0.9, -1)` is 9040, more than the ten percent the law allows; the OVERFLOW warning of a parcel is never raised; the packing agent
  ignores the sizes of books and reports the placements of the first carton only.
* A printed label whose report is lost is reported as failed or printed again.
* A label can be printed twice by one bridge with every report answered: `ack_job` leaves the commit to
  `get_db`, which comes after the answer, and the bridge that was answered polls again at once (`print_bridge_agent.py:400-401`).
* Two sightings that are each small enough to be candidates can be fused to one that is dropped for its size: exactly four fifths, one wide and one high,
  give 81 percent (`ai/wbf_detector.py:596`). No two below 78 percent do.

## Not modelled

* Components: policy retrieval (embedding search whose result is text for prompts), deployment (configuration, migrations, one-off
  scripts), the other dashboard screens and read models (queries that change nothing). `PROJECT.json` lists them.
* Of modelled components: what "left out" says above; the training of the price model, the recognition of categories in free text, the
  narratives of picking, location labels and zones, the look-up of books, the parsing of bytes, images and prompts, simulated fraud reports, the
  list of reviewed items, the switches of the settings, the pool of a worker (gevent), the RESTRICT rules of foreign keys.
* What a model (LLM, detector, price model) answers is a choice from a small set everywhere: no property is about its quality.
