------------------------------ MODULE Streams -------------------------------
(***************************************************************************)
(* What the screens hear of an inspection: the progress events of its job, *)
(* which Redis hands to whoever listens at that moment and then forgets,   *)
(* and the alarms, which are stored and then pushed. The worker is the one *)
(* of Inspection, cut down to what it commits and what it publishes.       *)
(***************************************************************************)
EXTENDS Naturals, FiniteSets

CONSTANTS
  Viewers,     \* requests for a stream
  MaxRounds,   \* bound: times the inspection is asked for
  MaxQueue,    \* bound: messages in the broker
  MaxFailures  \* bound: calls that fail, crashes

ASSUME StreamsAssumption == MaxRounds \in Nat \ {0} /\ MaxFailures \in Nat

Outcomes == { "APPROVED", "REJECTED", "HITL_REQUIRED", "FAILED" }
Paths    == { "inbound", "returns" }  \* /inbound/stream/<job>, /returns/inspections/<job>/stream

VARIABLES
  row,      \* return_jobs.status
  rounds,   \* history: times the inspection was asked for
  messages, \* messages of the job in the broker
  task,     \* the task that holds the lock: its next step (dead: its lease has not run out),
            \* the outcome it saved, the round it read
  stream,   \* streams of the job
  ticket,   \* a one-time ticket in Redis: the path POST /auth/sse-ticket issued it for
  alarms,   \* alarms about the job
  clear,    \* DELETE /notifications under way: the alarms it has read
  overrun,  \* history: rounds under way when the inspection was asked for again
  unheard,  \* history: nobody is left who would tell the outcome the row has
  failures

streamVars == << row, rounds, messages, task, stream, ticket, alarms, clear, overrun, unheard, failures >>
screens    == << stream, ticket, clear >>

NoTask   == [pc |-> "idle", outcome |-> "NONE", round |-> 0]
NoStream == [pc |-> "closed", path |-> "none", by |-> "none", since |-> 0, of |-> 0, shown |-> FALSE]

StreamsInit ==
  /\ row = "PENDING" /\ rounds = 1 /\ messages = 1 /\ task = NoTask
  /\ stream = [v \in Viewers |-> NoStream] /\ ticket \in Paths
  /\ alarms = {} /\ clear = {} /\ overrun = {} /\ unheard = FALSE /\ failures = 0

Failing == failures < MaxFailures /\ failures' = failures + 1

-----------------------------------------------------------------------------
(* Channels. Nobody publishes on job_status.                                *)
Subscribed == [path \in Paths |-> IF path = "inbound" THEN "return_job" ELSE "job_status"]
Hears(v)   == stream[v].pc = "open" /\ Subscribed[stream[v].path] = "return_job"

(* The stream ends with progress 100; shown (history) says whether the job  *)
(* looks as the event tells.                                                *)
Ended(s, told) == [s EXCEPT !.pc = "ended", !.of = task.round, !.shown = (row = told)]

PublishEnd(told) == stream' = [v \in Viewers |-> IF Hears(v) THEN Ended(stream[v], told) ELSE stream[v]]

-----------------------------------------------------------------------------
(* The worker.                                                              *)
Step(pc) == task' = [task EXCEPT !.pc = pc]

AtWork == task.pc \notin {"idle", "dead"}

(* So many messages are left; only a row without an outcome is swept.       *)
Silenced(left) == unheard' = (unheard \/ (row \in Outcomes /\ left = 0))

(* A message that finds the job decided is dropped.                         *)
Take ==
  /\ messages > 0 /\ task.pc = "idle" /\ messages' = messages - 1
  /\ IF row \in {"APPROVED", "REJECTED"} THEN Silenced(messages - 1) /\ UNCHANGED << row, task >>
     ELSE /\ row' = "PROCESSING" /\ task' = [pc |-> "work", outcome |-> "NONE", round |-> rounds]
          /\ UNCHANGED unheard
  /\ UNCHANGED << rounds, screens, alarms, overrun, failures >>

(* The lock is held, by a task or by a dead one: the message is dropped too.*)
Skip ==
  /\ messages > 0 /\ task.pc # "idle" /\ messages' = messages - 1
  /\ IF AtWork THEN UNCHANGED unheard ELSE Silenced(messages - 1)
  /\ UNCHANGED << row, rounds, task, screens, alarms, overrun, failures >>

(* Mutant of Conclude: the screens are told before the result is saved.     *)
TellFirst ==
  /\ task.pc = "work"
  /\ \E o \in Outcomes \ {"FAILED"} : /\ task' = [task EXCEPT !.pc = "tell", !.outcome = o]
                                      /\ PublishEnd(o)
  /\ UNCHANGED << row, rounds, messages, ticket, clear, alarms, overrun, unheard, failures >>

Conclude ==
  /\ task.pc = "work"
  /\ \E o \in Outcomes \ {"FAILED"} : row' = o /\ task' = [task EXCEPT !.pc = "tell", !.outcome = o]
  /\ UNCHANGED << rounds, messages, screens, alarms, overrun, unheard, failures >>

Tell ==
  /\ task.pc = "tell"
  /\ PublishEnd(task.outcome) /\ Step(IF task.outcome = "REJECTED" THEN "idle" ELSE "store")
  /\ UNCHANGED << row, rounds, messages, ticket, clear, alarms, overrun, unheard, failures >>

(* An error of the API, while it may be tried again.                        *)
Again ==
  /\ task.pc = "work" /\ Failing /\ messages' = messages + 1 /\ Step("idle")
  /\ UNCHANGED << row, rounds, screens, alarms, overrun, unheard >>

(* Mutant of GiveUp: the error becomes the outcome of the task as it is.     *)
GiveUpRaw ==
  /\ task.pc \in {"work", "tell"} /\ Failing
  /\ task' = [task EXCEPT !.pc = "store", !.outcome = "ERROR"]
  /\ UNCHANGED << row, rounds, messages, screens, alarms, overrun, unheard >>

(* Any other error, one of the publication included, goes to the DLQ.       *)
GiveUp ==
  /\ task.pc \in {"work", "tell"} /\ Failing
  /\ task' = [task EXCEPT !.pc = "store", !.outcome = "FAILED"]
  /\ UNCHANGED << row, rounds, messages, screens, alarms, overrun, unheard >>

(* Mutant of ConcludeFailed: only the row says that it failed.              *)
ConcludeFailedOnly ==
  /\ task.pc = "fail" /\ row' = "FAILED" /\ Step("idle")
  /\ UNCHANGED << rounds, messages, screens, alarms, overrun, unheard, failures >>

(* save_inspection_failed, also over an outcome that was saved.             *)
ConcludeFailed ==
  /\ task.pc = "fail" /\ row' = "FAILED" /\ Step("tellFailed")
  /\ UNCHANGED << rounds, messages, screens, alarms, overrun, unheard, failures >>

TellFailed ==
  /\ task.pc = "tellFailed" /\ Step("idle")
  /\ \/ PublishEnd("FAILED") /\ UNCHANGED << unheard, failures >>
     \/ Silenced(messages) /\ Failing /\ UNCHANGED stream
  /\ UNCHANGED << row, rounds, messages, ticket, clear, alarms, overrun >>

(* Mutant of WorkerDies: the message was acknowledged when it was received. *)
DieAndForget ==
  /\ AtWork /\ Failing /\ Step("dead")
  /\ UNCHANGED << row, rounds, messages, screens, alarms, overrun, unheard >>

(* The process ends. Its message is delivered again, but its lease stays,   *)
(* up to 300 s.                                                             *)
WorkerDies ==
  /\ AtWork /\ Failing /\ Step("dead") /\ messages' = messages + 1
  /\ UNCHANGED << row, rounds, screens, alarms, overrun, unheard >>

LeaseExpires ==
  /\ task.pc = "dead" /\ Step("idle")
  /\ UNCHANGED << row, rounds, messages, screens, alarms, overrun, unheard, failures >>

(* The hard time limit: the task unwinds, frees the lock and is acked.      *)
HitsTimeLimit ==
  /\ AtWork /\ Failing /\ Step("idle") /\ Silenced(messages)
  /\ UNCHANGED << row, rounds, messages, screens, alarms, overrun >>

(* Mutant of Requeue: a job at work is left alone for good.                 *)
RequeuePending ==
  /\ row = "PENDING"
  /\ messages < MaxQueue /\ messages' = messages + 1
  /\ UNCHANGED << row, rounds, task, screens, alarms, overrun, unheard, failures >>

(* The sweeper; a job at work is none of its business for eight minutes,    *)
(* longer than a task or a lease can last.                                  *)
Requeue ==
  /\ row = "PROCESSING" => task.pc = "idle"
  /\ row \in {"PENDING", "PROCESSING"}
  /\ messages < MaxQueue /\ messages' = messages + 1
  /\ UNCHANGED << row, rounds, task, screens, alarms, overrun, unheard, failures >>

(* POST /inbound/retry/<job>, whatever the job is doing.                    *)
AskAgain ==
  /\ rounds < MaxRounds /\ rounds' = rounds + 1 /\ row' = "PENDING" /\ messages' = messages + 1
  /\ overrun' = IF AtWork THEN overrun \cup {task.round} ELSE overrun
  /\ unheard' = FALSE
  /\ UNCHANGED << task, screens, alarms, failures >>

-----------------------------------------------------------------------------
(* emit: the alarm is stored and committed, then pushed; neither failure    *)
(* stops the other step or the worker.                                      *)
Alarm(stored, pushed) ==
  [id |-> Cardinality(alarms) + 1, about |-> task.outcome, round |-> task.round, stored |-> stored, pushed |-> pushed]
AfterAlarm == IF task.outcome = "FAILED" THEN "fail" ELSE "idle"

(* Mutant of StoreAlarm: the push comes first.                              *)
PushFirst ==
  /\ task.pc = "store" /\ Step("push") /\ alarms' = alarms \cup {Alarm("no", TRUE)}
  /\ UNCHANGED << row, rounds, messages, screens, overrun, unheard, failures >>

StoreAlarm ==
  /\ task.pc = "store" /\ Step("push")
  /\ \/ alarms' = alarms \cup {Alarm("yes", FALSE)} /\ UNCHANGED failures
     \/ alarms' = alarms \cup {Alarm("failed", FALSE)} /\ Failing
  /\ UNCHANGED << row, rounds, messages, screens, overrun, unheard >>

(* The payload was made before; that the row is gone does not stop it.      *)
PushAlarm ==
  /\ task.pc = "push" /\ Step(AfterAlarm)
  /\ \/ alarms' = {IF a.id = Cardinality(alarms) THEN [a EXCEPT !.pushed = TRUE] ELSE a : a \in alarms}
        /\ UNCHANGED failures
     \/ Failing /\ UNCHANGED alarms
  /\ UNCHANGED << row, rounds, messages, screens, overrun, unheard >>

(* DELETE /notifications: reads the rows of its filter, deletes what it read. *)
ReadAll ==
  /\ clear = {} /\ clear' = {a.id : a \in {b \in alarms : b.stored = "yes"}} /\ clear' # {}
  /\ UNCHANGED << row, rounds, messages, task, stream, ticket, alarms, overrun, unheard, failures >>

DeleteAll ==
  /\ clear # {} /\ clear' = {}
  /\ alarms' = {IF a.id \in clear THEN [a EXCEPT !.stored = "cleared"] ELSE a : a \in alarms}
  /\ UNCHANGED << row, rounds, messages, task, stream, ticket, overrun, unheard, failures >>

-----------------------------------------------------------------------------
(* Streams.                                                                 *)
Opened(path, by) == [NoStream EXCEPT !.pc = "open", !.path = path, !.by = by, !.since = rounds]

(* Mutant of Open: a new stream starts with the last event of its job.      *)
OpenWithLast(v, path) ==
  /\ stream[v].pc = "closed"
  /\ stream' = [stream EXCEPT ![v] = IF task.round > 0 /\ row \in Outcomes \cup {"PENDING"} /\ task.pc = "idle"
                                     THEN [Ended(Opened(path, "cookie"), task.outcome) EXCEPT !.shown = TRUE]
                                     ELSE Opened(path, "cookie")]
  /\ UNCHANGED << row, rounds, messages, task, ticket, alarms, clear, overrun, unheard, failures >>

(* A client with the cookie: it subscribes, and is told progress 0.         *)
Open(v, path) ==
  /\ stream[v].pc = "closed" /\ stream' = [stream EXCEPT ![v] = Opened(path, "cookie")]
  /\ UNCHANGED << row, rounds, messages, task, ticket, alarms, clear, overrun, unheard, failures >>

(* Mutant of Present: the ticket is only looked up.                         *)
PresentAndKeep(v, path) ==
  /\ stream[v].pc = "closed" /\ ticket = path
  /\ stream' = [stream EXCEPT ![v] = Opened(path, "ticket")]
  /\ UNCHANGED << row, rounds, messages, task, ticket, alarms, clear, overrun, unheard, failures >>

(* A client that logs in with a header presents the ticket; it is spent,    *)
(* also by a request for another path, which is refused.                    *)
Present(v, path) ==
  /\ stream[v].pc = "closed" /\ ticket \in Paths /\ ticket' = "spent"
  /\ stream' = [stream EXCEPT ![v] = IF ticket = path THEN Opened(path, "ticket") ELSE @]
  /\ UNCHANGED << row, rounds, messages, task, alarms, clear, overrun, unheard, failures >>

Receive == Take \/ Skip
Work    == Conclude \/ Tell \/ ConcludeFailed \/ TellFailed \/ StoreAlarm \/ PushAlarm

(* Streams and the clearing of alarms share no data.                        *)
NothingHeard   == ticket \in Paths /\ stream = [v \in Viewers |-> NoStream]
NothingCleared == clear = {} /\ \A a \in alarms : a.stored # "cleared"

StreamsNext ==
  \/ Receive \/ Work \/ Again \/ GiveUp \/ WorkerDies \/ LeaseExpires \/ HitsTimeLimit
  \/ Requeue \/ AskAgain
  \/ NothingHeard /\ (ReadAll \/ DeleteAll)
  \/ NothingCleared /\ \E v \in Viewers, path \in Paths : Open(v, path) \/ Present(v, path)

(* A task goes on, whatever other messages arrive; the workers receive what *)
(* is queued; a lease runs out; Beat calls the sweeper every minute. Screens*)
(* and operators promise nothing.                                           *)
StreamsSpec ==
  /\ StreamsInit /\ [][StreamsNext]_streamVars
  /\ WF_streamVars(Receive) /\ WF_streamVars(Work) /\ WF_streamVars(LeaseExpires)
  /\ WF_streamVars(Requeue)

-----------------------------------------------------------------------------
(* Properties *)

StreamsTypeOK ==
  /\ row \in Outcomes \cup {"PENDING", "PROCESSING"} /\ rounds \in 1..MaxRounds /\ messages \in Nat
  /\ task.pc \in {"idle", "dead", "work", "tell", "store", "push", "fail", "tellFailed"}
  /\ task.outcome \in Outcomes \cup {"NONE"} /\ task.round \in 0..rounds
  /\ \A v \in Viewers : /\ stream[v].pc \in {"closed", "open", "ended"}
                        /\ stream[v].since \in 0..rounds /\ stream[v].of \in 0..rounds
                        /\ stream[v].of > 0 <=> stream[v].pc = "ended"
  /\ ticket \in Paths \cup {"spent"} /\ clear \subseteq {a.id : a \in alarms}
  /\ \A a \in alarms : a.stored \in {"no", "yes", "failed", "cleared"} /\ a.round \in 1..rounds
  /\ overrun \subseteq 1..rounds /\ unheard \in BOOLEAN /\ failures \in 0..MaxFailures

(* The page that fetches the result when its stream ends finds the result   *)
(* it was told, unless the inspection was asked for again in between.       *)
EndShowsResult ==
  \A v \in Viewers : stream[v].pc = "ended" => stream[v].shown \/ stream[v].of \in overrun

(* A stream opened for a new round does not end with the event of an        *)
(* earlier one, but for a round that was still under way when the           *)
(* inspection was asked for again.                                          *)
EndIsOfTheRound ==
  \A v \in Viewers : stream[v].pc = "ended" => stream[v].of >= stream[v].since \/ stream[v].of \in overrun

(* A ticket opens one stream, of the path it was issued for, however many   *)
(* clients present it.                                                      *)
TicketOpensOne ==
  /\ Cardinality({v \in Viewers : stream[v].by = "ticket"}) <= 1
  /\ (\E v \in Viewers : stream[v].by = "ticket") => ticket = "spent"

(* An alarm that popped up on a screen is found in the list after a reload; *)
(* else it was cleared, or the table would not take it.                     *)
PushedIsKept == \A a \in alarms : a.pushed => a.stored \in {"yes", "cleared", "failed"}

Awaits(v, path) == stream[v].pc = "open" /\ stream[v].path = path /\ row \notin Outcomes

(* Whoever listens on /inbound/stream while a job is unsettled is told its  *)
(* end, through crashes, leases of dead workers, retries and dropped        *)
(* messages. The exception: the task ended between the commit of an outcome *)
(* and the event, and no message is left, the last one having been dropped  *)
(* for the dead task's lease or for the outcome. (Whoever listens on        *)
(* /returns/.../stream is told nothing: nobody publishes there.)            *)
StreamsEnd ==
  \A v \in Viewers : Awaits(v, "inbound") ~> (stream[v].pc = "ended" \/ unheard)

(* A job that waits for a person is announced, but for the same exception:  *)
(* the message comes back if the worker dies before the alarm, and is lost  *)
(* to the lease that the worker leaves.                                     *)
WaitingIsAnnounced ==
  \A r \in 1..MaxRounds :
    (row = "HITL_REQUIRED" /\ task.round = r)
      ~> (row # "HITL_REQUIRED" \/ unheard \/ \E a \in alarms : a.about = "HITL_REQUIRED" /\ a.round >= r)

(* What a screen was told is so: the end of the round it waits for, with    *)
(* the result it will fetch, and the alarm that popped up.                  *)
ScreensTellTruth ==
  StreamsTypeOK /\ EndShowsResult /\ EndIsOfTheRound /\ TicketOpensOne /\ PushedIsKept

(* Whoever must hear of a job hears of it: the screen that waits for it, and *)
(* the person it waits for.                                                 *)
NewsArrives == StreamsEnd /\ WaitingIsAnnounced
=============================================================================
