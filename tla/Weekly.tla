------------------------------- MODULE Weekly -------------------------------
(***************************************************************************)
(* The weekly report of the dashboard: one row per week, opened by the     *)
(* batch of the night or by the first visitor, and counted anew by every   *)
(* later batch of its week.  Between counting and writing an LLM is asked  *)
(* for the narrative, so that days may change and others may write.        *)
(* Of the figures, which are all counted alike, the inspections are kept.  *)
(***************************************************************************)
EXTENDS Integers, FiniteSets, FiniteSetsExt

CONSTANTS
  Visitors,              \* requests of GET /weekly-insights
  Batches,               \* deliveries of generate_weekly_insight under way at a time
  WeekDays,              \* days of a week
  \* bounds: days, jobs of a day, jobs that are deleted, batches that die
  MaxDay, MaxJobs, MaxDeleted, MaxLosses

ASSUME WeeklyAssumption ==
  /\ WeekDays \in Nat \ {0} /\ {MaxDay, MaxJobs, MaxDeleted, MaxLosses} \subseteq Nat

VARIABLES
  day,
  received,  \* return_jobs: by the day they were created
  deleted,   \* history: those of a day that are no longer there
  report,    \* weekly_insights: by week, the number of inspections
  build,     \* reports under way: the day it began, its week, the row that
             \* it found, what it counted
  \* history
  done,      \* days whose batch ended well
  doubled,   \* weeks on which two batches worked at once
  losses

weeklyVars == << day, received, deleted, report, build, done, doubled, losses >>

Days    == 0..MaxDay
WeekOf(d) == d \div WeekDays
Weeks   == 0..WeekOf(MaxDay)
Missing == -1
NoBuild == [pc |-> "idle", of |-> 0, week |-> 0, found |-> Missing, count |-> 0]

WeeklyInit ==
  /\ day = 0 /\ received = [d \in Days |-> 0] /\ deleted = [d \in Days |-> 0]
  /\ report = [w \in Weeks |-> Missing]
  /\ build = [b \in Visitors \cup Batches |-> NoBuild]
  /\ done = {} /\ doubled = {} /\ losses = 0

(* Mutant of Window: the seven days up to now.                              *)
LastSevenDays(w) == { d \in Days : d <= day /\ day < d + WeekDays }

(* iso_week_bounds: a week from its first day to its last.                  *)
Window(w) == { d \in Days : WeekOf(d) = w }

Received(days) == MapThenSumSet(LAMBDA d : received[d], days)
Deleted(days)  == MapThenSumSet(LAMBDA d : deleted[d], days)

Tomorrow ==
  /\ day < MaxDay /\ day' = day + 1
  /\ UNCHANGED << received, deleted, report, build, done, doubled, losses >>

Receive ==
  /\ received[day] + deleted[day] < MaxJobs
  /\ received' = [received EXCEPT ![day] = @ + 1]
  /\ UNCHANGED << day, deleted, report, build, done, doubled, losses >>

(* hard_delete_inventory_row: the job of a book, however old, goes with it. *)
DeleteRow(d) ==
  /\ received[d] > 0 /\ Deleted(Days) < MaxDeleted
  /\ received' = [received EXCEPT ![d] = @ - 1]
  /\ deleted' = [deleted EXCEPT ![d] = @ + 1]
  /\ UNCHANGED << day, report, build, done, doubled, losses >>

-----------------------------------------------------------------------------
(* build_weekly_insight up to the narrative.                                *)
Counted(pc, of, w) ==
  [pc |-> pc, of |-> of, week |-> w, found |-> report[w], count |-> Received(Window(w))]

(* A row that is there is shown as it is.                                   *)
Visit(v) ==
  /\ build[v] = NoBuild /\ report[WeekOf(day)] = Missing
  /\ build' = [build EXCEPT ![v] = Counted("first", day, WeekOf(day))]
  /\ UNCHANGED << day, received, deleted, report, done, doubled, losses >>

(* The batch of the night; a second one of that day when the broker takes   *)
(* the first for dead.  It looks after the week before.                     *)
StartBatch(b) ==
  /\ build[b] = NoBuild /\ day \notin done
  /\ build' = [build EXCEPT ![b] = [NoBuild EXCEPT !.pc = "before", !.of = day]]
  /\ UNCHANGED << day, received, deleted, report, done, doubled, losses >>

CloseWeek(b) ==
  LET w == WeekOf(build[b].of) - 1 IN
  /\ build[b].pc = "before"
  /\ build' = [build EXCEPT ![b] = IF w < 0 \/ report[w] # Missing THEN [@ EXCEPT !.pc = "current"]
                                   ELSE Counted("closing", @.of, w)]
  /\ UNCHANGED << day, received, deleted, report, done, doubled, losses >>

(* Mutant of CountWeek: a row that is there is left alone.                  *)
CountWeekOnce(b) ==
  LET w == WeekOf(build[b].of) IN
  /\ build[b].pc = "current"
  /\ build' = [build EXCEPT ![b] = IF report[w] = Missing THEN Counted("refresh", @.of, w)
                                   ELSE [@ EXCEPT !.pc = "refresh", !.week = w, !.found = report[w], !.count = report[w]]]
  /\ doubled' = doubled \cup { w : c \in { c \in Batches \ {b} : build[c].pc # "idle" } }
  /\ UNCHANGED << day, received, deleted, report, done, losses >>

(* The current week is counted whether it has a row or not.                 *)
CountWeek(b) ==
  LET w == WeekOf(build[b].of) IN
  /\ build[b].pc = "current"
  /\ build' = [build EXCEPT ![b] = Counted("refresh", @.of, w)]
  /\ doubled' = doubled \cup { w : c \in { c \in Batches \ {b} : build[c].pc # "idle" } }
  /\ UNCHANGED << day, received, deleted, report, done, losses >>

(* Mutant of Store: a row that came meanwhile is written over.              *)
StoreAnyhow(b) == report' = [report EXCEPT ![build[b].week] = build[b].count]

Refused(b) == build[b].found = Missing /\ report[build[b].week] # Missing

(* report_week is unique: an insert after another's is refused.  An update  *)
(* writes what differs from the row that was found.                         *)
Store(b) ==
  report' = IF Refused(b) \/ build[b].count = build[b].found THEN report
            ELSE [report EXCEPT ![build[b].week] = build[b].count]

(* A refused batch ends; so does a visitor, with an error.                  *)
Write(b) ==
  LET pc == build[b].pc IN
  /\ pc \in {"first", "closing", "refresh"}
  /\ Store(b)
  /\ build' = [build EXCEPT ![b] = IF pc = "closing" /\ ~Refused(b) THEN [@ EXCEPT !.pc = "current"]
                                   ELSE NoBuild]
  /\ done' = IF pc = "refresh" /\ ~Refused(b) THEN done \cup {build[b].of} ELSE done
  /\ UNCHANGED << day, received, deleted, doubled, losses >>

(* The worker or the process of the request dies; the batch of a day may    *)
(* also never have run.                                                     *)
Lose(b) ==
  /\ build[b] # NoBuild /\ losses < MaxLosses
  /\ losses' = losses + 1 /\ build' = [build EXCEPT ![b] = NoBuild]
  /\ UNCHANGED << day, received, deleted, report, done, doubled >>

WeeklyNext ==
  \/ Tomorrow \/ Receive \/ \E d \in Days : DeleteRow(d)
  \/ \E v \in Visitors : Visit(v)
  \/ \E b \in Batches : StartBatch(b) \/ CloseWeek(b) \/ CountWeek(b)
  \/ \E b \in Visitors \cup Batches : Write(b) \/ Lose(b)

-----------------------------------------------------------------------------
(* Properties *)

WeeklyTypeOK ==
  /\ day \in Days /\ {received, deleted} \subseteq [Days -> 0..MaxJobs]
  /\ \A w \in Weeks : report[w] \in Nat \cup {Missing}
  /\ done \subseteq Days /\ doubled \subseteq Weeks /\ losses \in 0..MaxLosses

(* A week's report counts its own inspections and no others, whoever asked  *)
(* for it first and however long the narrative took: it never shows more    *)
(* than are there and were deleted.                                         *)
WeekCountsItsOwn ==
  \A w \in Weeks : LET week == { d \in Days : WeekOf(d) = w } IN
    report[w] <= Received(week) + Deleted(week)

(* A batch that ended well has left a report of the week before, and one of *)
(* its own week with everything still there from before the night it began, *)
(* in spite of visitors who opened it, unless another batch worked on it.   *)
BatchIsFresh ==
  \A d \in done : LET w == WeekOf(d) IN
    /\ w > 0 => report[w - 1] # Missing
    /\ w \notin doubled => report[w] >= Received({ e \in Days : WeekOf(e) = w /\ e < d })

(* A report shows less than before only by inspections of its week that     *)
(* were deleted, unless two batches worked on it.                           *)
ReportsKeepTheirRows ==
  [][\A w \in Weeks :
       report'[w] + Deleted({ d \in Days : WeekOf(d) = w }) >= report[w] \/ w \in doubled]_weeklyVars

(* The weekly report can be trusted on a Monday: it counts its week, it is  *)
(* brought up to date every night, and loses nothing that is there.         *)
WeeklyIsRight == []WeekCountsItsOwn /\ []BatchIsFresh /\ ReportsKeepTheirRows
=============================================================================
