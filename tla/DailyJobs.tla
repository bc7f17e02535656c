------------------------------- MODULE DailyJobs -------------------------------
(***************************************************************************)
(* The two nightly jobs of the scheduler (scheduler.py): the summaries of   *)
(* the day that has ended (daily_summary/service.py), at midnight, and the  *)
(* deletion of old readings, at one. Both await the database at every step *)
(* and may overlap; the summaries of a run are made one location at a time. *)
(*                                                                         *)
(* The readings of a day are those of three sources, early (until two, when *)
(* the deletion has read the clock at the latest) and late. A summary is    *)
(* known by the readings it was made from.                                  *)
(***************************************************************************)
EXTENDS Integers, Sequences

CONSTANTS
  LastSite,   \* locations are 1 .. LastSite, in the order of get_all_location_ids
  LastDay,    \* bound on the days
  Retentions, \* values of data_retention_days
  NoSummary   \* no row

ASSUME JobsAssumption ==
  /\ LastSite \in Nat \ {0} /\ LastDay \in Nat \ {0}
  /\ Retentions \subseteq Nat \ {0}

Sites == 1 .. LastSite
Days == 1 .. LastDay
Sources == <<"sensor", "model", "weather">>
DayReadings == [source : {"sensor", "model", "weather"}, part : {"early", "late"}]

\* No row is something else than a summary of no readings.
ASSUME NoSummaryAssumption == \A readings \in SUBSET DayReadings : readings # NoSummary

Of(source, readings) == {r \in readings : r.source = source}

VARIABLES
  today,     \* the local date
  hour,      \* midnight is until one, one until two, rest the rest of the day
  up,        \* the process runs
  due,       \* jobs whose time has come and that have not begun
  arrived,   \* days of a site whose readings have arrived
  tables,    \* the readings the database has
  summaries, \* daily_summaries: what a summary was made from
  retention, \* data_retention_days
  job,       \* the summary job: day, site, place, source and what it has found
  cleaning,  \* the deletion: next source and cutoff
  owed,      \* what had arrived when a summary was begun
  lost,      \* summaries a run gave up, or that no run was there for
  short      \* days whose readings were deleted under a retention of one day

jobVars == <<today, hour, up, due, arrived, tables, summaries, retention, job, cleaning, owed,
             lost, short>>

NoJob == [day |-> 0, site |-> 0, place |-> "none", next |-> 1, found |-> {}]
NoCleaning == [next |-> 0, day |-> 0, early |-> FALSE]

JobsTypeOK ==
  /\ today \in Days
  /\ hour \in {"midnight", "one", "rest"}
  /\ up \in BOOLEAN
  /\ due \subseteq {"summary", "cleaning"}
  /\ arrived \subseteq Sites \X Days
  /\ tables \in [Sites \X Days -> SUBSET DayReadings]
  /\ summaries \in [Sites \X Days -> (SUBSET DayReadings) \cup {NoSummary}]
  /\ retention \in Retentions
  /\ job \in [day : Days, site : Sites, place : {"check", "query", "save"},
              next : 1 .. Len(Sources) + 1, found : SUBSET DayReadings] \cup {NoJob}
  /\ cleaning \in [next : 0 .. Len(Sources), day : Int, early : BOOLEAN]
  /\ owed \in [Sites \X Days -> SUBSET DayReadings]
  /\ lost \subseteq Sites \X Days
  /\ short \subseteq Days

JobsInit ==
  /\ today = 1 /\ hour = "rest" /\ up = TRUE
  /\ due = {} /\ arrived = {}
  /\ tables = [k \in Sites \X Days |-> {}]
  /\ summaries = [k \in Sites \X Days |-> NoSummary]
  /\ retention \in Retentions
  /\ job = NoJob /\ cleaning = NoCleaning
  /\ owed = [k \in Sites \X Days |-> {}]
  /\ lost = {} /\ short = {}

-----------------------------------------------------------------------------
(***************************************************************************)
(* midnight_summary_job                                                    *)
(***************************************************************************)

\* The day that has just begun.
TargetToday == today

\* "The cron fires at 00:00 local time, so the completed day is yesterday."
Target == today - 1

\* The run is about to look at a location.
RunAt(d, l) == [day |-> d, site |-> l, place |-> "check", next |-> 1, found |-> {}]

StartSummaries ==
  /\ up /\ "summary" \in due
  /\ due' = due \ {"summary"}
  /\ job' = RunAt(Target, 1)
  /\ UNCHANGED <<today, hour, up, arrived, tables, summaries, retention, cleaning, owed, lost,
                 short>>

\* The run goes on with the next location, or is over.
NextSite ==
  IF job.site = LastSite THEN NoJob ELSE RunAt(job.day, job.site + 1)

Here == <<job.site, job.day>>

\* A location that has a summary is skipped.
CheckExisting ==
  /\ job.place = "check"
  /\ IF summaries[Here] # NoSummary
       THEN job' = NextSite /\ UNCHANGED owed
       ELSE /\ job' = [job EXCEPT !.place = "query"]
            /\ owed' = [owed EXCEPT ![Here] = tables[Here]]
  /\ UNCHANGED <<today, hour, up, due, arrived, tables, summaries, retention, cleaning, lost,
                 short>>

\* generate_summary_for_location: one query for each source.
QuerySource ==
  /\ job.place = "query"
  /\ LET readings == Of(Sources[job.next], tables[Here]) IN
       job' = [job EXCEPT !.found = @ \cup readings, !.next = @ + 1,
                          !.place = IF job.next = Len(Sources) THEN "save" ELSE "query"]
  /\ UNCHANGED <<today, hour, up, due, arrived, tables, summaries, retention, cleaning, owed,
                 lost, short>>

\* A row that has come in between makes an IntegrityError, which is no error.
SaveSummary ==
  /\ job.place = "save"
  /\ summaries' = [summaries EXCEPT ![Here] = IF @ = NoSummary THEN job.found ELSE @]
  /\ job' = NextSite
  /\ UNCHANGED <<today, hour, up, due, arrived, tables, retention, cleaning, owed, lost, short>>

\* What the run will not summarise any more, if it ends here.
GivenUp == {k \in Sites \X Days : k[2] = job.day /\ k[1] >= job.site}

\* Any other exception ends the run for this location and those after it.
SummariesRaise ==
  /\ job # NoJob
  /\ job' = NoJob
  /\ lost' = lost \cup GivenUp
  /\ UNCHANGED <<today, hour, up, due, arrived, tables, summaries, retention, cleaning, owed,
                 short>>

-----------------------------------------------------------------------------
(***************************************************************************)
(* data_cleanup_job. Evacuation has the pruning of its events.             *)
(***************************************************************************)

\* A retention that counts the day itself.
CutoffSooner(days) == today - days + 1

\* now - timedelta(days=...): that day's readings until the hour it is now, and
\* all of the days before.
Cutoff(days) == today - days

StartCleaning ==
  /\ up /\ "cleaning" \in due
  /\ due' = due \ {"cleaning"}
  /\ \E early \in BOOLEAN :
       cleaning' = [next |-> 1, day |-> Cutoff(retention), early |-> early]
  /\ short' = IF retention = 1 THEN short \cup {today - 1} ELSE short
  /\ UNCHANGED <<today, hour, up, arrived, tables, summaries, retention, job, owed, lost>>

\* Nearly every reading before the hour of the cutoff, or hardly one.
Outdated(d) ==
  IF d < cleaning.day THEN DayReadings
  ELSE IF d = cleaning.day /\ cleaning.early THEN {r \in DayReadings : r.part = "early"}
  ELSE {}

DeleteOlder ==
  /\ cleaning.next # 0
  /\ tables' = [k \in Sites \X Days |-> tables[k] \ Of(Sources[cleaning.next], Outdated(k[2]))]
  /\ cleaning' = IF cleaning.next = Len(Sources) THEN NoCleaning
                                                 ELSE [cleaning EXCEPT !.next = @ + 1]
  /\ UNCHANGED <<today, hour, up, due, arrived, summaries, retention, job, owed, lost, short>>

\* Each deletion is a transaction of its own: those before the error stay.
CleaningRaises ==
  /\ cleaning.next # 0
  /\ cleaning' = NoCleaning
  /\ UNCHANGED <<today, hour, up, due, arrived, tables, summaries, retention, job, owed, lost,
                 short>>

-----------------------------------------------------------------------------
(***************************************************************************)
(* Readings, settings, time and crashes.                                   *)
(***************************************************************************)

\* The readings of a day arrive in the course of it, or after midnight.
Arrive(l, d) ==
  /\ <<l, d>> \notin arrived
  /\ \/ d = today /\ hour = "rest"
     \/ d = today - 1
  /\ arrived' = arrived \cup {<<l, d>>}
  /\ tables' = [tables EXCEPT ![<<l, d>>] = DayReadings]
  /\ UNCHANGED <<today, hour, up, due, summaries, retention, job, cleaning, owed, lost, short>>

UpdateRetention ==
  /\ \E r \in Retentions \ {retention} : retention' = r
  /\ UNCHANGED <<today, hour, up, due, arrived, tables, summaries, job, cleaning, owed, lost,
                 short>>

\* A script makes up the summaries that a location lacks, and they lack nothing.
\* It may run while the job is at it.
SeedSummaries(l) ==
  /\ \E d \in 1 .. today - 1 : summaries[<<l, d>>] = NoSummary
  /\ summaries' = [k \in Sites \X Days |->
                    IF k[1] = l /\ k[2] < today /\ summaries[k] = NoSummary THEN DayReadings
                                                                          ELSE summaries[k]]
  /\ UNCHANGED <<today, hour, up, due, arrived, tables, retention, job, cleaning, owed, lost,
                 short>>

\* The jobs are kept in memory: one whose time comes while the process is down
\* is not made up for. A run ends before the next day.
NewDay ==
  /\ hour = "rest" /\ today < LastDay
  /\ job = NoJob /\ cleaning = NoCleaning
  /\ today' = today + 1 /\ hour' = "midnight"
  /\ due' = IF up THEN {"summary"} ELSE {}
  /\ lost' = IF up THEN lost ELSE lost \cup (Sites \X {today})
  /\ UNCHANGED <<up, arrived, tables, summaries, retention, job, cleaning, owed, short>>

\* A job begins within the hour of its misfire_grace_time.
HourPasses ==
  /\ hour # "rest" /\ due = {}
  /\ hour' = IF hour = "midnight" THEN "one" ELSE "rest"
  /\ due' = IF hour = "midnight" /\ up THEN {"cleaning"} ELSE {}
  /\ UNCHANGED <<today, up, arrived, tables, summaries, retention, job, cleaning, owed, lost,
                 short>>

Crash ==
  /\ up
  /\ up' = FALSE
  /\ due' = {}
  /\ job' = NoJob /\ cleaning' = NoCleaning
  /\ lost' = lost \cup GivenUp \cup (IF "summary" \in due THEN Sites \X {today - 1} ELSE {})
  /\ UNCHANGED <<today, hour, arrived, tables, summaries, retention, owed, short>>

Start ==
  /\ ~up
  /\ up' = TRUE
  /\ UNCHANGED <<today, hour, due, arrived, tables, summaries, retention, job, cleaning, owed,
                 lost, short>>

JobsNext ==
  \/ StartSummaries \/ CheckExisting \/ QuerySource \/ SaveSummary \/ SummariesRaise
  \/ StartCleaning \/ DeleteOlder \/ CleaningRaises
  \/ \E l \in Sites, d \in Days : Arrive(l, d)
  \/ \E l \in Sites : SeedSummaries(l)
  \/ UpdateRetention \/ NewDay \/ HourPasses \/ Crash \/ Start

JobsSpec == JobsInit /\ [][JobsNext]_jobVars

-----------------------------------------------------------------------------
(***************************************************************************)
(* Properties.                                                             *)
(***************************************************************************)

\* The run for a day is over, or was never to be.
Over(d) == d < today /\ job.day # d /\ ~(d = today - 1 /\ "summary" \in due)

\* "Generate daily summaries for the day that just ended" (scheduler.py): once
\* the run for a day is over, each location has its summary, unless the process
\* was down, or the run raised at this location or at one before it; and the
\* summary lacks no reading that was there when it was begun, however slowly the
\* run goes on beside the deletion, unless readings are kept for one day only.
DaysAreSummarised ==
  \A k \in Sites \X Days :
    /\ Over(k[2]) /\ k \notin lost => summaries[k] # NoSummary
    /\ summaries[k] # NoSummary /\ k[2] \notin short => owed[k] \subseteq summaries[k]
=============================================================================
