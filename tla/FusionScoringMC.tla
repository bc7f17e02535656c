--------------------------- MODULE FusionScoringMC ---------------------------
(***************************************************************************)
(* The computations without state: the fusion score over a grid of         *)
(* statuses with every boundary of the tiers in it, and the computations   *)
(* its sources rest on, over bounded inputs. A state is an input of one of *)
(* them; a step gives a source another status, adds a box to the frame or  *)
(* a reading to the day, or takes another weather code.                    *)
(***************************************************************************)
EXTENDS DailySummary, Detection, WeatherCodes, Reports

VARIABLES in, th, boxes, day, code, log

Visuals == {Absent} \cup [status : Statuses, tier : {"none"}]
Waters == {Absent} \cup [pct : {0, 499, 500, 749, 750, 899, 900, 1200},
                         rate : {-150, 0, 100, 101, 200}]
Weathers == {Absent} \cup [precip : {0, 99, 100, 254, 255, 749, 750}]

Seed == [tier_2_min |-> 44, tier_2_max |-> 75, tier_3_min |-> 76]

Grid == [visual : Visuals, water : Waters, weather : Weathers]

\* A frame of three by two pixels, and boxes that reach over its edges.
Width == 3
Height == 2
FrameBoxes == {[x1 |-> s[1], x2 |-> s[2], y1 |-> v[1], y2 |-> v[2]] :
           s \in {t \in {-1, 1, 2, 4, 5, 7} \X {-1, 1, 2, 4, 5, 7} : t[1] < t[2]},
           v \in {<<0, 2>>, <<0, 4>>, <<2, 2>>}}
MaxBoxes == 3

\* Two of the times are as far from a third, and two are MaxGap apart.
DayTimes == {0, 10, 20, 25}
MaxOfSource == 2
NoDay == [sensors |-> <<>>, models |-> <<>>, weathers |-> <<>>]

\* The sources of codes: the ids of OpenWeatherMap, the codes of WeatherAPI.
Codes == [provider : {"owm"}, id : 200 .. 804]
           \cup [provider : {"weatherapi"}, id : 1000 .. 1282]
NoCode == [provider |-> "owm", id |-> 800]

\* Three deliveries to two responders; a third was never notified.
Notified == {1, 3}
Staff == {1, 2, 3}
MaxLog == 3

NoInput == [visual |-> Absent, water |-> Absent, weather |-> Absent]

Init ==
  /\ in \in Grid
  /\ th = Seed
  /\ boxes = <<>> /\ day = NoDay /\ code = NoCode /\ log = <<>>

\* One source delivers another reading.
Deliver ==
  /\ boxes = <<>> /\ day = NoDay /\ code = NoCode /\ log = <<>>
  /\ \/ \E v \in Visuals : in' = [in EXCEPT !.visual = v]
     \/ \E v \in Waters : in' = [in EXCEPT !.water = v]
     \/ \E v \in Weathers : in' = [in EXCEPT !.weather = v]
  /\ UNCHANGED <<th, boxes, day, code, log>>

\* The network finds another box, of a lower score.
Detect ==
  /\ in = NoInput /\ day = NoDay /\ code = NoCode /\ log = <<>>
  /\ Len(boxes) < MaxBoxes
  /\ \E b \in FrameBoxes : boxes' = Append(boxes, b)
  /\ UNCHANGED <<in, th, day, code, log>>

\* A source has another reading, later than its last.
Later(readings, r) ==
  /\ Len(readings) < MaxOfSource
  /\ \A i \in DOMAIN readings : readings[i].time < r.time

Happen ==
  /\ in = NoInput /\ boxes = <<>> /\ code = NoCode /\ log = <<>>
  /\ \/ \E r \in [time : DayTimes, pct : {400, 900}] :
          Later(day.sensors, r) /\ day' = [day EXCEPT !.sensors = Append(@, r)]
     \/ \E r \in [time : DayTimes, status : {"partial", "blocked"}] :
          Later(day.models, r) /\ day' = [day EXCEPT !.models = Append(@, r)]
     \/ \E r \in {[time |-> t, code |-> w[1], precip |-> w[2]] :
                  t \in DayTimes, w \in {<<3, 0>>, <<65, 750>>}} :
          Later(day.weathers, r) /\ day' = [day EXCEPT !.weathers = Append(@, r)]
  /\ UNCHANGED <<in, th, boxes, code, log>>

\* A provider reports another code.
Report ==
  /\ in = NoInput /\ boxes = <<>> /\ day = NoDay /\ log = <<>>
  /\ code' \in Codes
  /\ UNCHANGED <<in, th, boxes, day, log>>

\* A responder is notified, and answers or not. Nothing keeps one from answering
\* a delivery that failed.
Notify ==
  /\ in = NoInput /\ boxes = <<>> /\ day = NoDay /\ code = NoCode
  /\ Len(log) < MaxLog
  /\ \E d \in [to : Notified, type : {"warning", "critical"}, status : {"sent", "failed"},
               response : {NoResponse, 0, 30}] : log' = Append(log, d)
  /\ UNCHANGED <<in, th, boxes, day, code>>

\* The next frame, the next day, another log.
Anew ==
  /\ boxes # <<>> \/ day # NoDay \/ log # <<>>
  /\ boxes' = <<>> /\ day' = NoDay /\ log' = <<>>
  /\ UNCHANGED <<in, th, code>>

Next == Deliver \/ Detect \/ Happen \/ Report \/ Notify \/ Anew

Spec == Init /\ [][Next]_<<in, th, boxes, day, code, log>>

\* With the seeded tiers no single sensor makes a level Critical, nor does a
\* sensor the anomaly engine suspects (calculate_fusion_data).
CriticalIsCorroborated == Corroborated(in, th)

\* A reading that makes a source worse never lowers the level, unless it makes
\* a source suspect: the tiers of the three scores are in order, and so are
\* the alert tiers (calc_*_score, alert_thresholds).
WorseNeverCalms ==
  [][Worse(in, in') /\ Anomalies(in') \cap SuspectSources = {}
       => AlertRank(CalculateFusionData(in', th).alert_name)
            >= AlertRank(CalculateFusionData(in, th).alert_name)]_<<in, th>>

\* "Union of detection-box widths over the full frame width, as a percentage"
\* (_compute_coverage_pct): the merge of the spans counts every column once,
\* and suppression drops a box only for a better one that it overlaps.
CoverageIsUnion == IsUnion(boxes, Width, Height)

\* Every code that comes from a provider has a condition to show and a severity
\* for the daily summary, which puts what is wet over what is dry; the groups
\* that OpenWeatherMap gives to thunder, drizzle and rain end up wet.
WmoOf(c) == IF c.provider = "owm" THEN OwmIdToWmo(c.id) ELSE WeatherApiCodeToWmo(c.id)

CodesAreKnown ==
  LET wmo == WmoOf(code)
      wet == WeatherCondition(wmo) \in Wet
  IN /\ wmo \in DOMAIN SeverityRank /\ WeatherCondition(wmo) # "Unknown"
     /\ wet => \A dry \in 0 .. 48 : WmoSeverity(dry) < WmoSeverity(wmo)
     /\ code.provider = "owm" /\ code.id < 600 /\ code.id \notin 400 .. 499 => wet
     /\ \A heavy, windy \in BOOLEAN :
          StormRiskLevel(wmo, heavy, windy) = "Likely" <=> WeatherCondition(wmo) = "Thunderstorm"

\* A reading of a day is matched with "the closest reading within
\* max_gap_minutes" of the other sources, and the risks of a summary fit the
\* extremes it gives for the same day (summary_generator.py).
SummaryIsExplained == IsExplained(day)

\* What the tables, the notification log and the charts show is what there is,
\* each row once ("Fetch one extra to determine has_more"), and the numbers of
\* the one agree with those of the other (notification_log.py). A frame is not
\* an input of theirs.
ReportsAddUp ==
  boxes = <<>> =>
    /\ \A size \in {1, 2} :
         /\ TablesAreComplete(log, Staff, day.sensors, size)
         /\ \A r \in Staff : AlertsAreComplete(log, r, size)
    /\ CountsAgree(log, Staff)
    /\ \A start \in {0, 3, 10}, interval \in {5, 10} : TrendShows(day.sensors, start, 25, interval)
=============================================================================
