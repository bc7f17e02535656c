----------------------------- MODULE DailySummary -----------------------------
(***************************************************************************)
(* The summary of one location and day (summary_generator.py and the tiers  *)
(* of summary_utils.py), computed from the readings of three sources.       *)
(* Operators without state.                                                 *)
(*                                                                         *)
(* Readings come in the order of their times, which are in minutes:        *)
(*   sensors   [time, pct]           pct of the critical level, in tenths  *)
(*   models    [time, status]                                              *)
(*   weathers  [time, code, precip]  precip in hundredths of a mm          *)
(***************************************************************************)
EXTENDS FusionScoring, Sequences

\* What is not in a summary.
NoValue == [missing |-> TRUE]

BlockageSeverity(status) ==
  CASE status = "clear" -> 0 [] status = "partial" -> 1 [] status = "blocked" -> 2

\* WMO_SEVERITY_RANK
RankedCodes == {0, 1, 2, 3, 45, 48, 51, 53, 55, 56, 57, 61, 63, 65, 66, 67, 71, 73, 75, 77,
                80, 81, 82, 85, 86, 95, 96, 99}

SeverityRank == [c \in RankedCodes |->
  CASE c \in {0, 1, 2, 3} -> 0
    [] c \in {45, 48} -> 1
    [] c \in {51, 71, 77} -> 2
    [] c \in {53, 56, 73, 85} -> 3
    [] c \in {55, 57, 75, 86} -> 4
    [] c \in {61, 66, 80} -> 5
    [] c = 63 -> 6
    [] c = 81 -> 7
    [] c \in {65, 67} -> 8
    [] c \in {82, 95} -> 9
    [] c = 96 -> 10
    [] c = 99 -> 11]

WmoSeverity(code) == IF code \in DOMAIN SeverityRank THEN SeverityRank[code] ELSE 0

\* min() and max() with a key: the place of the first of several.
Least(keys) == CHOOSE i \in DOMAIN keys :
  \A j \in DOMAIN keys : keys[i] < keys[j] \/ (keys[i] = keys[j] /\ i <= j)
Most(keys) == CHOOSE i \in DOMAIN keys :
  \A j \in DOMAIN keys : keys[i] > keys[j] \/ (keys[i] = keys[j] /\ i <= j)

WaterLevelSummary(sensors) ==
  LET levels == [i \in DOMAIN sensors |-> sensors[i].pct]
      lowest == sensors[Least(levels)]
      highest == sensors[Most(levels)]
  IN [min_level |-> lowest.pct, min_time |-> lowest.time,
      max_level |-> highest.pct, max_time |-> highest.time]

ModelReadingsSummary(models) ==
  LET severities == [i \in DOMAIN models |-> BlockageSeverity(models[i].status)]
  IN [least_severe |-> models[Least(severities)].status,
      most_severe |-> models[Most(severities)].status]

WeatherSummary(weathers) ==
  LET rain == [i \in DOMAIN weathers |-> weathers[i].precip]
      severities == [i \in DOMAIN weathers |-> WmoSeverity(weathers[i].code)]
  IN [min_precip |-> weathers[Least(rain)].precip, max_precip |-> weathers[Most(rain)].precip,
      most_severe_code |-> weathers[Most(severities)].code]

-----------------------------------------------------------------------------
(***************************************************************************)
(* calculate_risk_scores                                                   *)
(***************************************************************************)
MaxGap == 15
Distance(a, b) == IF a > b THEN a - b ELSE b - a

\* A later reading takes a tie.
NearerLastTie(best, r, time) ==
  IF Distance(r.time, time) <= best.diff
    THEN [diff |-> Distance(r.time, time), found |-> <<r>>]
    ELSE best

\* Only a smaller distance replaces the best so far.
Nearer(best, r, time) ==
  IF Distance(r.time, time) < best.diff
    THEN [diff |-> Distance(r.time, time), found |-> <<r>>]
    ELSE best

Nearest(readings, time) ==
  LET best[n \in 0 .. Len(readings)] ==
        IF n = 0 THEN [diff |-> MaxGap, found |-> <<>>] ELSE Nearer(best[n - 1], readings[n], time)
  IN best

\* The closest reading, in a sequence of one, or of none.
FindClosest(readings, time) == Nearest(readings, time)[Len(readings)].found

ClosestBlockage(models, time) ==
  LET closest == FindClosest(models, time)
  IN IF closest = <<>> THEN 0 ELSE BlockageScore(closest[1].status)

ClosestWeather(weathers, time) ==
  LET closest == FindClosest(weathers, time)
  IN IF closest = <<>> THEN 0 ELSE WeatherScore(closest[1].precip)

\* The readings that are scored are those of the first source that has any.
Scores(day) ==
  IF day.sensors # <<>>
    THEN [i \in DOMAIN day.sensors |->
            [time |-> day.sensors[i].time,
             score |-> WaterScore(day.sensors[i].pct)
                         + ClosestBlockage(day.models, day.sensors[i].time)
                         + ClosestWeather(day.weathers, day.sensors[i].time)]]
  ELSE IF day.models # <<>>
    THEN [i \in DOMAIN day.models |->
            [time |-> day.models[i].time,
             score |-> BlockageScore(day.models[i].status)
                         + ClosestWeather(day.weathers, day.models[i].time)]]
  ELSE [i \in DOMAIN day.weathers |->
          [time |-> day.weathers[i].time, score |-> WeatherScore(day.weathers[i].precip)]]

RiskScores(day) ==
  LET scores == Scores(day)
      risks == [i \in DOMAIN scores |-> scores[i].score]
      lowest == scores[Least(risks)]
      highest == scores[Most(risks)]
  IN [min_risk |-> lowest.score, min_risk_time |-> lowest.time,
      max_risk |-> highest.score, max_risk_time |-> highest.time]

\* generate_summary_for_location: each part is there if its readings are.
Part(readings, Summary(_)) == IF readings = <<>> THEN NoValue ELSE Summary(readings)

Summarised(day) ==
  [water |-> Part(day.sensors, WaterLevelSummary),
   blockage |-> Part(day.models, ModelReadingsSummary),
   weather |-> Part(day.weathers, WeatherSummary),
   risk |-> IF day.sensors = <<>> /\ day.models = <<>> /\ day.weathers = <<>>
              THEN NoValue ELSE RiskScores(day)]

-----------------------------------------------------------------------------
(***************************************************************************)
(* What it promises.                                                       *)
(***************************************************************************)

\* "Find reading closest to target_time within max_gap_minutes", the earlier
\* one of two: said without a loop.
IsClosest(readings, time, r) ==
  /\ Distance(r.time, time) < MaxGap
  /\ \A i \in DOMAIN readings :
       \/ Distance(r.time, time) < Distance(readings[i].time, time)
       \/ Distance(r.time, time) = Distance(readings[i].time, time) /\ r.time <= readings[i].time

Matched(readings, time) ==
  IF \E i \in DOMAIN readings : Distance(readings[i].time, time) < MaxGap
    THEN \E i \in DOMAIN readings : /\ FindClosest(readings, time) = <<readings[i]>>
                                    /\ IsClosest(readings, time, readings[i])
    ELSE FindClosest(readings, time) = <<>>

\* The risks of the summary fit its extremes, which are computed apart.
WorstBlockage(s) ==
  IF s.blockage = NoValue THEN 0 ELSE BlockageScore(s.blockage.most_severe)
WorstWeather(s) == IF s.weather = NoValue THEN 0 ELSE WeatherScore(s.weather.max_precip)

RisksFitExtremes(s) ==
  /\ s.risk = NoValue <=> s.water = NoValue /\ s.blockage = NoValue /\ s.weather = NoValue
  /\ s.water # NoValue =>
       /\ s.risk.min_risk >= WaterScore(s.water.min_level)
       /\ s.risk.max_risk >= WaterScore(s.water.max_level)
       /\ s.risk.max_risk
            <= WaterScore(s.water.max_level) + WorstBlockage(s) + WorstWeather(s)
  /\ s.water = NoValue /\ s.blockage # NoValue =>
       /\ s.risk.max_risk >= WorstBlockage(s)
       /\ s.risk.max_risk <= WorstBlockage(s) + WorstWeather(s)

IsExplained(day) ==
  /\ \A i \in DOMAIN day.sensors :
       /\ Matched(day.models, day.sensors[i].time)
       /\ Matched(day.weathers, day.sensors[i].time)
  /\ RisksFitExtremes(Summarised(day))
=============================================================================
