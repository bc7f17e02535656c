---------------------------- MODULE FusionScoring ----------------------------
(***************************************************************************)
(* The fusion score: app/core/fusion_scoring.py and the tiers of           *)
(* app/utils/summary_utils.py, as operators without state.                 *)
(*                                                                         *)
(* Quantities keep the resolution the code rounds them to, as integers:    *)
(*   pct     percentage of the critical level, in tenths of a percent      *)
(*   rate    change since the previous reading, in hundredths of a cm      *)
(*   precip  precipitation, in hundredths of a mm                          *)
(* The sentences of triggered_conditions are wording and are left out.     *)
(***************************************************************************)
EXTENDS Integers

CONSTANT Absent   \* the None of a source that has delivered nothing

Tiers == {"clear", "possible", "likely", "confirmed"}
Statuses == {"clear", "partial", "blocked"}

\* A BlockageStatus; tier "none" is a status without a confidence object.
VisualStatus == [status : Statuses, tier : Tiers \cup {"none"}]

\* A WaterLevelStatus; its trend is a function of its rate (TrendRising).
WaterStatus == [pct : Nat, rate : Int]

WeatherStatus == [precip : Nat]

ASSUME AbsentAssumption ==
  /\ Absent \notin VisualStatus
  /\ Absent \notin WaterStatus
  /\ Absent \notin WeatherStatus

\* The three statuses a fusion score is computed from.
Inputs == [visual  : VisualStatus \cup {Absent},
           water   : WaterStatus \cup {Absent},
           weather : WeatherStatus \cup {Absent}]

\* alert_thresholds; nothing validates their order.
ThresholdSettings == [tier_2_min : Int, tier_2_max : Int, tier_3_min : Int]

SuspectSources == {"OBSTRUCTED_SENSOR", "BLIND_CAMERA", "STALE_SENSOR"}
AnomalyType == SuspectSources \cup {"GHOST_FLOOD"}
AlertNames == {"Unavailable", "Normal", "Warning", "Critical"}
FusionData == [alert_name : AlertNames, combined_risk_score : Int,
               anomalies : SUBSET AnomalyType]

\* The tier itself taken for a status.
TierAsStatus(tier) == tier

\* The coarse status a confidence tier stands for.
StatusFromTier(tier) ==
  IF tier \in {"likely", "confirmed"} THEN "blocked"
  ELSE IF tier = "possible" THEN "partial"
  ELSE "clear"

-----------------------------------------------------------------------------
\* The two middle tiers in the wrong order.
WaterScoreSwapped(pct) ==
  IF pct < 500 THEN 10
  ELSE IF pct < 750 THEN 30
  ELSE IF pct < 900 THEN 20
  ELSE 45

WaterScore(pct) ==
  IF pct < 500 THEN 10
  ELSE IF pct < 750 THEN 20
  ELSE IF pct < 900 THEN 30
  ELSE 45

BlockageScore(status) ==
  IF status = "blocked" THEN 30
  ELSE IF status = "partial" THEN 20
  ELSE 0

WeatherScore(precip) ==
  IF precip >= 750 THEN 20
  ELSE IF precip >= 255 THEN 15
  ELSE IF precip >= 100 THEN 8
  ELSE 0

\* A rise of more than 1 cm is the trend "rising".
TrendRising(water) == water.rate > 100

-----------------------------------------------------------------------------
(***************************************************************************)
(* The anomaly engine: contradictions between two or three sources. A      *)
(* missing source contradicts nothing.                                     *)
(***************************************************************************)
BlockageIs(in, status) == in.visual # Absent /\ in.visual.status = status
WeatherClear(in) == in.weather # Absent /\ in.weather.precip < 100
WeatherHeavy(in) == in.weather # Absent /\ in.weather.precip >= 750
WaterCritical(in) == in.water # Absent /\ in.water.pct >= 900
WaterLow(in) == in.water # Absent /\ in.water.pct < 500
WaterDeadFlat(in) == in.water # Absent /\ in.water.rate = 0
WaterRisingFast(in) == in.water # Absent /\ in.water.rate >= 200

Detected(in, anomaly) ==
  CASE anomaly = "OBSTRUCTED_SENSOR" ->
         WaterCritical(in) /\ BlockageIs(in, "clear") /\ WeatherClear(in)
    [] anomaly = "BLIND_CAMERA" ->
         BlockageIs(in, "blocked") /\ WaterLow(in) /\ WeatherHeavy(in)
    [] anomaly = "STALE_SENSOR" ->
         WaterDeadFlat(in) /\ WeatherHeavy(in)
    [] anomaly = "GHOST_FLOOD" ->
         WaterRisingFast(in) /\ BlockageIs(in, "clear") /\ WeatherClear(in)

Anomalies(in) == {a \in AnomalyType : Detected(in, a)}

-----------------------------------------------------------------------------
(***************************************************************************)
(* The score, with its circuit breakers: a source an anomaly casts doubt   *)
(* on adds nothing.                                                        *)
(***************************************************************************)
VisualPart(in) ==
  IF in.visual = Absent \/ Detected(in, "BLIND_CAMERA")
    THEN 0
    ELSE BlockageScore(in.visual.status)

\* A dead sensor keeps its points: a slip of the breaker condition.
WaterPartStaleCounted(in) ==
  IF in.water = Absent \/ Detected(in, "OBSTRUCTED_SENSOR")
    THEN 0
    ELSE WaterScore(in.water.pct) + (IF TrendRising(in.water) THEN 5 ELSE 0)

WaterPart(in) ==
  IF \/ in.water = Absent
     \/ Detected(in, "OBSTRUCTED_SENSOR")
     \/ Detected(in, "STALE_SENSOR")
    THEN 0
    ELSE WaterScore(in.water.pct) + (IF TrendRising(in.water) THEN 5 ELSE 0)

WeatherPart(in) ==
  IF in.weather = Absent THEN 0 ELSE WeatherScore(in.weather.precip)

Score(in) == VisualPart(in) + WaterPart(in) + WeatherPart(in)

\* Warning is tested first; a score between two tiers falls back to Normal.
AlertName(score, th) ==
  IF th.tier_2_min <= score /\ score <= th.tier_2_max THEN "Warning"
  ELSE IF th.tier_3_min <= score THEN "Critical"
  ELSE "Normal"

AllUnavailable(in) ==
  in.visual = Absent /\ in.water = Absent /\ in.weather = Absent

CalculateFusionData(in, th) ==
  IF AllUnavailable(in)
    THEN [alert_name |-> "Unavailable", combined_risk_score |-> 0,
          anomalies |-> {}]
    ELSE [alert_name |-> AlertName(Score(in), th),
          combined_risk_score |-> Score(in),
          anomalies |-> Anomalies(in)]

-----------------------------------------------------------------------------
(***************************************************************************)
(* What the score promises.                                                *)
(***************************************************************************)

\* Two tiers that leave no score between them and are in order, as seeded.
Contiguous(th) ==
  /\ th.tier_2_min <= th.tier_2_max
  /\ th.tier_3_min = th.tier_2_max + 1

AlertRank(name) ==
  IF name = "Critical" THEN 2 ELSE IF name = "Warning" THEN 1 ELSE 0

Severity(status) ==
  IF status = "blocked" THEN 2 ELSE IF status = "partial" THEN 1 ELSE 0

\* The second set of statuses is the first with some source worse: more
\* obstruction, a higher level that rises no less, more rain, or a source
\* that now delivers.
Worse(in, in2) ==
  /\ in.visual # Absent =>
       /\ in2.visual # Absent
       /\ Severity(in2.visual.status) >= Severity(in.visual.status)
  /\ in.water # Absent =>
       /\ in2.water # Absent
       /\ in2.water.pct >= in.water.pct
       /\ in2.water.rate >= in.water.rate
  /\ in.weather # Absent =>
       /\ in2.weather # Absent
       /\ in2.weather.precip >= in.weather.precip

\* Critical, under tiers that start no lower than the seeded 76, is a level of
\* the camera and the water together, and of neither when it is suspect.
Corroborated(in, th) ==
  CalculateFusionData(in, th).alert_name = "Critical" =>
    /\ Anomalies(in) \cap SuspectSources = {}
    /\ in.visual # Absent /\ in.visual.status # "clear"
    /\ in.water # Absent /\ in.water.pct >= 750
=============================================================================
