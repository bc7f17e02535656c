------------------------- MODULE FusionScoringProofs -------------------------
(***************************************************************************)
(* What the fusion score satisfies for every set of statuses, not only for *)
(* those of a grid.                                                        *)
(***************************************************************************)
EXTENDS FusionScoring, TLAPS

\* The contribution of each source lies in the range its comment gives it
\* (fusion_scoring.py: 0-30, 0-45 plus 5 for a rising trend, 0-20).
LEMMA PartsRange ==
  ASSUME NEW in \in Inputs
  PROVE  /\ VisualPart(in) \in {0, 20, 30}
         /\ WaterPart(in) \in {0, 10, 15, 20, 25, 30, 35, 45, 50}
         /\ WeatherPart(in) \in {0, 8, 15, 20}
  <1>1. VisualPart(in) \in {0, 20, 30}
    BY DEF VisualPart, BlockageScore, Inputs, VisualStatus
  <1>2. WaterPart(in) \in {0, 10, 15, 20, 25, 30, 35, 45, 50}
    <2>1. CASE in.water = Absent
      BY <2>1 DEF WaterPart
    <2>2. CASE in.water # Absent
      <3>1. in.water.pct \in Nat
        BY <2>2 DEF Inputs, WaterStatus
      <3>2. WaterScore(in.water.pct) \in {10, 20, 30, 45}
        BY <3>1 DEF WaterScore
      <3>3. QED
        BY <3>2 DEF WaterPart
    <2>3. QED
      BY <2>1, <2>2
  <1>3. WeatherPart(in) \in {0, 8, 15, 20}
    <2>1. CASE in.weather = Absent
      BY <2>1 DEF WeatherPart
    <2>2. CASE in.weather # Absent
      <3>1. in.weather.precip \in Nat
        BY <2>2 DEF Inputs, WeatherStatus
      <3>2. QED
        BY <2>2, <3>1 DEF WeatherPart, WeatherScore
    <2>3. QED
      BY <2>1, <2>2
  <1>4. QED
    BY <1>1, <1>2, <1>3

\* The risk score is a percentage (calculate_fusion_data).
THEOREM ScoreRange ==
  ASSUME NEW in \in Inputs
  PROVE  Score(in) \in 0 .. 100
  BY PartsRange DEF Score

\* The level computed from any statuses is a FusionData.
LEMMA FusionDataType ==
  ASSUME NEW in \in Inputs, NEW th \in ThresholdSettings
  PROVE  CalculateFusionData(in, th) \in FusionData
  <1>1. Score(in) \in Int
    BY ScoreRange
  <1>2. Anomalies(in) \in SUBSET AnomalyType
    BY DEF Anomalies
  <1>3. AlertName(Score(in), th) \in AlertNames
    BY DEF AlertName, AlertNames
  <1>4. QED
    BY <1>1, <1>2, <1>3 DEF CalculateFusionData, FusionData, AlertNames

\* With a source under suspicion the score stays at 50 or below: the breaker
\* takes away more than the remaining sources can give.
LEMMA SuspectScore ==
  ASSUME NEW in \in Inputs, Anomalies(in) \cap SuspectSources # {}
  PROVE  Score(in) <= 50
  <1>1. PICK a \in SuspectSources : Detected(in, a)
    BY DEF Anomalies
  <1>2. CASE a = "OBSTRUCTED_SENSOR"
    <2>1. WaterPart(in) = 0
      BY <1>1, <1>2 DEF WaterPart
    <2>2. VisualPart(in) \in {0, 20, 30} /\ WeatherPart(in) \in {0, 8, 15, 20}
      BY PartsRange
    <2>3. QED
      BY <2>1, <2>2 DEF Score
  <1>3. CASE a = "STALE_SENSOR"
    <2>1. WaterPart(in) = 0
      BY <1>1, <1>3 DEF WaterPart
    <2>2. VisualPart(in) \in {0, 20, 30} /\ WeatherPart(in) \in {0, 8, 15, 20}
      BY PartsRange
    <2>3. QED
      BY <2>1, <2>2 DEF Score
  <1>4. CASE a = "BLIND_CAMERA"
    <2>1. WaterLow(in)
      BY <1>1, <1>4 DEF Detected
    <2>2. in.water.pct \in Nat /\ in.water.pct < 500
      BY <2>1 DEF WaterLow, Inputs, WaterStatus
    <2>3. WaterScore(in.water.pct) = 10
      BY <2>2 DEF WaterScore
    <2>4. WaterPart(in) <= 15
      BY <2>3 DEF WaterPart
    <2>5. VisualPart(in) = 0
      BY <1>1, <1>4 DEF VisualPart
    <2>6. WeatherPart(in) \in {0, 8, 15, 20} /\ WaterPart(in) \in Int
      BY PartsRange
    <2>7. QED
      BY <2>4, <2>5, <2>6 DEF Score
  <1>5. QED
    BY <1>2, <1>3, <1>4 DEF SuspectSources

\* Under any tiers whose Critical starts at 76 or above, whatever the other
\* tiers, a Critical level is corroborated: no suspect source, and both the
\* camera and the water behind it (calculate_fusion_data).
THEOREM CriticalCorroborated ==
  ASSUME NEW in \in Inputs, NEW th \in ThresholdSettings, th.tier_3_min >= 76
  PROVE  Corroborated(in, th)
  <1> SUFFICES ASSUME CalculateFusionData(in, th).alert_name = "Critical"
               PROVE  /\ Anomalies(in) \cap SuspectSources = {}
                      /\ in.visual # Absent /\ in.visual.status # "clear"
                      /\ in.water # Absent /\ in.water.pct >= 750
    BY DEF Corroborated
  <1>1. AlertName(Score(in), th) = "Critical"
    BY DEF CalculateFusionData
  <1>2. th.tier_3_min <= Score(in) /\ Score(in) \in Int /\ th.tier_3_min \in Int
    BY <1>1, ScoreRange DEF AlertName, ThresholdSettings
  <1>3. Score(in) >= 76
    BY <1>2
  <1>4. Anomalies(in) \cap SuspectSources = {}
    BY <1>2, <1>3, SuspectScore
  <1>5. VisualPart(in) > 0 /\ WaterPart(in) > 25
    BY <1>3, PartsRange DEF Score
  <1>6. in.visual # Absent /\ in.visual.status # "clear"
    BY <1>5 DEF VisualPart, BlockageScore
  <1>7. in.water # Absent
    BY <1>5 DEF WaterPart
  <1>8. in.water.pct \in Nat
    BY <1>7 DEF Inputs, WaterStatus
  <1>9. in.water.pct >= 750
    <2>1. WaterPart(in) <= WaterScore(in.water.pct) + 5
      BY <1>5, <1>7, <1>8 DEF WaterPart, WaterScore
    <2>2. WaterScore(in.water.pct) > 20
      BY <1>5, <1>8, <2>1, PartsRange DEF WaterScore
    <2>3. QED
      BY <1>8, <2>2 DEF WaterScore
  <1>10. QED
    BY <1>4, <1>6, <1>7, <1>9

-----------------------------------------------------------------------------
(***************************************************************************)
(* The order of the tiers. Each source that gets worse adds at least what   *)
(* it added, for none of the breakers is thrown.                            *)
(***************************************************************************)

LEMMA VisualWorse ==
  ASSUME NEW in1 \in Inputs, NEW in2 \in Inputs, Worse(in1, in2), ~Detected(in2, "BLIND_CAMERA")
  PROVE  VisualPart(in1) <= VisualPart(in2)
  <1>1. CASE in1.visual = Absent
    <2>1. VisualPart(in1) = 0
      BY <1>1 DEF VisualPart
    <2>2. QED
      BY <2>1, PartsRange
  <1>2. CASE in1.visual # Absent
    <2>1. /\ in2.visual # Absent
          /\ Severity(in2.visual.status) >= Severity(in1.visual.status)
      BY <1>2 DEF Worse
    <2>2. in1.visual.status \in Statuses /\ in2.visual.status \in Statuses
      BY <1>2, <2>1 DEF Inputs, VisualStatus
    <2>3. BlockageScore(in1.visual.status) <= BlockageScore(in2.visual.status)
      BY <2>1, <2>2 DEF Severity, BlockageScore, Statuses
    <2>4. VisualPart(in2) = BlockageScore(in2.visual.status)
      BY <2>1 DEF VisualPart
    <2>5. VisualPart(in1) = 0 \/ VisualPart(in1) = BlockageScore(in1.visual.status)
      BY DEF VisualPart
    <2>6. QED
      BY <2>3, <2>4, <2>5, PartsRange
  <1>3. QED
    BY <1>1, <1>2

LEMMA WaterWorse ==
  ASSUME NEW in1 \in Inputs, NEW in2 \in Inputs, Worse(in1, in2),
         ~Detected(in2, "OBSTRUCTED_SENSOR"), ~Detected(in2, "STALE_SENSOR")
  PROVE  WaterPart(in1) <= WaterPart(in2)
  <1>1. CASE in1.water = Absent
    <2>1. WaterPart(in1) = 0
      BY <1>1 DEF WaterPart
    <2>2. QED
      BY <2>1, PartsRange
  <1>2. CASE in1.water # Absent
    <2> DEFINE Points(water) == WaterScore(water.pct) + (IF TrendRising(water) THEN 5 ELSE 0)
    <2>1. /\ in2.water # Absent
          /\ in2.water.pct >= in1.water.pct /\ in2.water.rate >= in1.water.rate
      BY <1>2 DEF Worse
    <2>2. /\ in1.water.pct \in Nat /\ in2.water.pct \in Nat
          /\ in1.water.rate \in Int /\ in2.water.rate \in Int
      BY <1>2, <2>1 DEF Inputs, WaterStatus
    <2>3. WaterScore(in1.water.pct) <= WaterScore(in2.water.pct)
      BY <2>1, <2>2 DEF WaterScore
    <2>4. TrendRising(in1.water) => TrendRising(in2.water)
      BY <2>1, <2>2 DEF TrendRising
    <2>5. WaterScore(in1.water.pct) \in Nat /\ WaterScore(in2.water.pct) \in Nat
      BY <2>2 DEF WaterScore
    <2>6. Points(in1.water) <= Points(in2.water)
      BY <2>3, <2>4, <2>5
    <2>7. WaterPart(in2) = Points(in2.water)
      BY <2>1 DEF WaterPart
    <2>8. WaterPart(in1) = 0 \/ WaterPart(in1) = Points(in1.water)
      BY DEF WaterPart
    <2> HIDE DEF Points
    <2>9. QED
      BY <2>6, <2>7, <2>8, PartsRange
  <1>3. QED
    BY <1>1, <1>2

LEMMA WeatherWorse ==
  ASSUME NEW in1 \in Inputs, NEW in2 \in Inputs, Worse(in1, in2)
  PROVE  WeatherPart(in1) <= WeatherPart(in2)
  <1>1. CASE in1.weather = Absent
    <2>1. WeatherPart(in1) = 0
      BY <1>1 DEF WeatherPart
    <2>2. QED
      BY <2>1, PartsRange
  <1>2. CASE in1.weather # Absent
    <2>1. in2.weather # Absent /\ in2.weather.precip >= in1.weather.precip
      BY <1>2 DEF Worse
    <2>2. in1.weather.precip \in Nat /\ in2.weather.precip \in Nat
      BY <1>2, <2>1 DEF Inputs, WeatherStatus
    <2>3. WeatherScore(in1.weather.precip) <= WeatherScore(in2.weather.precip)
      BY <2>1, <2>2 DEF WeatherScore
    <2>4. QED
      BY <1>2, <2>1, <2>3 DEF WeatherPart
  <1>3. QED
    BY <1>1, <1>2

\* In tiers that leave no score between them, a higher score is no lower level.
LEMMA TiersInOrder ==
  ASSUME NEW low \in Int, NEW high \in Int, low <= high,
         NEW th \in ThresholdSettings, Contiguous(th)
  PROVE  AlertRank(AlertName(high, th)) >= AlertRank(AlertName(low, th))
  <1>1. th.tier_2_min \in Int /\ th.tier_2_max \in Int /\ th.tier_3_min \in Int
    BY DEF ThresholdSettings
  <1>2. CASE th.tier_2_min <= low /\ low <= th.tier_2_max
    BY <1>1, <1>2 DEF AlertRank, AlertName, Contiguous
  <1>3. CASE th.tier_3_min <= low
    BY <1>1, <1>3 DEF AlertRank, AlertName, Contiguous
  <1>4. CASE low < th.tier_2_min
    <2>1. AlertName(low, th) = "Normal"
      BY <1>1, <1>4 DEF AlertName, Contiguous
    <2>2. QED
      BY <2>1 DEF AlertRank
  <1>5. QED
    BY <1>1, <1>2, <1>3, <1>4 DEF Contiguous

\* A reading that makes a source worse never lowers the level, unless it makes
\* a source suspect: the tiers of the three scores are in order and those of
\* the alerts leave no score between them (calc_*_score, calculate_fusion_data).
THEOREM NeverCalms ==
  ASSUME NEW in1 \in Inputs, NEW in2 \in Inputs, NEW th \in ThresholdSettings, Contiguous(th),
         Worse(in1, in2), Anomalies(in2) \cap SuspectSources = {}
  PROVE  AlertRank(CalculateFusionData(in2, th).alert_name)
           >= AlertRank(CalculateFusionData(in1, th).alert_name)
  <1>1. /\ ~Detected(in2, "BLIND_CAMERA")
        /\ ~Detected(in2, "OBSTRUCTED_SENSOR") /\ ~Detected(in2, "STALE_SENSOR")
    BY DEF Anomalies, AnomalyType, SuspectSources
  <1>2. /\ VisualPart(in1) <= VisualPart(in2) /\ WaterPart(in1) <= WaterPart(in2)
        /\ WeatherPart(in1) <= WeatherPart(in2)
    BY <1>1, VisualWorse, WaterWorse, WeatherWorse
  <1>3. /\ VisualPart(in1) \in Int /\ VisualPart(in2) \in Int
        /\ WaterPart(in1) \in Int /\ WaterPart(in2) \in Int
        /\ WeatherPart(in1) \in Int /\ WeatherPart(in2) \in Int
    BY PartsRange
  <1>4. Score(in1) <= Score(in2) /\ Score(in1) \in Int /\ Score(in2) \in Int
    BY <1>2, <1>3 DEF Score
  <1>5. CASE AllUnavailable(in1)
    <2>1. AlertRank(CalculateFusionData(in1, th).alert_name) = 0
      BY <1>5 DEF CalculateFusionData, AlertRank
    <2>2. AlertRank(CalculateFusionData(in2, th).alert_name) \in {0, 1, 2}
      BY DEF AlertRank
    <2>3. QED
      BY <2>1, <2>2
  <1>6. CASE ~AllUnavailable(in1)
    <2>1. ~AllUnavailable(in2)
      BY <1>6 DEF AllUnavailable, Worse
    <2>2. QED
      BY <1>4, <1>6, <2>1, TiersInOrder DEF CalculateFusionData
  <1>7. QED
    BY <1>5, <1>6
=============================================================================
