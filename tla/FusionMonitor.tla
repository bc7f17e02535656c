---------------------------- MODULE FusionMonitor ----------------------------
(***************************************************************************)
(* What the fusion state of a location promises to its readers: a level    *)
(* that is at every moment the score of three statuses, and that changes   *)
(* by one reading at a time.  Tasks, locks and notifications do not appear *)
(* here; FusionState implements this specification.                        *)
(***************************************************************************)
EXTENDS FusionScoring

VARIABLES
  statuses,    \* the statuses the readers see
  level,       \* the level they see
  thresholds,  \* the alert thresholds in force
  starting     \* the initial state is loaded and not yet announced

monitorVars == <<statuses, level, thresholds, starting>>

Init ==
  /\ statuses \in Inputs
  /\ thresholds \in ThresholdSettings
  /\ level = CalculateFusionData(statuses, thresholds)
  /\ starting = TRUE

\* One source delivers a reading, and the level follows in the same step.
Update ==
  /\ ~starting /\ ~starting'
  /\ statuses' \in Inputs
  /\ \E source \in {"visual", "water", "weather"} :
       \A other \in {"visual", "water", "weather"} \ {source} :
         statuses'[other] = statuses[other]
  /\ level' = CalculateFusionData(statuses', thresholds)
  /\ UNCHANGED thresholds

\* A camera the level calls blind loses the confidence of its reading, and
\* with it nothing of the level. Startup may end in the same step.
DoubtCamera ==
  /\ "BLIND_CAMERA" \in level.anomalies
  /\ statuses' = [statuses EXCEPT !.visual.tier = "possible"]
  /\ starting' => starting
  /\ UNCHANGED <<level, thresholds>>

Started ==
  /\ starting /\ ~starting'
  /\ UNCHANGED <<statuses, level, thresholds>>

Reload ==
  /\ starting'
  /\ statuses' \in Inputs
  /\ thresholds' \in ThresholdSettings
  /\ level' = CalculateFusionData(statuses', thresholds')

Next == Update \/ DoubtCamera \/ Started \/ Reload

Spec == Init /\ [][Next]_monitorVars
=============================================================================
