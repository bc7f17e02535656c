-------------------------- MODULE FusionStateProofs --------------------------
(***************************************************************************)
(* Theorems of FusionState for any set of tasks, statuses and thresholds.  *)
(***************************************************************************)
EXTENDS FusionState, FusionScoringProofs

\* The readings a producer may offer are statuses of its source.
LEMMA OfferedTypes ==
  /\ Frames \subseteq VisualStatus
  /\ StoredFrames \subseteq VisualStatus
  /\ Loaded \subseteq Inputs
  /\ \A u \in Updates :
       \/ u.source = "visual" /\ u.status \in VisualStatus
       \/ u.source = "water" /\ u.status \in WaterStatus
       \/ u.source = "weather" /\ u.status \in WeatherStatus
  <1>1. Frames \subseteq VisualStatus
    BY ConstantsAssumption DEF Frames, VisualStatus, StatusFromTier, Statuses
  <1>2. StoredFrames \subseteq VisualStatus
    BY ConstantsAssumption DEF StoredFrames, VisualStatus
  <1>3. Loaded \subseteq Inputs
    BY <1>2, ConstantsAssumption DEF Loaded, Inputs
  <1>4. ASSUME NEW u \in Updates
        PROVE  \/ u.source = "visual" /\ u.status \in VisualStatus
               \/ u.source = "water" /\ u.status \in WaterStatus
               \/ u.source = "weather" /\ u.status \in WeatherStatus
    <2>1. PICK k \in Sources : u \in [source : {k}, status : Offered(k)]
      BY DEF Updates
    <2>2. u.source = k /\ u.status \in Offered(k)
      BY <2>1
    <2>3. QED
      BY <2>2, <1>1, ConstantsAssumption DEF Offered, Sources
  <1>5. QED
    BY <1>1, <1>2, <1>3, <1>4

LEMMA StoresStatus ==
  ASSUME NEW in \in Inputs, NEW u \in Updates
  PROVE  [in EXCEPT ![u.source] = u.status] \in Inputs
  BY OfferedTypes DEF Inputs

\* A downgrade keeps the type, and needs nothing of the level.
LEMMA DowngradedType ==
  ASSUME NEW in \in Inputs
  PROVE  Downgraded(in) \in Inputs
  <1>1. CASE Downgraded(in) = in
    BY <1>1
  <1>2. CASE Downgraded(in) # in
    <2>1. /\ in.visual # Absent
          /\ Downgraded(in) = [in EXCEPT !.visual.tier = "possible"]
      BY <1>2 DEF Downgraded
    <2>2. in.visual \in VisualStatus
      BY <2>1 DEF Inputs
    <2>3. [in.visual EXCEPT !.tier = "possible"] \in VisualStatus
      BY <2>2 DEF VisualStatus, Tiers
    <2>4. QED
      BY <2>1, <2>3 DEF Inputs
  <1>3. QED
    BY <1>1, <1>2

-----------------------------------------------------------------------------
(***************************************************************************)
(* Type correctness.                                                       *)
(***************************************************************************)

\* What Recommend leaves of the task and of the recommendation.
LEMMA RecommendType ==
  ASSUME TypeOK, NEW t \in Tasks, Recommend(t)
  PROVE  /\ pc' \in [Tasks -> PC]
         /\ dispatch' \in [Tasks -> [kind : DispatchKinds, now : Nat]]
         /\ recommended' \in BOOLEAN
  <1>1. recommended' \in BOOLEAN
    BY Zenon DEF TypeOK, Recommend, RecommendationCleared
  <1>2. pc' \in [Tasks -> PC]
    BY DEF TypeOK, Recommend, Goes, PC
  <1>3. dispatch' \in [Tasks -> [kind : DispatchKinds, now : Nat]]
    BY DEF TypeOK, Recommend, Sends, Finishes, NoDispatch, DispatchKinds
  <1>4. QED
    BY <1>1, <1>2, <1>3

LEMMA ObstructionType ==
  ASSUME TypeOK, NEW t \in Tasks, Obstruction(t)
  PROVE  /\ pc' \in [Tasks -> PC]
         /\ dispatch' \in [Tasks -> [kind : DispatchKinds, now : Nat]]
         /\ recommended' \in BOOLEAN
         /\ input' \in Inputs
         /\ analysed' \in Inputs
  <1>1. input' \in Inputs /\ analysed' \in Inputs
    BY DowngradedType DEF TypeOK, Obstruction
  <1>2. CASE Recommend(t)
    BY <1>1, <1>2, RecommendType
  <1>3. CASE ~Recommend(t)
    BY <1>1, <1>3
       DEF TypeOK, Obstruction, Goes, Sends, PC, DispatchKinds, NotifyKinds
  <1>4. QED
    BY <1>2, <1>3

LEMMA ArmsType ==
  ASSUME TypeOK, NEW t \in Tasks, Arms(t)
  PROVE  lastNotify' \in [NotifyKinds -> Nat]
  BY ConstantsAssumption DEF TypeOK, Arms

\* Every state has its type (state.py __init__ and every assignment after it).
THEOREM TypeCorrect == Spec => []TypeOK
  <1>1. Init => TypeOK
    <2> SUFFICES ASSUME Init PROVE TypeOK
      OBVIOUS
    <2>1. input \in Inputs /\ cache \in ThresholdSettings
      BY OfferedTypes, ConstantsAssumption DEF Init
    <2>2. fusion \in FusionData
      BY <2>1, FusionDataType DEF Init
    <2>3. clock \in Nat
      BY ConstantsAssumption DEF Init
    <2>4. QED
      BY <2>1, <2>2, <2>3, ConstantsAssumption
         DEF Init, TypeOK, BootPC, PC, NoUpdate, NoDispatch, DispatchKinds
  <1>2. TypeOK /\ [Next]_vars => TypeOK'
    <2> SUFFICES ASSUME TypeOK, [Next]_vars
                 PROVE  TypeOK'
      OBVIOUS
    <2>1. ASSUME NEW w \in Workers, NEW u \in Updates, Request(w, u)
          PROVE  TypeOK'
      BY <2>1 DEF TypeOK, Request, PC, Tasks, level, cooldowns
    <2>2. ASSUME NEW w \in Workers, Acquire(w)
          PROVE  TypeOK'
      <3>1. input' \in Inputs
        <4>1. CASE update[w] \in Updates
          BY <2>2, <4>1, StoresStatus DEF TypeOK, Acquire, Tasks
        <4>2. CASE update[w] = NoUpdate
          BY <2>2, <4>2 DEF TypeOK, Acquire, NoUpdate, Inputs
        <4>3. QED
          BY <4>1, <4>2 DEF TypeOK, Tasks
      <3>2. QED
        BY <2>2, <3>1 DEF TypeOK, Acquire, PC, Tasks, cooldowns
    <2>3. ASSUME NEW w \in Workers, Recalculate(w)
          PROVE  TypeOK'
      <3>1. fusion' \in FusionData
        BY <2>3, FusionDataType DEF TypeOK, Recalculate, ScoredStatuses
      <3>2. QED
        BY <2>3, <3>1
           DEF TypeOK, Recalculate, LockReleased, PC, Tasks, cooldowns
    <2>4. ASSUME NEW t \in Tasks, StartLevelNotice(t)
          PROVE  TypeOK'
      BY <2>4 DEF TypeOK, StartLevelNotice, NotifiesLevel, Goes, Sends, PC,
                  DispatchKinds, NotifyKinds, level, cooldowns
    <2>5. ASSUME NEW t \in Tasks, SkipLevelNotice(t)
          PROVE  TypeOK'
      BY <2>5, ObstructionType DEF TypeOK, SkipLevelNotice
    <2>6. ASSUME NEW t \in Tasks, EndLevelNotice(t)
          PROVE  TypeOK'
      BY <2>6, ObstructionType, ArmsType DEF TypeOK, EndLevelNotice
    <2>7. ASSUME NEW t \in Tasks, EndObstructionNotice(t)
          PROVE  TypeOK'
      BY <2>7, RecommendType, ArmsType DEF TypeOK, EndObstructionNotice, level
    <2>8. ASSUME NEW t \in Tasks, EndRecommend(t)
          PROVE  TypeOK'
      BY <2>8 DEF TypeOK, EndRecommend, RecommendationStands, Goes, Finishes,
                  NoDispatch, DispatchKinds, PC, level
    <2>9. ASSUME NEW th \in Thresholds, UpdateSetting(th)
          PROVE  TypeOK'
      BY <2>9, ConstantsAssumption DEF TypeOK, UpdateSetting, tasks, level, cooldowns
    <2>10. CASE Tick
      BY <2>10 DEF TypeOK, Tick, tasks, level, cooldowns
    <2>11. CASE Restart
      <3>1. input' \in Inputs /\ cache' \in ThresholdSettings
        BY <2>11, OfferedTypes DEF Restart, TypeOK
      <3>2. fusion' \in FusionData
        BY <2>11, <3>1, FusionDataType DEF Restart
      <3>3. clock' \in Nat /\ setting' \in ThresholdSettings /\ lastRecommend' \in Nat
        BY <2>11 DEF Restart, TypeOK
      <3>4. /\ pc' \in [Tasks -> PC]
            /\ update' \in [Tasks -> Updates \cup {NoUpdate}]
            /\ dispatch' \in [Tasks -> [kind : DispatchKinds, now : Nat]]
            /\ lastNotify' \in [NotifyKinds -> Nat]
        BY <2>11 DEF Restart, BootPC, PC, NoDispatch, DispatchKinds
      <3>5. /\ holder' \in Tasks \cup {NoTask}
            /\ analysed' \in Inputs
            /\ recommended' \in BOOLEAN
        BY <2>11, <3>1, Zenon DEF Restart
      <3>6. QED
        BY <3>1, <3>2, <3>3, <3>4, <3>5, Zenon DEF TypeOK
    <2>12. CASE UNCHANGED vars
      BY <2>12 DEF TypeOK, vars
    <2>13. QED
      BY <2>1, <2>2, <2>3, <2>4, <2>5, <2>6, <2>7, <2>8, <2>9, <2>10, <2>11,
         <2>12 DEF Next, Calculate, BroadcastAndNotify
  <1>3. QED
    BY <1>1, <1>2, PTL DEF Spec

-----------------------------------------------------------------------------
(***************************************************************************)
(* The level and the statuses under the lock.                              *)
(***************************************************************************)

\* A downgrade changes no part of the level: the score reads the status of a
\* camera reading and never its tier.
LEMMA DowngradeKeepsLevel ==
  ASSUME NEW in \in Inputs, NEW th
  PROVE  CalculateFusionData(Downgraded(in), th) = CalculateFusionData(in, th)
  <1>1. CASE Downgraded(in) = in
    BY <1>1
  <1>2. CASE Downgraded(in) # in
    <2> DEFINE out == Downgraded(in)
    <2>1. /\ in.visual # Absent
          /\ out = [in EXCEPT !.visual.tier = "possible"]
      BY <1>2 DEF Downgraded
    <2>2. in.visual \in VisualStatus
      BY <2>1 DEF Inputs
    <2>3. out \in Inputs
      BY DowngradedType
    <2>4. /\ out.water = in.water
          /\ out.weather = in.weather
          /\ out.visual.status = in.visual.status
          /\ out.visual.tier = "possible"
      BY <2>1, <2>2 DEF Inputs, VisualStatus
    <2>5. out.visual # Absent
      BY <2>1, <2>2, AbsentAssumption DEF Inputs, VisualStatus, Tiers
    <2> HIDE DEF out
    <2>6. \A a \in AnomalyType : Detected(out, a) <=> Detected(in, a)
      BY <2>1, <2>4, <2>5
         DEF Detected, AnomalyType, SuspectSources, BlockageIs, WeatherClear,
             WeatherHeavy, WaterCritical, WaterLow, WaterDeadFlat, WaterRisingFast
    <2>7. Anomalies(out) = Anomalies(in)
      BY <2>6 DEF Anomalies
    <2>8. Score(out) = Score(in)
      BY <2>1, <2>4, <2>5, <2>6
         DEF Score, VisualPart, WaterPart, WeatherPart, AnomalyType, SuspectSources
    <2>9. CalculateFusionData(out, th) = CalculateFusionData(in, th)
      BY <2>1, <2>5, <2>7, <2>8 DEF CalculateFusionData, AllUnavailable
    <2>10. QED
      BY <2>9 DEF out
  <1>3. QED
    BY <1>1, <1>2

LEMMA DowngradedFields ==
  ASSUME NEW in \in Inputs
  PROVE  Downgraded(in).water = in.water /\ Downgraded(in).weather = in.weather
  BY DEF Downgraded, Inputs

\* What Recommend and Obstruction leave of the places of the tasks: a task
\* that announces keeps announcing or ends.
LEMMA ObstructionPlaces ==
  ASSUME TypeOK, NEW t \in Tasks, Recommend(t) \/ Obstruction(t)
  PROVE  /\ \A s \in Tasks \ {t} : pc'[s] = pc[s]
         /\ pc'[t] \in {"idle", "notify_obstruction", "recommend"}
  BY DEF TypeOK, Recommend, Obstruction, Goes

\* A task that announces does not touch what LockInv speaks of.
LEMMA AnnounceKeepsLock ==
  ASSUME TypeOK, LockInv, NEW t \in Tasks, Announcing(t),
         UNCHANGED <<update, holder>>,
         \A s \in Tasks \ {t} : pc'[s] = pc[s],
         pc'[t] \in {"idle", "notify_level", "notify_obstruction", "recommend"}
  PROVE  LockInv'
  <1>1. \A s \in Tasks : pc'[s] = "locked" <=> pc[s] = "locked"
    BY DEF Announcing
  <1>2. \A s \in Tasks : pc'[s] = "waiting" <=> pc[s] = "waiting"
    BY DEF Announcing
  <1>3. pc'[Boot] # "idle" => \A w \in Workers : pc'[w] = "idle"
    <2>1. CASE t = Boot
      BY <2>1, ConstantsAssumption DEF LockInv, Announcing, Tasks
    <2>2. CASE t # Boot
      BY <2>2, ConstantsAssumption DEF LockInv, Announcing, Tasks
    <2>3. QED
      BY <2>1, <2>2
  <1>4. QED
    BY <1>1, <1>2, <1>3 DEF LockInv, Tasks

\* The downgrade of a task outside the lock keeps the level and the statuses
\* in step, whether or not a camera reading waits to be analysed.
LEMMA ObstructionKeepsLevel ==
  ASSUME TypeOK, FusionInv, NEW t \in Tasks, Announcing(t), Obstruction(t),
         UNCHANGED <<update, holder, fusion, cache>>
  PROVE  FusionInv'
  <1>1. LockInv'
    BY ObstructionPlaces, AnnounceKeepsLock DEF FusionInv
  <1>2. LevelMatchesAnalysis'
    BY DowngradeKeepsLevel
       DEF TypeOK, FusionInv, LevelMatchesAnalysis, Obstruction
  <1>3. OneSourceInFlight'
    <2> SUFFICES ASSUME NEW s \in Sources, input'[s] # analysed'[s]
                 PROVE  /\ holder # NoTask
                        /\ pc'[holder] = "locked"
                        /\ update[holder].source = s
      BY DEF OneSourceInFlight
    <2>1. input' = Downgraded(input) /\ input \in Inputs /\ analysed \in Inputs
      BY DEF Obstruction, TypeOK
    <2>2. CASE input[s] # analysed[s]
      <3>1. holder # NoTask /\ pc[holder] = "locked" /\ update[holder].source = s
        BY <2>2 DEF FusionInv, OneSourceInFlight
      <3>2. holder \in Tasks /\ holder # t
        BY <3>1 DEF TypeOK, Announcing
      <3>3. QED
        BY <3>1, <3>2, ObstructionPlaces
    <2>3. CASE input[s] = analysed[s]
      <3>1. CASE s = "visual"
        <4>1. VisualPending
          BY <2>1, <2>3, <3>1 DEF Obstruction, Downgraded, Inputs
        <4>2. holder # NoTask /\ update[holder].source = "visual"
          BY <4>1 DEF VisualPending
        <4>3. holder \in Tasks /\ pc[holder] = "locked"
          BY <4>2 DEF TypeOK, FusionInv, LockInv
        <4>4. holder # t
          BY <4>3 DEF Announcing
        <4>5. QED
          BY <3>1, <4>2, <4>3, <4>4, ObstructionPlaces
      <3>2. CASE s \in {"water", "weather"}
        BY <2>1, <2>3, <3>2, DowngradedFields DEF Obstruction
      <3>3. QED
        BY <3>1, <3>2 DEF Sources
    <2>4. QED
      BY <2>2, <2>3
  <1>4. QED
    BY <1>1, <1>2, <1>3 DEF FusionInv

\* FusionInv is inductive.
LEMMA FusionInvInit == Init => FusionInv
  <1> SUFFICES ASSUME Init PROVE FusionInv
    OBVIOUS
  <1>1. LockInv
    BY ConstantsAssumption DEF Init, LockInv, BootPC, Tasks
  <1>2. LevelMatchesAnalysis
    BY DEF Init, LevelMatchesAnalysis
  <1>3. OneSourceInFlight
    BY DEF Init, OneSourceInFlight
  <1>4. QED
    BY <1>1, <1>2, <1>3 DEF FusionInv

LEMMA FusionInvStep == TypeOK /\ FusionInv /\ [Next]_vars => FusionInv'
  <1> SUFFICES ASSUME TypeOK, FusionInv, [Next]_vars
               PROVE  FusionInv'
    OBVIOUS
  <1>1. ASSUME NEW w \in Workers, NEW u \in Updates, Request(w, u)
        PROVE  FusionInv'
    <2>1. /\ w \in Tasks /\ w # Boot
          /\ pc' = [pc EXCEPT ![w] = "waiting"]
          /\ update' = [update EXCEPT ![w] = u]
          /\ pc[w] = "idle" /\ pc[Boot] = "idle"
          /\ UNCHANGED <<holder, input, fusion, analysed, cache>>
      BY <1>1, ConstantsAssumption DEF Request, level, Tasks
    <2>2. LockInv'
      BY <2>1 DEF TypeOK, FusionInv, LockInv, Tasks
    <2>3. OneSourceInFlight'
      <3> SUFFICES ASSUME NEW s \in Sources, input[s] # analysed[s]
                   PROVE  /\ holder # NoTask
                          /\ pc'[holder] = "locked"
                          /\ update'[holder].source = s
        BY <2>1 DEF OneSourceInFlight
      <3>1. holder # NoTask /\ pc[holder] = "locked" /\ update[holder].source = s
        BY DEF FusionInv, OneSourceInFlight
      <3>2. QED
        BY <2>1, <3>1 DEF TypeOK
    <2>4. LevelMatchesAnalysis'
      BY <2>1 DEF FusionInv, LevelMatchesAnalysis
    <2>5. QED
      BY <2>2, <2>3, <2>4 DEF FusionInv
  <1>2. ASSUME NEW w \in Workers, Acquire(w)
        PROVE  FusionInv'
    <2>1. /\ w \in Tasks /\ w # Boot /\ w # NoTask
          /\ pc' = [pc EXCEPT ![w] = "locked"]
          /\ pc[w] = "waiting" /\ holder = NoTask /\ holder' = w
          /\ input' = [input EXCEPT ![update[w].source] = update[w].status]
          /\ UNCHANGED <<update, fusion, analysed, cache>>
      BY <1>2, ConstantsAssumption DEF Acquire, LockFree, Tasks
    <2>2. LockInv'
      BY <2>1, ConstantsAssumption DEF TypeOK, FusionInv, LockInv, Tasks
    <2>3. OneSourceInFlight'
      <3> SUFFICES ASSUME NEW s \in Sources, input'[s] # analysed[s]
                   PROVE  pc'[w] = "locked" /\ update[w].source = s
        BY <2>1 DEF OneSourceInFlight
      <3>1. input[s] = analysed[s]
        BY <2>1 DEF FusionInv, OneSourceInFlight
      <3>2. update[w].source = s
        BY <2>1, <3>1 DEF TypeOK, Inputs
      <3>3. QED
        BY <2>1, <3>2 DEF TypeOK
    <2>4. LevelMatchesAnalysis'
      BY <2>1 DEF FusionInv, LevelMatchesAnalysis
    <2>5. QED
      BY <2>2, <2>3, <2>4 DEF FusionInv
  <1>3. ASSUME NEW w \in Workers, Recalculate(w)
        PROVE  FusionInv'
    <2>1. /\ w \in Tasks /\ w # Boot
          /\ pc' = [pc EXCEPT ![w] = "broadcast"]
          /\ pc[w] = "locked" /\ holder' = NoTask
          /\ update' = [update EXCEPT ![w] = NoUpdate]
          /\ UNCHANGED <<input, cache>>
          /\ fusion' = CalculateFusionData(input, cache) /\ analysed' = input
      BY <1>3, ConstantsAssumption DEF Recalculate, ScoredStatuses, LockReleased, Tasks
    <2>2. LockInv'
      BY <2>1, ConstantsAssumption DEF TypeOK, FusionInv, LockInv, Tasks
    <2>3. OneSourceInFlight' /\ LevelMatchesAnalysis'
      BY <2>1 DEF OneSourceInFlight, LevelMatchesAnalysis
    <2>4. QED
      BY <2>2, <2>3 DEF FusionInv
  <1>4. ASSUME NEW t \in Tasks, Announcing(t),
               UNCHANGED <<update, holder, input, fusion, analysed, cache>>,
               \A s \in Tasks \ {t} : pc'[s] = pc[s],
               pc'[t] \in {"idle", "notify_level", "notify_obstruction", "recommend"}
        PROVE  FusionInv'
    <2>1. LockInv'
      BY <1>4, AnnounceKeepsLock DEF FusionInv
    <2>2. OneSourceInFlight'
      <3> SUFFICES ASSUME NEW s \in Sources, input[s] # analysed[s]
                   PROVE  /\ holder # NoTask
                          /\ pc'[holder] = "locked"
                          /\ update[holder].source = s
        BY <1>4 DEF OneSourceInFlight
      <3>1. holder # NoTask /\ pc[holder] = "locked" /\ update[holder].source = s
        BY DEF FusionInv, OneSourceInFlight
      <3>2. holder \in Tasks /\ holder # t
        BY <1>4, <3>1 DEF TypeOK, Announcing
      <3>3. QED
        BY <1>4, <3>1, <3>2
    <2>3. LevelMatchesAnalysis'
      BY <1>4 DEF FusionInv, LevelMatchesAnalysis
    <2>4. QED
      BY <2>1, <2>2, <2>3 DEF FusionInv
  <1>5. ASSUME NEW t \in Tasks, StartLevelNotice(t)
        PROVE  FusionInv'
    BY <1>4, <1>5 DEF StartLevelNotice, Goes, level, Announcing, TypeOK
  <1>6. ASSUME NEW t \in Tasks, SkipLevelNotice(t)
        PROVE  FusionInv'
    BY <1>6, ObstructionKeepsLevel DEF SkipLevelNotice, Announcing
  <1>7. ASSUME NEW t \in Tasks, EndLevelNotice(t)
        PROVE  FusionInv'
    BY <1>7, ObstructionKeepsLevel DEF EndLevelNotice, Announcing
  <1>8. ASSUME NEW t \in Tasks, EndObstructionNotice(t)
        PROVE  FusionInv'
    BY <1>4, <1>8, ObstructionPlaces DEF EndObstructionNotice, level, Announcing
  <1>9. ASSUME NEW t \in Tasks, EndRecommend(t)
        PROVE  FusionInv'
    BY <1>4, <1>9 DEF EndRecommend, Goes, level, Announcing, TypeOK
  <1>10. ASSUME UNCHANGED <<pc, update, holder, input, fusion, analysed, cache>>
         PROVE  FusionInv'
    BY <1>10 DEF FusionInv, LockInv, LevelMatchesAnalysis, OneSourceInFlight
  <1>11. ASSUME NEW th \in Thresholds, UpdateSetting(th)
         PROVE  FusionInv'
    BY <1>10, <1>11 DEF UpdateSetting, tasks, level
  <1>12. CASE Tick
    BY <1>10, <1>12 DEF Tick, tasks, level
  <1>13. CASE Restart
    <2>1. LockInv'
      BY <1>13, ConstantsAssumption DEF Restart, LockInv, BootPC, Tasks
    <2>2. LevelMatchesAnalysis' /\ OneSourceInFlight'
      BY <1>13 DEF Restart, LevelMatchesAnalysis, OneSourceInFlight
    <2>3. QED
      BY <2>1, <2>2 DEF FusionInv
  <1>14. CASE UNCHANGED vars
    BY <1>10, <1>14 DEF vars
  <1>15. QED
    BY <1>1, <1>2, <1>3, <1>5, <1>6, <1>7, <1>8, <1>9, <1>11, <1>12, <1>13,
       <1>14 DEF Next, Calculate, BroadcastAndNotify

LEMMA FusionInvHolds == Spec => []FusionInv
  BY FusionInvInit, FusionInvStep, TypeCorrect, PTL DEF Spec

\* Whatever the number of tasks and their interleaving, the published level is
\* the score of the statuses published with it (_recalculate_fusion_data).
THEOREM LevelCorrect == Spec => []LevelMatchesAnalysis
  <1>1. FusionInv => LevelMatchesAnalysis
    BY DEF FusionInv
  <1>2. QED
    BY <1>1, FusionInvHolds, PTL

\* Only the source whose task holds the lock is ahead of the analysis
\* (calculate_*_score): no reading is half applied, none is lost.
THEOREM OneSource == Spec => []OneSourceInFlight
  <1>1. FusionInv => OneSourceInFlight
    BY DEF FusionInv
  <1>2. QED
    BY <1>1, FusionInvHolds, PTL

-----------------------------------------------------------------------------
(***************************************************************************)
(* The recommendation.                                                     *)
(***************************************************************************)

\* RecommendInv is inductive: the task that raises the level announces it, and
\* a task stops announcing at a high risk only when a recommendation stands.
LEMMA RecommendInvHolds == Spec => []RecommendInv
  <1>1. Init => RecommendInv
    BY DEF Init, RecommendInv, BootPC, Announcing, Tasks
  <1>2. TypeOK /\ RecommendInv /\ [Next]_vars => RecommendInv'
    <2> SUFFICES ASSUME TypeOK, RecommendInv, [Next]_vars,
                        fusion'.combined_risk_score >= RecommendMinScore
                 PROVE  recommended' \/ \E t \in Tasks : Announcing(t)'
      BY DEF RecommendInv
    <2>1. ASSUME NEW w \in Workers, pc' = [pc EXCEPT ![w] = pc'[w]],
                 pc[w] \in {"idle", "waiting", "locked"},
                 UNCHANGED <<fusion, recommended>>
          PROVE  recommended' \/ \E t \in Tasks : Announcing(t)'
      <3>1. CASE recommended
        BY <2>1, <3>1
      <3>2. CASE ~recommended
        <4>1. PICK t \in Tasks : Announcing(t)
          BY <2>1, <3>2 DEF RecommendInv
        <4>2. t # w
          BY <2>1, <4>1 DEF Announcing
        <4>3. Announcing(t)'
          BY <2>1, <4>1, <4>2 DEF Announcing, TypeOK
        <4>4. QED
          BY <4>3
      <3>3. QED
        BY <3>1, <3>2
    <2>2. ASSUME NEW t \in Tasks, Recommend(t), UNCHANGED fusion
          PROVE  recommended' \/ \E s \in Tasks : Announcing(s)'
      <3>1. CASE recommended /\ UNCHANGED recommended
        BY <3>1
      <3>2. CASE Goes(t, "recommend")
        BY <3>2 DEF Goes, Announcing, TypeOK
      <3>3. fusion.combined_risk_score >= RecommendMinScore
        BY <2>2
      <3>4. fusion.combined_risk_score \in Int
        BY DEF TypeOK, FusionData
      <3>5. ~(fusion.combined_risk_score < RecommendMinScore)
        BY <3>3, <3>4, ConstantsAssumption
      <3>6. QED
        BY <2>2, <3>1, <3>2, <3>5, Zenon DEF Recommend
    <2>3. ASSUME NEW t \in Tasks, Obstruction(t), UNCHANGED fusion
          PROVE  recommended' \/ \E s \in Tasks : Announcing(s)'
      <3>1. CASE Recommend(t)
        BY <2>2, <2>3, <3>1
      <3>2. CASE Goes(t, "notify_obstruction")
        BY <3>2 DEF Goes, Announcing, TypeOK
      <3>3. QED
        BY <2>3, <3>1, <3>2 DEF Obstruction
    <2>4. ASSUME NEW w \in Workers, NEW u \in Updates, Request(w, u)
          PROVE  recommended' \/ \E t \in Tasks : Announcing(t)'
      BY <2>1, <2>4 DEF Request, level, cooldowns, TypeOK, Tasks
    <2>5. ASSUME NEW w \in Workers, Acquire(w)
          PROVE  recommended' \/ \E t \in Tasks : Announcing(t)'
      BY <2>1, <2>5 DEF Acquire, cooldowns, TypeOK, Tasks
    <2>6. ASSUME NEW w \in Workers, Recalculate(w)
          PROVE  recommended' \/ \E t \in Tasks : Announcing(t)'
      BY <2>6 DEF Recalculate, Announcing, TypeOK, Tasks
    <2>7. ASSUME NEW t \in Tasks, StartLevelNotice(t)
          PROVE  recommended' \/ \E s \in Tasks : Announcing(s)'
      BY <2>7 DEF StartLevelNotice, Goes, Announcing, TypeOK
    <2>8. ASSUME NEW t \in Tasks, SkipLevelNotice(t)
          PROVE  recommended' \/ \E s \in Tasks : Announcing(s)'
      BY <2>3, <2>8 DEF SkipLevelNotice
    <2>9. ASSUME NEW t \in Tasks, EndLevelNotice(t)
          PROVE  recommended' \/ \E s \in Tasks : Announcing(s)'
      BY <2>3, <2>9 DEF EndLevelNotice
    <2>10. ASSUME NEW t \in Tasks, EndObstructionNotice(t)
           PROVE  recommended' \/ \E s \in Tasks : Announcing(s)'
      BY <2>2, <2>10 DEF EndObstructionNotice, level
    <2>11. ASSUME NEW t \in Tasks, EndRecommend(t)
           PROVE  recommended' \/ \E s \in Tasks : Announcing(s)'
      BY <2>11 DEF EndRecommend, RecommendationStands
    <2>12. ASSUME UNCHANGED <<pc, fusion, recommended>>
           PROVE  recommended' \/ \E t \in Tasks : Announcing(t)'
      BY <2>12 DEF RecommendInv, Announcing
    <2>13. ASSUME NEW th \in Thresholds, UpdateSetting(th)
           PROVE  recommended' \/ \E t \in Tasks : Announcing(t)'
      BY <2>12, <2>13 DEF UpdateSetting, tasks, level, cooldowns
    <2>14. CASE Tick
      BY <2>12, <2>14 DEF Tick, tasks, level, cooldowns
    <2>15. CASE Restart
      <3>1. Boot \in Tasks /\ pc'[Boot] = "broadcast"
        BY <2>15 DEF Restart, BootPC, Tasks
      <3>2. QED
        BY <3>1 DEF Announcing
    <2>16. CASE UNCHANGED vars
      BY <2>12, <2>16 DEF vars
    <2>17. QED
      BY <2>4, <2>5, <2>6, <2>7, <2>8, <2>9, <2>10, <2>11, <2>13, <2>14, <2>15,
         <2>16 DEF Next, Calculate, BroadcastAndNotify
  <1>3. QED
    BY <1>1, <1>2, TypeCorrect, PTL DEF Spec

\* Once every task has ended, a risk over the minimum has a recommendation
\* standing (_maybe_emit_evacuation_recommendation): no interleaving loses it.
THEOREM HighRisk == Spec => []HighRiskIsRecommended
  <1>1. RecommendInv => HighRiskIsRecommended
    BY DEF RecommendInv, HighRiskIsRecommended, Quiet, Announcing
  <1>2. QED
    BY <1>1, RecommendInvHolds, PTL

\* BlindInv is inductive: whoever brings a frame or a level passes the downgrade
\* after it, and the downgrade caps whatever status is stored by then.
LEMMA DowngradedIsCapped ==
  ASSUME NEW in \in Inputs, "BLIND_CAMERA" \in fusion.anomalies
  PROVE  ~Convinced(Downgraded(in))
  <1>1. CASE Downgraded(in) = in
    BY <1>1, AbsentAssumption DEF Downgraded, Convinced, Inputs, VisualStatus, Tiers
  <1>2. CASE Downgraded(in) # in
    <2>1. in.visual \in VisualStatus
      BY <1>2 DEF Downgraded, Inputs
    <2>2. Downgraded(in).visual.tier = "possible"
      BY <1>2, <2>1 DEF Downgraded, Inputs, VisualStatus
    <2>3. QED
      BY <2>2 DEF Convinced
  <1>3. QED
    BY <1>1, <1>2

\* A stored row has no confidence.
LEMMA LoadedUnconvinced ==
  ASSUME NEW in \in Loaded
  PROVE  ~Convinced(in)
  BY DEF Loaded, StoredFrames, Convinced

LEMMA BlindInvHolds == Spec => []BlindInv
  <1> DEFINE Before(t) == pc[t] \in {"locked", "broadcast", "notify_level"}
  <1>1. Init => BlindInv
    BY LoadedUnconvinced DEF Init, BlindInv
  <1>2. TypeOK /\ BlindInv /\ [Next]_vars => BlindInv'
    <2> SUFFICES ASSUME TypeOK, BlindInv, [Next]_vars,
                        "BLIND_CAMERA" \in fusion'.anomalies, Convinced(input)'
                 PROVE  \E t \in Tasks : Before(t)'
      BY DEF BlindInv
    <2>1. ASSUME UNCHANGED <<fusion, input>>, NEW s \in Tasks, ~Before(s),
                 \A t \in Tasks \ {s} : pc'[t] = pc[t]
          PROVE  \E t \in Tasks : Before(t)'
      BY <2>1 DEF BlindInv, Convinced
    <2>2. ASSUME NEW t \in Tasks, pc' = [pc EXCEPT ![t] = pc'[t]],
                 pc'[t] \in {"locked", "broadcast", "notify_level"}
          PROVE  \E s \in Tasks : Before(s)'
      BY <2>2 DEF TypeOK
    <2>3. ASSUME NEW t \in Tasks, Obstruction(t), UNCHANGED fusion
          PROVE  FALSE
      BY <2>3, DowngradedIsCapped DEF Obstruction, Convinced, TypeOK
    <2>4. ASSUME NEW w \in Workers, NEW u \in Updates, Request(w, u)
          PROVE  \E t \in Tasks : Before(t)'
      <3>1. ~Before(w) /\ \A t \in Tasks \ {w} : pc'[t] = pc[t]
        BY <2>4 DEF Request, TypeOK
      <3>2. QED
        BY <2>1, <2>4, <3>1 DEF Request, level, Tasks
    <2>5. ASSUME NEW w \in Workers, Acquire(w) \/ Recalculate(w)
          PROVE  \E t \in Tasks : Before(t)'
      BY <2>2, <2>5 DEF Acquire, Recalculate, TypeOK, Tasks
    <2>6. ASSUME NEW t \in Tasks, StartLevelNotice(t)
          PROVE  \E s \in Tasks : Before(s)'
      BY <2>2, <2>6 DEF StartLevelNotice, Goes, TypeOK
    <2>7. ASSUME NEW t \in Tasks, SkipLevelNotice(t) \/ EndLevelNotice(t)
          PROVE  FALSE
      BY <2>3, <2>7 DEF SkipLevelNotice, EndLevelNotice
    <2>8. ASSUME NEW t \in Tasks, EndObstructionNotice(t) \/ EndRecommend(t)
          PROVE  \E s \in Tasks : Before(s)'
      <3>1. ~Before(t) /\ \A s \in Tasks \ {t} : pc'[s] = pc[s]
        BY <2>8, ObstructionPlaces DEF EndObstructionNotice, EndRecommend, Goes, TypeOK
      <3>2. UNCHANGED <<fusion, input>>
        BY <2>8 DEF EndObstructionNotice, EndRecommend, level
      <3>3. QED
        BY <2>1, <3>1, <3>2
    <2>9. ASSUME UNCHANGED <<pc, fusion, input>>
          PROVE  \E t \in Tasks : Before(t)'
      BY <2>9 DEF BlindInv, Convinced
    <2>10. ASSUME NEW th \in Thresholds, UpdateSetting(th)
           PROVE  \E t \in Tasks : Before(t)'
      BY <2>9, <2>10 DEF UpdateSetting, tasks, level
    <2>11. CASE Tick
      BY <2>9, <2>11 DEF Tick, tasks, level
    <2>12. CASE Restart
      BY <2>12, LoadedUnconvinced DEF Restart, Convinced
    <2>13. CASE UNCHANGED vars
      BY <2>9, <2>13 DEF vars
    <2>14. QED
      BY <2>4, <2>5, <2>6, <2>7, <2>8, <2>10, <2>11, <2>12, <2>13
         DEF Next, Calculate, BroadcastAndNotify
  <1>3. QED
    BY <1>1, <1>2, TypeCorrect, PTL DEF Spec

\* Once every task has ended, an analysis that calls the camera blind claims no
\* likely obstruction (_apply_blind_camera_downgrade): the stored status is
\* capped by BlindInv, and outside the lock it is the one that was analysed.
THEOREM BlindCamera == Spec => []BlindCameraIsCapped
  <1>1. TypeOK /\ FusionInv /\ BlindInv => BlindCameraIsCapped
    <2> SUFFICES ASSUME TypeOK, FusionInv, BlindInv, Quiet, "BLIND_CAMERA" \in fusion.anomalies
                 PROVE  ~Convinced(analysed)
      BY DEF BlindCameraIsCapped
    <2>1. ~Convinced(input)
      BY DEF BlindInv, Quiet
    <2>2. holder = NoTask
      BY DEF FusionInv, LockInv, Quiet, TypeOK
    <2>3. input.visual = analysed.visual
      BY <2>2 DEF FusionInv, OneSourceInFlight, Sources
    <2>4. QED
      BY <2>1, <2>3 DEF Convinced
  <1>2. QED
    BY <1>1, TypeCorrect, FusionInvHolds, BlindInvHolds, PTL

-----------------------------------------------------------------------------
(***************************************************************************)
(* The dispatches.                                                         *)
(***************************************************************************)

\* A step starts a recommendation in Recommend alone.
LEMMA RecommendDispatches ==
  ASSUME TypeOK, NEW t \in Tasks, Recommend(t), NEW s \in Tasks, Dispatches(s, "Recommendation")
  PROVE  fusion.combined_risk_score >= RecommendMinScore
  BY DEF TypeOK, Recommend, Dispatches, Sends, Finishes, NoDispatch

LEMMA ObstructionDispatches ==
  ASSUME TypeOK, NEW t \in Tasks, Obstruction(t), NEW s \in Tasks, Dispatches(s, "Recommendation")
  PROVE  fusion.combined_risk_score >= RecommendMinScore
  <1>1. CASE Recommend(t)
    BY <1>1, RecommendDispatches
  <1>2. CASE Sends(t, "Blockage")
    BY <1>2 DEF Sends, Dispatches, TypeOK
  <1>3. QED
    BY <1>1, <1>2 DEF Obstruction

LEMMA StepDispatches ==
  ASSUME TypeOK, [Next]_vars, NEW s \in Tasks, Dispatches(s, "Recommendation")
  PROVE  fusion.combined_risk_score >= RecommendMinScore
  <1> DEFINE Goal == fusion.combined_risk_score >= RecommendMinScore
  <1>1. ASSUME UNCHANGED dispatch PROVE Goal
    BY <1>1 DEF Dispatches
  <1>2. ASSUME NEW t \in Tasks, BroadcastAndNotify(t) PROVE Goal
    <2>1. CASE StartLevelNotice(t)
      BY <2>1 DEF StartLevelNotice, NotifiesLevel, Sends, Dispatches, TypeOK
    <2>2. CASE SkipLevelNotice(t)
      BY <2>2, ObstructionDispatches DEF SkipLevelNotice
    <2>3. CASE EndLevelNotice(t)
      BY <2>3, ObstructionDispatches DEF EndLevelNotice
    <2>4. CASE EndObstructionNotice(t)
      BY <2>4, RecommendDispatches DEF EndObstructionNotice
    <2>5. CASE EndRecommend(t)
      BY <2>5 DEF EndRecommend, Finishes, NoDispatch, Dispatches, TypeOK
    <2>6. QED
      BY <1>2, <2>1, <2>2, <2>3, <2>4, <2>5 DEF BroadcastAndNotify
  <1>3. CASE Restart
    BY <1>3 DEF Restart, NoDispatch, Dispatches
  <1>4. ASSUME NEW w \in Workers, NEW u \in Updates, Request(w, u) PROVE Goal
    BY <1>1, <1>4 DEF Request
  <1>5. ASSUME NEW w \in Workers, Calculate(w) PROVE Goal
    BY <1>1, <1>5 DEF Calculate, Acquire, Recalculate
  <1>6. ASSUME NEW th \in Thresholds, UpdateSetting(th) PROVE Goal
    BY <1>1, <1>6 DEF UpdateSetting, tasks
  <1>7. CASE Tick
    BY <1>1, <1>7 DEF Tick, tasks
  <1>8. CASE UNCHANGED vars
    BY <1>1, <1>8 DEF vars
  <1>9. QED
    BY <1>2, <1>3, <1>4, <1>5, <1>6, <1>7, <1>8, Zenon DEF Next

\* With a minimum above 50 (the code has 70), an evacuation is recommended
\* only at a level without a suspect source: the circuit breakers of
\* calculate_fusion_data leave the others too little.
THEOREM Corroboration ==
  ASSUME RecommendMinScore > 50
  PROVE  Spec => RecommendationCorroborated
  <1> DEFINE Sound == \A t \in Tasks :
        Dispatches(t, "Recommendation") =>
          fusion.anomalies \cap SuspectSources = {}
  <1>1. TypeOK /\ LevelMatchesAnalysis /\ [Next]_vars => Sound
    <2> SUFFICES ASSUME TypeOK, LevelMatchesAnalysis, [Next]_vars,
                        NEW t \in Tasks, Dispatches(t, "Recommendation"),
                        fusion.anomalies \cap SuspectSources # {}
                 PROVE  FALSE
      OBVIOUS
    <2>1. fusion.combined_risk_score >= RecommendMinScore
      BY StepDispatches
    <2>2. /\ fusion.anomalies = Anomalies(analysed)
          /\ fusion.combined_risk_score = Score(analysed)
      BY DEF LevelMatchesAnalysis, CalculateFusionData
    <2>3. Score(analysed) <= 50
      BY <2>2, SuspectScore DEF TypeOK
    <2>4. Score(analysed) \in Int
      BY ScoreRange DEF TypeOK
    <2>5. QED
      BY <2>1, <2>2, <2>3, <2>4, ConstantsAssumption
  <1>2. QED
    BY <1>1, TypeCorrect, LevelCorrect, PTL DEF Spec, RecommendationCorroborated

-----------------------------------------------------------------------------
(***************************************************************************)
(* FusionState implements FusionMonitor.                                   *)
(***************************************************************************)

\* The instance reads the score of FusionScoring under names of its own.
LEMMA MonitorScore ==
  /\ Monitor!Inputs = Inputs
  /\ Monitor!ThresholdSettings = ThresholdSettings
  /\ \A in, th : Monitor!CalculateFusionData(in, th) = CalculateFusionData(in, th)
  <1>1. /\ Monitor!Inputs = Inputs
        /\ Monitor!ThresholdSettings = ThresholdSettings
    BY Zenon
       DEF Monitor!Inputs, Inputs, Monitor!VisualStatus, VisualStatus,
           Monitor!WaterStatus, WaterStatus, Monitor!WeatherStatus,
           WeatherStatus, Monitor!Statuses, Statuses, Monitor!Tiers, Tiers,
           Monitor!ThresholdSettings, ThresholdSettings
  <1>2. ASSUME NEW in, NEW a PROVE Monitor!Detected(in, a) = Detected(in, a)
    BY Zenon
       DEF Monitor!Detected, Detected, Monitor!BlockageIs, BlockageIs,
           Monitor!WeatherClear, WeatherClear, Monitor!WeatherHeavy,
           WeatherHeavy, Monitor!WaterCritical, WaterCritical,
           Monitor!WaterLow, WaterLow, Monitor!WaterDeadFlat, WaterDeadFlat,
           Monitor!WaterRisingFast, WaterRisingFast
  <1>3. ASSUME NEW in PROVE Monitor!Anomalies(in) = Anomalies(in)
    BY <1>2, Zenon
       DEF Monitor!Anomalies, Anomalies, Monitor!AnomalyType, AnomalyType,
           Monitor!SuspectSources, SuspectSources
  <1>4. ASSUME NEW in PROVE Monitor!Score(in) = Score(in)
    <2>1. Monitor!VisualPart(in) = VisualPart(in)
      BY <1>2, Zenon DEF Monitor!VisualPart, VisualPart,
                         Monitor!BlockageScore, BlockageScore
    <2>2. Monitor!WaterPart(in) = WaterPart(in)
      <3>1. \A pct : Monitor!WaterScore(pct) = WaterScore(pct)
        BY Zenon DEF Monitor!WaterScore, WaterScore
      <3>2. \A water : Monitor!TrendRising(water) <=> TrendRising(water)
        BY Zenon DEF Monitor!TrendRising, TrendRising
      <3>3. QED
        BY <1>2, <3>1, <3>2 DEF Monitor!WaterPart, WaterPart
    <2>3. Monitor!WeatherPart(in) = WeatherPart(in)
      BY Zenon DEF Monitor!WeatherPart, WeatherPart, Monitor!WeatherScore, WeatherScore
    <2>4. QED
      BY <2>1, <2>2, <2>3, Zenon DEF Monitor!Score, Score
  <1>5. ASSUME NEW in, NEW th
        PROVE  Monitor!CalculateFusionData(in, th) = CalculateFusionData(in, th)
    <2>1. ASSUME NEW score PROVE Monitor!AlertName(score, th) = AlertName(score, th)
      BY Zenon DEF Monitor!AlertName, AlertName
    <2>2. QED
      BY <1>3, <1>4, <2>1, Zenon
         DEF Monitor!CalculateFusionData, CalculateFusionData,
             Monitor!AllUnavailable, AllUnavailable
  <1>6. QED
    BY <1>1, <1>5, Zenon

\* A task that announces changes the published analysis only by a downgrade.
LEMMA DowngradeRefines ==
  ASSUME TypeOK, FusionInv, NEW t \in Tasks, Announcing(t),
         UNCHANGED <<fusion, cache>>,
         analysed' \in {analysed, Downgraded(analysed)},
         \A s \in Tasks \ {t} : pc'[s] = pc[s]
  PROVE  Monitor!Next \/ UNCHANGED Monitor!monitorVars
  <1>1. pc'[Boot] # "idle" => pc[Boot] # "idle"
    BY DEF Announcing, Tasks
  <1>2. CASE analysed' # analysed
    <2>1. /\ "BLIND_CAMERA" \in fusion.anomalies
          /\ analysed' = [analysed EXCEPT !.visual.tier = "possible"]
      BY <1>2 DEF Downgraded
    <2>2. Monitor!DoubtCamera
      BY <1>1, <2>1 DEF Monitor!DoubtCamera
    <2>3. QED
      BY <2>2 DEF Monitor!Next
  <1>3. CASE analysed' = analysed
    <2>1. CASE pc[Boot] # "idle" /\ pc'[Boot] = "idle"
      BY <1>3, <2>1 DEF Monitor!Next, Monitor!Started
    <2>2. CASE (pc[Boot] # "idle") <=> (pc'[Boot] # "idle")
      BY <1>3, <2>2 DEF Monitor!monitorVars
    <2>3. QED
      BY <1>1, <2>1, <2>2
  <1>4. QED
    BY <1>2, <1>3

\* The readers of the analysis see one reading applied at a time, in one step,
\* whatever the tasks do in between (calculate_*_score, _broadcast_and_notify).
THEOREM Refinement == Spec => ImplementsMonitor
  <1>1. Init => Monitor!Init
    <2> SUFFICES ASSUME Init PROVE Monitor!Init
      OBVIOUS
    <2>1. analysed \in Inputs /\ cache \in ThresholdSettings
      BY OfferedTypes, ConstantsAssumption DEF Init
    <2>2. pc[Boot] # "idle"
      BY DEF Init, BootPC, Tasks
    <2>3. fusion = CalculateFusionData(analysed, cache)
      BY DEF Init
    <2>4. QED
      BY <2>1, <2>2, <2>3, MonitorScore DEF Monitor!Init
  <1>2. TypeOK /\ TypeOK' /\ FusionInv /\ [Next]_vars => [Monitor!Next]_(Monitor!monitorVars)
    <2> SUFFICES ASSUME TypeOK, TypeOK', FusionInv, [Next]_vars
                 PROVE  Monitor!Next \/ UNCHANGED Monitor!monitorVars
      OBVIOUS
    <2>1. ASSUME UNCHANGED <<fusion, analysed, cache>>, pc'[Boot] = pc[Boot]
          PROVE  UNCHANGED Monitor!monitorVars
      BY <2>1 DEF Monitor!monitorVars
    <2>2. ASSUME NEW w \in Workers, NEW u \in Updates, Request(w, u)
          PROVE  UNCHANGED Monitor!monitorVars
      BY <2>1, <2>2, ConstantsAssumption DEF Request, level, TypeOK, Tasks
    <2>3. ASSUME NEW w \in Workers, Acquire(w)
          PROVE  UNCHANGED Monitor!monitorVars
      BY <2>1, <2>3, ConstantsAssumption DEF Acquire, TypeOK, Tasks
    <2>4. ASSUME NEW w \in Workers, Recalculate(w)
          PROVE  Monitor!Next
      <3>1. /\ fusion' = CalculateFusionData(analysed', cache)
            /\ analysed' = input
            /\ UNCHANGED cache
        BY <2>4 DEF Recalculate, ScoredStatuses
      <3>2. pc[Boot] = "idle" /\ pc'[Boot] = "idle"
        BY <2>4, ConstantsAssumption
           DEF Recalculate, FusionInv, LockInv, TypeOK, Tasks
      <3>3. holder = w /\ update[w] \in Updates
        BY <2>4 DEF Recalculate, FusionInv, LockInv, Tasks
      <3>4. update[w].source \in {"visual", "water", "weather"}
        BY <3>3, OfferedTypes
      <3>5. \A other \in {"visual", "water", "weather"} \ {update[w].source} :
              analysed'[other] = analysed[other]
        BY <3>1, <3>3 DEF FusionInv, OneSourceInFlight, Sources
      <3>6. analysed' \in Monitor!Inputs
        BY MonitorScore DEF TypeOK
      <3>7. fusion' = Monitor!CalculateFusionData(analysed', cache)
        BY <3>1, MonitorScore
      <3>8. Monitor!Update
        BY <3>1, <3>2, <3>4, <3>5, <3>6, <3>7 DEF Monitor!Update
      <3>9. QED
        BY <3>8 DEF Monitor!Next
    <2>5. ASSUME NEW t \in Tasks, StartLevelNotice(t)
          PROVE  Monitor!Next \/ UNCHANGED Monitor!monitorVars
      BY <2>5, DowngradeRefines DEF StartLevelNotice, Goes, level, Announcing, TypeOK
    <2>6. ASSUME NEW t \in Tasks, SkipLevelNotice(t)
          PROVE  Monitor!Next \/ UNCHANGED Monitor!monitorVars
      BY <2>6, DowngradeRefines, ObstructionPlaces
         DEF SkipLevelNotice, Obstruction, Announcing
    <2>7. ASSUME NEW t \in Tasks, EndLevelNotice(t)
          PROVE  Monitor!Next \/ UNCHANGED Monitor!monitorVars
      BY <2>7, DowngradeRefines, ObstructionPlaces
         DEF EndLevelNotice, Obstruction, Announcing
    <2>8. ASSUME NEW t \in Tasks, EndObstructionNotice(t)
          PROVE  Monitor!Next \/ UNCHANGED Monitor!monitorVars
      BY <2>8, DowngradeRefines, ObstructionPlaces
         DEF EndObstructionNotice, level, Announcing
    <2>9. ASSUME NEW t \in Tasks, EndRecommend(t)
          PROVE  Monitor!Next \/ UNCHANGED Monitor!monitorVars
      BY <2>9, DowngradeRefines DEF EndRecommend, Goes, level, Announcing, TypeOK
    <2>10. ASSUME NEW th \in Thresholds, UpdateSetting(th)
           PROVE  UNCHANGED Monitor!monitorVars
      BY <2>1, <2>10 DEF UpdateSetting, tasks, level
    <2>11. CASE Tick
      BY <2>1, <2>11 DEF Tick, tasks, level
    <2>12. CASE Restart
      <3>1. pc'[Boot] # "idle"
        BY <2>12 DEF Restart, BootPC, Tasks
      <3>2. analysed' \in Monitor!Inputs /\ cache' \in Monitor!ThresholdSettings
        BY MonitorScore DEF TypeOK
      <3>3. fusion' = Monitor!CalculateFusionData(analysed', cache')
        BY <2>12, MonitorScore DEF Restart
      <3>4. Monitor!Reload
        BY <3>1, <3>2, <3>3 DEF Monitor!Reload
      <3>5. QED
        BY <3>4 DEF Monitor!Next
    <2>13. CASE UNCHANGED vars
      BY <2>1, <2>13 DEF vars
    <2>14. QED
      BY <2>2, <2>3, <2>4, <2>5, <2>6, <2>7, <2>8, <2>9, <2>10, <2>11, <2>12,
         <2>13 DEF Next, Calculate, BroadcastAndNotify
  <1>3. QED
    BY <1>1, <1>2, TypeCorrect, FusionInvHolds, PTL DEF Spec, ImplementsMonitor, Monitor!Spec
=============================================================================
