----------------------------- MODULE FusionState -----------------------------
(***************************************************************************)
(* FusionAnalysisState of one location (app/core/state.py).                *)
(*                                                                         *)
(* Every reading of the camera, the water sensor or the weather provider   *)
(* is an asyncio task that calls calculate_*_score: under a lock it stores *)
(* the new status and recomputes the fusion level; after the lock it       *)
(* broadcasts the level, notifies responders, downgrades a suspect camera, *)
(* and recommends an evacuation to the admins.  The tasks interleave at    *)
(* their awaits, and at nothing else: an action below is the code between  *)
(* two awaits.                                                             *)
(***************************************************************************)
EXTENDS FusionScoring

CONSTANTS
  Workers,            \* the tasks that carry a reading
  Boot,               \* the task that runs load_initial_state
  NoTask,             \* the holder of a free lock
  FrameTiers,         \* confidence tiers the camera engine may report
  StoredStatuses,     \* raw statuses a stored camera row may have
  Levels,             \* water statuses the sensor may report
  Rains,              \* weather statuses the provider may report
  Thresholds,         \* alert thresholds an admin may save
  Configured,         \* kinds with a system template and a subscriber
  NotifyCooldown,     \* [NotifyKinds -> Nat], in ticks
  RecommendCooldown,  \* in ticks
  RecommendMinScore,  \* EVACUATION_RECOMMEND_MIN_SCORE
  MaxClock            \* bound of the monotonic clock

Tasks == Workers \cup {Boot}
NotifyKinds == {"Critical", "Warning", "Blockage"}
DispatchKinds == NotifyKinds \cup {"Recommendation", "none"}

Frames == {[status |-> StatusFromTier(c), tier |-> c] : c \in FrameTiers}
StoredFrames == {[status |-> s, tier |-> "none"] : s \in StoredStatuses}

Sources == {"visual", "water", "weather"}
Offered(source) ==
  CASE source = "visual" -> Frames
    [] source = "water" -> Levels
    [] source = "weather" -> Rains
Updates == UNION {[source : {k}, status : Offered(k)] : k \in Sources}

\* An update slot without an update in it.
NoUpdate == [source |-> "none", status |-> Absent]
NoDispatch == [kind |-> "none", now |-> 0]

ASSUME ConstantsAssumption ==
  /\ Boot \notin Workers
  /\ NoTask \notin Tasks
  /\ FrameTiers \subseteq Tiers
  /\ StoredStatuses \subseteq Statuses
  /\ Levels \subseteq WaterStatus
  /\ Rains \subseteq WeatherStatus
  /\ Thresholds \subseteq ThresholdSettings
  /\ Thresholds # {}
  /\ Configured \subseteq NotifyKinds
  /\ NotifyCooldown \in [NotifyKinds -> Nat]
  /\ RecommendCooldown \in Nat
  /\ RecommendMinScore \in Nat
  /\ MaxClock \in Nat

VARIABLES
  pc,             \* where each task is between two awaits
  update,         \* the reading each task carries until it is analysed
  dispatch,       \* what each task is sending, with the time it read before
  holder,         \* the task that holds self._lock
  input,          \* blockage_status, water_level_status, weather_status
  fusion,         \* fusion_data
  analysed,       \* the statuses inside fusion_analysis
  lastNotify,     \* _last_{critical,warning,blockage}_notify_time
  recommended,    \* _recommendation_active
  lastRecommend,  \* _last_recommendation_time
  cache,          \* the thresholds cache_service holds
  setting,        \* the alert_thresholds row of system_settings
  clock           \* time.monotonic(): seconds since the host booted

tasks == <<pc, update, dispatch>>
level == <<holder, input, fusion, analysed>>
cooldowns == <<lastNotify, recommended, lastRecommend>>
vars == <<pc, update, dispatch, holder, input, fusion, analysed, lastNotify,
          recommended, lastRecommend, cache, setting, clock>>

PC == {"idle", "waiting", "locked", "broadcast", "notify_level",
       "notify_obstruction", "recommend"}

TypeOK ==
  /\ pc \in [Tasks -> PC]
  /\ update \in [Tasks -> Updates \cup {NoUpdate}]
  /\ dispatch \in [Tasks -> [kind : DispatchKinds, now : Nat]]
  /\ holder \in Tasks \cup {NoTask}
  /\ input \in Inputs
  /\ fusion \in FusionData
  /\ analysed \in Inputs
  /\ lastNotify \in [NotifyKinds -> Nat]
  /\ recommended \in BOOLEAN
  /\ lastRecommend \in Nat
  /\ cache \in ThresholdSettings
  /\ setting \in ThresholdSettings
  /\ clock \in Nat

-----------------------------------------------------------------------------
(***************************************************************************)
(* Start and restart: load_initial_state.                                  *)
(***************************************************************************)

\* Each source is loaded from its last stored row unless the row is too old.
\* A producer stores a row before it calls the fusion state, so the row may
\* be any reading whatever this process has analysed so far. A camera row
\* holds the status of one frame, without the confidence of a window.
Loaded == [visual  : StoredFrames \cup {Absent},
           water   : Levels \cup {Absent},
           weather : Rains \cup {Absent}]

\* load_initial_state has computed the level and starts to broadcast it: no
\* request is served before its task ends.
BootPC == [t \in Tasks |-> IF t = Boot THEN "broadcast" ELSE "idle"]

Init ==
  /\ pc = BootPC
  /\ update = [t \in Tasks |-> NoUpdate]
  /\ dispatch = [t \in Tasks |-> NoDispatch]
  /\ holder = NoTask
  /\ setting \in Thresholds
  /\ cache = setting
  /\ input \in Loaded
  /\ fusion = CalculateFusionData(input, cache)
  /\ analysed = input
  /\ lastNotify = [k \in NotifyKinds |-> 0]
  /\ recommended = FALSE
  /\ lastRecommend = 0
  /\ clock \in 0 .. MaxClock

\* The process dies at any await and is started again, on the same host or on
\* one that has just booted. The settings row survives, and its first use
\* fills the cache.
Restart ==
  /\ pc' = BootPC
  /\ update' = [t \in Tasks |-> NoUpdate]
  /\ dispatch' = [t \in Tasks |-> NoDispatch]
  /\ holder' = NoTask
  /\ cache' = setting
  /\ input' \in Loaded
  /\ fusion' = CalculateFusionData(input', cache')
  /\ analysed' = input'
  /\ lastNotify' = [k \in NotifyKinds |-> 0]
  /\ recommended' = FALSE
  /\ lastRecommend' = 0
  /\ clock' \in {0, clock}
  /\ UNCHANGED setting

-----------------------------------------------------------------------------
(***************************************************************************)
(* calculate_*_score, the part under the lock.                             *)
(***************************************************************************)

\* A producer delivers a reading. Requests are served once startup is over.
Request(w, u) ==
  /\ pc[w] = "idle"
  /\ pc[Boot] = "idle"
  /\ pc' = [pc EXCEPT ![w] = "waiting"]
  /\ update' = [update EXCEPT ![w] = u]
  /\ UNCHANGED <<dispatch, level, cooldowns, cache, setting, clock>>

\* A task takes the lock only when nobody has it.
LockIgnored == TRUE
LockFree == holder = NoTask

\* The lock is given back when the block under it ends.
LockKept == UNCHANGED holder
LockReleased == holder' = NoTask

\* The statuses a recalculation reads: the stored ones, all three of them.
PreviousStatuses == analysed
ScoredStatuses == input

\* The status is stored, then the task awaits the thresholds: until it comes
\* back the new status is visible next to the old level.
Acquire(w) ==
  /\ pc[w] = "waiting"
  /\ LockFree
  /\ pc' = [pc EXCEPT ![w] = "locked"]
  /\ holder' = w
  /\ input' = [input EXCEPT ![update[w].source] = update[w].status]
  /\ UNCHANGED <<update, dispatch, fusion, analysed, cooldowns, cache,
                 setting, clock>>

\* _recalculate_fusion_data, the end of the lock, and the snapshot handed to
\* the broadcast: no await lies between them. The thresholds come from the
\* cache, which nothing but a restart changes.
Recalculate(w) ==
  /\ pc[w] = "locked"
  /\ fusion' = CalculateFusionData(ScoredStatuses, cache)
  /\ analysed' = input
  /\ LockReleased
  /\ pc' = [pc EXCEPT ![w] = "broadcast"]
  /\ update' = [update EXCEPT ![w] = NoUpdate]
  /\ UNCHANGED <<dispatch, input, cooldowns, cache, setting, clock>>

-----------------------------------------------------------------------------
(***************************************************************************)
(* _broadcast_and_notify: what a task does after its broadcast, reading    *)
(* the shared state as the other tasks have left it.                       *)
(***************************************************************************)

Sends(t, kind) == dispatch' = [dispatch EXCEPT ![t] = [kind |-> kind, now |-> clock]]
Finishes(t) == dispatch' = [dispatch EXCEPT ![t] = NoDispatch]
Goes(t, place) == pc' = [pc EXCEPT ![t] = place]

CooledDown(kind) == clock - lastNotify[kind] >= NotifyCooldown[kind]

\* _resolve_notification_content takes a template only if it is an
\* announcement, whoever asks; the system templates never are.
TemplateAccepted(kind) == kind = "announcement"

\* The send arms the cooldown when it returns True, not when it returns False
\* (no template or no subscriber) or raises.
Arms(t) ==
  LET kind == dispatch[t].kind IN
  lastNotify' = IF kind \in Configured /\ TemplateAccepted(kind)
                  THEN [lastNotify EXCEPT ![kind] = dispatch[t].now]
                  ELSE lastNotify

\* A risk under the minimum ends the standing recommendation.
RecommendationCleared == recommended' = FALSE

\* _maybe_emit_evacuation_recommendation up to its await.
Recommend(t) ==
  \/ /\ fusion.combined_risk_score < RecommendMinScore
     /\ RecommendationCleared
     /\ Goes(t, "idle") /\ Finishes(t)
  \/ /\ fusion.combined_risk_score >= RecommendMinScore
     /\ recommended
     /\ clock - lastRecommend < RecommendCooldown
     /\ Goes(t, "idle") /\ Finishes(t)
     /\ UNCHANGED recommended
  \/ /\ fusion.combined_risk_score >= RecommendMinScore
     /\ ~recommended \/ clock - lastRecommend >= RecommendCooldown
     /\ Goes(t, "recommend") /\ Sends(t, "Recommendation")
     /\ UNCHANGED recommended

\* No cap at all: the downgrade is forgotten.
DowngradedNever(in) == in

\* _apply_blind_camera_downgrade on one set of statuses.
Downgraded(in) ==
  IF /\ in.visual # Absent
     /\ in.visual.tier \in {"likely", "confirmed"}
     /\ "BLIND_CAMERA" \in fusion.anomalies
    THEN [in EXCEPT !.visual.tier = "possible"]
    ELSE in

\* A camera reading is stored and not yet analysed: then, and only then,
\* blockage_status is not the object inside fusion_analysis.
VisualPending == holder # NoTask /\ update[holder].source = "visual"

\* _should_notify_obstruction.
ShouldNotifyObstruction(in) ==
  /\ in.visual # Absent
  /\ \/ in.visual.tier \in {"likely", "confirmed"}
     \/ in.visual.tier = "none" /\ in.visual.status = "blocked"

\* The downgrade changes the confidence object in place, so the analysis that
\* shares it changes too. Then the obstruction notice, or straight on.
Obstruction(t) ==
  /\ input' = Downgraded(input)
  /\ analysed' = IF VisualPending THEN analysed ELSE Downgraded(analysed)
  /\ \/ /\ ShouldNotifyObstruction(Downgraded(input))
        /\ CooledDown("Blockage")
        /\ Goes(t, "notify_obstruction") /\ Sends(t, "Blockage")
        /\ UNCHANGED recommended
     \/ /\ ~(ShouldNotifyObstruction(Downgraded(input)) /\ CooledDown("Blockage"))
        /\ Recommend(t)

\* The first branch of the if is lost.
NotifiesWarning == fusion.alert_name = "Warning" /\ CooledDown("Warning")

NotifiesLevel ==
  fusion.alert_name \in {"Critical", "Warning"} /\ CooledDown(fusion.alert_name)

\* The broadcast of task t is over, and the level, whoever computed it, asks
\* for a notification.
StartLevelNotice(t) ==
  /\ pc[t] = "broadcast"
  /\ NotifiesLevel
  /\ Goes(t, "notify_level") /\ Sends(t, fusion.alert_name)
  /\ UNCHANGED <<update, level, cooldowns, cache, setting, clock>>

SkipLevelNotice(t) ==
  /\ pc[t] = "broadcast"
  /\ ~NotifiesLevel
  /\ Obstruction(t)
  /\ UNCHANGED <<update, holder, fusion, lastNotify, lastRecommend, cache,
                 setting, clock>>

EndLevelNotice(t) ==
  /\ pc[t] = "notify_level"
  /\ Arms(t)
  /\ Obstruction(t)
  /\ UNCHANGED <<update, holder, fusion, lastRecommend, cache, setting, clock>>

EndObstructionNotice(t) ==
  /\ pc[t] = "notify_obstruction"
  /\ Arms(t)
  /\ Recommend(t)
  /\ UNCHANGED <<update, level, lastRecommend, cache, setting, clock>>

\* The recommendation was broadcast; it counts from the time read before.
TimeStored(t) == lastRecommend' = dispatch[t].now /\ UNCHANGED recommended
RecommendationStands(t) == lastRecommend' = dispatch[t].now /\ recommended' = TRUE

EndRecommend(t) ==
  /\ pc[t] = "recommend"
  /\ RecommendationStands(t)
  /\ Goes(t, "idle") /\ Finishes(t)
  /\ UNCHANGED <<update, level, lastNotify, cache, setting, clock>>

-----------------------------------------------------------------------------
(***************************************************************************)
(* The environment: an admin saves thresholds (the row changes, the cache  *)
(* does not), and time passes.                                             *)
(***************************************************************************)
UpdateSetting(th) ==
  /\ setting' = th
  /\ UNCHANGED <<tasks, level, cooldowns, cache, clock>>

Tick ==
  /\ clock < MaxClock
  /\ clock' = clock + 1
  /\ UNCHANGED <<tasks, level, cooldowns, cache, setting>>

Calculate(t) ==
  \/ Acquire(t)
  \/ Recalculate(t)

BroadcastAndNotify(t) ==
  \/ StartLevelNotice(t)
  \/ SkipLevelNotice(t)
  \/ EndLevelNotice(t)
  \/ EndObstructionNotice(t)
  \/ EndRecommend(t)

Next ==
  \/ \E w \in Workers, u \in Updates : Request(w, u)
  \/ \E w \in Workers : Calculate(w)
  \/ \E t \in Tasks : BroadcastAndNotify(t)
  \/ \E th \in Thresholds : UpdateSetting(th)
  \/ Tick
  \/ Restart

Spec == Init /\ [][Next]_vars

\* The event loop runs every task that can go on, and every await of the code
\* (database, sockets, pushes) ends. asyncio.Lock wakes its waiters in the
\* order they came, so a waiter that finds the lock free again and again is
\* served: strong fairness.
Fairness ==
  /\ \A w \in Workers : SF_vars(Acquire(w)) /\ WF_vars(Recalculate(w))
  /\ \A t \in Tasks : WF_vars(BroadcastAndNotify(t))

FairSpec == Spec /\ Fairness

-----------------------------------------------------------------------------
(***************************************************************************)
(* Properties.                                                             *)
(***************************************************************************)

\* The level shown is the score of the statuses shown with it, under the
\* thresholds in force: fusion_data and the statuses of fusion_analysis never
\* come from different moments (_recalculate_fusion_data).
LevelMatchesAnalysis == fusion = CalculateFusionData(analysed, cache)

\* The stored statuses differ from the analysed ones in one source at most,
\* the one whose task holds the lock and awaits the thresholds: two readings
\* are never half applied together, and no reading is lost once its task has
\* left the lock (calculate_*_score).
OneSourceInFlight ==
  \A s \in Sources :
    input[s] # analysed[s] =>
      /\ holder # NoTask
      /\ pc[holder] = "locked"
      /\ update[holder].source = s

\* What makes the two inductive: the lock has the task it names and no other,
\* only a worker with a reading gets near it, and startup is over by then.
LockInv ==
  /\ \A t \in Tasks : pc[t] = "locked" <=> holder = t
  /\ \A t \in Tasks : pc[t] \in {"waiting", "locked"} => update[t] \in Updates
  /\ pc[Boot] \notin {"waiting", "locked"}
  /\ pc[Boot] # "idle" => \A w \in Workers : pc[w] = "idle"

FusionInv == LockInv /\ LevelMatchesAnalysis /\ OneSourceInFlight

Dispatches(t, kind) == dispatch[t].kind # kind /\ dispatch'[t].kind = kind

\* "suppress entirely when the BLIND_CAMERA anomaly casts doubt on the camera"
\* (_broadcast_and_notify): no obstruction notice is started at a level that
\* calls the camera blind. It fails of a status loaded at startup, which has no
\* confidence to cap and is judged by its raw status.
SuspectCameraSilent ==
  [][\A t \in Tasks :
       Dispatches(t, "Blockage") => "BLIND_CAMERA" \notin fusion.anomalies]_vars

\* An evacuation is recommended only at a level no tripped circuit breaker has
\* a part in: with one source suspected, the others cannot reach the minimum.
RecommendationCorroborated ==
  [][\A t \in Tasks :
       Dispatches(t, "Recommendation") =>
         fusion.anomalies \cap SuspectSources = {}]_vars

Quiet == \A t \in Tasks : pc[t] = "idle"

\* Once every task has ended, a risk over the minimum has a recommendation
\* standing, whatever the order in which the tasks read the score
\* (_maybe_emit_evacuation_recommendation).
HighRiskIsRecommended ==
  Quiet /\ fusion.combined_risk_score >= RecommendMinScore => recommended

\* Its inductive form: until then some task is on its way to the decision.
Announcing(t) ==
  pc[t] \in {"broadcast", "notify_level", "notify_obstruction", "recommend"}

RecommendInv ==
  fusion.combined_risk_score >= RecommendMinScore =>
    recommended \/ \E t \in Tasks : Announcing(t)

\* "cap the obstruction confidence so a suspect camera can never *raise*
\* confidence" (_apply_blind_camera_downgrade): once every task has ended, no
\* analysis that calls the camera blind claims a likely obstruction, whichever
\* task brought the level, the frame or the cap, and in whatever order they
\* passed the downgrade.
Convinced(in) == in.visual # Absent /\ in.visual.tier \in {"likely", "confirmed"}

BlindCameraIsCapped ==
  Quiet /\ "BLIND_CAMERA" \in fusion.anomalies => ~Convinced(analysed)

\* Its inductive form, of the stored status: until it is capped some task has
\* the downgrade before it.
BlindInv ==
  "BLIND_CAMERA" \in fusion.anomalies /\ Convinced(input) =>
    \E t \in Tasks : pc[t] \in {"locked", "broadcast", "notify_level"}

\* "auto-clears when risk relaxes": once every task has ended at a risk under
\* the minimum, no recommendation stands. It holds of readings that come one
\* at a time, and fails of two that overlap.
RecommendationAutoClears ==
  Quiet /\ fusion.combined_risk_score < RecommendMinScore => ~recommended

\* "Returns True on successful send, False if no template is configured or no
\* subscribers exist": with both in place the send succeeds, and arms the
\* cooldown.
ConfiguredDispatchArms ==
  [][\A t \in Tasks :
       (EndLevelNotice(t) \/ EndObstructionNotice(t)) /\ dispatch[t].kind \in Configured
         => lastNotify'[dispatch[t].kind] = dispatch[t].now]_vars

\* Every reading a producer delivers gets through the lock, is analysed, and
\* its task ends (or the process restarts): nobody waits for a lock for ever.
UpdateCompletes ==
  \A w \in Workers : pc[w] = "waiting" ~> pc[w] = "idle"

\* A Critical level found at the end of a broadcast, outside the cooldown,
\* leads to a Critical dispatch, by that task or by another one if it is cut
\* short by a restart, unless the level changes first.
CriticalLeadsToDispatch ==
  \A t \in Tasks :
    (/\ pc[t] = "broadcast"
     /\ fusion.alert_name = "Critical"
     /\ CooledDown("Critical"))
      ~> (\/ \E u \in Tasks : dispatch[u].kind = "Critical"
          \/ fusion.alert_name # "Critical"
          \/ ~CooledDown("Critical"))

-----------------------------------------------------------------------------
(***************************************************************************)
(* The readers of fusion_analysis see a FusionMonitor: the statuses are    *)
(* those of the last analysis, not those stored while a task awaits.       *)
(***************************************************************************)
Monitor == INSTANCE FusionMonitor WITH
             statuses <- analysed,
             level <- fusion,
             thresholds <- cache,
             starting <- pc[Boot] # "idle"

\* FusionState implements FusionMonitor: each reading is one atomic change of
\* the published analysis, however the tasks interleave under and after the
\* lock.
ImplementsMonitor == Monitor!Spec
=============================================================================
