# AGOS backend: a verification project

AGOS watches waterways for floods. Each location has a camera, a water level
sensor and a weather feed; the backend fuses their readings into one risk level,
tells responders about it, and lets an admin order an evacuation. It is one
asyncio process (FastAPI, `app/main.py`) over a PostgreSQL database: tasks
interleave at their awaits and at nothing else, requests at the database too.

This directory holds TLA+ modules translated from `app/`, TLC configurations
that check them on small instances, and TLAPS proofs of what matters most.

## 1. Inventory

| Component | State it keeps | Operations | Correct when |
|---|---|---|---|
| Fusion analysis state (`core/state.py`) | per location: three statuses, the level, what was published, four cooldown times, a recommendation flag, a lock; all in memory | a reading of each source, load at startup | the level is the score of the statuses shown with it; no reading is lost; alerts come out and are not repeated; what a suspect camera claims is capped |
| Fusion scoring (`core/fusion_scoring.py`) | none | score, anomalies, level | a worse reading never calms the level; Critical is corroborated |
| Cache (`services/cache_service.py`) | device ids, coordinates, sensor configuration, thresholds | fill on first use, refresh on some updates | what is cached follows what is saved |
| Sensor ingest (`services/sensor_reading`) | readings in the database | record, summarise | readings that overlap an update use the saved configuration |
| Camera stream and inference (`services/ml_service.py`) | a window of readings and a busy flag per location | upload frame, infer, grade | a likely blockage rests on sustained evidence, a blockage that stays is noticed |
| Weather fetch (`services/weather`) | retry and refetch timers, latest conditions | periodic fetch, retry, refetch | fresh weather returns after any failure, what is stored is fused unless its save raised |
| Websocket hub (`core/ws_manager.py`) | sockets per location | connect, disconnect, broadcast | no client is left behind the newest broadcast |
| Notifications and escalation | dispatches, deliveries, acknowledgements, subscriptions | send, acknowledge, escalate | a row says what the devices answered; an overdue delivery is escalated, and every attempt counted or lost to a failure |
| Evacuation workflow | audit events, a dedupe map in memory | confirm, list, prune | no double blast; whatever went out is broadcast and audited, or the admin sees an error |
| Responder app and OTP | one OTP row per responder, responder status | request, resend, verify | bounded attempts, single use |
| Responder groups | groups and their members | create, update, delete, activation adds a member | no duplicate names, the default group survives |
| Templates | one default template per type | create, update, delete, demote | one default of an indexed type, but for the losses that are named |
| Reports (`crud/notification_log.py`, exports, trend) | none | pages, numbers, charts | each row is shown once, the numbers agree |
| Sessions | refresh tokens, account status | login, refresh, logout, deactivate | not modelled, see section 6 |
| Scheduler, daily summary, cleanup | summaries, retention | nightly jobs | a summary per location and day, of all its readings |

Components call each other directly: a producer (sensor, camera, weather) writes
its row, then awaits the fusion state, which awaits the websocket hub, the
responder notifications and the recommendation. They share the event loop, the
caches and the database (READ COMMITTED). Hard behaviours are therefore: a value
read before an await and used after it, a restart between two steps, caches that
nothing refreshes, two requests between a check and its commit, and external
calls that fail half way. PROJECT.json lists them at their lines.

## 2. Modules

`FusionScoring` gives the score as operators without state. Percentages are in
tenths, rates and rain in hundredths, the resolution the code rounds to, so every
comparison of the code is one of integers. Four more modules hold computations:

| Module | Computes | Reference it is checked against |
|---|---|---|
| `Detection` | the boxes of the network, clipped and suppressed; the share of the width they cover; the status | the set of covered columns of pixels |
| `DailySummary` | the extremes and the risks of a day, with the closest reading of the other sources | the closest reading said without a loop; risks and extremes against each other |
| `WeatherCodes` | the codes of two providers as WMO codes, their condition and storm risk | every code is known to those who rank it, and wet codes rank over dry ones |
| `Reports` | the notification log, its analytics and export, alerts, pages of readings, the trend | pages against the whole, numbers against the pages |

Where the code loops, they are recursive functions whose argument counts the steps,
and where it asks for an order, the list in that order of a set; a row of a query is
the place of a delivery, so that a WHERE is a set and a COUNT its size. `Lists` has
what they share: the lists of a set in an order, sums, and lists put one after
another.

`FusionScoringMC` takes inputs of all five: a grid of readings with both sides of
every boundary, boxes of a frame, readings of a day, weather codes, deliveries.

`FusionState` is one location. An action is the code between two awaits:

| Action | Code |
|---|---|
| `Request` | a producer calls `recalculate_*_score` |
| `Acquire` | `async with self._lock` and the store of the status, up to the await of the thresholds |
| `Recalculate` | the level, the analysis, the release of the lock |
| `StartLevelNotice`, `SkipLevelNotice` | after the broadcast: the level asks for a notice, or does not |
| `EndLevelNotice` | the send returns or raises; then downgrade, obstruction notice or recommendation |
| `EndObstructionNotice`, `EndRecommend` | the same for the other two awaits |
| `UpdateSetting` | an admin saves thresholds: the row changes, the cache does not |
| `Tick` | `time.monotonic()` advances |
| `Restart` | the process dies at any await; `load_initial_state` runs again |

`pc`, `update` and `dispatch` are the local variables of a task: where it
stands, the status it carries, and the `now` it read before an await. `analysed`
holds the statuses inside `fusion_analysis`; it differs from `input` (the
`self.*_status` fields) only while a task holds the lock. The confidence object
of a camera reading is shared by both, so a downgrade changes both unless a newer
camera reading waits for its level (`VisualPending`). Startup runs before requests are
served (`app/main.py` lifespan), in the task `Boot`. `Restart` may load any
reading that could be stored: a producer commits its row before it calls the
fusion state. The clock survives a restart of the process and starts at 0 on a
fresh host, and so do the cooldowns: a first alert may wait for one of them.

`FusionMonitor` is what the readers of the analysis are promised: statuses and a
level that is their score, changed by one whole reading at a time, by a doubt
about the camera that leaves the level alone, or by a reload. `FusionState`
implements it (`ImplementsMonitor`, statuses <- analysed, level <- fusion).

`Notifications` is a second component, on the database side. A send reads the
subscriptions of its responders, pushes to each device (`Push`; the webpush calls
block the event loop) and commits a dispatch with one delivery per responder
(`Commit`). The same operator serves the sends of admins and of the escalation
job:

| Action | Code |
|---|---|
| `Send` | `send_notification_to_subscribers` accepts a payload |
| `Push` | every device is tried, or an exception ends the send and its transaction |
| `Commit`, `CommitRaises` | `upsert_many_results`; a foreign key that no longer holds, or a commit that raises with its rows stored or not |
| `JobSelect`, `JobLock` | the query of `escalation_check_job`, and the row locks it waits for |
| `JobCount`, `JobCountRaises` | `increment_escalation_count`, a transaction each; one raises and the job gives up the rest |
| `Acknowledge`, `AcknowledgeCommit` | the insert of an acknowledgement, which locks the delivery, and its commit |
| `Subscribe`, `Age`, `Crash` | a new device; the escalation timeout passes; the process dies |

`status`, `count` and `acked` are committed rows. `expired` is what the push
service knows, and `reached`, `attempts` and `late` record what happened to the
devices, which the database may not know: the properties compare the two. `lost`
says how many attempts no count will ever tell of; `faults` bounds the crashes and
the awaits that raise.

`Evacuation` is the public alert of one location, from the admin's confirm to the
history that the citizen app reads:

| Action | Code |
|---|---|
| `Confirm` | the request up to its first await: the dedupe guard, then the check of the message |
| `Push` | the pushes to the location's subscribers, complete or ended by an exception |
| `CommitDispatch`, `PruneSubscriptions` | the commit of the dispatch row; the removal of dead devices; either may raise, before or after the database has it |
| `Broadcast`, `Audit` | the `public_alert` on the websockets; the audit row, whose commit or refresh may raise |
| `Subscribe`, `Unsubscribe` | a citizen's device comes or goes |
| `Cleanup` | `data_cleanup_job` prunes the audit rows by age and by rank |
| `Tick`, `Restart` | the clock; the process dies, and `_last_dispatch` with it |

Confirms are numbered in the order of their `created_at`, which is read before the
first await, so that audit rows may arrive out of order. `history` holds the audit
rows, `live` the broadcasts, `dispatched` the dispatch rows, and `reached` the
devices that really got the alert.

`Responders` holds the one-time codes of responders and the groups that admins keep;
they meet in the default group, to which an activation adds its responder. Requests
are interchangeable and run their transactions in any order; a code is the request
that generated it.

| Action | Code |
|---|---|
| `Register` | `bulk_create_responders` |
| `Send`, `Replace` | `resend_otp` and `for-approval` up to the await; the commit of `upsert_otp` |
| `Verify` | `verify_otp` makes sure of the default group and reads the code |
| `Forget`, `Count` | a code is deleted, or a miss counted, by responder |
| `CheckStatus`, `Activate`, `Consume` | the right code: activation, membership and deletion in one transaction, or the deletion alone |
| `Expire`, `Purge` | ten minutes pass; the nightly deletion |
| `ListGroups` | the default group is created on first use |
| `Create`, `Update`, `Delete` | an admin's request; the first two checks of `Update` come before the lock |
| `Lock`, `ReadMembers`, `Save`, `Remove` | `get_with_lock` and its checks, then the members are read and the difference written, or the group goes |

The row `otp[p]` is addressed by the responder, as in the code: a verification that
was slow hits whatever code stands there. `late` marks sends whose DELETE missed the
row another send inserted, and whose INSERT therefore fails. `author` remembers who
saved a group last, for `GroupIsItsAuthors`. Not a state of the code: which request
set `activated_at` (`activatedBy`) stands for its value.

`CameraFeed` is one camera, `WeatherFetch` the weather of all locations. Both hand
statuses to the fusion state, which they know by the last one it was given.
`FeedsMC` has either of them in a behaviour: they share no variable.

| Action | Code |
|---|---|
| `AcceptFrame`, `SkipFrame` | `process_frame_bytes` up to its first await: the throttle and its elevated interval |
| `Infer`, `InferFails` | the result of the executor, the window and the confidence tier |
| `StoreFrame`, `LoseFrame` | the row with the time of acceptance; the database refuses it |
| `FuseFrame` | `recalculate_visual_status_score` with the smoothed status |
| `CameraTick`, `RiskChanges`, `SceneChanges`, `CameraRestart` | time, the fusion level, what the camera sees, the process |
| `StartWeather`, `StopWeather` | `weather_service.start` with the load of the fusion states; the process dies |
| `IntervalJob`, `RetryJob`, `RefetchJob`, `RequestRefetch` | the triggers, and the stale check of a client that connects |
| `FetchEnds` | the answers of the provider: conditions, a rate limit, or an error and its retry |
| `SaveWeather`, `SaveRaises`, `FuseWeather` | the loop over the locations; a save raises before its commit or, in the refresh, after it |

Time is kept as ages in `CameraFeed`, so that no clock needs a bound. Frames are
compared by acceptance: `elders` and `overtaken` say which frame is older than the
newest row. `graded` and `flagged` count evidence over the life of the process,
`healthy` says that provider and database answer, `unfused` names the locations whose
newest row is that of a save that raised; none of them is in the code.

Four services that share the process and no variable are composed in `ServiceMC`,
where a behaviour is one of any of them:

`SensorIngest`, readings of devices and updates of the configuration they are
turned into levels with: `Receive`, `QueryConfig`, `FillConfig`, `StoreReading`,
`FuseReading`, `ReadingFails` are `record_reading`; `SaveConfig`, `QuerySaved`,
`FillSaved` are `update_device_config`, its commit, query and assignment, and
`UpdateFails` is an exception after the commit, from the refresh or the query: the row
is new and the cache is not (`missed`). Readings
are numbered by their timestamps and come in any order. The cache has one
configuration for all devices, filled from the row of the first or from that of the
last updated one, as in the code.

`WsHub`, the sockets of one location: `Connect`, `ReadInitial`, `SendInitial`,
`SendFusionState`, `EndpointEnds` are the endpoint of a client; `FusionChanges`,
`RowAnnounced`, `SendNext`, `BroadcastEnds` are broadcasts, which overlap. A message
is a topic and a version. Any send may raise: the broadcast then unregisters a socket
that is still open and whose endpoint goes on (`dropped`). `seen` is the newest version
a client was sent, so that an older message after a newer one makes no difference.

`Templates`, requests of admins with a database session each: `AskDefault`,
`Demote`, `Create`, `LoadTemplate`, `Update`, `AskDelete`, `Delete`,
`RequestFails`. `known` is the identity map of the session, which keeps what it has
read; `stripped` records types that lost their template by other than its
replacement.

`DailyJobs`, the midnight summaries and the deletion of old readings, over several
days: `StartSummaries`, `CheckExisting`, `QuerySource`, `SaveSummary`,
`SummariesRaise`, `StartCleaning`, `DeleteOlder`, `CleaningRaises`, with readings
that arrive, a retention that changes, the seed script, and a process that is down
at any hour. `owed`, `lost` and `short` record what a summary should have seen, and
why it may be missing or lack something.

## 3. Runs

| Run | Question | Bounds |
|---|---|---|
| `grid` | is Critical corroborated and the level monotone; are coverage, summaries, codes and reports what their references say? | 8 levels x 5 rates x 7 rains x 3 statuses, each or absent, seeded tiers; 3 boxes on 3 x 2 pixels; 2 readings of each source at 4 times; all codes; 3 deliveries |
| `safety` | level and statuses in step, no lost reading, no unrecommended high risk, a blind camera capped; does the code implement the monitor? | 2 workers and Boot, 2 tiers, 3 levels, 2 rains, clock to 2, workers symmetric |
| `live` | does every reading end, and does Critical lead to a dispatch? | 2 workers, 2 threshold settings saved at any time, clock to 1, fairness |
| `auto_clear`, `dispatch`, `blind_camera` | what a comment or a document says and the code does not do | as `safety` |
| `feeds` | does a likely blockage rest on evidence, is every stored condition fused, is a lasting blockage noticed, does fresh weather return? | 2 frames at once, window of 2, intervals of 2 and 1 ticks, 1 fault; 2 locations, 2 conditions, 2 retries; fairness |
| `service` | does the cache follow what is saved, is no client left behind, does a default stand, is every day summarised? | 2 devices, 2 readings, 2 updates, 2 configurations; 2 clients, 2 broadcasts, 2 versions of a topic; 2 requests, 4 templates; 2 locations, 2 days, retention of 1 or 2 days |
| `notify` | do the rows say what happened, is an answered delivery left alone, is every attempt counted once or lost, and is a critical delivery answered or escalated to the maximum? | 1 responder with 2 devices, 1 admin and the job, 3 dispatches, 4 attempts per delivery, 1 fault; fairness |
| `evacuation` | is the public alerted once, does pruning keep the newest, does every alert end broadcast and audited, or in an error? | 2 confirms, 1 device, window of 2 ticks, clock to 2, 1 restart, at most 1 audit row kept; any await may raise; fairness |
| `evac_audit` | is an alert that went out always recorded? | 1 confirm, 2 devices |
| `responders` | is a responder activated once and a member of the default group, are codes used up, are group updates whole? | 3 overlapping requests, 2 responders, 3 groups, 3 names, 2 attempts per code, all symmetric |

Two workers are enough for every pairwise race on one lock; the third task, Boot,
adds startup. A tick is the recommendation's cooldown, a quarter of an hour; the
notice cooldowns of half an hour and of 4 hours are shortened to 1 tick and, for a
blockage, 2, so that each can pass within the clock's bound. The workers are
interchangeable, and the runs of invariants and step properties use that symmetry. The readings are those that
reach each anomaly and each level. The bound of the clock is in the guard of `Tick`.

Fairness (`live`): the event loop runs every task that can go on and every await
returns (weak fairness); `asyncio.Lock` wakes its waiters in the order they came,
so a waiter is served (strong fairness of `Acquire`). Nothing is assumed of
readings, admins, time or restarts.

In `Notifications` the escalation maximum is 1: a second escalation repeats the
first. An admin's send and the job's make the races over a subscription. Each
responder's rows are its own, and the job treats its deliveries alike, so that one
responder with two devices shows the disorder of answers; the theorems are of any
number. A fault is a crash or an await that raises, at any place: one makes a push,
a commit or a count that is lost, and a later run of the job shows what follows. The
numbers of dispatches and attempts are bounded in the guards (`Room`, `MaxAttempts`),
so that the model may stop where the system goes on; its run does not check
deadlock. Its fairness assumes that the scheduler starts the job again and again
(`IntervalTrigger`), that sends and acknowledgements under way end, and that time
passes; nothing is assumed of admins, responders or browsers. It allows a delivery to
be left alone once the last dispatch number is used.

In `Evacuation` two confirms overlap in every way that matters to the guard, the
pruning and the end of one: of one kind or two, before and after a restart, audited out
of order. The clock passes from inside the window to its end. Confirms are numbered
and bounded, hence no check of deadlock. Fairness: the event loop runs every request
whose await has returned; nothing is assumed of admins, citizens, time, the nightly
job or restarts.

In `Responders` every hazard needs at most three requests: a send and two
verifications, two sends and a verification, a group's creation and two edits. With a
limit of 2 one miss is counted and the next exhausts the code. The requests are
bounded, hence no check of deadlock.

In `feeds` two frames are enough for one to overtake the other; with a window of 2 (5
in the code) every tier occurs, and "confirmed" and "likely" need different frames. One fault is a restart, a failed inference or a lost row at any
place. Two locations make a loop that can be cut in the middle. Fairness: the camera
goes on uploading, time passes, and the awaits of a frame end (the executor, an
upload with a timeout of 30 seconds, the database). The process starts again after
a stop, every await of a fetch ends (its requests time out), and the interval trigger fires
again and again and finds the lock free again and again: strong fairness, as a
retry may hold the lock at one firing but not at all of them. Nothing is assumed of
retries and refetches. `BlockageIsNoticed` and `WeatherRecovers` are conditional on
a scene, and a provider, that stay as they are.

In `service` every hazard takes two requests; a third device, client or request
repeats the role of another one. With two days one has ended, and the deletion of a
retention of one or two days reaches it or not. Clients, broadcasts and requests are
interchangeable; the run has no liveness property and uses that symmetry. All four
stop when their requests, versions or days are used up, hence no check of deadlock.

## 4. Disagreements found

* `auto_clear`: "auto-clears when risk relaxes" fails when two readings overlap:
  the flag is set after an await during which another task cleared it.
* `dispatch`: `system_initiated` is documented to bypass the announcement check;
  for templates it does not, so no automatic dispatch ever succeeds.
* `evac_audit`: "commit the dispatch row regardless of send outcomes": an exception
  other than `WebPushException` during the pushes loses the row, the broadcast and
  the audit of an alert that some citizens have received. So does a commit that fails,
  and an exception while dead devices are removed or the audit row is written loses
  what comes after; `BlastIsAudited` says that none of these is silent.
* `blind_camera`: "a suspect camera can never raise confidence or trigger an alert"
  (`state.py:237-238`): a status loaded at startup has no confidence to cap and is
  judged by its raw status, so that a start from a stored "blocked" frame sends an
  obstruction notice at a level that calls the camera blind. What holds is
  `BlindCameraIsCapped`.

Because of `dispatch`, `lastNotify` never leaves 0 in the model, as in the code.

Seen while modelling, and plain enough to need no run:

* `docs/architecture.md` says that the cache is invalidated on config updates;
  saving alert thresholds does not touch it, until a restart
  (`system_settings_service.py:21`).
* "Cache is populated on first access and invalidated on config updates"
  (`docs/architecture.md:138`): the cache is replaced two awaits after the commit of an
  update (`sensor_device.py:90-91`, `cache_service.py:32-33`). If one of them raises, or
  a reading that has read the old row fills the cache later, it keeps the old
  configuration until another update or a restart. What holds is `CacheFollowsSaves`,
  which names both.
* "Maximum re-notification attempts per delivery" (`docs/api-reference.md:293`): the
  maximum bounds `escalation_count`, and that is incremented after the whole send
  (`escalation.py:61-62`). A push, commit or count that raises, or a crash, leaves an
  attempt uncounted, and the next run repeats it, for as long as the cause lasts. What
  holds is `AttemptsAreCounted`.
* "Re-notifies unacknowledged" deliveries: an acknowledgement that commits while the
  escalation query waits for the row's lock comes too late. `LateAtMostOnce` bounds
  what follows.
* A delivery that failed has no `sent_at`, and `AlertListItem.timestamp` is required
  (`schemas/responder.py:152`). In descending order NULL comes first, so that one
  failed delivery makes the first page of a responder's alerts an error.
  `ReportsAddUp` states the pages of those who have none.

## 5. Proofs

Each theorem holds for every value of the constants that satisfies the named
assumption, which the runs evaluate. A safety property is proved from an inductive
invariant: it holds initially, every action keeps it (one lemma or step for each),
and it implies the property. The properties are seldom inductive themselves; the
lists below say what had to be added and why.

`FusionScoringProofs` and `FusionGridProofs` (no state but the inputs):

* the score is in 0..100 (`ScoreRange`); with a suspect source it is at most 50, so
  that Critical is corroborated by camera and water under every setting whose
  Critical starts at 76 (`CriticalCorroborated`);
* `NeverCalms`: of two sets of readings the worse, if no source in it is suspect, has
  no lower level, for all readings and all settings whose tiers are contiguous. A
  score between two tiers gets no tier of its own, and there the level can fall.
  `VisualWorse`, `WaterWorse` and `WeatherWorse` are the same of the parts.
* `GridCorroborated` and `GridNeverCalms`: `CriticalIsCorroborated` and
  `WorseNeverCalms` of the grid run, from those two.
* `UnionOfBoxes`: the coverage of a frame is the union of its boxes, for any boxes and
  any size of the frame. After each span the merge holds as many columns as the spans
  so far fill, and its last span is full and has nothing beyond it (`MergedWell`);
  after each box the suppression has kept, or dropped for one it kept, every box so
  far (`KeptWell`). `GridCoverage` is `CoverageIsUnion` of the run.
* `GridCodes`: `CodesAreKnown`, group by group of the codes.
* `SummaryFits`: in a day of any number of readings each is matched with the closest
  of another source within the gap. It needs readings in the order of their times,
  and says after n of them which is the best so far (`NearestWell`). `GridSummary` is
  `SummaryIsExplained` of the run.
* `GridReports`: `ReportsAddUp`, from `ReportsHold`, which has any log, any readings of
  the past and any page size. After p pages what was shown is what comes before row
  p * size (`PagesJoin`), and one row more than a page shows tells as much as the
  count of all (`PeekedOnce`). The numbers agree because types, responders, halves of
  the time and statuses each cut a set of rows into parts that are apart
  (`PartsCount`). The ranking compares averages by products, which is an order
  (`Across`), and has all who answered as long as ten are enough for them. An export
  differs from the table in no change but the first, because what lies between two
  times has no gaps (`ExportedRows`). A reading later than `now`
  would count in a bucket beyond what was asked for, so readings are of the past
  (`PastInv`).

Induction. The library's induction theorems take an operator, which no prover here
instantiates; well-founded induction over a *set* needs none. `Below` states it of the
naturals (a set with 0 that is closed under the next number has them all), `UpTo` and
`Grow` up to a number and of finite sets, and a hypothesis is the set of what has it.
That a loop's recursive function exists and follows its steps is `LoopRuns`, from a
function of a step and a state; that what can be compared can be listed in order is
`ListExists`.

`FusionStateProofs` (`ConstantsAssumption`): type correctness; `LevelMatchesAnalysis`
and `OneSourceInFlight`; `HighRiskIsRecommended`; `BlindCameraIsCapped`;
`RecommendationCorroborated`; the refinement of `FusionMonitor`.

* `OneSourceInFlight` is not inductive alone: a step under the lock must know that
  the lock's holder is the task that thinks so and carries an update. `LockInv` says
  that, and that nobody but Boot runs during startup, which the refinement needs.
  The downgrade keeps the level because no part of the score reads a confidence
  (`DowngradeKeepsLevel`).
* `HighRiskIsRecommended` follows from `RecommendInv`: until a recommendation stands
  some task is on its way to the decision. `RecommendationCorroborated` needs a
  minimum above 50 (the code has 70).
* `BlindCameraIsCapped` speaks of a process at rest. `BlindInv` says of every state that
  while the stored camera status claims a likely obstruction at a level that calls the
  camera blind, some task has the downgrade before it, whichever task brought the frame
  or the level. It is of the stored status; outside the lock the analysed one agrees.

`NotificationsProofs` (`NotificationsAssumption`): `TypeOK`, `LateAtMostOnce`,
`AttemptsAreCounted`, `SentIffReached`.

* The second and third need to know what the job knows of its selection (`Selected`,
  `ToCount`): each delivery was below the maximum, and until the push nobody has been
  notified for it after an answer; a late notification belongs to an acknowledged
  delivery (`LateIsAnswered`), which is not selected again.
* A dispatch that commits takes the next number, so `TypeOK` needs a number left for
  every send under way (`Space`), by the cardinality of the busy tasks.
* `AttemptsAreCounted` needs that nothing is left to count while the job sends, so that
  a push adds one to what is uncounted and nothing is counted twice.
* `SentIffReached` says that the rows agree with the devices that answered. A commit
  copies the rows of a push, so those must be true already when the push ends
  (`Truthful`), and the numbers not yet given must have no rows (`Unwritten`). What
  the push writes is computed by a loop over the responder's devices, the recursive
  function `RowAfter`; `RowTells` is its loop invariant, proved by induction.

The loop is shown to exist (`Loop`, `LoopEnds`) and followed by induction over a set,
as above.

`EvacuationProofs` (`EvacuationAssumption`): `NoDoubleBlast`, `TypeOK`,
`PruneKeepsNewest`.

* A confirm is compared with the last dispatch only, so the guard must remember, for
  each kind, a time no earlier than any alert of this life of the process
  (`Remembered`), and no alert is later than the clock (`Past`).
* The pruning compares times, and its property compares numbers of confirms. Rows are
  written out of order, so `Dated` says that a greater number has a time no earlier and
  that only what has come in is audited.

`RespondersProofs` (`RespondersAssumption`): type correctness with the bound on
attempts, `ActiveAreMembers`, `GroupIsItsAuthors`, `ActivatedOnce`, `UsedCodeIsGone`.

* Whoever is past the lock has a group that exists, is not the default one and is
  locked by nobody else, and has read its present members (`Holding`); the name of the
  default group never changes (`DefaultKeepsName`), which is what keeps it out; the
  author of a group has ended (`Authored`); whoever was activated is a member
  (`ActivatedAreMembers`), which is why a second activation fails.
* `UsedCodeIsGone` is not inductive alone: a send could bring a used code back, and a
  verification could use one up that stands again. `CodesInv` says that a code that
  stands, or that a verification has matched, is that of a send that is over, and a
  send inserts its own code once.

`FeedsProofs` (`CameraAssumption`, `WeatherAssumption`): `EvidenceIsSustained`,
`WeatherIsFused`, `FeedsTypeOK`.

* The fusion state gets a tier over two awaits, from a window that has changed since.
  `WindowCounted` relates the window to what this process has graded and flagged (with
  no more than one flagged frame, no two places of the window hold one), and
  `TiersSustained` says of the frames under way what the property says of the state.
* The theorem needs `K > 1`, which is why it is stated with that hypothesis. The code
  takes any window of at least one frame (`max(1, ...)`, ml_service.py:335), and with
  one frame a single flagged frame is likely or confirmed; the comment at
  ml_service.py:125 ("a lone flagged frame stays "possible"") holds of windows of two
  and more. The default is larger.
* A weather job stores a row and hands it on in two steps: `FusedIsSaved` says of the
  location between the two that what is handed on is what was stored. A save that
  raises after its commit marks its location (`unfused`) until the next status or start.

`ServiceProofs` (`IngestAssumption`, `TemplatesAssumption`, `HubAssumption`,
`JobsAssumption`): each property of the four services, their types (`ServiceTyped`),
and all four together of the composition (`ServiceSafe`): each step of the process is
a step of one and leaves the variables of the others alone.

* `CacheFollowsSaves`: a configuration that a request carries to the cache is the
  saved one of the row it was read from, unless the row was saved since, and then the
  request is marked (`CarriedOK`). An update that fails after its commit is no longer on
  its way, and marks the cache if it is of that device.
* `ClientsAreCurrent` needs that a client who is there and was not dropped is
  registered (`Registered`), that only sockets that are gone or dropped are marked as
  failed (`MessagesOK`), and what a client has or will get at each earlier step of its
  endpoint (`Informed`). Each action keeps what a client was told (`StaysTold`). That
  the registry is a list without duplicates (`HubTypeCorrect`) needs that a client who
  has not yet come is not in it.
* `DefaultStands`: "a request is replacing the default" is not inductive: one whose
  session believes that its own template has the type already writes nothing.
  `Pending` leaves that one out, and `EditsOK` says what a request has read by where
  it stands.
* `DaysAreSummarised` ties the nightly jobs together. A run is for yesterday and the
  locations it has passed have their summaries (`Running`); a reading that had arrived
  when the run began has been found, or is still in a table that the run has yet to
  query (`Collecting`), because the deletion that overlaps with it is of earlier days
  (`SparesYesterday`), but with a retention of one day, which `short` names.

Only model-checked are the liveness properties (`UpdateCompletes`,
`CriticalLeadsToDispatch`, `OverdueIsEscalated`, `BlastIsAudited`, `BlockageIsNoticed`,
`WeatherRecovers`), which are out of reach of the prover. Every invariant and action
property of the passing runs has its theorem.

## 6. Not modelled

* Wording, logging and payload formats; database errors inside the fusion state
  (its only query is cached after startup); the text checks of a notification; the
  retry of a weather fetch during startup in `FusionState` (`WeatherFetch` has it).
* Authentication, accounts and sessions: every request is taken as one that was let
  in.
* Profiles and preferences of responders, the texts sent to them, and a code that
  happens to equal an older one. Two changes of preferences at once lose one of them;
  nothing in the repository says what they should do.
* The network that finds boxes, letterbox scaling, the last-seen time of a camera;
  units and rounding of weather conditions; file formats of exports.
* The caches of devices and coordinates, whose rows no endpoint changes; readings of
  unknown devices, which change nothing; the backfill of summaries, which nothing
  calls.
* Analysis by an external model, uploads, the SMS client: calls without state of
  their own. Evacuation centers: one table with plain operations. Migrations and
  seed scripts, but for the seed of summaries.

## 7. Later work

Composing `Templates`, `Notifications` and `FusionState` to follow one automatic
dispatch from level to delivery, once the code lets one through.
