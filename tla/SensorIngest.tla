----------------------------- MODULE SensorIngest -----------------------------
(***************************************************************************)
(* Water level readings (sensor_reading/service.py, record_reading) and    *)
(* the sensor configuration that turns a distance into a level: a column   *)
(* of each device's row, edited by admins (sensor_device_service.py), and  *)
(* one copy of it in the cache (cache_service.py), read for every device.  *)
(*                                                                         *)
(* Readings are numbered in the order of their timestamps, which the       *)
(* devices choose: they may arrive and end in any order. A level is known  *)
(* by the reading and the configuration it was computed from. A step ends  *)
(* at an await that another request can tell from the rest.                *)
(***************************************************************************)
EXTENDS Integers

CONSTANTS
  Devices,   \* sensor devices, one per location
  First,     \* the device of location 1
  Readings,  \* timestamps of readings
  Updates,   \* requests of admins that save a configuration
  Configs,   \* what a configuration may be
  Nothing    \* no device, no configuration

ASSUME IngestAssumption ==
  /\ First \in Devices
  /\ Nothing \notin Devices \cup Configs
  /\ Readings \subseteq Nat \ {0}
  /\ Updates \cap Readings = {}

Requests == Readings \cup Updates

VARIABLES
  config,  \* sensor_devices.sensor_config
  cached,  \* _sensor_config_cache
  source,  \* the device from whose row the cache was filled last
  late,    \* requests whose device was saved since they read its row
  raced,   \* the cache was filled last by such a request
  missed,  \* an update of that device has failed since, its row saved
  device,  \* the device each request is about
  step,    \* where each request is between two awaits
  carried, \* the configuration a request has read, or used for its level
  rows,    \* sensor_readings: the configuration of each stored level
  water    \* water_level_status of each device's location

ingestVars ==
  <<config, cached, source, late, raced, missed, device, step, carried, rows, water>>

\* A status: the reading, the configurations that gave its level and its
\* percentage, and the reading its change is counted from, 0 for none.
NoWater == [reading |-> 0, level |-> Nothing, percent |-> Nothing, since |-> 0]
Times == Readings \cup {0}
Waters == [reading : Times, level : Configs \cup {Nothing},
           percent : Configs \cup {Nothing}, since : Times]

IngestTypeOK ==
  /\ config \in [Devices -> Configs]
  /\ cached \in Configs \cup {Nothing}
  /\ source \in Devices
  /\ late \subseteq Requests
  /\ raced \in BOOLEAN /\ missed \in BOOLEAN
  /\ device \in [Requests -> Devices \cup {Nothing}]
  /\ step \in [Requests -> {"idle", "checked", "filling", "stored", "saved", "refreshing",
                            "done"}]
  /\ carried \in [Requests -> Configs \cup {Nothing}]
  /\ rows \in [Readings -> Configs \cup {Nothing}]
  /\ water \in [Devices -> Waters]

IngestInit ==
  /\ config \in [Devices -> Configs]
  /\ cached = Nothing
  /\ source = First
  /\ late = {}
  /\ raced = FALSE /\ missed = FALSE
  /\ device = [r \in Requests |-> Nothing]
  /\ step = [r \in Requests |-> "idle"]
  /\ carried = [r \in Requests |-> Nothing]
  /\ rows = [r \in Readings |-> Nothing]
  /\ water = [d \in Devices |-> NoWater]

Moves(r, place) == step' = [step EXCEPT ![r] = place]
Carries(r, c) == carried' = [carried EXCEPT ![r] = c]

Stored == {r \in Readings : rows[r] # Nothing}

\* get_previous_reading looks at the readings of every device.
Before(r) == {q \in Stored : q < r}
Previous(r) ==
  IF Before(r) = {} THEN 0 ELSE CHOOSE q \in Before(r) : \A p \in Before(r) : p <= q

-----------------------------------------------------------------------------
(***************************************************************************)
(* The cached configuration.                                               *)
(***************************************************************************)

\* A refresh that keeps what the cache has.
FilledOnce(r) == IF cached = Nothing THEN carried[r] ELSE cached

\* update_sensor_config_cache sets what its query has returned.
Filled(r) == carried[r]

\* The query of a refresh, and the assignment after its await. A fill asks for
\* the device of location 1, an update for its own.
Queried(r) == IF r \in Updates THEN device[r] ELSE First

Fills(r) ==
  /\ cached' = Filled(r)
  /\ source' = Queried(r)
  /\ raced' = (r \in late)
  /\ late' = late \ {r}
  /\ missed' = FALSE

-----------------------------------------------------------------------------
(***************************************************************************)
(* record_reading.                                                         *)
(***************************************************************************)

\* The device exists. A reading of an unknown one changes nothing.
Receive(r, d) ==
  /\ r \in Readings /\ step[r] = "idle"
  /\ device' = [device EXCEPT ![r] = d]
  /\ Moves(r, "checked")
  /\ UNCHANGED <<config, cached, source, late, raced, missed, carried, rows, water>>

\* get_sensor_config: an empty cache is filled from the row.
QueryConfig(r) ==
  /\ r \in Readings /\ step[r] = "checked" /\ cached = Nothing
  /\ Carries(r, config[First])
  /\ Moves(r, "filling")
  /\ UNCHANGED <<config, cached, source, late, raced, missed, device, rows, water>>

FillConfig(r) ==
  /\ r \in Readings /\ step[r] = "filling"
  /\ Fills(r)
  /\ Carries(r, Nothing)
  /\ Moves(r, "checked")
  /\ UNCHANGED <<config, device, rows, water>>

\* The level is computed with the cached configuration, and the row committed.
StoreReading(r) ==
  /\ r \in Readings /\ step[r] = "checked" /\ cached # Nothing
  /\ Carries(r, cached)
  /\ rows' = [rows EXCEPT ![r] = cached]
  /\ Moves(r, "stored")
  /\ UNCHANGED <<config, cached, source, late, raced, missed, device, water>>

\* calculate_record_summary: the change since the previous row, then the
\* percentage with the configuration that is cached by now. The broadcast
\* follows, and recalculate_water_level_score has the lock.
FuseReading(r) ==
  /\ r \in Readings /\ step[r] = "stored"
  /\ water' = [water EXCEPT ![device[r]] =
                 [reading |-> r, level |-> carried[r], percent |-> cached,
                  since |-> Previous(r)]]
  /\ Carries(r, Nothing)
  /\ Moves(r, "done")
  /\ UNCHANGED <<config, cached, source, late, raced, missed, device, rows>>

\* An await of a reading raises: what was committed stays.
ReadingFails(r) ==
  /\ r \in Readings /\ step[r] \in {"checked", "filling", "stored"}
  /\ Carries(r, Nothing)
  /\ late' = late \ {r}
  /\ Moves(r, "done")
  /\ UNCHANGED <<config, cached, source, raced, missed, device, rows, water>>

-----------------------------------------------------------------------------
(***************************************************************************)
(* update_device_config: commit, query, assignment.                        *)
(***************************************************************************)
SaveConfig(u, d, c) ==
  /\ u \in Updates /\ step[u] = "idle"
  /\ device' = [device EXCEPT ![u] = d]
  /\ config' = [config EXCEPT ![d] = c]
  /\ late' = late \cup {r \in Requests : step[r] \in {"filling", "refreshing"} /\ Queried(r) = d}
  /\ Moves(u, "saved")
  /\ UNCHANGED <<cached, source, raced, missed, carried, rows, water>>

QuerySaved(u) ==
  /\ u \in Updates /\ step[u] = "saved"
  /\ Carries(u, config[device[u]])
  /\ Moves(u, "refreshing")
  /\ UNCHANGED <<config, cached, source, late, raced, missed, device, rows, water>>

FillSaved(u) ==
  /\ u \in Updates /\ step[u] = "refreshing"
  /\ Fills(u)
  /\ Carries(u, Nothing)
  /\ Moves(u, "done")
  /\ UNCHANGED <<config, device, rows, water>>

\* An await after the commit raises: the refresh of the row, or the query of the
\* cache. The row is saved, the request is over and the cache is as it was.
UpdateFails(u) ==
  /\ u \in Updates /\ step[u] \in {"saved", "refreshing"}
  /\ missed' = (missed \/ device[u] = source)
  /\ Carries(u, Nothing)
  /\ late' = late \ {u}
  /\ Moves(u, "done")
  /\ UNCHANGED <<config, cached, source, raced, device, rows, water>>

\* The process dies. load_initial_state takes the newest row of a device if it
\* is recent, and fills the cache if there is one.
Newest(d) ==
  CHOOSE r \in Stored : device[r] = d /\ \A q \in Stored : device[q] = d => q <= r

IngestRestart ==
  /\ \E recent \in SUBSET {d \in Devices : \E r \in Stored : device[r] = d} :
       /\ cached' = IF recent = {} THEN Nothing ELSE config[First]
       /\ water' = [d \in Devices |->
                      IF d \in recent
                        THEN [reading |-> Newest(d), level |-> rows[Newest(d)],
                              percent |-> config[First], since |-> Previous(Newest(d))]
                        ELSE NoWater]
  /\ source' = First
  /\ late' = {}
  /\ raced' = FALSE /\ missed' = FALSE
  /\ step' = [r \in Requests |-> IF step[r] = "idle" THEN "idle" ELSE "done"]
  /\ carried' = [r \in Requests |-> Nothing]
  /\ UNCHANGED <<config, device, rows>>

IngestNext ==
  \/ \E r \in Readings, d \in Devices : Receive(r, d)
  \/ \E r \in Readings :
       \/ QueryConfig(r) \/ FillConfig(r)
       \/ StoreReading(r) \/ FuseReading(r) \/ ReadingFails(r)
  \/ \E u \in Updates, d \in Devices, c \in Configs : SaveConfig(u, d, c)
  \/ \E u \in Updates : QuerySaved(u) \/ FillSaved(u) \/ UpdateFails(u)
  \/ IngestRestart

IngestSpec == IngestInit /\ [][IngestNext]_ingestVars

-----------------------------------------------------------------------------
(***************************************************************************)
(* Properties.                                                             *)
(***************************************************************************)

Saving(d) == \E u \in Updates : step[u] \in {"saved", "refreshing"} /\ device[u] = d

\* Whatever readings and updates overlap, fail or are cut off, the cached
\* configuration is the saved one of the device it was read from, unless an
\* update of that device is on its way or has failed since, or the cache was
\* filled last by a request that a save of the row had overtaken
\* (get_sensor_config, update_device_config).
CacheFollowsSaves ==
  cached # Nothing /\ ~raced /\ ~missed /\ ~Saving(source) => cached = config[source]
=============================================================================
