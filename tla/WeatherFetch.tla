----------------------------- MODULE WeatherFetch -----------------------------
(***************************************************************************)
(* WeatherService (weather/service.py): the fetches of the scheduler, their *)
(* retries, and what becomes of the conditions of each location: a row, a  *)
(* broadcast, a status of the fusion state.                                *)
(*                                                                         *)
(* A job is a task of the event loop. Jobs meet at the fetch lock, and end *)
(* with an exception wherever an await may raise one.                      *)
(***************************************************************************)
EXTENDS Integers

CONSTANTS
  Sites,       \* how many locations get_all_location_coordinates lists
  Conditions,  \* what a provider may report
  NoWeather,   \* no row, no status, no condition left to save
  MaxRetries   \* MAX_RETRIES

ASSUME WeatherAssumption ==
  /\ Sites \in Nat \ {0}
  /\ NoWeather \notin Conditions
  /\ MaxRetries \in Nat

\* In the order of the list.
Locations == 1 .. Sites

VARIABLES
  fetch,       \* where the fetch that holds _fetch_lock stands, or "free"
  pending,     \* the conditions it has still to save
  row,         \* the newest row of each location
  recent,      \* the locations whose newest row is not stale
  rain,        \* the weather status of each location's fusion state
  unfused,     \* the locations whose newest row is that of a save that raised
  retryCount,  \* _retry_count
  retries,     \* the pending jobs weather_retry_n
  refetch,     \* weather_stale_refetch is pending
  rested,      \* REFETCH_COOLDOWN_SECONDS have passed
  healthy      \* provider and database answer, and the process stays up

weatherVars == <<fetch, pending, row, recent, rain, unfused, retryCount, retries, refetch,
                 rested, healthy>>

Reports == [Locations -> Conditions \cup {NoWeather}]
Nothing == [l \in Locations |-> NoWeather]

WeatherTypeOK ==
  /\ fetch \in {"down", "free", "fetching", "saving", "fusing"}
  /\ pending \in Reports
  /\ row \in Reports
  /\ recent \subseteq {l \in Locations : row[l] # NoWeather}
  /\ rain \in Reports
  /\ unfused \subseteq Locations
  /\ retryCount \in 0 .. MaxRetries
  /\ retries \subseteq 1 .. MaxRetries
  /\ refetch \in BOOLEAN
  /\ rested \in BOOLEAN
  /\ healthy \in BOOLEAN

WeatherInit ==
  /\ fetch = "down"
  /\ pending = Nothing
  /\ row = Nothing
  /\ recent = {}
  /\ rain = Nothing
  /\ unfused = {}
  /\ retryCount = 0
  /\ retries = {}
  /\ refetch = FALSE
  /\ rested = FALSE
  /\ healthy \in BOOLEAN

-----------------------------------------------------------------------------
(***************************************************************************)
(* The answers of a provider.                                              *)
(***************************************************************************)
Responses == {"ok", "429", "4xx", "5xx", "timeout", "network", "malformed"}

\* An answer without the expected fields raises something else than a
\* WeatherFetchError, which the loop over the locations does not catch.
Outcome(response) ==
  CASE response = "ok" -> "ok"
    [] response = "429" -> "limited"
    [] response = "malformed" -> "raises"
    [] OTHER -> "failed"

\* OpenMeteoProvider tries again after a timeout or an error of the server.
OpenMeteo(first, second) ==
  Outcome(IF first \in {"timeout", "5xx"} THEN second ELSE first)

Outcomes == {OpenMeteo(a, b) : a, b \in Responses}

\* fetch_weather_for_coordinates over some locations: what each of them gets.
Answers(asked) ==
  {a \in [asked -> Outcomes] : healthy => \A l \in asked : a[l] = "ok"}

Got(a) == {l \in DOMAIN a : a[l] = "ok"}

\* Which exception the call ends with, or none.
Verdict(a) ==
  CASE \E l \in DOMAIN a : a[l] = "raises" -> "error"
    [] OTHER ->
         IF Got(a) # {} THEN "ok"
         ELSE IF \A l \in DOMAIN a : a[l] = "limited" THEN "limited"
         ELSE "error"

\* The conditions of the locations that got some.
Reported(a) == {r \in Reports : \A l \in Locations : r[l] # NoWeather <=> l \in Got(a)}

-----------------------------------------------------------------------------
(***************************************************************************)
(* Retries.                                                                *)
(***************************************************************************)

\* _schedule_retry: a job of the same number is replaced.
Retry ==
  IF retryCount < MaxRetries
    THEN retryCount' = retryCount + 1 /\ retries' = retries \cup {retryCount + 1}
    ELSE UNCHANGED <<retryCount, retries>>

\* An exception in the loop over the conditions keeps the lock.
ReleasedIfSaved ==
  /\ fetch' = IF fetch = "saving" THEN fetch ELSE "free"
  /\ pending' = Nothing

\* The lock is given back when the job ends, by a return or by an exception.
Released == fetch' = "free" /\ pending' = Nothing

-----------------------------------------------------------------------------
(***************************************************************************)
(* Startup: weather_service.start, then the load of the fusion states. No  *)
(* job runs and no request is served before its end.                       *)
(***************************************************************************)

\* Rows of the first k locations that got a condition are saved.
Saved(r, upTo) == [l \in Locations |-> IF l <= upTo /\ r[l] # NoWeather THEN r[l] ELSE row[l]]
SavedNow(r, upTo) == {l \in Locations : l <= upTo /\ r[l] # NoWeather}

Loads ==
  /\ rain' = [l \in Locations |-> IF l \in recent' THEN row'[l] ELSE NoWeather]
  /\ unfused' = {}

\* Locations with a stale row are fetched. A rate limit is left to the next
\* run, another exception to a retry, a save that fails keeps those before it.
StartWeather ==
  /\ fetch = "down"
  /\ Released
  /\ \/ /\ recent = Locations
        /\ UNCHANGED <<row, recent, retryCount, retries>>
     \/ \E a \in Answers(Locations \ recent) :
          \/ /\ recent # Locations /\ Verdict(a) = "limited"
             /\ UNCHANGED <<row, recent, retryCount, retries>>
          \/ /\ recent # Locations /\ Verdict(a) = "error"
             /\ Retry
             /\ UNCHANGED <<row, recent>>
          \/ /\ recent # Locations /\ Verdict(a) = "ok"
             /\ \E r \in Reported(a), upTo \in Locations \cup {0} :
                  /\ row' = Saved(r, upTo)
                  /\ recent' = recent \cup SavedNow(r, upTo)
                  /\ \/ /\ Got(a) \subseteq 1 .. upTo
                        /\ UNCHANGED <<retryCount, retries>>
                     \/ /\ ~(Got(a) \subseteq 1 .. upTo) /\ ~healthy
                        /\ Retry
  /\ Loads
  /\ UNCHANGED <<refetch, rested, healthy>>

StopWeather ==
  /\ fetch # "down" /\ ~healthy
  /\ fetch' = "down"
  /\ pending' = Nothing
  /\ retryCount' = 0 /\ retries' = {} /\ refetch' = FALSE
  /\ rested' \in BOOLEAN
  /\ UNCHANGED <<row, recent, rain, unfused, healthy>>

-----------------------------------------------------------------------------
(***************************************************************************)
(* The job _fetch_and_update_weather, run by three kinds of triggers.      *)
(***************************************************************************)

\* A job that finds the lock held ends at once.
Runs ==
  \/ fetch = "free" /\ fetch' = "fetching"
  \/ fetch \in {"fetching", "saving", "fusing"} /\ UNCHANGED fetch

IntervalJob ==
  /\ Runs
  /\ UNCHANGED <<pending, row, recent, rain, unfused, retryCount, retries, refetch, rested, healthy>>

RetryJob(n) ==
  /\ n \in retries
  /\ retries' = retries \ {n}
  /\ Runs
  /\ UNCHANGED <<pending, row, recent, rain, unfused, retryCount, refetch, rested, healthy>>

RefetchJob ==
  /\ refetch
  /\ refetch' = FALSE
  /\ Runs
  /\ UNCHANGED <<pending, row, recent, rain, unfused, retryCount, retries, rested, healthy>>

\* request_refetch, when a client connects to a stale location.
RequestRefetch ==
  /\ fetch # "down"
  /\ rested
  /\ rested' = FALSE
  /\ refetch' = TRUE
  /\ UNCHANGED <<fetch, pending, row, recent, rain, unfused, retryCount, retries, healthy>>

FetchEnds ==
  /\ fetch = "fetching"
  /\ \E a \in Answers(Locations) :
       \/ /\ Verdict(a) = "ok"
          /\ fetch' = "saving"
          /\ pending' \in Reported(a)
          /\ retryCount' = 0 /\ UNCHANGED retries
       \/ Verdict(a) = "limited" /\ Released /\ UNCHANGED <<retryCount, retries>>
       \/ Verdict(a) = "error" /\ Released /\ Retry
  /\ UNCHANGED <<row, recent, rain, unfused, refetch, rested, healthy>>

\* The location whose turn it is in the loop over the conditions.
Turn(l) ==
  /\ pending[l] # NoWeather
  /\ \A k \in Locations : k < l => pending[k] = NoWeather

SaveWeather(l) ==
  /\ fetch = "saving"
  /\ Turn(l)
  /\ row' = [row EXCEPT ![l] = pending[l]]
  /\ recent' = recent \cup {l}
  /\ fetch' = "fusing"
  /\ UNCHANGED <<pending, rain, unfused, retryCount, retries, refetch, rested, healthy>>

\* An exception from the save, before the row is there or in the refresh that
\* follows the commit, is caught by nobody: the job ends, this location and
\* those after it get no status, and no retry is scheduled.
SaveRaises(l) ==
  /\ fetch = "saving" /\ ~healthy
  /\ Turn(l)
  /\ Released
  /\ \/ UNCHANGED <<row, recent, unfused>>
     \/ /\ row' = [row EXCEPT ![l] = pending[l]]
        /\ recent' = recent \cup {l}
        /\ unfused' = unfused \cup {l}
  /\ UNCHANGED <<rain, retryCount, retries, refetch, rested, healthy>>

\* The status goes to the fusion state of the first location.
FirstLocation(l) == 1

\* The status goes to the fusion state of its own location.
LocationOf(l) == l

\* The broadcast is over: recalculate_weather_score, then the next location.
FuseWeather(l) ==
  /\ fetch = "fusing"
  /\ Turn(l)
  /\ rain' = [rain EXCEPT ![LocationOf(l)] = pending[l]]
  /\ unfused' = unfused \ {l}
  /\ \/ /\ \E k \in Locations : k > l /\ pending[k] # NoWeather
        /\ fetch' = "saving"
        /\ pending' = [pending EXCEPT ![l] = NoWeather]
     \/ /\ \A k \in Locations : k > l => pending[k] = NoWeather
        /\ Released
  /\ UNCHANGED <<row, recent, retryCount, retries, refetch, rested, healthy>>

-----------------------------------------------------------------------------
(***************************************************************************)
(* The environment.                                                        *)
(***************************************************************************)
WeatherAges ==
  /\ \/ \E l \in recent : recent' = recent \ {l} /\ UNCHANGED rested
     \/ ~rested /\ rested' = TRUE /\ UNCHANGED recent
  /\ UNCHANGED <<fetch, pending, row, rain, unfused, retryCount, retries, refetch, healthy>>

HealthChanges ==
  /\ healthy' = ~healthy
  /\ UNCHANGED <<fetch, pending, row, recent, rain, unfused, retryCount, retries, refetch, rested>>

FetchGoesOn ==
  \/ FetchEnds
  \/ \E l \in Locations : SaveWeather(l) \/ FuseWeather(l)

WeatherNext ==
  \/ StartWeather
  \/ StopWeather
  \/ IntervalJob
  \/ \E n \in retries : RetryJob(n)
  \/ RefetchJob
  \/ RequestRefetch
  \/ FetchGoesOn
  \/ \E l \in Locations : SaveRaises(l)
  \/ WeatherAges
  \/ HealthChanges

WeatherSpec == WeatherInit /\ [][WeatherNext]_weatherVars

-----------------------------------------------------------------------------
(***************************************************************************)
(* Properties.                                                             *)
(***************************************************************************)

\* The rain that a location's level is computed with is that of its newest
\* row, but for the location whose row has just been written, for a row that
\* was too old when the process started, and for one whose save raised after
\* its commit: nothing else that fails in the loop over the locations leaves a
\* row that the fusion state does not know (WeatherService._do_fetch_and_update).
WeatherIsFused ==
  \A l \in Locations \ unfused :
    fetch # "down" /\ ~(fetch = "fusing" /\ Turn(l)) =>
      \/ rain[l] = row[l]
      \/ rain[l] = NoWeather /\ l \notin recent

\* Once provider and database answer again and the process stays up, every
\* location gets fresh rows again and again, and not only rows that miss its
\* fusion state, however many retries were used up, skipped or lost before.
WeatherRecovers ==
  <>[]healthy => \A l \in Locations : []<>(l \in recent \ unfused)
=============================================================================
