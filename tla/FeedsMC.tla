------------------------------- MODULE FeedsMC -------------------------------
(***************************************************************************)
(* The camera and the weather, which deliver to the fusion state without    *)
(* touching each other: a behaviour is one of either, so that their states  *)
(* add up and do not multiply.                                              *)
(***************************************************************************)
EXTENDS CameraFeed, WeatherFetch

VARIABLE part

vars == <<part, cameraVars, weatherVars>>

\* The one that stands still asks for nothing: no blockage, no working provider.
Init ==
  /\ part \in {"camera", "weather"}
  /\ CameraInit /\ WeatherInit
  /\ part = "weather" => scene = "clear"
  /\ part = "camera" => ~healthy

Camera == part = "camera" /\ CameraNext /\ UNCHANGED <<part, weatherVars>>
Weather == part = "weather" /\ WeatherNext /\ UNCHANGED <<part, cameraVars>>

Next == Camera \/ Weather

\* Time passes, the camera goes on uploading, and the awaits of a frame end:
\* the executor, the upload of the picture (30 seconds), the database.
CameraFairness ==
  /\ WF_cameraVars(part = "camera" /\ CameraTick)
  /\ WF_cameraVars(part = "camera" /\ \E f \in Slots : AcceptFrame(f))
  /\ \A f \in Slots : WF_cameraVars(part = "camera" /\ ProcessFrame(f))

\* The process starts, the interval trigger fires again and again, and every
\* await of a fetch ends (its requests time out).
WeatherFairness ==
  /\ WF_weatherVars(part = "weather" /\ StartWeather)
  /\ SF_weatherVars(part = "weather" /\ fetch = "free" /\ IntervalJob)
  /\ WF_weatherVars(part = "weather" /\ FetchGoesOn)

Spec == Init /\ [][Next]_vars /\ CameraFairness /\ WeatherFairness

\* Every variable of the two has values of its type.
FeedsTypeOK == CameraTypeOK /\ WeatherTypeOK
=============================================================================
