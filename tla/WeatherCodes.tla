----------------------------- MODULE WeatherCodes -----------------------------
(***************************************************************************)
(* The codes of the weather providers and what becomes of them: the        *)
(* mappings to WMO codes (openweathermap.py, weatherapi.py), the condition  *)
(* shown and the storm risk (weather_mappers.py). Operators without state.  *)
(***************************************************************************)
EXTENDS Integers

\* Without the range of the shower rain.
OwmIdToWmoNoShowers(id) ==
  CASE id = 800 -> 0
    [] id = 801 -> 1
    [] id \in 200 .. 299 -> 95
    [] id \in 300 .. 399 -> 53
    [] id \in 500 .. 519 -> 63
    [] id \in 600 .. 699 -> 73
    [] id \in 700 .. 799 -> 45
    [] OTHER -> 3

\* owm_id_to_wmo: what is not mapped is overcast.
OwmIdToWmo(id) ==
  CASE id = 800 -> 0
    [] id = 801 -> 1
    [] id \in 200 .. 299 -> 95
    [] id \in 300 .. 399 -> 53
    [] id \in 500 .. 519 -> 63
    [] id \in 520 .. 599 -> 81
    [] id \in 600 .. 699 -> 73
    [] id \in 700 .. 799 -> 45
    [] OTHER -> 3

\* weatherapi_code_to_wmo, with its table
WeatherApiCodeToWmo(code) ==
  CASE code = 1000 -> 0
    [] code = 1003 -> 2
    [] code \in {1006, 1009} -> 3
    [] code \in {1030, 1135} -> 45
    [] code = 1147 -> 48
    [] code = 1150 -> 51
    [] code = 1153 -> 53
    [] code \in {1063, 1180, 1183} -> 61
    [] code \in {1186, 1189} -> 63
    [] code \in {1192, 1195} -> 65
    [] code = 1240 -> 80
    [] code = 1243 -> 81
    [] code = 1246 -> 82
    [] code \in {1066, 1210, 1213} -> 71
    [] code \in {1216, 1219} -> 73
    [] code \in {1222, 1225} -> 75
    [] code \in {1273, 1276, 1279} -> 95
    [] code = 1282 -> 96
    [] OTHER -> 3

\* get_weather_condition
WeatherCondition(code) ==
  CASE code = 0 -> "Sunny"
    [] code = 1 -> "Mainly Clear"
    [] code \in 2 .. 3 -> "Cloudy"
    [] code \in 45 .. 48 -> "Foggy"
    [] code \in 51 .. 57 -> "Drizzle"
    [] code \in 61 .. 67 -> "Rain"
    [] code \in 71 .. 77 -> "Snow"
    [] code \in 80 .. 82 -> "Showers"
    [] code \in 85 .. 86 -> "Snow Showers"
    [] code \in 95 .. 99 -> "Thunderstorm"
    [] OTHER -> "Unknown"

Thunderstorm(code) == code \in 95 .. 99

\* get_storm_risk_level, of a precipitation over 10 mm and a wind over 30 km/h.
StormRiskLevel(code, heavy, windy) ==
  IF Thunderstorm(code) THEN "Likely"
  ELSE IF heavy /\ windy THEN "Possible"
  ELSE IF heavy \/ (code \in 80 .. 82 /\ windy) THEN "Low"
  ELSE "None"

\* The conditions that mean rain, of whatever kind.
Wet == {"Drizzle", "Rain", "Showers", "Thunderstorm"}
=============================================================================
