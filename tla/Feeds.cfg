SPECIFICATION Spec
CONSTANTS
  Slots = {f1, f2}
  K = 2
  BaseGap = 2
  ElevatedGap = 1
  Hysteresis = 1
  MaxFaults = 1
  Sites = 2
  Conditions = {"dry", "rain"}
  NoWeather = NoWeather
  MaxRetries = 2
INVARIANTS
  FeedsTypeOK
  EvidenceIsSustained
  WeatherIsFused
PROPERTIES
  BlockageIsNoticed
  WeatherRecovers
