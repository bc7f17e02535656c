SPECIFICATION FairSpec
CONSTANTS
  Absent = Absent
  Workers = {w1, w2}
  Boot = boot
  NoTask = NoTask
  FrameTiers <- MCFrameTiers
  StoredStatuses = {}
  Levels <- MCTwoLevels
  Rains <- MCHeavyRain
  Thresholds <- MCTwoThresholds
  Configured = {"Critical", "Blockage"}
  NotifyCooldown <- MCShortCooldown
  RecommendCooldown = 1
  RecommendMinScore = 90
  MaxClock = 1
PROPERTIES
  UpdateCompletes
  CriticalLeadsToDispatch
