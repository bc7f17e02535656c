SPECIFICATION Spec
CONSTANTS
  Absent = Absent
  Workers = {w1, w2}
  Boot = boot
  NoTask = NoTask
  FrameTiers <- MCFrameTiers
  StoredStatuses <- MCStoredStatuses
  Levels <- MCLevels
  Rains <- MCRains
  Thresholds <- MCThresholds
  Configured = {"Critical", "Blockage"}
  NotifyCooldown <- MCNotifyCooldown
  RecommendCooldown = 1
  RecommendMinScore = 70
  MaxClock = 3
INVARIANTS
  RecommendationAutoClears
