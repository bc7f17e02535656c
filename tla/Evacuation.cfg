SPECIFICATION FairSpec
CONSTANTS
  Devices = {phone}
  Never = Never
  Window = 2
  Retention = 0
  Keep = 1
  Raises = TRUE
  MaxConfirms = 2
  MaxClock = 2
  MaxLife = 2
INVARIANTS
  TypeOK
  NoDoubleBlast
PROPERTIES
  PruneKeepsNewest
  BlastIsAudited
CHECK_DEADLOCK FALSE
