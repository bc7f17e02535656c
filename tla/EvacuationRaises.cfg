SPECIFICATION Spec
CONSTANTS
  Devices = {phone, tablet}
  Never = Never
  Window = 1
  Retention = 0
  Keep = 1
  Raises = TRUE
  MaxConfirms = 1
  MaxClock = 1
  MaxLife = 1
INVARIANT
  DispatchedRegardless
CHECK_DEADLOCK FALSE
