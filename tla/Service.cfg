SPECIFICATION Spec
CONSTANTS
  Devices = {d1, d2}
  First = d1
  Readings = {1, 2}
  Updates = {u1, u2}
  Configs = {k1, k2}
  Nothing = Nothing
  Clients = {c1, c2}
  Broadcasts = {b1, b2}
  MaxVersion = 1
  Edits = {e1, e2}
  Rows = {i1, i2, i3, i4}
  NoRow = NoRow
  LastSite = 2
  LastDay = 2
  Retentions = {1, 2}
  NoSummary = NoSummary
SYMMETRY Symmetry
INVARIANTS
  ServiceTypeOK
  CacheFollowsSaves
  ClientsAreCurrent
  DefaultStands
  DaysAreSummarised
CHECK_DEADLOCK FALSE
