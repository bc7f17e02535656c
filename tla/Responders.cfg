SPECIFICATION Spec
CONSTANTS
  People = {ann, bob}
  Requests = {r1, r2, r3}
  Nobody = Nobody
  Ids = {all, crew, unit}
  Default = all
  Names = {AllActive, North, South}
  DefaultName = AllActive
  NoName = NoName
  Limit = 2
SYMMETRY Interchangeable
INVARIANTS
  TypeOK
  ActiveAreMembers
  UsedCodeIsGone
  GroupIsItsAuthors
PROPERTIES
  ActivatedOnce
CHECK_DEADLOCK FALSE
