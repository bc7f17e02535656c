SPECIFICATION Spec
CONSTANTS
  Absent = Absent
INVARIANTS
  CriticalIsCorroborated
  CoverageIsUnion
  SummaryIsExplained
  CodesAreKnown
  ReportsAddUp
PROPERTIES
  WorseNeverCalms
