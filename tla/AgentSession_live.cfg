SPECIFICATION FairSpec
CONSTANTS
  Session = {s1}
  Conv = {c1}
  Tool = {t1}
  None = None
  MaxTurns = 2
CHECK_DEADLOCK FALSE
INVARIANTS
  ToolRowsMatchEvents
PROPERTIES
  TurnsEnd
