SPECIFICATION FairSpec
CONSTANTS
  Session = {s1}
  Conv = {c1, c2}
  Tool = {}
  None = None
  MaxMsgs = 2
  MaxChats = 1
  MaxTurns = 2
  Unstable = FALSE
CHECK_DEADLOCK FALSE
PROPERTIES
  InputUnlocks
