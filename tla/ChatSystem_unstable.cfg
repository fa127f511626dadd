SPECIFICATION Spec
CONSTANTS
  Session = {s1, s2}
  Conv = {c1}
  Tool = {}
  None = None
  MaxMsgs = 2
  MaxChats = 1
  MaxTurns = 2
  Unstable = TRUE
SYMMETRY Sockets
VIEW TabsView
CHECK_DEADLOCK FALSE
INVARIANTS
  TypeOK
  BubbleHoldsOneTurn
  PromptOnce
