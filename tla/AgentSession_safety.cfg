SPECIFICATION Spec
CONSTANTS
  Session = {s1, s2}
  Conv = {c1, c2}
  Tool = {}
  None = None
  MaxTurns = 2
SYMMETRY Symmetry
\* Connections are used once: when all have ended the model stops.
CHECK_DEADLOCK FALSE
INVARIANTS
  TypeOK
  ThreadsAreSound
  RepliesAreTrue
  TurnsAreBracketed
PROPERTIES
  LogRefined
