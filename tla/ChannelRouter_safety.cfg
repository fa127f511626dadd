SPECIFICATION Spec
CONSTANTS
  m1 = m1
  m2 = m2
  m3 = m3
  m4 = m4
  m5 = m5
  m6 = m6
  group = group
  private = private
  ann = ann
  bob = bob
  Msg = {m1, m2, m4, m5}
  Chat = {group, private}
  User = {ann, bob}
  ChatOf <- MCChatOf
  UserOf <- MCUserOf
  Renews = {m4}
  Rpm = 3
  Window = 1
  MaxTime = 0
  None = None
\* When every message has ended the model stops.
CHECK_DEADLOCK FALSE
PROPERTY LogRefined
INVARIANTS
  TypeOK
  AgentCallsSerial
  ThreadsAreWhole
