SPECIFICATION FairSpec
CONSTANTS
  m1 = m1
  m2 = m2
  m3 = m3
  m4 = m4
  m5 = m5
  m6 = m6
  group = group
  private = private
  ann = ann
  bob = bob
  Msg = {m1, m2, m3}
  Chat = {group, private}
  User = {ann, bob}
  ChatOf <- MCChatOf
  UserOf <- MCUserOf
  Renews = {}
  Rpm = 1
  Window = 2
  MaxTime = 2
  None = None
\* When every message has ended the model stops.
CHECK_DEADLOCK FALSE
PROPERTY TasksEnd
INVARIANT WindowBound
