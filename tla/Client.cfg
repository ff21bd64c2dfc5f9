SPECIFICATION FairSpec
CONSTANTS
  Workers = {w1}
  Contexts = {c1, c2}
  Sockets = {s1, s2}
  Conns = {k1}
  connection_ = k1
  None = None
CHECK_DEADLOCK FALSE
INVARIANTS
  ConnectionKept
  ClientInvariant
PROPERTIES
  CallbacksInOrder
  DataDelivered
