SPECIFICATION FairSpec
CONSTANTS
  Workers = {w1, w2}
  Contexts = {c1, c2}
  Sockets = {s1, s2, s3}
  Conns = {k1}
  None = None
CHECK_DEADLOCK FALSE
PROPERTIES
  WorkersStop
  PeerCloseReported
