SPECIFICATION Spec
CONSTANTS
  Workers = {w1, w2}
  Contexts = {c1, c2, c3}
  Sockets = {s1, s2, s3, s4}
  Conns = {k1, k2}
  None = None
SYMMETRY Symmetry
CHECK_DEADLOCK FALSE
INVARIANTS
  SingleOwner
  NoDanglingContext
  DistinctHandles
  ReceiverRegistered
  NoStaleRegistration
  NotifiedOnce
  NoStraySend
  RacesOnOtherEntries
  ExitPacketMeansExiting
  ExitPacketsSuffice
  InsertsSerialized
  DisconnectsSerialized
  NoCaseMissing
  AcceptChainUnlessLost
  LostWorkerEndsAccepting
  ListMatches
  HandlesAccounted
  ServerInvariant
PROPERTY CallbacksInOrder
