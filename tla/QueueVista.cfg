SPECIFICATION FairSpec
CONSTANTS
  Threads = {t1, t2, t3}
  Items = {a}
  Default = d
  Timed = {TRUE, FALSE}
  max_size_ = 2
  None = None
INVARIANTS
  QueueTypeOK
  MutualExclusion
  NoLostWakeup
PROPERTIES
  Linearizable
  NoneForgotten
