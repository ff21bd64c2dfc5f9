SPECIFICATION Spec
CONSTANTS
  Threads = {t1, t2}
  Items = {a, b}
  Default = d
  Timed = {FALSE}
  max_size_ = 2
  None = None
CHECK_DEADLOCK FALSE
INVARIANTS
  MutualExclusion
  OneSideAwake
  PairIsWoken
PROPERTIES
  Linearizable
