SPECIFICATION TimedSpec
CONSTANTS
  Threads = {t1, t2, t3}
  Items = {a}
  Default = d
  Timed = {TRUE}
  max_size_ = 1
  None = None
CHECK_DEADLOCK FALSE
INVARIANT MutualExclusion
