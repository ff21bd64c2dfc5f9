SPECIFICATION FairSpec
CONSTANTS
  Threads = {t1, t2, t3}
  Items = {a}
  Default = d
  Timed = {FALSE}
  max_size_ = 2
  None = None
PROPERTY NoneForgotten
CHECK_DEADLOCK FALSE
