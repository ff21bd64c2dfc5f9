SPECIFICATION ByteSpec
CONSTANTS
  Bits = 2
  prefix_length = 4
CHECK_DEADLOCK FALSE
INVARIANT ComesBack
