SPECIFICATION TimedSpec
CONSTANTS
  Message = 5
  MaxRecv = 2
  Window = 2
  Limit = 4
  Times <- MCTimes
  Fractions <- MCFractions
  Unset = Unset
CHECK_DEADLOCK FALSE
INVARIANTS
  Conserved
  NeverStuck
  TextsAddUp
PROPERTY EchoEnds
