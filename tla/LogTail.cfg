CONSTANTS
  MinSize = 6
  MaxSize = 11
  Chunk = 3
  PrintMax = 3
  Lengths = {1, 2, 5}
  MaxLogs = 2
  Failures = FALSE
SPECIFICATION Spec
INVARIANT FinalizeSendsTheRest
CHECK_DEADLOCK FALSE
