CONSTANTS
  MinSize = 6
  MaxSize = 11
  Chunk = 3
  PrintMax = 3
  Lengths = {1, 2, 5}
  MaxLogs = 4
  Failures = TRUE
SPECIFICATION FairSpec
INVARIANTS TypeOK RoomForNul NothingLost SelectedWhileWaiting
PROPERTY Flushed
CHECK_DEADLOCK FALSE
