CONSTANTS
  a = a  b = b  m = m  o = o
  SP = SP  CR = CR  LF = LF
  Letter = {a, b}
  Mark = {m}
  Other = {o}
  ArgMax = 1
  MixedMax = 4
  LinesMax = 3
  Streams <- MixedAndLines
  ReadLimit = 7
SPECIFICATION FairSpec
INVARIANTS RequestTypeOK TakenInOrder NothingStalls EndIsTheClients
PROPERTY EveryRequestTaken
CHECK_DEADLOCK FALSE
