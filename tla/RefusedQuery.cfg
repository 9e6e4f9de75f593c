CONSTANTS
  a1 = a1
  Client = {a1}
  Text <- Texts
  NumberOf <- Numbers
  LongMax = 9
  Chunk = 1
  Options <- Asked
  Token <- AllTokens
  Strays <- OtherPrograms
  Start <- Beto
  StartMails = 1
  StartPath = "pass"
  Empty = ""
SPECIFICATION Spec
INVARIANT QueriesSucceed
CHECK_DEADLOCK FALSE
