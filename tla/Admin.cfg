CONSTANTS
  a1 = a1
  Client = {a1}
  Text <- Texts
  NumberOf <- Numbers
  LongMax = 9
  Chunk = 1
  Options <- Repeated
  Token <- AllTokens
  Strays <- OtherPrograms
  Start <- Beto
  StartMails = 1
  StartPath = "pass"
  Empty = ""
SPECIFICATION FairSpec
INVARIANTS AdminTypeOK AnswersThisRequest PlusIsTrue AddedOnce TimeoutIffSilent
PROPERTIES ImplementsDirectory Terminates
CHECK_DEADLOCK FALSE
