CONSTANTS
  Mails <- ShortAndSeamMails
  MailLength = 3
  MaxRetr = 2
  WriteLimit = 7
  FileLimit = 4
SPECIFICATION FairSpec
INVARIANTS TypeOK ClientReadsTheMail LoopMoves EndsOnce EndIsReal
PROPERTY Answered
CHECK_DEADLOCK FALSE
